-------------------------- MODULE ModelRoutesProofs --------------------------
(***************************************************************************)
(* Proofs about ModelRoutes, for every number of providers, of models and  *)
(* of concurrent GET /v1/models requests, and every RetryLimit.            *)
(***************************************************************************)
EXTENDS ModelRoutes, Recursion, WellFoundedInduction, TLAPS

\* The fields of the records that actions update.
CfgFields ==
  /\ DOMAIN cfg = Providers
  /\ \A p \in Providers :
       /\ DOMAIN cfg[p] = {"status", "ident", "catalog", "off"}
       /\ cfg[p].status \in {"absent", "off", "on"}
       /\ cfg[p].ident \in Nat
       /\ cfg[p].status = "absent" => cfg[p].catalog = {}
RouteFields ==
  /\ DOMAIN routes = Models /\ DOMAIN origin = Models
  /\ \A m \in Models : routes[m] \in Owners
MutFields == DOMAIN mutation = {"op", "p", "m", "stage", "epoch", "todo"}
GetKeys == {"phase", "tries", "current", "listed", "manual", "hidden", "found", "learned",
            "advertised", "failed", "nothing", "refreshed", "seedsCurrent", "passedBy"}
GetFields == DOMAIN gets = Gets /\ \A g \in Gets : DOMAIN gets[g] = GetKeys
Fields == CfgFields /\ RouteFields /\ MutFields /\ GetFields

\* What the lock holder has committed but not applied yet.
Creating == mutation.op \in {"create", "createOff"}
MutInv ==
  /\ mutation.op = "none" => mutation.stage = "free"
  /\ mutation.op # "none" => /\ mutation.op \in Operations /\ mutation.p \in Providers
                             /\ mutation.stage # "free"
  /\ mutation.op = "refresh" => mutation.stage = "spawned"
  /\ mutation.stage = "stored" =>
       /\ Creating <=> cfg[mutation.p].status = "absent"
       /\ mutation.epoch = TakesEpoch(mutation.op, mutation.p)
  /\ mutation.op = "delete" /\ mutation.stage # "spawned" =>
       mutation.todo = <<"evict", "evictLive", "all">>

\* The deleted provider whose routes the lock holder is going to evict.
Evicting(p) ==
  /\ mutation.op = "delete" /\ mutation.p = p
  /\ \/ mutation.stage \in {"applied", "invalidated"}
     \/ /\ mutation.stage = "spawned" /\ mutation.todo # <<>>
        /\ Head(mutation.todo) = "evict"

\* The owner of a route is never switched off, has the identity the route
\* was learned from, and is there unless its deletion is not reconciled yet.
OwnerOK(m, p) ==
  /\ cfg[p].status # "off"
  /\ On(p) => origin[m] = cfg[p].ident
  /\ On(p) \/ p \in abandoned \/ Evicting(p)
RouteInv == \A m \in Models : routes[m] # None => OwnerOK(m, routes[m])

\* The configuration may differ from what the revision says between Apply
\* and Invalidate.  A creation needs no invalidation: nobody can have asked
\* the provider before.
Quiet == mutation.stage = "applied" => Creating

\* What a discovery that is still current knows holds of the configuration.
KnowsListed(g) ==
  /\ gets[g].hidden = GloballyDisabled
  /\ \A p \in Providers :
       gets[g].listed[p] # 0 => On(p) /\ gets[g].listed[p] = cfg[p].ident + 1
KnowsFound(g) ==
  \A m \in Models : gets[g].found[m] # None =>
    /\ MayOwn(gets[g].found[m], m, GloballyDisabled)
    /\ gets[g].learned[m] = cfg[gets[g].found[m]].ident
KnowsAdvertised(g) ==
  \A m \in gets[g].advertised :
    /\ m \in Models /\ gets[g].found[m] \in Providers
    /\ gets[g].listed[gets[g].found[m]] # 0
Knows(g) ==
  /\ gets[g].phase \in {"listed", "seeded", "merged"} => KnowsListed(g)
  /\ gets[g].phase \in {"seeded", "merged"} => KnowsFound(g)
  /\ gets[g].phase = "merged" => KnowsAdvertised(g)
DiscInv == Quiet => \A g \in Gets : gets[g].current => Knows(g)

IInv == Fields /\ MutInv /\ RouteInv /\ DiscInv

-----------------------------------------------------------------------------
(* What the assumption says of the constants. *)
LEMMA Limits ==
  /\ NumProviders \in Nat /\ Providers \subseteq Nat
  /\ None \notin Providers /\ None \notin Models
BY ConstantsAssumption DEF Providers

(* The first of some providers is one of them. *)
LEMMA LeastIsOne ==
  ASSUME NEW ps \in SUBSET Providers, ps # {}
  PROVE  LeastOf(ps) \in ps
<1>1. ps \subseteq Nat
  BY Limits
<1>2. PICK p \in ps : \A q \in ps : ~(<<q, p>> \in OpToRel(<, Nat))
  BY <1>1, WFMin, NatLessThanWellFounded
<1>3. \A q \in ps : p <= q
  <2> SUFFICES ASSUME NEW q \in ps, q < p PROVE FALSE
    BY <1>1
  <2>1. q \in Nat /\ p \in Nat
    BY <1>1
  <2>2. <<q, p>> \in OpToRel(<, Nat)
    BY <2>1, Zenon DEF OpToRel
  <2>3. QED
    BY <1>2, <2>2
<1>4. QED
  BY <1>3 DEF LeastOf

(* A seeded route goes to a provider that may own it. *)
LEMMA SeedOwner ==
  ASSUME NEW rs, NEW hidden, NEW m \in Models, SeedRoutes(rs, hidden)[m] # None
  PROVE  MayOwn(SeedRoutes(rs, hidden)[m], m, hidden)
<1> DEFINE claims == Claims(rs, m, hidden)
           last == {i \in claims : \A j \in claims : j <= i}
<1>1. CASE last # {}
  <2>1. PICK i \in last : SeedRoutes(rs, hidden)[m] = rs[i].owner
    BY <1>1 DEF SeedRoutes
  <2>2. QED
    BY <2>1 DEF Claims
<1>2. CASE last = {} /\ Holders(m, hidden) # {}
  <2>1. SeedRoutes(rs, hidden)[m] = LeastOf(Holders(m, hidden))
    BY <1>2 DEF SeedRoutes
  <2>2. LeastOf(Holders(m, hidden)) \in Holders(m, hidden)
    BY <1>2, LeastIsOne DEF Holders
  <2>3. QED
    BY <2>1, <2>2 DEF Holders
<1>3. CASE last = {} /\ Holders(m, hidden) = {}
  BY <1>3 DEF SeedRoutes
<1>4. QED
  BY <1>1, <1>2, <1>3

(* A discovered route is a seeded one, or goes to a provider that offers   *)
(* the model and may own it.                                               *)
LEMMA DiscoveredOwner ==
  ASSUME NEW base, NEW offers, NEW hidden, NEW m \in Models,
         DOMAIN offers \subseteq Providers
  PROVE  LET new == Discovered(base, offers, hidden)[m] IN
         \/ new = base[m]
         \/ base[m] = None /\ new \in DOMAIN offers /\ MayOwn(new, m, hidden)
<1>1. CASE base[m] # None \/ Offering(m, offers, hidden) = {}
  BY <1>1 DEF Discovered
<1>2. CASE base[m] = None /\ Offering(m, offers, hidden) # {}
  <2>1. Discovered(base, offers, hidden)[m] = LeastOf(Offering(m, offers, hidden))
    BY <1>2 DEF Discovered
  <2>2. LeastOf(Offering(m, offers, hidden)) \in Offering(m, offers, hidden)
    BY <1>2, LeastIsOne DEF Offering
  <2>3. QED
    BY <1>2, <2>1, <2>2 DEF Offering
<1>3. QED
  BY <1>1, <1>2

(* A published route is a fresh one, or one that is kept for a provider    *)
(* that still may own it.                                                  *)
LEMMA PublishedOwner ==
  ASSUME NEW fresh, NEW keep, NEW m \in Models
  PROVE  LET new == Published(fresh, keep)[m] IN
         \/ new = fresh[m]
         \/ /\ fresh[m] = None /\ new = routes[m]
            /\ MayOwn(routes[m], m, GloballyDisabled)
BY DEF Published

(* A rebuilt map routes to providers that are switched on. *)
LEMMA RebuiltOwner ==
  ASSUME NEW read, NEW fetch \in SUBSET Providers, NEW catalogs \in Catalogs(fetch),
         NEW m \in Models, Rebuilt(read, fetch, catalogs)[m] # None
  PROVE  Rebuilt(read, fetch, catalogs)[m] \in Providers /\ On(Rebuilt(read, fetch, catalogs)[m])
<1> DEFINE hidden == GloballyDisabled
           base == SeedRoutes(RowsOr(read), hidden)
           fresh == Discovered(base, Fetched(catalogs), hidden)
           kept == [n \in Models |->
                      IF /\ base[n] = None
                         /\ routes[n] \in Providers \ fetch
                         /\ MayOwn(routes[n], n, hidden)
                      THEN routes[n] ELSE fresh[n]]
           keep == {p \in Providers : On(p)} \ {p \in fetch : catalogs[p] # Failed}
<1>1. Rebuilt(read, fetch, catalogs)[m] = Published(kept, keep)[m]
  BY DEF Rebuilt
<1>2. DOMAIN Fetched(catalogs) \subseteq Providers
  BY DEF Fetched, Catalogs
<1>3. fresh[m] = None \/ MayOwn(fresh[m], m, hidden)
  <2> HIDE DEF hidden
  <2>1. base[m] = None \/ MayOwn(base[m], m, hidden)
    BY SeedOwner
  <2>2. fresh[m] = base[m] \/ MayOwn(fresh[m], m, hidden)
    <3> HIDE DEF base
    <3>1. QED
      BY <1>2, DiscoveredOwner
  <2>3. QED
    BY <2>1, <2>2
<1>4. kept[m] = None \/ MayOwn(kept[m], m, hidden)
  <2> HIDE DEF fresh, hidden, base
  <2>1. QED
    BY <1>3
<1>5. Published(kept, keep)[m] = None \/ MayOwn(Published(kept, keep)[m], m, hidden)
  <2> HIDE DEF kept, keep
  <2>1. QED
    BY <1>4, PublishedOwner
<1>6. QED
  <2> HIDE DEF kept, keep
  <2>1. QED
    BY <1>1, <1>5 DEF MayOwn

-----------------------------------------------------------------------------
(* The three ways in which discoveries learn of a change touch one field.  *)
LEMMA Bumps ==
  ASSUME GetFields, NEW p, NEW gs,
         gs \in {ConfigBumped(gets), SeedsBumped(gets), PassedBy(gets, p)}
  PROVE  /\ DOMAIN gs = Gets /\ \A g \in Gets : DOMAIN gs[g] = GetKeys
         /\ \A g \in Gets :
              /\ gs[g].phase = gets[g].phase /\ gs[g].hidden = gets[g].hidden
              /\ gs[g].listed = gets[g].listed /\ gs[g].found = gets[g].found
              /\ gs[g].learned = gets[g].learned
              /\ gs[g].advertised = gets[g].advertised
              /\ gs[g].current => gets[g].current
<1>1. CASE gs = ConfigBumped(gets)
  BY <1>1 DEF ConfigBumped, GetFields, GetKeys
<1>2. CASE gs = SeedsBumped(gets)
  BY <1>2 DEF SeedsBumped, GetFields, GetKeys
<1>3. CASE gs = PassedBy(gets, p)
  BY <1>3 DEF PassedBy, GetFields, GetKeys
<1>4. QED
  BY <1>1, <1>2, <1>3

(* After a bump of the configuration no discovery is current. *)
LEMMA NoneCurrent ==
  ASSUME GetFields, gets' = ConfigBumped(gets)
  PROVE  GetFields' /\ DiscInv'
<1>1. \A g \in Gets : ~gets'[g].current
  BY DEF ConfigBumped, GetFields, GetKeys
<1>2. GetFields'
  BY Bumps DEF GetFields
<1>3. QED
  BY <1>1, <1>2 DEF DiscInv

(* What is known of a configuration that stays stays known. *)
LEMMA KnowsStill ==
  ASSUME UNCHANGED cfg, NEW g, Knows(g),
         gets'[g].phase = gets[g].phase, gets'[g].hidden = gets[g].hidden,
         gets'[g].listed = gets[g].listed, gets'[g].found = gets[g].found,
         gets'[g].learned = gets[g].learned,
         gets'[g].advertised = gets[g].advertised
  PROVE  Knows(g)'
BY DEF Knows, KnowsListed, KnowsFound, KnowsAdvertised, MayOwn, On, ModelIsEnabled,
       GloballyDisabled

(* A step that leaves the configuration alone, and of the discoveries at   *)
(* most says that they are out of date.                                    *)
LEMMA DiscStill ==
  ASSUME DiscInv, GetFields, UNCHANGED cfg, Quiet' => Quiet, NEW p,
         gets' \in {gets, ConfigBumped(gets), SeedsBumped(gets), PassedBy(gets, p)}
  PROVE  GetFields' /\ DiscInv'
<1>1. CASE gets' = gets
  BY <1>1, KnowsStill DEF DiscInv, GetFields
<1>2. CASE gets' \in {ConfigBumped(gets), SeedsBumped(gets), PassedBy(gets, p)}
  <2>1. ASSUME NEW g \in Gets, Knows(g) PROVE Knows(g)'
    BY <1>2, <2>1, Bumps, KnowsStill
  <2>2. \A g \in Gets : gets'[g].current => gets[g].current
    BY <1>2, Bumps
  <2>3. GetFields'
    BY <1>2, Bumps DEF GetFields
  <2>4. QED
    BY <2>1, <2>2, <2>3 DEF DiscInv
<1>3. QED
  BY <1>1, <1>2

(* A step of one discovery, after which it still knows what it must. *)
LEMMA DiscMoves ==
  ASSUME DiscInv, GetFields, UNCHANGED <<cfg, mutation>>, NEW g \in Gets, NEW to,
         DOMAIN to = GetKeys,
         NEW gs, gs \in {gets, SeedsBumped(gets)}, gets' = [gs EXCEPT ![g] = to],
         Quiet /\ to.current => Knows(g)'
  PROVE  GetFields' /\ DiscInv'
<1>1. /\ DOMAIN gs = Gets
      /\ \A h \in Gets : DOMAIN gs[h] = GetKeys
      /\ \A h \in Gets :
           /\ gs[h].phase = gets[h].phase /\ gs[h].hidden = gets[h].hidden
           /\ gs[h].listed = gets[h].listed /\ gs[h].found = gets[h].found
           /\ gs[h].learned = gets[h].learned
           /\ gs[h].advertised = gets[h].advertised
           /\ gs[h].current => gets[h].current
  BY Bumps DEF GetFields
<1>2. \A h \in Gets : h # g => gets'[h] = gs[h]
  BY <1>1
<1>3. gets'[g] = to /\ DOMAIN gets' = Gets
  BY <1>1
<1>4. Quiet' = Quiet
  BY DEF Quiet, Creating
<1>5. ASSUME NEW h \in Gets, h # g, Knows(h) PROVE Knows(h)'
  BY <1>1, <1>2, <1>5, KnowsStill
<1>6. GetFields'
  BY <1>1, <1>2, <1>3 DEF GetFields
<1>7. QED
  BY <1>1, <1>2, <1>3, <1>4, <1>5, <1>6 DEF DiscInv

(* A step that leaves the routes alone. *)
LEMMA RouteStill ==
  ASSUME CfgFields, RouteInv, RouteFields, UNCHANGED <<cfg, routes, origin>>,
         abandoned \subseteq abandoned',
         \A p \in Providers : Evicting(p) => Evicting(p)' \/ p \in abandoned'
  PROVE  CfgFields' /\ RouteFields' /\ RouteInv'
<1>1. CfgFields' /\ RouteFields'
  BY DEF CfgFields, RouteFields
<1>2. ASSUME NEW m \in Models, routes[m] # None PROVE OwnerOK(m, routes[m])'
  <2>1. routes[m] \in Providers /\ OwnerOK(m, routes[m])
    BY <1>2 DEF RouteFields, RouteInv, Owners
  <2>2. QED
    BY <2>1 DEF OwnerOK, On
<1>3. QED
  BY <1>1, <1>2 DEF RouteInv

(* A step that publishes routes, of providers that are switched on or that *)
(* had them before.                                                        *)
LEMMA RoutesMove ==
  ASSUME RouteInv, RouteFields, NEW new, DOMAIN new = Models, SetRoutes(new),
         \A p \in Providers : cfg'[p].status = cfg[p].status /\ cfg'[p].ident = cfg[p].ident,
         \A m \in Models :
           \/ new[m] = None
           \/ new[m] \in Providers /\ On(new[m])
           \/ /\ new[m] = routes[m]
              /\ Evicting(routes[m]) => Evicting(routes[m])'
              /\ routes[m] \in abandoned => routes[m] \in abandoned'
  PROVE  RouteFields' /\ RouteInv'
<1>1. /\ routes' = new
      /\ \A m \in Models : origin'[m] = IF new[m] = routes[m] THEN origin[m]
                                        ELSE IF new[m] = None THEN 0 ELSE cfg[new[m]].ident
      /\ DOMAIN origin' = Models
  BY DEF SetRoutes
<1>2. ASSUME NEW m \in Models PROVE new[m] \in Owners
  BY DEF RouteFields, Owners
<1>3. RouteFields'
  BY <1>1, <1>2 DEF RouteFields
<1>4. ASSUME NEW m \in Models, new[m] # None PROVE OwnerOK(m, new[m])'
  <2>0. new[m] \in Providers
    BY <1>2, <1>4 DEF Owners
  <2>1. CASE new[m] # routes[m]
    <3>1. On(new[m]) /\ origin'[m] = cfg[new[m]].ident
      BY <1>1, <1>4, <2>1
    <3>2. QED
      BY <2>0, <3>1 DEF OwnerOK, On
  <2>2. CASE new[m] = routes[m] /\ On(new[m])
    <3>1. OwnerOK(m, new[m]) /\ origin'[m] = origin[m]
      BY <1>1, <1>4, <2>2 DEF RouteInv
    <3>2. QED
      BY <2>0, <2>2, <3>1 DEF OwnerOK, On
  <2>3. CASE new[m] = routes[m] /\ ~On(new[m])
    <3>1. OwnerOK(m, new[m])
      BY <1>4, <2>3 DEF RouteInv
    <3>2. /\ Evicting(routes[m]) => Evicting(routes[m])'
          /\ routes[m] \in abandoned => routes[m] \in abandoned'
      BY <1>4, <2>3
    <3>3. routes'[m] = routes[m]
      BY <1>1, <2>3
    <3>4. new[m] \in abandoned' \/ Evicting(new[m])'
      BY <1>1, <2>3, <3>1, <3>2, <3>3 DEF OwnerOK
    <3>5. QED
      BY <2>0, <2>3, <3>1, <3>4 DEF OwnerOK, On
  <2>4. QED
    BY <2>1, <2>2, <2>3
<1>5. RouteInv'
  BY <1>1, <1>4 DEF RouteInv
<1>6. QED
  BY <1>3, <1>5

-----------------------------------------------------------------------------
(* The invariant holds at the start. *)
LEMMA InitInv == Init => IInv
<1> SUFFICES ASSUME Init PROVE IInv
  OBVIOUS
<1>1. CfgFields
  BY DEF Init, CfgFields
<1>2. RouteFields /\ MutFields /\ GetFields
  BY DEF Init, RouteFields, Owners, MutFields, NoMutation, GetFields, GetKeys, Idle
<1>3. MutInv
  BY DEF Init, MutInv, NoMutation
<1>4. RouteInv
  BY DEF Init, RouteInv
<1>5. DiscInv
  BY DEF Init, DiscInv, Idle
<1>6. QED
  BY <1>1, <1>2, <1>3, <1>4, <1>5 DEF IInv, Fields

(* The commit of a mutation. *)
LEMMA CommitKeeps ==
  ASSUME IInv, NEW op \in Operations \ {"refresh"}, NEW p \in Providers, NEW m, NEW todo,
         Commit(op, p, m, todo),
         op \in {"create", "createOff"} <=> cfg[p].status = "absent",
         op = "delete" => todo = <<"evict", "evictLive", "all">>
  PROVE  IInv'
<1>1. /\ mutation.op = "none" /\ UNCHANGED <<cfg, routes, origin, gets, abandoned>>
      /\ mutation' = [op |-> op, p |-> p, m |-> m, stage |-> "stored",
                      epoch |-> TakesEpoch(op, p), todo |-> todo]
  BY DEF Commit, LockFree
<1>2. MutFields' /\ MutInv'
  <2>1. TakesEpoch(op, p)' = TakesEpoch(op, p)
    BY <1>1 DEF TakesEpoch, On
  <2>2. QED
    BY <1>1, <2>1 DEF MutFields, MutInv, Creating, Operations
<1>3. CfgFields' /\ RouteFields' /\ RouteInv'
  BY <1>1, RouteStill DEF IInv, Fields, Evicting
<1>4. Quiet
  BY <1>1 DEF IInv, MutInv, Quiet
<1>5. GetFields' /\ DiscInv'
  BY <1>1, <1>4, DiscStill DEF IInv, Fields
<1>6. QED
  BY <1>2, <1>3, <1>5 DEF IInv, Fields

(* Every operation is committed on a provider that is as it must be. *)
LEMMA MutateKeeps == IInv /\ Mutate => IInv'
<1> SUFFICES ASSUME IInv, Mutate PROVE IInv'
  OBVIOUS
<1>1. ASSUME NEW p \in Providers, CommitDelete(p) PROVE IInv'
  BY <1>1, CommitKeeps DEF CommitDelete, Operations
<1>2. ASSUME NEW p \in Providers, CommitEnable(p) PROVE IInv'
  BY <1>2, CommitKeeps DEF CommitEnable, Operations
<1>3. ASSUME NEW p \in Providers, CommitDisable(p) PROVE IInv'
  BY <1>3, CommitKeeps DEF CommitDisable, Operations
<1>4. ASSUME NEW p \in Providers, CommitRetarget(p) PROVE IInv'
  <2>1. Commit("retarget", p, None, IF On(p) THEN <<"all">> ELSE <<>>)
        /\ cfg[p].status # "absent"
    BY <1>4 DEF CommitRetarget
  <2>2. QED
    BY <2>1, CommitKeeps DEF Operations
<1>5. ASSUME NEW p \in Providers, NEW m \in Models, CommitClaim(p, m) PROVE IInv'
  BY <1>5, CommitKeeps DEF CommitClaim, Operations
<1>6. ASSUME NEW p \in Providers, NEW m \in Models, CommitForget(p, m) PROVE IInv'
  BY <1>6, CommitKeeps DEF CommitForget, Operations
<1>7. ASSUME NEW p \in Providers, NEW m \in Models, CommitDrop(p, m) PROVE IInv'
  <2>1. cfg[p].status # "absent" /\ Commit("drop", p, m, <<"all">>)
    BY <1>7 DEF CommitDrop, IInv, Fields, CfgFields
  <2>2. QED
    BY <2>1, CommitKeeps DEF Operations
<1>8. ASSUME NEW p \in Providers, NEW m \in Models \cup {None}, CommitCreate(p, m) PROVE IInv'
  BY <1>8, CommitKeeps DEF CommitCreate, Operations
<1>9. ASSUME NEW p \in Providers, StartRefresh(p) PROVE IInv'
  <2>1. /\ mutation.op = "none" /\ UNCHANGED <<cfg, routes, origin, abandoned>>
        /\ mutation' = [op |-> "refresh", p |-> p, m |-> None, stage |-> "spawned",
                        epoch |-> FALSE, todo |-> <<"atomic">>]
        /\ gets' = ConfigBumped(gets)
    BY <1>9 DEF StartRefresh, LockFree
  <2>2. MutFields' /\ MutInv'
    BY <2>1 DEF MutFields, MutInv, Operations
  <2>3. CfgFields' /\ RouteFields' /\ RouteInv'
    BY <2>1, RouteStill DEF IInv, Fields, Evicting
  <2>4. GetFields' /\ DiscInv'
    BY <2>1, NoneCurrent DEF IInv, Fields
  <2>5. QED
    BY <2>2, <2>3, <2>4 DEF IInv, Fields
<1>10. QED
  BY <1>1, <1>2, <1>3, <1>4, <1>5, <1>6, <1>7, <1>8, <1>9 DEF Mutate

-----------------------------------------------------------------------------
(* What an operation does to the configuration of its provider. *)
LEMMA NewConfigs ==
  ASSUME CfgFields, NEW p \in Providers, mutation.op \in Operations \ {"refresh"},
         Creating <=> cfg[p].status = "absent"
  PROVE  LET c == NewConfig(cfg[p]) IN
         /\ DOMAIN c = {"status", "ident", "catalog", "off"}
         /\ c.status \in {"absent", "off", "on"} /\ c.ident \in Nat
         /\ c.status = "absent" => c.catalog = {}
         /\ Creating => c.off = {}
         /\ mutation.op = "disable" => c.status = "off" /\ c.ident = cfg[p].ident
         /\ mutation.op = "delete" => c.status = "absent"
         /\ mutation.op = "enable" => c.status = "on" /\ c.ident = cfg[p].ident
         /\ mutation.op = "retarget" => c.status = cfg[p].status
         /\ mutation.op \in {"add", "claim", "forget", "drop"} =>
              c.status = cfg[p].status /\ c.ident = cfg[p].ident
<1>1. /\ DOMAIN cfg[p] = {"status", "ident", "catalog", "off"}
      /\ cfg[p].status \in {"absent", "off", "on"} /\ cfg[p].ident \in Nat
  BY DEF CfgFields
<1>2. CASE Creating
  <2>1. NewConfig(cfg[p]) =
          [status |-> IF mutation.op = "create" THEN "on" ELSE "off",
           ident |-> cfg[p].ident + 1, catalog |-> {mutation.m} \ {None}, off |-> {}]
    BY <1>2 DEF NewConfig, Creating
  <2>2. QED
    BY <1>1, <1>2, <2>1 DEF Creating
<1>3. CASE mutation.op = "delete"
  <2>1. NewConfig(cfg[p]) = [cfg[p] EXCEPT !.status = "absent", !.catalog = {}, !.off = {}]
    BY <1>3 DEF NewConfig
  <2>2. QED
    BY <1>1, <1>3, <2>1 DEF Creating
<1>4. CASE mutation.op = "enable"
  BY <1>1, <1>4 DEF NewConfig, Creating
<1>5. CASE mutation.op = "disable"
  BY <1>1, <1>5 DEF NewConfig, Creating
<1>6. CASE mutation.op = "retarget"
  BY <1>1, <1>6 DEF NewConfig, Creating
<1>7. CASE mutation.op = "add"
  <2>1. NewConfig(cfg[p]) = [cfg[p] EXCEPT !.catalog = @ \cup {mutation.m},
                                           !.off = @ \ {mutation.m}]
    BY <1>7 DEF NewConfig
  <2>2. QED
    BY <1>1, <1>7, <2>1 DEF Creating
<1>8. CASE mutation.op \in {"claim", "forget"}
  <2>1. \E off : NewConfig(cfg[p]) = [cfg[p] EXCEPT !.off = off]
    BY <1>8 DEF NewConfig
  <2>2. QED
    BY <1>1, <1>8, <2>1 DEF Creating
<1>9. CASE mutation.op = "drop"
  <2>1. NewConfig(cfg[p]) = [cfg[p] EXCEPT !.catalog = @ \ {mutation.m},
                                           !.off = @ \ {mutation.m}]
    BY <1>9 DEF NewConfig
  <2>2. QED
    BY <1>1, <1>9, <2>1 DEF Creating
<1>10. QED
  BY <1>2, <1>3, <1>4, <1>5, <1>6, <1>7, <1>8, <1>9 DEF Operations, Creating

(* The configuration write: the routes of the provider whose identity or   *)
(* enablement it changes are gone, or their eviction is still to come.     *)
LEMMA ApplyKeeps == IInv /\ Apply => IInv'
<1> SUFFICES ASSUME IInv, Apply PROVE IInv'
  OBVIOUS
<1>0. PICK p : p = mutation.p
  OBVIOUS
<1> USE <1>0
<1>1. /\ mutation.stage = "stored" /\ mutation.op \in Operations \ {"refresh"}
      /\ p \in Providers /\ abandoned' = abandoned
      /\ Creating <=> cfg[p].status = "absent"
      /\ mutation.epoch = TakesEpoch(mutation.op, p)
      /\ mutation.op = "delete" => mutation.todo = <<"evict", "evictLive", "all">>
  BY DEF Apply, IInv, MutInv
<1>2. /\ cfg'[p] = NewConfig(cfg[p]) /\ DOMAIN cfg' = Providers
      /\ \A q \in Providers : q # p => cfg'[q] = cfg[q]
  BY <1>1 DEF Apply, IInv, Fields, CfgFields
<1> DEFINE c == NewConfig(cfg[p])
<1>3. /\ DOMAIN c = {"status", "ident", "catalog", "off"}
      /\ c.status \in {"absent", "off", "on"} /\ c.ident \in Nat
      /\ c.status = "absent" => c.catalog = {}
      /\ Creating => c.off = {}
      /\ mutation.op = "disable" => c.status = "off" /\ c.ident = cfg[p].ident
      /\ mutation.op = "delete" => c.status = "absent"
      /\ mutation.op = "enable" => c.status = "on" /\ c.ident = cfg[p].ident
      /\ mutation.op = "retarget" => c.status = cfg[p].status
      /\ mutation.op \in {"add", "claim", "forget", "drop"} =>
           c.status = cfg[p].status /\ c.ident = cfg[p].ident
  BY <1>1, NewConfigs DEF IInv, Fields
<1> HIDE DEF c
<1>4. CfgFields'
  BY <1>2, <1>3 DEF IInv, Fields, CfgFields, c
<1>5. MutFields' /\ MutInv'
  <2>1. mutation' = [mutation EXCEPT !.stage = "applied",
                       !.epoch = @ /\ mutation.op \notin {"create", "createOff"}]
    BY DEF Apply
  <2>2. /\ DOMAIN mutation' = DOMAIN mutation /\ mutation'.stage = "applied"
        /\ mutation'.op = mutation.op /\ mutation'.p = p
        /\ mutation'.todo = mutation.todo
    BY <2>1 DEF IInv, Fields, MutFields
  <2>3. QED
    BY <1>1, <2>2 DEF IInv, Fields, MutFields, MutInv, Operations
<1>6. mutation'.stage = "applied" /\ mutation'.op = mutation.op /\ mutation'.p = p
  BY DEF Apply, IInv, Fields, MutFields
<1>7. \A q \in Providers : ~Evicting(q)
  BY <1>1 DEF Evicting
<1>8. RouteFields' /\ RouteInv'
  <2>1. ASSUME NEW m \in Models, routes[m] # None, routes[m] # p, routes'[m] = routes[m],
               origin'[m] = origin[m]
        PROVE  OwnerOK(m, routes[m])'
    <3>1. routes[m] \in Providers /\ OwnerOK(m, routes[m])
      BY <2>1 DEF IInv, Fields, RouteFields, RouteInv, Owners
    <3>2. QED
      BY <1>1, <1>2, <1>7, <2>1, <3>1 DEF OwnerOK, On
  <2>2. ASSUME SetRoutes(Evicted(p)) PROVE RouteFields' /\ RouteInv'
    <3>1. /\ DOMAIN routes' = Models /\ DOMAIN origin' = Models
          /\ \A m \in Models : /\ routes'[m] \in Owners
                               /\ routes'[m] = None \/ (routes'[m] = routes[m] /\ routes[m] # p)
                               /\ routes'[m] = routes[m] => origin'[m] = origin[m]
      BY <2>2 DEF SetRoutes, Evicted, IInv, Fields, RouteFields, Owners
    <3>2. ASSUME NEW m \in Models, routes'[m] # None PROVE OwnerOK(m, routes[m])'
      <4>1. /\ routes'[m] = routes[m] /\ routes[m] # p /\ routes[m] # None
            /\ origin'[m] = origin[m]
        BY <3>1, <3>2
      <4>2. QED
        BY <2>1, <4>1
    <3>3. RouteFields'
      BY <3>1 DEF RouteFields, Owners
    <3>4. QED
      BY <3>2, <3>3 DEF RouteInv
  <2>3. ASSUME UNCHANGED routes, \A m \in Models : origin'[m] = origin[m],
               DOMAIN origin' = Models,
               \A m \in Models : routes[m] = p => OwnerOK(m, p)'
        PROVE  RouteFields' /\ RouteInv'
    BY <2>1, <2>3 DEF IInv, Fields, RouteFields, RouteInv
  <2>4. CASE Creating
    BY <1>1, <2>2, <2>4 DEF Apply, Creating
  <2>5. CASE mutation.op \in {"disable", "retarget"} /\ mutation.epoch
    BY <2>2, <2>5 DEF Apply
  <2>6. CASE mutation.op \in {"disable", "retarget"} /\ ~mutation.epoch
    <3>1. cfg[p].status = "off"
      BY <1>1, <2>6 DEF TakesEpoch, On, Creating, IInv, Fields, CfgFields
    <3>2. \A m \in Models : routes[m] # p
      BY <1>1, <3>1, Limits DEF IInv, RouteInv, OwnerOK
    <3>3. SetRoutes(routes)
      BY <2>6 DEF Apply
    <3>4. QED
      BY <2>3, <3>2, <3>3 DEF SetRoutes
  <2>7. CASE mutation.op \in {"add", "claim", "forget", "drop"}
    <3>1. SetRoutes(EpochRoutes(p, mutation.m))
      BY <2>7 DEF Apply
    <3>2. DOMAIN EpochRoutes(p, mutation.m) = Models
      BY DEF EpochRoutes, IInv, Fields, RouteFields
    <3>3. \A m \in Models : \/ EpochRoutes(p, mutation.m)[m] = None
                            \/ EpochRoutes(p, mutation.m)[m] = p /\ On(p)
                            \/ EpochRoutes(p, mutation.m)[m] = routes[m]
      BY DEF EpochRoutes, IInv, Fields, RouteFields
    <3>4. \A q \in Providers : cfg'[q].status = cfg[q].status /\ cfg'[q].ident = cfg[q].ident
      BY <1>2, <1>3, <2>7 DEF c
    <3>5. \A m \in Models : routes[m] # None => routes[m] \in Providers
      BY DEF IInv, Fields, RouteFields, Owners
    <3>6. QED
      BY <1>1, <1>7, <3>1, <3>2, <3>3, <3>4, <3>5, RoutesMove DEF IInv, Fields
  <2>8. CASE mutation.op = "enable"
    <3>1. UNCHANGED <<routes, origin>>
      BY <2>8 DEF Apply
    <3>2. ASSUME NEW m \in Models, routes[m] = p PROVE OwnerOK(m, p)'
      <4>1. cfg[p].status = "on" /\ origin[m] = cfg[p].ident
        BY <1>1, <2>8, <3>2, Limits DEF IInv, RouteInv, OwnerOK, On, Fields, CfgFields, Creating
      <4>2. QED
        BY <1>2, <1>3, <2>8, <3>1, <4>1 DEF OwnerOK, On, c
    <3>3. QED
      BY <2>3, <3>1, <3>2 DEF IInv, Fields, RouteFields
  <2>9. CASE mutation.op = "delete"
    <3>1. UNCHANGED <<routes, origin>>
      BY <2>9 DEF Apply
    <3>2. cfg'[p].status = "absent" /\ Evicting(p)'
      BY <1>2, <1>3, <1>6, <2>9 DEF Evicting, c
    <3>3. QED
      BY <2>3, <3>1, <3>2 DEF IInv, Fields, RouteFields, OwnerOK, On
  <2>10. QED
    BY <1>1, <2>4, <2>5, <2>6, <2>7, <2>8, <2>9 DEF Operations, Creating
<1>9. GetFields' /\ DiscInv'
  <2>1. gets' \in {gets, SeedsBumped(gets)}
    BY <1>1 DEF Apply
  <2>2. /\ GetFields'
        /\ \A g \in Gets :
             /\ gets'[g].phase = gets[g].phase /\ gets'[g].hidden = gets[g].hidden
             /\ gets'[g].listed = gets[g].listed /\ gets'[g].found = gets[g].found
             /\ gets'[g].learned = gets[g].learned
             /\ gets'[g].advertised = gets[g].advertised
             /\ gets'[g].current => gets[g].current
    <3>1. CASE gets' = gets
      BY <3>1 DEF IInv, Fields, GetFields
    <3>2. CASE gets' = SeedsBumped(gets)
      BY <3>2, Bumps DEF IInv, Fields, GetFields
    <3>3. QED
      BY <2>1, <3>1, <3>2
  <2>3. SUFFICES ASSUME Quiet', NEW g \in Gets, gets'[g].current PROVE Knows(g)'
    BY <2>2 DEF DiscInv
  <2>4. Creating /\ cfg[p].status = "absent" /\ cfg'[p].off = {}
    BY <1>1, <1>2, <1>3, <1>6, <2>3 DEF Quiet, Creating, c
  <2>5. Knows(g)
    BY <1>1, <2>2, <2>3 DEF IInv, DiscInv, Quiet
  <2>6. GloballyDisabled' = GloballyDisabled
    BY <1>2, <2>4 DEF GloballyDisabled
  <2>7. \A q \in Providers : On(q) => q # p /\ cfg'[q] = cfg[q]
    BY <1>2, <2>4 DEF On
  <2>8. KnowsListed(g) => KnowsListed(g)'
    BY <2>2, <2>6, <2>7 DEF KnowsListed, On
  <2>9. KnowsFound(g) => KnowsFound(g)'
    BY <2>2, <2>6, <2>7 DEF KnowsFound, MayOwn, On, ModelIsEnabled
  <2>10. KnowsAdvertised(g) => KnowsAdvertised(g)'
    BY <2>2 DEF KnowsAdvertised
  <2>11. QED
    BY <2>2, <2>5, <2>8, <2>9, <2>10 DEF Knows
<1>10. QED
  BY <1>4, <1>5, <1>8, <1>9 DEF IInv, Fields

-----------------------------------------------------------------------------
(* invalidate_model_discovery, the spawn and the client's disconnect. *)
LEMMA HandlerKeeps == IInv /\ (Invalidate \/ Spawn \/ Disconnect \/ DisconnectRefresh) => IInv'
<1> SUFFICES ASSUME IInv, Invalidate \/ Spawn \/ Disconnect \/ DisconnectRefresh PROVE IInv'
  OBVIOUS
<1>1. CASE Invalidate
  <2>1. /\ mutation.stage = "applied" /\ UNCHANGED <<cfg, routes, origin, abandoned>>
        /\ mutation' = [mutation EXCEPT !.stage = "invalidated",
                           !.epoch = @ /\ mutation.op = "retarget"]
        /\ gets' = ConfigBumped(gets)
    BY <1>1 DEF Invalidate
  <2>2. /\ DOMAIN mutation' = DOMAIN mutation /\ mutation'.stage = "invalidated"
        /\ mutation'.op = mutation.op /\ mutation'.p = mutation.p
        /\ mutation'.todo = mutation.todo
    BY <2>1 DEF IInv, Fields, MutFields
  <2>3. MutFields' /\ MutInv'
    BY <2>1, <2>2 DEF IInv, Fields, MutFields, MutInv
  <2>4. \A q \in Providers : Evicting(q) => Evicting(q)'
    BY <2>1, <2>2 DEF Evicting
  <2>5. QED
    BY <2>1, <2>3, <2>4, RouteStill, NoneCurrent DEF IInv, Fields
<1>2. CASE Spawn
  <2>1. /\ mutation.stage = "invalidated"
        /\ UNCHANGED <<cfg, routes, origin, gets, abandoned>>
        /\ mutation' = [mutation EXCEPT !.stage = "spawned", !.epoch = FALSE]
    BY <1>2 DEF Spawn
  <2>2. /\ DOMAIN mutation' = DOMAIN mutation /\ mutation'.stage = "spawned"
        /\ mutation'.op = mutation.op /\ mutation'.p = mutation.p
        /\ mutation'.todo = mutation.todo
    BY <2>1 DEF IInv, Fields, MutFields
  <2>3. MutFields' /\ MutInv'
    BY <2>1, <2>2 DEF IInv, Fields, MutFields, MutInv
  <2>4. ASSUME NEW q \in Providers, Evicting(q) PROVE Evicting(q)'
    <3>1. mutation.op = "delete" /\ mutation.p = q /\ mutation.todo = <<"evict", "evictLive", "all">>
      BY <2>1, <2>4 DEF Evicting, IInv, MutInv
    <3>2. mutation'.todo # <<>> /\ Head(mutation'.todo) = "evict"
      BY <2>2, <3>1
    <3>3. QED
      BY <2>2, <3>1, <3>2 DEF Evicting
  <2>5. Quiet
    BY <2>1 DEF Quiet
  <2>6. QED
    BY <2>1, <2>3, <2>4, <2>5, RouteStill, DiscStill DEF IInv, Fields
<1>3. CASE Disconnect \/ DisconnectRefresh
  <2>1. /\ UNCHANGED <<cfg, routes, origin>> /\ mutation' = NoMutation
        /\ gets' \in {gets, PassedBy(gets, mutation.p)}
    BY <1>3 DEF Disconnect, DisconnectRefresh
  <2>2. MutFields' /\ MutInv'
    BY <2>1 DEF NoMutation, MutFields, MutInv
  <2>3. Quiet /\ \A q \in Providers : Evicting(q) => q \in abandoned'
    <3>1. CASE Disconnect
      BY <3>1 DEF Disconnect, AwaitsUnspawned, Quiet, Creating, Evicting
    <3>2. CASE DisconnectRefresh
      BY <3>2 DEF DisconnectRefresh, Quiet, Evicting, IInv, MutInv
    <3>3. QED
      BY <1>3, <3>1, <3>2
  <2>4. abandoned \subseteq abandoned'
    BY <1>3 DEF Disconnect, DisconnectRefresh
  <2>5. QED
    BY <2>1, <2>2, <2>3, <2>4, RouteStill, DiscStill DEF IInv, Fields
<1>4. QED
  BY <1>1, <1>2, <1>3

(* A step of the reconciliation is done while the lock is held. *)
LEMMA StepKeeps ==
  ASSUME IInv, NEW step, Doing(step), StepDone
  PROVE  /\ MutFields' /\ MutInv' /\ Quiet /\ Quiet'
         /\ step # "evict" => \A q \in Providers : ~Evicting(q)
<1>1. /\ mutation.stage = "spawned" /\ Head(mutation.todo) = step
      /\ mutation' = [mutation EXCEPT !.todo = Tail(@)]
  BY DEF Doing, StepDone
<1>2. /\ DOMAIN mutation' = DOMAIN mutation /\ mutation'.stage = "spawned"
      /\ mutation'.op = mutation.op /\ mutation'.p = mutation.p
  BY <1>1 DEF IInv, Fields, MutFields
<1>3. MutFields' /\ MutInv'
  BY <1>1, <1>2 DEF IInv, Fields, MutFields, MutInv
<1>4. Quiet /\ Quiet' /\ (step # "evict" => \A q \in Providers : ~Evicting(q))
  BY <1>1, <1>2 DEF Quiet, Evicting
<1>5. QED
  BY <1>3, <1>4

(* The spawned reconciliation. *)
LEMMA ReconcileKeeps == IInv /\ Reconcile => IInv'
<1> SUFFICES ASSUME IInv, Reconcile PROVE IInv'
  OBVIOUS
<1>1. ASSUME ReconcileEvict \/ ReconcileEvictLive PROVE IInv'
  <2>1. PICK step : Doing(step) /\ StepDone
    BY <1>1 DEF ReconcileEvict, ReconcileEvictLive
  <2>2. SetRoutes(Evicted(mutation.p)) /\ UNCHANGED <<cfg, abandoned>>
        /\ gets' \in {gets, SeedsBumped(gets)}
    BY <1>1 DEF ReconcileEvict, ReconcileEvictLive
  <2>3. /\ DOMAIN Evicted(mutation.p) = Models
        /\ \A m \in Models : \/ Evicted(mutation.p)[m] = None
                             \/ Evicted(mutation.p)[m] = routes[m] /\ ~Evicting(routes[m])
    BY DEF Evicted, Evicting
  <2>4. RouteFields' /\ RouteInv'
    BY <2>2, <2>3, RoutesMove DEF IInv, Fields
  <2>5. QED
    BY <2>1, <2>2, <2>4, StepKeeps, DiscStill DEF IInv, Fields, CfgFields
<1>2. ASSUME ReconcileSync PROVE IInv'
  <2>1. PICK read :
          /\ Doing("sync") /\ StepDone /\ UNCHANGED <<cfg, abandoned>>
          /\ SetRoutes([m \in Models |->
               IF SeedRoutes(RowsOr(read), GloballyDisabled)[m] = None THEN routes[m]
               ELSE SeedRoutes(RowsOr(read), GloballyDisabled)[m]])
          /\ CacheRows(read)
    BY <1>2 DEF ReconcileSync
  <2> DEFINE stable == SeedRoutes(RowsOr(read), GloballyDisabled)
             new == [m \in Models |-> IF stable[m] = None THEN routes[m] ELSE stable[m]]
  <2>2. \A m \in Models : stable[m] = None \/ (stable[m] \in Providers /\ On(stable[m]))
    BY SeedOwner DEF MayOwn
  <2>3. SetRoutes(new)
    BY <2>1
  <2>4. \A q \in Providers : ~Evicting(q)
    BY <2>1, StepKeeps
  <2>5. DOMAIN new = Models
    OBVIOUS
  <2>6. \A m \in Models : routes[m] \in Providers \cup {None}
    BY DEF IInv, Fields, RouteFields, Owners
  <2> HIDE DEF stable
  <2>7. \A m \in Models : \/ new[m] = None
                          \/ new[m] \in Providers /\ On(new[m])
                          \/ new[m] = routes[m] /\ ~Evicting(routes[m])
    BY <2>2, <2>4, <2>6
  <2> HIDE DEF new
  <2>8. RouteFields' /\ RouteInv'
    BY <2>1, <2>3, <2>5, <2>7, RoutesMove DEF IInv, Fields
  <2>9. gets' \in {gets, SeedsBumped(gets)}
    BY <2>1 DEF CacheRows
  <2>10. QED
    BY <2>1, <2>8, <2>9, StepKeeps, DiscStill DEF IInv, Fields, CfgFields
<1>3. ASSUME NEW step, Doing(step), StepDone, UNCHANGED cfg, NEW read,
             NEW fetch \in SUBSET Providers, NEW catalogs \in Catalogs(fetch),
             SetRoutes(Rebuilt(read, fetch, catalogs)), CacheRows(read)
      PROVE  IInv'
  <2>1. DOMAIN Rebuilt(read, fetch, catalogs) = Models
    BY DEF Rebuilt, Published
  <2>2. \A m \in Models : LET new == Rebuilt(read, fetch, catalogs) IN
          new[m] = None \/ (new[m] \in Providers /\ On(new[m]))
    BY RebuiltOwner
  <2>3. RouteFields' /\ RouteInv'
    <3> DEFINE new == Rebuilt(read, fetch, catalogs)
    <3>1. SetRoutes(new) /\ DOMAIN new = Models
          /\ \A m \in Models : new[m] = None \/ (new[m] \in Providers /\ On(new[m]))
      BY <1>3, <2>1, <2>2
    <3> HIDE DEF new
    <3>2. QED
      BY <1>3, <3>1, RoutesMove DEF IInv, Fields
  <2>4. gets' \in {gets, SeedsBumped(gets)}
    BY <1>3 DEF CacheRows
  <2>5. QED
    BY <1>3, <2>3, <2>4, StepKeeps, DiscStill DEF IInv, Fields, CfgFields
<1>4. ASSUME ReconcileRefetch PROVE IInv'
  <2>1. PICK step : Doing(step) /\ StepDone
    BY <1>4 DEF ReconcileRefetch
  <2> DEFINE fetch == {p \in Providers : On(p) /\ (Doing("one") => p = mutation.p)}
  <2>2. PICK read \in {rows, Failed}, catalogs \in Catalogs(fetch) :
          SetRoutes(Rebuilt(read, fetch, catalogs)) /\ CacheRows(read) /\ UNCHANGED cfg
    BY <1>4 DEF ReconcileRefetch
  <2>3. fetch \in SUBSET Providers
    OBVIOUS
  <2> HIDE DEF fetch
  <2>4. QED
    BY <1>3, <2>1, <2>2, <2>3
<1>5. ASSUME RefreshAtomic PROVE IInv'
  <2>1. PICK read \in {rows, Failed}, catalogs \in Catalogs({mutation.p}) :
          /\ Doing("atomic") /\ StepDone /\ UNCHANGED cfg
          /\ \/ UNCHANGED <<routes, origin, gets, abandoned>>
             \/ /\ SetRoutes(Rebuilt(read, {mutation.p}, catalogs))
                /\ CacheRows(read)
    BY <1>5 DEF RefreshAtomic
  <2>2. mutation.p \in Providers
    BY <2>1 DEF Doing, IInv, MutInv
  <2>3. CASE UNCHANGED <<routes, origin, gets, abandoned>>
    BY <2>1, <2>3, StepKeeps, RouteStill, DiscStill DEF IInv, Fields
  <2>4. CASE SetRoutes(Rebuilt(read, {mutation.p}, catalogs)) /\ CacheRows(read)
    BY <1>3, <2>1, <2>2, <2>4
  <2>5. QED
    BY <2>1, <2>3, <2>4
<1>6. ASSUME Complete PROVE IInv'
  <2>1. /\ mutation.todo = <<>> /\ mutation.stage = "spawned" /\ mutation' = NoMutation
        /\ gets' = ConfigBumped(gets) /\ UNCHANGED <<cfg, routes, origin, abandoned>>
    BY <1>6 DEF Complete
  <2>2. MutFields' /\ MutInv'
    BY <2>1 DEF NoMutation, MutFields, MutInv
  <2>3. \A q \in Providers : ~Evicting(q)
    BY <2>1 DEF Evicting
  <2>4. QED
    BY <2>1, <2>2, <2>3, RouteStill, NoneCurrent DEF IInv, Fields
<1>7. QED
  BY <1>1, <1>2, <1>4, <1>5, <1>6, ApplyKeeps, HandlerKeeps DEF Reconcile

-----------------------------------------------------------------------------
(* A step of a discovery that publishes nothing. *)
LEMMA StepOfOne ==
  ASSUME IInv, NEW g \in Gets, NEW from, NEW to, Step(g, from, to), DOMAIN to = GetKeys,
         Quiet /\ to.current => Knows(g)'
  PROVE  IInv'
<1>1. gets' = [gets EXCEPT ![g] = to] /\ UNCHANGED <<cfg, routes, origin, mutation, abandoned>>
  BY DEF Step
<1>2. GetFields' /\ DiscInv'
  BY <1>1, DiscMoves DEF IInv, Fields
<1>3. CfgFields' /\ RouteFields' /\ RouteInv'
  BY <1>1, RouteStill DEF IInv, Fields, Evicting
<1>4. MutFields' /\ MutInv'
  BY <1>1 DEF IInv, Fields, MutFields, MutInv, Creating, TakesEpoch, On
<1>5. QED
  BY <1>2, <1>3, <1>4 DEF IInv, Fields

LEMMA DiscoverKeeps ==
  ASSUME IInv, NEW g \in Gets,
         \/ Request(g) \/ ReadRevision(g) \/ ListProviders(g) \/ ReadSeeds(g)
         \/ MergeCatalogs(g) \/ Discard(g) \/ Hangup(g)
  PROVE  IInv'
<1>1. DOMAIN gets[g] = GetKeys /\ g \in DOMAIN gets
  BY DEF IInv, Fields, GetFields
<1>2. CASE Request(g) \/ Discard(g) \/ Hangup(g)
  <2>1. PICK from, to : Step(g, from, to) /\ DOMAIN to = GetKeys /\ ~to.current
    <3>1. CASE Request(g)
      <4> DEFINE to == [Idle EXCEPT !.phase = "start", !.tries = 1]
      <4>1. DOMAIN to = GetKeys /\ ~to.current
        BY DEF Idle, GetKeys
      <4>2. Step(g, "idle", to)
        BY <3>1 DEF Request
      <4>3. QED
        BY <4>1, <4>2
    <3>2. CASE Discard(g)
      <4>1. DOMAIN Retried(g) = GetKeys /\ ~Retried(g).current
        BY DEF Retried, Idle, GetKeys
      <4>2. Step(g, "merged", Retried(g))
        BY <3>2 DEF Discard
      <4>3. QED
        BY <4>1, <4>2
    <3>3. CASE Hangup(g)
      BY <3>3 DEF Hangup, Idle, GetKeys
    <3>4. QED
      BY <1>2, <3>1, <3>2, <3>3
  <2>2. QED
    BY <2>1, StepOfOne
<1>3. CASE ReadRevision(g)
  <2> DEFINE to == [gets[g] EXCEPT !.phase = "snapshot", !.current = TRUE, !.passedBy = {}]
  <2>1. Step(g, "start", to) /\ DOMAIN to = GetKeys /\ to.phase = "snapshot"
    BY <1>1, <1>3 DEF ReadRevision, GetKeys
  <2> HIDE DEF to
  <2>2. Knows(g)'
    BY <1>1, <2>1 DEF Step, Knows
  <2>3. QED
    BY <2>1, <2>2, StepOfOne
<1>4. CASE ListProviders(g)
  <2> DEFINE listed == [p \in Providers |-> IF On(p) THEN cfg[p].ident + 1 ELSE 0]
             to == [gets[g] EXCEPT !.phase = "listed", !.hidden = GloballyDisabled,
                      !.listed = listed,
                      !.manual = [p \in Providers |-> IF On(p) THEN cfg[p].catalog ELSE {}]]
  <2>1. /\ Step(g, "snapshot", to) /\ DOMAIN to = GetKeys /\ to.phase = "listed"
        /\ to.hidden = GloballyDisabled /\ to.listed = listed
    BY <1>1, <1>4 DEF ListProviders, GetKeys
  <2> HIDE DEF to
  <2>2. gets'[g] = to /\ UNCHANGED cfg
    BY <1>1, <2>1 DEF Step
  <2>3. \A p \in Providers : listed[p] # 0 => On(p) /\ listed[p] = cfg[p].ident + 1
    OBVIOUS
  <2> HIDE DEF listed
  <2>4. Knows(g)'
    BY <2>1, <2>2, <2>3 DEF Knows, KnowsListed, GloballyDisabled, On
  <2>5. QED
    BY <2>1, <2>4, StepOfOne
<1>5. CASE ReadSeeds(g)
  <2>1. PICK read \in {rows, Failed} :
          LET base == SeedRoutes(RowsOr(read), gets[g].hidden) IN
          Step(g, "listed",
               [gets[g] EXCEPT !.phase = "seeded", !.refreshed = read,
                  !.seedsCurrent = TRUE, !.found = base, !.learned = IdentityOf(base)])
    BY <1>5 DEF ReadSeeds
  <2> DEFINE base == SeedRoutes(RowsOr(read), gets[g].hidden)
             to == [gets[g] EXCEPT !.phase = "seeded", !.refreshed = read,
                      !.seedsCurrent = TRUE, !.found = base, !.learned = IdentityOf(base)]
  <2>2. /\ Step(g, "listed", to) /\ DOMAIN to = GetKeys /\ to.phase = "seeded"
        /\ to.hidden = gets[g].hidden /\ to.listed = gets[g].listed
        /\ to.current = gets[g].current /\ to.found = base /\ to.learned = IdentityOf(base)
    BY <1>1, <2>1 DEF GetKeys
  <2> HIDE DEF to
  <2>3. gets'[g] = to /\ UNCHANGED cfg /\ gets[g].phase = "listed"
    BY <1>1, <2>2 DEF Step
  <2>4. ASSUME Quiet, to.current PROVE Knows(g)'
    <3>1. KnowsListed(g)
      BY <2>2, <2>3, <2>4 DEF IInv, DiscInv, Knows
    <3>2. KnowsListed(g)'
      BY <2>2, <2>3, <3>1 DEF KnowsListed, On, GloballyDisabled
    <3>3. ASSUME NEW m \in Models, base[m] # None
          PROVE  MayOwn(base[m], m, gets[g].hidden) /\ IdentityOf(base)[m] = cfg[base[m]].ident
      BY <3>3, SeedOwner DEF IdentityOf
    <3> HIDE DEF base
    <3>4. KnowsFound(g)'
      BY <2>2, <2>3, <3>1, <3>3
         DEF KnowsFound, KnowsListed, MayOwn, On, ModelIsEnabled, GloballyDisabled
    <3>5. QED
      BY <2>2, <2>3, <3>2, <3>4 DEF Knows
  <2>5. QED
    BY <2>2, <2>4, StepOfOne
<1>6. CASE MergeCatalogs(g)
  <2>1. PICK catalogs \in Catalogs(Listed(g)) :
          LET offers == [p \in Listed(g) |-> Fetched(catalogs)[p] \cup gets[g].manual[p]]
              found == Discovered(gets[g].found, offers, gets[g].hidden)
          IN
          Step(g, "seeded",
               [gets[g] EXCEPT !.phase = "merged", !.found = found,
                  !.learned = [m \in Models |->
                                 IF found[m] = gets[g].found[m] THEN @[m]
                                 ELSE gets[g].listed[found[m]] - 1],
                  !.advertised = {m \in Models :
                                    found[m] \in Offering(m, offers, gets[g].hidden)},
                  !.failed = {p \in Listed(g) : catalogs[p] = Failed},
                  !.nothing = \E p \in Listed(g) : On(p) /\ catalogs[p] = Failed])
    BY <1>6 DEF MergeCatalogs
  <2> DEFINE offers == [p \in Listed(g) |-> Fetched(catalogs)[p] \cup gets[g].manual[p]]
             found == Discovered(gets[g].found, offers, gets[g].hidden)
             learned == [m \in Models |-> IF found[m] = gets[g].found[m] THEN gets[g].learned[m]
                                          ELSE gets[g].listed[found[m]] - 1]
             advertised == {m \in Models : found[m] \in Offering(m, offers, gets[g].hidden)}
             failed == {p \in Listed(g) : catalogs[p] = Failed}
             nothing == \E p \in Listed(g) : On(p) /\ catalogs[p] = Failed
             to == [gets[g] EXCEPT !.phase = "merged", !.found = found, !.learned = learned,
                      !.advertised = advertised, !.failed = failed, !.nothing = nothing]
  <2>2. /\ Step(g, "seeded", to) /\ DOMAIN to = GetKeys /\ to.phase = "merged"
        /\ to.hidden = gets[g].hidden /\ to.listed = gets[g].listed
        /\ to.current = gets[g].current /\ to.found = found
        /\ to.learned = learned /\ to.advertised = advertised
    <3>1. Step(g, "seeded", to)
      BY <1>1, <2>1 DEF GetKeys
    <3> HIDE DEF found, learned, advertised, failed, nothing
    <3>2. QED
      BY <1>1, <3>1 DEF GetKeys
  <2> HIDE DEF to
  <2>3. gets'[g] = to /\ UNCHANGED cfg /\ gets[g].phase = "seeded"
    BY <1>1, <2>2 DEF Step
  <2>4. ASSUME Quiet, to.current PROVE Knows(g)'
    <3>1. KnowsListed(g) /\ KnowsFound(g)
      BY <2>2, <2>3, <2>4 DEF IInv, DiscInv, Knows
    <3>2. KnowsListed(g)'
      BY <2>2, <2>3, <3>1 DEF KnowsListed, On, GloballyDisabled
    <3>3. DOMAIN offers = Listed(g) /\ Listed(g) \subseteq Providers
      BY DEF Listed
    <3>4. ASSUME NEW m \in Models, found[m] # None
          PROVE  MayOwn(found[m], m, GloballyDisabled) /\ learned[m] = cfg[found[m]].ident
      <4>1. CASE found[m] = gets[g].found[m]
        BY <3>1, <3>4, <4>1 DEF KnowsFound
      <4>2. CASE found[m] # gets[g].found[m]
        <5>1. found[m] \in Listed(g) /\ MayOwn(found[m], m, gets[g].hidden)
          <6> HIDE DEF offers
          <6>1. QED
            BY <3>3, <4>2, DiscoveredOwner
        <5> HIDE DEF found
        <5>2. learned[m] = gets[g].listed[found[m]] - 1
          BY <4>2
        <5>3. gets[g].listed[found[m]] = cfg[found[m]].ident + 1 /\ cfg[found[m]].ident \in Nat
          BY <3>1, <5>1 DEF KnowsListed, Listed, IInv, Fields, CfgFields
        <5> HIDE DEF learned
        <5>4. QED
          BY <3>1, <5>1, <5>2, <5>3 DEF KnowsListed
      <4>3. QED
        BY <4>1, <4>2
    <3>5. ASSUME NEW m \in advertised
          PROVE  m \in Models /\ found[m] \in Providers /\ gets[g].listed[found[m]] # 0
      BY <3>3 DEF Offering, Listed
    <3> HIDE DEF offers, found, learned, advertised
    <3>6. KnowsFound(g)'
      BY <2>2, <2>3, <3>4 DEF KnowsFound, MayOwn, On, ModelIsEnabled, GloballyDisabled
    <3>7. KnowsAdvertised(g)'
      BY <2>2, <2>3, <3>5 DEF KnowsAdvertised
    <3>8. QED
      BY <2>2, <2>3, <3>2, <3>6, <3>7 DEF Knows
  <2>5. QED
    BY <2>2, <2>4, StepOfOne
<1>7. QED
  BY <1>2, <1>3, <1>4, <1>5, <1>6

(* The end of a discovery that read the configuration as it still is. *)
LEMMA EndKeeps ==
  ASSUME IInv, NEW g \in Gets, Fail(g) \/ Publish(g)
  PROVE  IInv'
<1>1. /\ gets[g].phase = "merged" /\ gets[g].current /\ mutation.op = "none"
      /\ UNCHANGED <<cfg, mutation>>
      /\ gets' = [(IF gets[g].refreshed = Failed THEN gets ELSE SeedsBumped(gets))
                     EXCEPT ![g] = Idle]
  BY DEF Fail, Publish, StillCurrent, LockFree
<1>2. GetFields' /\ DiscInv'
  <2>1. DOMAIN Idle = GetKeys /\ ~Idle.current
    BY DEF Idle, GetKeys
  <2>2. PICK gs \in {gets, SeedsBumped(gets)} : gets' = [gs EXCEPT ![g] = Idle]
    BY <1>1
  <2>3. QED
    BY <1>1, <2>1, <2>2, DiscMoves DEF IInv, Fields
<1>3. CfgFields' /\ MutFields' /\ MutInv'
  BY <1>1 DEF IInv, Fields, CfgFields, MutFields, MutInv, Creating, TakesEpoch, On
<1>4. RouteFields' /\ RouteInv'
  <2>1. CASE Fail(g)
    BY <1>1, <2>1, RouteStill DEF Fail, IInv, Fields, Evicting
  <2>2. CASE Publish(g)
    <3> DEFINE found == gets[g].found
               new == Published(found, gets[g].failed)
    <3>1. /\ routes' = new
          /\ origin' = [m \in Models |-> IF new[m] = found[m] THEN gets[g].learned[m]
                                         ELSE origin[m]]
      BY <2>2 DEF Publish
    <3>2. KnowsFound(g)
      BY <1>1 DEF IInv, MutInv, DiscInv, Quiet, Knows
    <3>3. DOMAIN new = Models
      BY DEF Published
    <3>4. ASSUME NEW m \in Models
          PROVE  \/ new[m] = None
                 \/ /\ new[m] = found[m] /\ new[m] \in Providers /\ On(new[m])
                    /\ gets[g].learned[m] = cfg[new[m]].ident
                 \/ /\ new[m] # found[m] /\ new[m] = routes[m]
                    /\ new[m] \in Providers /\ On(new[m])
      BY <3>2, PublishedOwner DEF KnowsFound, MayOwn
    <3> HIDE DEF new, found
    <3>5. ASSUME NEW m \in Models, new[m] # None
          PROVE  new[m] \in Providers /\ On(new[m]) /\ origin'[m] = cfg[new[m]].ident
      <4>1. CASE new[m] = found[m]
        BY <3>1, <3>4, <3>5, <4>1
      <4>2. CASE new[m] # found[m]
        <5>1. new[m] = routes[m] /\ On(new[m]) /\ new[m] \in Providers
          BY <3>4, <3>5, <4>2
        <5>2. origin[m] = cfg[new[m]].ident
          BY <3>5, <5>1 DEF IInv, RouteInv, OwnerOK
        <5>3. QED
          BY <3>1, <4>2, <5>1, <5>2
      <4>3. QED
        BY <4>1, <4>2
    <3>6. RouteFields'
      BY <3>1, <3>3, <3>5 DEF RouteFields, Owners
    <3>7. RouteInv'
      BY <1>1, <3>1, <3>5 DEF RouteInv, OwnerOK, On
    <3>8. QED
      BY <3>6, <3>7
  <2>3. QED
    BY <2>1, <2>2
<1>5. QED
  BY <1>2, <1>3, <1>4 DEF IInv, Fields

-----------------------------------------------------------------------------
LEMMA NextKeeps == IInv /\ [Next]_vars => IInv'
<1> SUFFICES ASSUME IInv, [Next]_vars PROVE IInv'
  OBVIOUS
<1>1. CASE UNCHANGED vars
  <2>1. UNCHANGED <<cfg, routes, origin, mutation, gets, abandoned>>
    BY <1>1 DEF vars
  <2>2. QED
    BY <2>1 DEF IInv, Fields, CfgFields, RouteFields, MutFields, GetFields, MutInv,
      Creating, TakesEpoch, On, RouteInv, OwnerOK, Evicting, DiscInv, Quiet, Knows,
      KnowsListed, KnowsFound, KnowsAdvertised, MayOwn, ModelIsEnabled, GloballyDisabled
<1>2. ASSUME NEW g \in Gets, Request(g) \/ Discover(g) \/ Hangup(g) PROVE IInv'
  BY <1>2, DiscoverKeeps, EndKeeps DEF Discover
<1>3. QED
  BY <1>1, <1>2, MutateKeeps, ReconcileKeeps, HandlerKeeps DEF Next

(* The invariant of every behaviour: the owner of a route is switched on   *)
(* and has the identity the route was learned from, unless its deletion is *)
(* not reconciled, and a discovery that is current knows how things are.   *)
THEOREM Invariance == Spec => []IInv
<1>1. QED
  BY InitInv, NextKeeps, PTL DEF Spec

(* A route is never paired with a destination or credentials other than    *)
(* those it was learned from, when a request can be routed (webui.rs,      *)
(* update_provider).                                                       *)
THEOREM RoutesMatchIdentityHolds == Spec => []RoutesMatchIdentity
<1>1. IInv => RoutesMatchIdentity
  BY DEF IInv, RouteInv, OwnerOK, RoutesMatchIdentity
<1>2. QED
  BY <1>1, Invariance, PTL

(* A disabled provider owns no route, and once no mutation is under way    *)
(* the owner of a route is enabled, but for what a disconnect left behind  *)
(* (webui.rs, set_provider_enabled).                                       *)
THEOREM OwnersEnabledHolds == Spec => []OwnersEnabled
<1>1. IInv => OwnersEnabled
  BY DEF IInv, RouteInv, OwnerOK, OwnersEnabled, LockFree, Evicting
<1>2. QED
  BY <1>1, Invariance, PTL

(* What GET /v1/models answers is served by the provider that listed it,   *)
(* with the destination it was listed under (models.rs,                    *)
(* models_for_revision).                                                   *)
THEOREM AdvertisedIsServedHolds == Spec => AdvertisedIsServed
<1>1. ASSUME IInv, NEW g \in Gets, Publish(g), NEW m \in gets[g].advertised
      PROVE  LET p == gets[g].found[m] IN
             Select(m)' = p /\ cfg[p].ident + 1 = gets[g].listed[p]
  <2> DEFINE p == gets[g].found[m]
  <2>1. /\ gets[g].phase = "merged" /\ gets[g].current /\ mutation.op = "none"
        /\ UNCHANGED cfg /\ routes' = Published(gets[g].found, gets[g].failed)
    BY <1>1 DEF Publish, StillCurrent, LockFree
  <2>2. KnowsListed(g) /\ KnowsFound(g) /\ KnowsAdvertised(g)
    BY <1>1, <2>1 DEF IInv, MutInv, DiscInv, Quiet, Knows
  <2>3. m \in Models /\ p \in Providers /\ gets[g].listed[p] # 0
    BY <1>1, <2>2 DEF KnowsAdvertised
  <2>4. p # None /\ On(p) /\ ModelIsEnabled(p, m) /\ m \notin GloballyDisabled
    BY <2>2, <2>3, Limits DEF KnowsFound, MayOwn
  <2>5. routes'[m] = p
    BY <2>1, <2>3, <2>4 DEF Published
  <2>6. Select(m)' = p
    BY <2>1, <2>3, <2>4, <2>5 DEF Select, On, ModelIsEnabled, GloballyDisabled
  <2>7. cfg[p].ident + 1 = gets[g].listed[p]
    BY <2>2, <2>3 DEF KnowsListed
  <2>8. QED
    BY <2>6, <2>7
<1>2. IInv => [\A g \in Gets : Publish(g) =>
                 \A m \in gets[g].advertised :
                   LET p == gets[g].found[m] IN
                   /\ Select(m)' = p
                   /\ cfg[p].ident + 1 = gets[g].listed[p]]_vars
  BY <1>1
<1>3. QED
  BY <1>2, Invariance, PTL DEF AdvertisedIsServed

-----------------------------------------------------------------------------
\* Rows of other providers, and agreement but for the rows of some.
NotOf(ps) == {r \in Row : r.owner \notin ps}
Same(rs, ts, ps) == Kept(rs, NotOf(ps)) = Kept(ts, NotOf(ps))

\* The providers that may own m where it is not hidden, the rows that claim
\* m for one of them, and the owner that SeedRoutes chooses.
Able(m) == {p \in Providers : On(p) /\ ModelIsEnabled(p, m)}
ClaimsOf(m, ps) == {r \in Row : r.model = m /\ r.owner \in ps}
Choice(rs, hs) ==
  IF rs # <<>> THEN rs[Len(rs)].owner ELSE IF hs # {} THEN LeastOf(hs) ELSE None
Newest(rs, m) ==
  Choice(Kept(rs, ClaimsOf(m, Able(m))), {p \in Able(m) : m \in cfg[p].catalog})

-----------------------------------------------------------------------------
(* Sequences that agree on some rows agree on fewer. *)
LEMMA Fewer ==
  ASSUME NEW rs \in Seq(Row), NEW ts \in Seq(Row), NEW K, NEW J, K \subseteq J,
         Kept(rs, J) = Kept(ts, J)
  PROVE  Kept(rs, K) = Kept(ts, K)
<1>1. J \cap K = K
  OBVIOUS
<1>2. \A s \in Seq(Row) : Kept(Kept(s, J), K) = Kept(s, J \cap K)
  BY KeptTwice
<1>3. QED
  BY <1>1, <1>2

(* So do what is left of both when more rows are removed. *)
LEMMA BothKept ==
  ASSUME NEW rs \in Seq(Row), NEW ts \in Seq(Row), NEW K, NEW J,
         Kept(rs, J) = Kept(ts, J)
  PROVE  Kept(Kept(rs, K), J) = Kept(Kept(ts, K), J)
<1>1. PICK L : L = K \cap J /\ L = J \cap K
  OBVIOUS
<1>2. ASSUME NEW s \in Seq(Row)
      PROVE  Kept(Kept(s, K), J) = Kept(s, L) /\ Kept(Kept(s, J), K) = Kept(s, L)
  BY <1>1, KeptTwice
<1>3. QED
  BY <1>2

(* The last row that claims m is the last one that is kept. *)
LEMMA LastClaim ==
  ASSUME NEW m, NEW ps, NEW s \in Seq(Row)
  PROVE  LET at == {i \in DOMAIN s : s[i].model = m /\ s[i].owner \in ps}
             k == Kept(s, ClaimsOf(m, ps))
         IN /\ k = <<>> => at = {}
            /\ k # <<>> => \E i \in at : (\A j \in at : j <= i) /\ k[Len(k)] = s[i]
<1> DEFINE at(t) == {i \in DOMAIN t : t[i].model = m /\ t[i].owner \in ps}
           C == ClaimsOf(m, ps)
           fits(t, k) == /\ k = <<>> => at(t) = {}
                         /\ k # <<>> => \E i \in at(t) : (\A j \in at(t) : j <= i) /\ k[Len(k)] = t[i]
           T == {t \in Seq(Row) : fits(t, Kept(t, C))}
<1>1. <<>> \in T
  <2>1. Kept(<<>>, C) = <<>>
    BY KeptEmpty
  <2> HIDE DEF C
  <2>2. <<>> \in Seq(Row) /\ at(<<>>) = {}
    OBVIOUS
  <2> HIDE DEF at
  <2>3. QED
    BY <2>1, <2>2
<1>2. ASSUME NEW t \in Seq(Row), NEW x \in Row, t \in T PROVE t \o <<x>> \in T
  <2>1. PICK u \in Seq(Row), n \in Nat :
          /\ u = t \o <<x>> /\ n = Len(t) /\ DOMAIN t = 1..n /\ DOMAIN u = 1..(n + 1)
          /\ u[n + 1] = x /\ \A i \in 1..n : u[i] = t[i]
    <3>1. /\ t \o <<x>> \in Seq(Row) /\ Len(t) \in Nat /\ DOMAIN t = 1..Len(t)
          /\ DOMAIN (t \o <<x>>) = 1..(Len(t) + 1)
          /\ (t \o <<x>>)[Len(t) + 1] = x /\ \A i \in 1..Len(t) : (t \o <<x>>)[i] = t[i]
      OBVIOUS
    <3>2. QED
      BY <3>1
  <2>2. PICK k \in Seq(Row) : k = Kept(t, C)
    BY KeptType
  <2>3. Kept(u, C) = k \o (IF x \in C THEN <<x>> ELSE <<>>)
    <3>1. <<x>> \in Seq(Row)
      OBVIOUS
    <3>2. Kept(t \o <<x>>, C) = Kept(t, C) \o Kept(<<x>>, C)
      BY <3>1, KeptBoth
    <3> HIDE DEF C
    <3>3. QED
      BY <2>1, <2>2, <3>2, KeptOne
  <2>4. fits(t, k)
    BY <1>2, <2>2
  <2>5. CASE x \in C
    <3>1. PICK l \in Seq(Row) : l = k \o <<x>> /\ l # <<>> /\ l[Len(l)] = x /\ l = Kept(u, C)
      <4>1. k \o <<x>> \in Seq(Row) /\ k \o <<x>> # <<>> /\ (k \o <<x>>)[Len(k \o <<x>>)] = x
        OBVIOUS
      <4>2. QED
        BY <2>3, <2>5, <4>1
    <3>2. n + 1 \in at(u) /\ \A j \in at(u) : j <= n + 1
      BY <2>1, <2>5 DEF ClaimsOf
    <3>3. fits(u, l)
      BY <2>1, <3>1, <3>2
    <3>4. QED
      BY <2>1, <3>1, <3>3
  <2>6. CASE x \notin C
    <3>1. Kept(u, C) = k
      BY <2>3, <2>6
    <3>2. at(u) = at(t)
      BY <2>1, <2>6 DEF ClaimsOf
    <3>3. \A i \in at(t) : u[i] = t[i]
      BY <2>1
    <3> HIDE DEF at, C
    <3>4. fits(u, k)
      BY <2>4, <3>2, <3>3
    <3>5. QED
      BY <2>1, <3>1, <3>4
  <2>7. QED
    BY <2>5, <2>6
<1>3. \A t \in Seq(Row) : t \in T
  <2> HIDE DEF T
  <2>1. QED
    BY <1>1, <1>2, SequenceInduction
<1>4. s \in T
  BY <1>3
<1> HIDE DEF C
<1>5. QED
  BY <1>4 DEF C

(* Seeding chooses by the rows of those that may own the model. *)
LEMMA SeedIs ==
  ASSUME NEW rs \in Seq(Row), NEW m \in Models, NEW h, m \notin h
  PROVE  SeedRoutes(rs, h)[m] = Newest(rs, m)
<1> DEFINE claims == Claims(rs, m, h)
           last == {i \in claims : \A j \in claims : j <= i}
           k == Kept(rs, ClaimsOf(m, Able(m)))
<1>1. claims = {i \in DOMAIN rs : rs[i].model = m /\ rs[i].owner \in Able(m)}
  BY DEF Claims, MayOwn, Able
<1>2. Holders(m, h) = {p \in Able(m) : m \in cfg[p].catalog}
  BY DEF Holders, MayOwn, Able
<1>3. /\ k = <<>> => claims = {}
      /\ k # <<>> => \E i \in claims : (\A j \in claims : j <= i) /\ k[Len(k)] = rs[i]
  BY <1>1, LastClaim
<1>4. claims \subseteq Nat
  BY <1>1
<1> HIDE DEF claims, k
<1>5. CASE k = <<>>
  <2>1. last = {}
    BY <1>3, <1>5
  <2>2. SeedRoutes(rs, h)[m] = IF Holders(m, h) # {} THEN LeastOf(Holders(m, h)) ELSE None
    BY <2>1 DEF SeedRoutes, claims
  <2>3. QED
    BY <1>2, <1>5, <2>2 DEF Newest, Choice, k
<1>6. CASE k # <<>>
  <2>1. PICK i \in claims : (\A j \in claims : j <= i) /\ k[Len(k)] = rs[i]
    BY <1>3, <1>6
  <2>2. last = {i}
    BY <1>4, <2>1
  <2>3. SeedRoutes(rs, h)[m] = rs[CHOOSE l \in last : TRUE].owner
    BY <2>2 DEF SeedRoutes, claims
  <2>4. (CHOOSE l \in last : TRUE) = i
    BY <2>2
  <2>5. QED
    BY <1>6, <2>1, <2>3, <2>4 DEF Newest, Choice, k
<1>7. QED
  BY <1>5, <1>6

(* A hidden model is not seeded. *)
LEMMA SeedHidden ==
  ASSUME NEW rs, NEW h, NEW m \in Models, m \in h
  PROVE  SeedRoutes(rs, h)[m] = None
BY SeedOwner DEF MayOwn

(* The newest owner may own the model. *)
LEMMA NewestAble ==
  ASSUME NEW rs \in Seq(Row), NEW m \in Models, Newest(rs, m) # None
  PROVE  Newest(rs, m) \in Able(m)
<1>1. SeedRoutes(rs, {})[m] = Newest(rs, m)
  BY SeedIs
<1>2. MayOwn(Newest(rs, m), m, {})
  BY <1>1, SeedOwner
<1>3. QED
  BY <1>2 DEF MayOwn, Able

(* It depends on the rows of those that may own the model. *)
LEMMA NewestSame ==
  ASSUME NEW rs \in Seq(Row), NEW ts \in Seq(Row), NEW m, NEW K,
         ClaimsOf(m, Able(m)) \subseteq K, Kept(rs, K) = Kept(ts, K)
  PROVE  Newest(rs, m) = Newest(ts, m)
BY Fewer DEF Newest

(* Agreement but for the rows of providers that own nothing. *)
LEMMA NewestOfSame ==
  ASSUME NEW rs \in Seq(Row), NEW ts \in Seq(Row), NEW m, NEW ps,
         Same(rs, ts, ps), \A p \in ps : p \in Providers => ~On(p)
  PROVE  Newest(rs, m) = Newest(ts, m)
<1>1. ClaimsOf(m, Able(m)) \subseteq NotOf(ps)
  BY DEF ClaimsOf, NotOf, Able, Row
<1>2. QED
  BY <1>1, NewestSame DEF Same

(* Agreement on the rows of all is equality. *)
LEMMA SameAll ==
  ASSUME NEW rs \in Seq(Row), NEW ts \in Seq(Row), Same(rs, ts, {})
  PROVE  rs = ts
<1>1. NotOf({}) = Row
  BY DEF NotOf
<1>2. \A s \in Seq(Row) : Kept(s, Row) = s
  BY KeptWhole
<1>3. QED
  BY <1>1, <1>2 DEF Same

-----------------------------------------------------------------------------
\* What can be left of the reconciliation of an operation, and what it is
\* when the operation is committed.
ModelOps == {"add", "claim", "forget", "drop"}
Rebuilds == {"create", "delete", "enable", "disable", "retarget", "forget", "drop"}
Whole(op) ==
  CASE op = "create" -> <<"evict", "sync", "one">>
    [] op = "createOff" -> <<"evict", "sync">>
    [] op = "delete" -> <<"evict", "evictLive", "all">>
    [] op = "enable" -> <<"sync", "one">>
    [] op = "disable" -> <<"evictLive", "all">>
    [] op \in {"retarget", "forget", "drop"} -> <<"all">>
    [] op = "refresh" -> <<"atomic">>
    [] op \in {"add", "claim", "none"} -> <<>>
Part(op) ==
  CASE op = "create" -> {<<"sync", "one">>, <<"one">>, <<>>}
    [] op = "createOff" -> {<<"sync">>, <<>>}
    [] op = "delete" -> {<<"evictLive", "all">>, <<"all">>, <<>>}
    [] op = "enable" -> {<<"one">>, <<>>}
    [] op = "disable" -> {<<"all">>, <<>>}
    [] op \in {"retarget", "forget", "drop", "refresh"} -> {<<>>}
    [] op \in {"add", "claim", "none"} -> {}
TodoInv ==
  /\ \/ mutation.todo = Whole(mutation.op)
     \/ mutation.stage = "spawned" /\ mutation.todo \in Part(mutation.op)
     \/ mutation.op = "retarget" /\ mutation.todo = <<>>
  /\ mutation.stage = "stored" /\ mutation.op = "retarget" /\ mutation.todo = <<>> =>
       ~On(mutation.p)
  /\ mutation.op \in ModelOps => mutation.m \in Models
  /\ mutation.op = "createOff" /\ mutation.stage # "stored" => cfg[mutation.p].status = "off"

\* The rows, cached or read.
SeqInv ==
  /\ rows \in Seq(Row) /\ seeds \in Seq(Row)
  /\ \A g \in Gets : gets[g].refreshed # Failed => gets[g].refreshed \in Seq(Row)

\* A reconciliation that has yet to cache the rows of its provider.
Uncached ==
  \/ Creating /\ mutation.todo \in {<<"evict", "sync", "one">>, <<"sync", "one">>,
                                    <<"evict", "sync">>, <<"sync">>}
  \/ mutation.op = "delete" /\ mutation.todo = <<"evict", "evictLive", "all">>
StoreInv ==
  /\ Uncached => Same(seeds, rows, unread \cup {mutation.p})
  /\ ~Uncached /\ ~(mutation.op \in ModelOps /\ mutation.stage = "stored") =>
       Same(seeds, rows, unread)
  /\ mutation.op \in ModelOps /\ mutation.stage = "stored" =>
       Same(EpochSeeds(mutation.p, mutation.m), rows, unread)
  /\ mutation.op = "delete" => Kept(rows, NotOf({mutation.p})) = rows
  /\ Claiming /\ mutation.stage = "stored" =>
       rows # <<>> /\ rows[Len(rows)] = [owner |-> mutation.p, model |-> mutation.m]

-----------------------------------------------------------------------------
(* A row that is put in front of another. *)
LEMMA NewRowSplits ==
  ASSUME rows \in Seq(Row), NEW row \in Row, NEW template
  PROVE  \E a \in Seq(Row), b \in Seq(Row) :
           rows = a \o b /\ WithNewRow(row, template) = (a \o <<row>>) \o b
<1> DEFINE I == {i \in 1..Len(rows) : rows[i].model = row.model}
           claimed == SelectInSeq(rows, LAMBDA r : r.model = row.model)
<1>1. claimed = IF I # {} THEN Min(I) ELSE 0
  BY DEF SelectInSeq
<1>2. CASE template /\ claimed # 0
  <2>1. Min(I) \in I
    <3>1. I \subseteq Nat /\ I # {}
      BY <1>1, <1>2
    <3>2. PICK i \in I : \A j \in I : ~(<<j, i>> \in OpToRel(<, Nat))
      BY <3>1, WFMin, NatLessThanWellFounded
    <3>3. \A j \in I : i <= j
      <4> SUFFICES ASSUME NEW j \in I, j < i PROVE FALSE
        BY <3>1
      <4>1. i \in Nat /\ j \in Nat
        BY <3>1
      <4>2. <<j, i>> \in OpToRel(<, Nat)
        BY <4>1, Zenon DEF OpToRel
      <4>3. QED
        BY <3>2, <4>2
    <3>4. QED
      BY <3>3 DEF Min
  <2>2. PICK i \in 1..Len(rows) : i = claimed
    BY <1>1, <1>2, <2>1
  <2>3. PICK a \in Seq(Row), b \in Seq(Row) :
          a = SubSeq(rows, 1, i - 1) /\ b = SubSeq(rows, i, Len(rows))
    <3>1. SubSeq(rows, 1, i - 1) \in Seq(Row) /\ SubSeq(rows, i, Len(rows)) \in Seq(Row)
      OBVIOUS
    <3>2. QED
      BY <3>1
  <2>4. rows = a \o b
    BY <2>3
  <2>5. WithNewRow(row, template) = (a \o <<row>>) \o b
    BY <1>2, <2>2, <2>3 DEF WithNewRow, InsertAt
  <2>6. QED
    BY <2>4, <2>5
<1>3. CASE ~(template /\ claimed # 0)
  <2>1. WithNewRow(row, template) = Append(rows, row)
    BY <1>3 DEF WithNewRow
  <2>2. PICK e \in Seq(Row) : e = <<>>
    <3>1. <<>> \in Seq(Row)
      OBVIOUS
    <3>2. QED
      BY <3>1
  <2>3. rows = rows \o e /\ Append(rows, row) = (rows \o <<row>>) \o e
    BY <2>2
  <2>4. QED
    BY <2>1, <2>3
<1>4. QED
  BY <1>2, <1>3

-----------------------------------------------------------------------------
\* What the commit of an operation does.
Committed(op, p, m) ==
  /\ mutation.op = "none" /\ UNCHANGED <<cfg, routes, seeds, abandoned, unread>>
  /\ mutation'.op = op /\ mutation'.p = p /\ mutation'.m = m
  /\ IF op = "refresh" THEN mutation'.stage = "spawned" /\ gets' = ConfigBumped(gets)
     ELSE mutation'.stage = "stored" /\ gets' = gets
  /\ mutation'.todo = Whole(op) \/ (op = "retarget" /\ ~On(p) /\ mutation'.todo = <<>>)
  /\ op \in ModelOps => m \in Models
  /\ op \in {"create", "createOff"} =>
       /\ cfg[p].status = "absent"
       /\ rows' = rows \/ \E a \in Seq(Row), b \in Seq(Row), row \in Row :
            row.owner = p /\ rows = a \o b /\ rows' = (a \o <<row>>) \o b
  /\ op \in {"delete"} => rows' = NotOwnedBy(rows, p)
  /\ op \in {"add", "claim"} =>
       /\ cfg[p].status # "absent"
       /\ rows' = Append(WithoutRow(rows, p, m), [owner |-> p, model |-> m])
  /\ op \in {"forget", "drop"} => rows' = WithoutRow(rows, p, m)
  /\ op \in {"enable", "disable", "retarget", "refresh"} => rows' = rows

(* Every commit is one of these. *)
LEMMA Commits ==
  ASSUME IInv, SeqInv, Mutate
  PROVE  \E op \in Operations, p \in Providers, m \in Models \cup {None} : Committed(op, p, m)
<1> USE DEF Operations
<1>0. ASSUME NEW op, NEW p, NEW m, NEW todo, Commit(op, p, m, todo)
      PROVE  /\ mutation.op = "none" /\ UNCHANGED <<cfg, routes, seeds, gets, abandoned, unread>>
             /\ mutation'.op = op /\ mutation'.p = p /\ mutation'.m = m
             /\ mutation'.stage = "stored" /\ mutation'.todo = todo
  BY <1>0 DEF Commit, LockFree
<1>1. ASSUME NEW p \in Providers, CommitDelete(p) PROVE Committed("delete", p, None)
  BY <1>0, <1>1 DEF CommitDelete, Committed, Whole, ModelOps
<1>2. ASSUME NEW p \in Providers, CommitEnable(p) PROVE Committed("enable", p, None)
  BY <1>0, <1>2 DEF CommitEnable, Committed, Whole, ModelOps
<1>3. ASSUME NEW p \in Providers, CommitDisable(p) PROVE Committed("disable", p, None)
  BY <1>0, <1>3 DEF CommitDisable, Committed, Whole, ModelOps
<1>4. ASSUME NEW p \in Providers, CommitRetarget(p) PROVE Committed("retarget", p, None)
  <2>1. Commit("retarget", p, None, IF On(p) THEN <<"all">> ELSE <<>>) /\ UNCHANGED rows
    BY <1>4 DEF CommitRetarget
  <2>2. QED
    BY <1>0, <2>1 DEF Committed, Whole, ModelOps
<1>5. ASSUME NEW p \in Providers, NEW m \in Models, CommitClaim(p, m)
      PROVE  Committed("add", p, m) \/ Committed("claim", p, m)
  BY <1>0, <1>5 DEF CommitClaim, Committed, Whole, ModelOps
<1>6. ASSUME NEW p \in Providers, NEW m \in Models, CommitForget(p, m)
      PROVE  Committed("forget", p, m)
  BY <1>0, <1>6 DEF CommitForget, Committed, Whole, ModelOps
<1>7. ASSUME NEW p \in Providers, NEW m \in Models, CommitDrop(p, m)
      PROVE  Committed("drop", p, m)
  BY <1>0, <1>7 DEF CommitDrop, Committed, Whole, ModelOps
<1>8. ASSUME NEW p \in Providers, NEW m \in Models \cup {None}, CommitCreate(p, m)
      PROVE  Committed("create", p, m) \/ Committed("createOff", p, m)
  <2>1. \/ rows' = rows
        \/ \E a \in Seq(Row), b \in Seq(Row), row \in Row :
             row.owner = p /\ rows = a \o b /\ rows' = (a \o <<row>>) \o b
    <3>1. CASE m # None
      <4>1. PICK row, template : row = [owner |-> p, model |-> m] /\ rows' = WithNewRow(row, template)
        BY <1>8, <3>1 DEF CommitCreate
      <4>2. row \in Row /\ row.owner = p
        BY <3>1, <4>1 DEF Row
      <4>3. PICK a \in Seq(Row), b \in Seq(Row) :
              rows = a \o b /\ WithNewRow(row, template) = (a \o <<row>>) \o b
        BY <4>2, NewRowSplits DEF SeqInv
      <4>4. QED
        BY <4>1, <4>2, <4>3
    <3>2. QED
      BY <1>8, <3>1 DEF CommitCreate
  <2>2. CASE Commit("create", p, m, <<"evict", "sync", "one">>)
    BY <1>0, <1>8, <2>1, <2>2 DEF CommitCreate, Committed, Whole, ModelOps
  <2>3. CASE Commit("createOff", p, m, <<"evict", "sync">>)
    BY <1>0, <1>8, <2>1, <2>3 DEF CommitCreate, Committed, Whole, ModelOps
  <2>4. QED
    BY <1>8, <2>2, <2>3 DEF CommitCreate
<1>9. ASSUME NEW p \in Providers, StartRefresh(p) PROVE Committed("refresh", p, None)
  BY <1>9 DEF StartRefresh, LockFree, Committed, Whole, ModelOps
<1>10. CASE \E p \in Providers : CommitDelete(p) \/ CommitEnable(p) \/ CommitDisable(p)
                                 \/ CommitRetarget(p) \/ StartRefresh(p)
  BY <1>1, <1>2, <1>3, <1>4, <1>9, <1>10
<1>11. CASE \E p \in Providers, m \in Models :
              CommitClaim(p, m) \/ CommitForget(p, m) \/ CommitDrop(p, m)
  BY <1>5, <1>6, <1>7, <1>11
<1>12. CASE \E p \in Providers, m \in Models \cup {None} : CommitCreate(p, m)
  BY <1>8, <1>12
<1>13. QED
  BY <1>10, <1>11, <1>12 DEF Mutate

(* The lists of steps, taken apart. *)
LEMMA Lists ==
  /\ Head(<<"evict", "sync", "one">>) = "evict"
  /\ Tail(<<"evict", "sync", "one">>) = <<"sync", "one">>
  /\ Head(<<"evict", "sync">>) = "evict" /\ Tail(<<"evict", "sync">>) = <<"sync">>
  /\ Head(<<"evict", "evictLive", "all">>) = "evict"
  /\ Tail(<<"evict", "evictLive", "all">>) = <<"evictLive", "all">>
  /\ Head(<<"evictLive", "all">>) = "evictLive" /\ Tail(<<"evictLive", "all">>) = <<"all">>
  /\ Head(<<"sync", "one">>) = "sync" /\ Tail(<<"sync", "one">>) = <<"one">>
  /\ Head(<<"sync">>) = "sync" /\ Tail(<<"sync">>) = <<>>
  /\ Head(<<"one">>) = "one" /\ Tail(<<"one">>) = <<>>
  /\ Head(<<"all">>) = "all" /\ Tail(<<"all">>) = <<>>
  /\ Head(<<"atomic">>) = "atomic" /\ Tail(<<"atomic">>) = <<>>
OBVIOUS

(* How long they are, which tells them apart. *)
LEMMA ListsDiffer ==
  /\ Len(<<"evict", "sync", "one">>) = 3 /\ Len(<<"evict", "evictLive", "all">>) = 3
  /\ Len(<<"evict", "sync">>) = 2 /\ Len(<<"sync", "one">>) = 2
  /\ Len(<<"evictLive", "all">>) = 2
  /\ Len(<<"sync">>) = 1 /\ Len(<<"one">>) = 1 /\ Len(<<"all">>) = 1
  /\ Len(<<"atomic">>) = 1 /\ Len(<<>>) = 0
OBVIOUS

(* What a step of the reconciliation is, by the operation, and what it leaves. *)
LEMMA StepIs ==
  ASSUME IInv, TodoInv, NEW step, Doing(step), StepDone
  PROVE  /\ mutation.stage = "spawned" /\ mutation'.stage = "spawned"
         /\ mutation'.op = mutation.op /\ mutation'.p = mutation.p /\ mutation'.m = mutation.m
         /\ mutation'.todo \in Part(mutation.op)
         /\ step = "evict" => /\ mutation.op \in {"create", "createOff", "delete"}
                              /\ Uncached /\ (Creating <=> Uncached')
         /\ step = "evictLive" => mutation.op \in {"delete", "disable"} /\ ~Uncached /\ ~Uncached'
         /\ step = "sync" => /\ mutation.op \in {"create", "createOff", "enable"}
                             /\ (Creating <=> Uncached) /\ ~Uncached'
         /\ step \in {"one", "all"} => mutation.op \in Rebuilds /\ ~Uncached /\ ~Uncached'
         /\ step = "atomic" => mutation.op = "refresh" /\ ~Uncached /\ ~Uncached'
         /\ mutation'.todo = <<>> =>
              step \in {"one", "all", "atomic"} \/ (step = "sync" /\ mutation.op = "createOff")
<1>1. /\ mutation.stage = "spawned" /\ mutation.todo # <<>> /\ Head(mutation.todo) = step
      /\ mutation' = [mutation EXCEPT !.todo = Tail(@)]
  BY DEF Doing, StepDone
<1>2. /\ mutation'.stage = "spawned" /\ mutation'.todo = Tail(mutation.todo)
      /\ mutation'.op = mutation.op /\ mutation'.p = mutation.p /\ mutation'.m = mutation.m
  BY <1>1 DEF IInv, Fields, MutFields
<1>3. PICK op, todo, rest : op = mutation.op /\ todo = mutation.todo /\ rest = mutation'.todo
  OBVIOUS
<1>4. /\ todo = Whole(op) \/ todo \in Part(op) \/ (op = "retarget" /\ todo = <<>>)
      /\ todo # <<>> /\ Head(todo) = step /\ rest = Tail(todo)
      /\ op \in Operations \cup {"none"}
  BY <1>1, <1>2, <1>3 DEF TodoInv, IInv, MutInv
<1>5. Uncached <=>
       \/ op \in {"create", "createOff"} /\
          todo \in {<<"evict", "sync", "one">>, <<"sync", "one">>, <<"evict", "sync">>, <<"sync">>}
       \/ op = "delete" /\ todo = <<"evict", "evictLive", "all">>
  BY <1>3 DEF Uncached, Creating
<1>6. Uncached' <=>
       \/ op \in {"create", "createOff"} /\
          rest \in {<<"evict", "sync", "one">>, <<"sync", "one">>, <<"evict", "sync">>, <<"sync">>}
       \/ op = "delete" /\ rest = <<"evict", "evictLive", "all">>
  BY <1>2, <1>3 DEF Uncached, Creating
<1>7. Creating <=> op \in {"create", "createOff"}
  BY <1>3 DEF Creating
<1> DEFINE Goal ==
         /\ rest \in Part(op)
         /\ step = "evict" => /\ op \in {"create", "createOff", "delete"}
                              /\ Uncached /\ (Creating <=> Uncached')
         /\ step = "evictLive" => op \in {"delete", "disable"} /\ ~Uncached /\ ~Uncached'
         /\ step = "sync" => /\ op \in {"create", "createOff", "enable"}
                             /\ (Creating <=> Uncached) /\ ~Uncached'
         /\ step \in {"one", "all"} => op \in Rebuilds /\ ~Uncached /\ ~Uncached'
         /\ step = "atomic" => op = "refresh" /\ ~Uncached /\ ~Uncached'
         /\ rest = <<>> =>
              step \in {"one", "all", "atomic"} \/ (step = "sync" /\ op = "createOff")
<1> SUFFICES Goal
  BY <1>1, <1>2, <1>3
<1>8. CASE op = "create"
  <2>1. todo \in {<<"evict", "sync", "one">>, <<"sync", "one">>, <<"one">>}
        /\ Part(op) = {<<"sync", "one">>, <<"one">>, <<>>}
    BY <1>4, <1>8 DEF Whole, Part
  <2>2. CASE todo = <<"evict", "sync", "one">>
    <3>1. step = "evict" /\ rest = <<"sync", "one">>
      BY <1>4, <2>2, Lists
    <3>2. Uncached
      BY <1>5, <1>8, <2>2, ListsDiffer
    <3>3. Uncached'
      BY <1>6, <1>8, <3>1, ListsDiffer
    <3>4. rest # <<>>
      BY <3>1, ListsDiffer
    <3>5. QED
      BY <1>7, <1>8, <2>1, <3>1, <3>2, <3>3, <3>4 DEF Rebuilds
  <2>3. CASE todo = <<"sync", "one">>
    <3>1. step = "sync" /\ rest = <<"one">>
      BY <1>4, <2>3, Lists
    <3>2. Uncached
      BY <1>5, <1>8, <2>3, ListsDiffer
    <3>3. ~Uncached'
      BY <1>6, <1>8, <3>1, ListsDiffer
    <3>4. rest # <<>>
      BY <3>1, ListsDiffer
    <3>5. QED
      BY <1>7, <1>8, <2>1, <3>1, <3>2, <3>3, <3>4 DEF Rebuilds
  <2>4. CASE todo = <<"one">>
    <3>1. step = "one" /\ rest = <<>>
      BY <1>4, <2>4, Lists
    <3>2. ~Uncached
      BY <1>5, <1>8, <2>4, ListsDiffer
    <3>3. ~Uncached'
      BY <1>6, <1>8, <3>1, ListsDiffer
    <3>5. QED
      BY <1>7, <1>8, <2>1, <3>1, <3>2, <3>3 DEF Rebuilds
  <2>5. QED
    BY <2>1, <2>2, <2>3, <2>4
<1>9. CASE op = "createOff"
  <2>1. todo \in {<<"evict", "sync">>, <<"sync">>}
        /\ Part(op) = {<<"sync">>, <<>>}
    BY <1>4, <1>9 DEF Whole, Part
  <2>2. CASE todo = <<"evict", "sync">>
    <3>1. step = "evict" /\ rest = <<"sync">>
      BY <1>4, <2>2, Lists
    <3>2. Uncached
      BY <1>5, <1>9, <2>2, ListsDiffer
    <3>3. Uncached'
      BY <1>6, <1>9, <3>1, ListsDiffer
    <3>4. rest # <<>>
      BY <3>1, ListsDiffer
    <3>5. QED
      BY <1>7, <1>9, <2>1, <3>1, <3>2, <3>3, <3>4 DEF Rebuilds
  <2>3. CASE todo = <<"sync">>
    <3>1. step = "sync" /\ rest = <<>>
      BY <1>4, <2>3, Lists
    <3>2. Uncached
      BY <1>5, <1>9, <2>3, ListsDiffer
    <3>3. ~Uncached'
      BY <1>6, <1>9, <3>1, ListsDiffer
    <3>5. QED
      BY <1>7, <1>9, <2>1, <3>1, <3>2, <3>3 DEF Rebuilds
  <2>4. QED
    BY <2>1, <2>2, <2>3
<1>10. CASE op = "delete"
  <2>1. todo \in {<<"evict", "evictLive", "all">>, <<"evictLive", "all">>, <<"all">>}
        /\ Part(op) = {<<"evictLive", "all">>, <<"all">>, <<>>}
    BY <1>4, <1>10 DEF Whole, Part
  <2>2. CASE todo = <<"evict", "evictLive", "all">>
    <3>1. step = "evict" /\ rest = <<"evictLive", "all">>
      BY <1>4, <2>2, Lists
    <3>2. Uncached
      BY <1>5, <1>10, <2>2, ListsDiffer
    <3>3. ~Uncached'
      BY <1>6, <1>10, <3>1, ListsDiffer
    <3>4. rest # <<>>
      BY <3>1, ListsDiffer
    <3>5. QED
      BY <1>7, <1>10, <2>1, <3>1, <3>2, <3>3, <3>4 DEF Rebuilds
  <2>3. CASE todo = <<"evictLive", "all">>
    <3>1. step = "evictLive" /\ rest = <<"all">>
      BY <1>4, <2>3, Lists
    <3>2. ~Uncached
      BY <1>5, <1>10, <2>3, ListsDiffer
    <3>3. ~Uncached'
      BY <1>6, <1>10, <3>1, ListsDiffer
    <3>4. rest # <<>>
      BY <3>1, ListsDiffer
    <3>5. QED
      BY <1>7, <1>10, <2>1, <3>1, <3>2, <3>3, <3>4 DEF Rebuilds
  <2>4. CASE todo = <<"all">>
    <3>1. step = "all" /\ rest = <<>>
      BY <1>4, <2>4, Lists
    <3>2. ~Uncached
      BY <1>5, <1>10, <2>4, ListsDiffer
    <3>3. ~Uncached'
      BY <1>6, <1>10, <3>1, ListsDiffer
    <3>5. QED
      BY <1>7, <1>10, <2>1, <3>1, <3>2, <3>3 DEF Rebuilds
  <2>5. QED
    BY <2>1, <2>2, <2>3, <2>4
<1>11. CASE op = "enable"
  <2>1. todo \in {<<"sync", "one">>, <<"one">>}
        /\ Part(op) = {<<"one">>, <<>>}
    BY <1>4, <1>11 DEF Whole, Part
  <2>2. CASE todo = <<"sync", "one">>
    <3>1. step = "sync" /\ rest = <<"one">>
      BY <1>4, <2>2, Lists
    <3>2. ~Uncached
      BY <1>5, <1>11, <2>2, ListsDiffer
    <3>3. ~Uncached'
      BY <1>6, <1>11, <3>1, ListsDiffer
    <3>4. rest # <<>>
      BY <3>1, ListsDiffer
    <3>5. QED
      BY <1>7, <1>11, <2>1, <3>1, <3>2, <3>3, <3>4 DEF Rebuilds
  <2>3. CASE todo = <<"one">>
    <3>1. step = "one" /\ rest = <<>>
      BY <1>4, <2>3, Lists
    <3>2. ~Uncached
      BY <1>5, <1>11, <2>3, ListsDiffer
    <3>3. ~Uncached'
      BY <1>6, <1>11, <3>1, ListsDiffer
    <3>5. QED
      BY <1>7, <1>11, <2>1, <3>1, <3>2, <3>3 DEF Rebuilds
  <2>4. QED
    BY <2>1, <2>2, <2>3
<1>12. CASE op = "disable"
  <2>1. todo \in {<<"evictLive", "all">>, <<"all">>}
        /\ Part(op) = {<<"all">>, <<>>}
    BY <1>4, <1>12 DEF Whole, Part
  <2>2. CASE todo = <<"evictLive", "all">>
    <3>1. step = "evictLive" /\ rest = <<"all">>
      BY <1>4, <2>2, Lists
    <3>2. ~Uncached
      BY <1>5, <1>12, <2>2, ListsDiffer
    <3>3. ~Uncached'
      BY <1>6, <1>12, <3>1, ListsDiffer
    <3>4. rest # <<>>
      BY <3>1, ListsDiffer
    <3>5. QED
      BY <1>7, <1>12, <2>1, <3>1, <3>2, <3>3, <3>4 DEF Rebuilds
  <2>3. CASE todo = <<"all">>
    <3>1. step = "all" /\ rest = <<>>
      BY <1>4, <2>3, Lists
    <3>2. ~Uncached
      BY <1>5, <1>12, <2>3, ListsDiffer
    <3>3. ~Uncached'
      BY <1>6, <1>12, <3>1, ListsDiffer
    <3>5. QED
      BY <1>7, <1>12, <2>1, <3>1, <3>2, <3>3 DEF Rebuilds
  <2>4. QED
    BY <2>1, <2>2, <2>3
<1>13. CASE op \in {"retarget", "forget", "drop"}
  <2>1. todo = <<"all">> /\ Part(op) = {<<>>}
    BY <1>4, <1>13 DEF Whole, Part
  <2>2. QED
    BY <1>4, <1>5, <1>6, <1>7, <1>13, <2>1, Lists, ListsDiffer DEF Rebuilds
<1>14. CASE op = "refresh"
  <2>1. todo = <<"atomic">> /\ Part(op) = {<<>>}
    BY <1>4, <1>14 DEF Whole, Part
  <2>2. QED
    BY <1>4, <1>5, <1>6, <1>7, <1>14, <2>1, Lists, ListsDiffer
<1>15. CASE op \in {"add", "claim", "none"}
  BY <1>4, <1>15 DEF Whole, Part
<1>16. QED
  BY <1>4, <1>8, <1>9, <1>10, <1>11, <1>12, <1>13, <1>14, <1>15 DEF Operations

-----------------------------------------------------------------------------
ProvInv ==
  /\ unread \subseteq Providers /\ abandoned \subseteq Providers
  /\ \A g \in Gets : gets[g].passedBy \subseteq Providers

\* A commit is known to no discovery that has read before.
Unseen == mutation.stage \in {"stored", "applied"}
HasRead(g) == gets[g].current /\ gets[g].phase \in {"seeded", "merged"}
ReadAt(g) == HasRead(g) /\ gets[g].refreshed # Failed =>
  /\ ~Unseen => Same(gets[g].refreshed, rows, gets[g].passedBy)
  /\ Unseen /\ Creating => Same(gets[g].refreshed, rows, gets[g].passedBy \cup {mutation.p})
ReadInv == \A g \in Gets : ReadAt(g)

\* A discovery that was told of everything has found the newest owners.
Fresh(g) ==
  /\ HasRead(g) /\ gets[g].passedBy = {}
  /\ gets[g].refreshed = Failed => gets[g].seedsCurrent
FoundAt(g) == ~Unseen /\ Fresh(g) =>
  \A m \in Models \ GloballyDisabled :
    LET newest == Newest(RowsOr(gets[g].refreshed), m)
    IN newest # None => gets[g].found[m] = newest
FoundInv == \A g \in Gets : FoundAt(g)

UnreadInv == \A p \in unread :
  \/ p \in abandoned \/ ~On(p)
  \/ mutation.op \in {"create", "enable"} /\ mutation.p = p /\ mutation.todo # <<>>

\* A model is routed to its newest owner, unless a rebuild is still to come.
StillToClaim(m) == Claiming /\ mutation.stage = "stored" /\ mutation.m = m /\ On(mutation.p)
Routed(m) == LET newest == Newest(rows, m) IN
  newest # None =>
    \/ routes[m] = newest
    \/ routes[m] = None /\ (m \in GloballyDisabled \/ ClaimedSwitchedOff(m))
    \/ StillToClaim(m)
NoRebuild == abandoned = {} /\ ~(mutation.op \in Rebuilds /\ mutation.todo # <<>>)
ClaimInv == NoRebuild => \A m \in Models : Routed(m)

-----------------------------------------------------------------------------
(* What a discovery has read stays, whatever it is told. *)
LEMMA BumpsRead ==
  ASSUME GetFields, NEW p, NEW gs,
         gs \in {gets, ConfigBumped(gets), SeedsBumped(gets), PassedBy(gets, p)}
  PROVE  /\ DOMAIN gs = Gets
         /\ \A g \in Gets :
              /\ gs[g].phase = gets[g].phase /\ gs[g].refreshed = gets[g].refreshed
              /\ gs[g].found = gets[g].found
              /\ gs[g].current => gets[g].current
              /\ gs[g].seedsCurrent => gets[g].seedsCurrent
              /\ gs[g].passedBy \in {gets[g].passedBy, gets[g].passedBy \cup {p}}
              /\ gs = gets \/ gs = ConfigBumped(gets) \/ gs = SeedsBumped(gets) =>
                   gs[g].passedBy = gets[g].passedBy
              /\ gs = ConfigBumped(gets) => ~gs[g].current
              /\ gs = SeedsBumped(gets) => ~gs[g].seedsCurrent
              /\ gs = PassedBy(gets, p) => gs[g].passedBy = gets[g].passedBy \cup {p}
<1> DEFINE A == ConfigBumped(gets)  B == SeedsBumped(gets)  C == PassedBy(gets, p)
<1>1. DOMAIN gets = Gets /\ \A g \in Gets : DOMAIN gets[g] = GetKeys
  BY DEF GetFields
<1>2. /\ DOMAIN A = Gets /\ DOMAIN B = Gets /\ DOMAIN C = Gets
      /\ \A g \in Gets : /\ A[g] = [gets[g] EXCEPT !.current = FALSE]
                         /\ B[g] = [gets[g] EXCEPT !.seedsCurrent = FALSE]
                         /\ C[g] = [gets[g] EXCEPT !.passedBy = @ \cup {p}]
  BY DEF ConfigBumped, SeedsBumped, PassedBy
<1> HIDE DEF A, B, C
<1>3. ASSUME NEW g \in Gets
      PROVE  /\ \A r \in {A[g], B[g], C[g]} :
                  /\ r.phase = gets[g].phase /\ r.refreshed = gets[g].refreshed
                  /\ r.found = gets[g].found
                  /\ r.current => gets[g].current
                  /\ r.seedsCurrent => gets[g].seedsCurrent
             /\ ~A[g].current /\ A[g].passedBy = gets[g].passedBy
             /\ ~B[g].seedsCurrent /\ B[g].passedBy = gets[g].passedBy
             /\ C[g].passedBy = gets[g].passedBy \cup {p}
  BY <1>1, <1>2 DEF GetKeys
<1>4. gs \in {gets, A, B, C}
  BY DEF A, B, C
<1>5. ASSUME NEW g \in Gets
      PROVE  /\ gs[g].phase = gets[g].phase /\ gs[g].refreshed = gets[g].refreshed
             /\ gs[g].found = gets[g].found
             /\ gs[g].current => gets[g].current
             /\ gs[g].seedsCurrent => gets[g].seedsCurrent
             /\ gs[g].passedBy \in {gets[g].passedBy, gets[g].passedBy \cup {p}}
             /\ gs = gets \/ gs = A \/ gs = B => gs[g].passedBy = gets[g].passedBy
             /\ gs = A => ~gs[g].current
             /\ gs = B => ~gs[g].seedsCurrent
             /\ gs = C => gs[g].passedBy = gets[g].passedBy \cup {p}
  <2>1. gs[g] = gets[g] \/ gs[g] = A[g] \/ gs[g] = B[g] \/ gs[g] = C[g]
    BY <1>4
  <2>2. /\ gs[g].phase = gets[g].phase /\ gs[g].refreshed = gets[g].refreshed
        /\ gs[g].found = gets[g].found
        /\ gs[g].current => gets[g].current
        /\ gs[g].seedsCurrent => gets[g].seedsCurrent
    <3>1. CASE gs[g] = gets[g]
      BY <3>1
    <3>2. CASE gs[g] # gets[g]
      <4>1. PICK r \in {A[g], B[g], C[g]} : r = gs[g]
        BY <2>1, <3>2
      <4>2. QED
        BY <1>3, <4>1
    <3>3. QED
      BY <3>1, <3>2
  <2>3. gs[g].passedBy \in {gets[g].passedBy, gets[g].passedBy \cup {p}}
    BY <1>3, <2>1
  <2>4. gs = gets \/ gs = A \/ gs = B => gs[g].passedBy = gets[g].passedBy
    BY <1>3
  <2>5. gs = A => ~gs[g].current
    BY <1>3
  <2>6. gs = B => ~gs[g].seedsCurrent
    BY <1>3
  <2>7. gs = C => gs[g].passedBy = gets[g].passedBy \cup {p}
    BY <1>3
  <2>8. QED
    BY <2>2, <2>3, <2>4, <2>5, <2>6, <2>7
<1>6. QED
  BY <1>1, <1>2, <1>4, <1>5 DEF A, B, C

(* What the rows of a read stand for when it has failed. *)
LEMMA ReadRows ==
  ASSUME SeqInv, NEW read, read = Failed \/ read \in Seq(Row)
  PROVE  /\ RowsOr(read) \in Seq(Row)
         /\ read # Failed => RowsOr(read) = read
         /\ read = Failed => RowsOr(read) = seeds
BY DEF SeqInv, RowsOr

(* What the caching of a read does. *)
LEMMA Caches ==
  ASSUME SeqInv, NEW read \in {rows, Failed}, CacheRows(read)
  PROVE  /\ seeds' \in Seq(Row)
         /\ \/ /\ seeds' = rows /\ unread' = {} /\ gets' = SeedsBumped(gets)
            \/ /\ seeds' = seeds /\ gets' = gets
               /\ unread' = IF Creating THEN unread \cup {mutation.p} ELSE unread
BY DEF CacheRows, RowsOr, SeqInv, Creating

(* The rows that a commit leaves. *)
LEMMA CommittedRows ==
  ASSUME SeqInv, NEW op \in Operations, NEW p \in Providers, NEW m \in Models \cup {None},
         Committed(op, p, m)
  PROVE  rows' \in Seq(Row)
<1>1. rows \in Seq(Row)
  BY DEF SeqInv
<1>2. NotOwnedBy(rows, p) \in Seq(Row) /\ WithoutRow(rows, p, m) \in Seq(Row)
  BY <1>1, KeptType DEF NotOwnedBy, WithoutRow
<1>3. CASE op \in {"create", "createOff"}
  <2>1. SUFFICES ASSUME NEW a \in Seq(Row), NEW b \in Seq(Row), NEW row \in Row,
                        rows' = (a \o <<row>>) \o b
                 PROVE  rows' \in Seq(Row)
    BY <1>1, <1>3 DEF Committed
  <2>2. QED
    BY <2>1
<1>4. CASE op \in {"add", "claim"}
  <2>1. [owner |-> p, model |-> m] \in Row
    BY <1>4 DEF Committed, ModelOps, Row
  <2>2. QED
    BY <1>2, <1>4, <2>1 DEF Committed
<1>5. QED
  BY <1>1, <1>2, <1>3, <1>4 DEF Committed, Operations

(* The cached copy that a route epoch publishes holds rows. *)
LEMMA EpochSeedsType ==
  ASSUME SeqInv, NEW p \in Providers, NEW m \in Models
  PROVE  EpochSeeds(p, m) \in Seq(Row)
<1>1. WithoutRow(seeds, p, m) \in Seq(Row)
  BY KeptType DEF SeqInv, WithoutRow
<1>2. [owner |-> p, model |-> m] \in Row
  BY DEF Row
<1>3. QED
  BY <1>1, <1>2 DEF EpochSeeds

Base == IInv /\ TodoInv /\ SeqInv /\ ProvInv

\* A step of one discovery that publishes nothing.
Looks(g) ==
  \/ Request(g) \/ ReadRevision(g) \/ ListProviders(g) \/ ReadSeeds(g)
  \/ MergeCatalogs(g) \/ Discard(g) \/ Hangup(g)

\* A step of the reconciliation that asks for catalogs: what it published.
Rebuilding(read, fetch, catalogs) ==
  /\ read \in {rows, Failed} /\ fetch \in SUBSET Providers /\ catalogs \in Catalogs(fetch)
  /\ SetRoutes(Rebuilt(read, fetch, catalogs)) /\ CacheRows(read)
  /\ abandoned' = unread' /\ UNCHANGED <<cfg, rows>>

-----------------------------------------------------------------------------
(* A discovery's own step changes nothing but its record. *)
LEMMA LooksAt ==
  ASSUME IInv, NEW g \in Gets, Looks(g)
  PROVE  /\ UNCHANGED <<cfg, rows, routes, origin, seeds, mutation, abandoned, unread>>
         /\ \A h \in Gets : h # g => gets'[h] = gets[h]
         /\ gets'[g].passedBy \in {{}, gets[g].passedBy}
         /\ gets'[g].refreshed \in {gets[g].refreshed, <<>>, rows, Failed}
         /\ gets'[g].phase \in {"seeded", "merged"} =>
              /\ gets'[g].passedBy = gets[g].passedBy /\ gets'[g].current = gets[g].current
              /\ \/ /\ gets[g].phase = "seeded" /\ gets'[g].refreshed = gets[g].refreshed
                    /\ gets'[g].seedsCurrent = gets[g].seedsCurrent
                    /\ \A m \in Models : gets[g].found[m] # None =>
                                           gets'[g].found[m] = gets[g].found[m]
                 \/ /\ gets[g].phase = "listed" /\ gets'[g].refreshed \in {rows, Failed}
                    /\ gets'[g].found = SeedRoutes(RowsOr(gets'[g].refreshed), gets[g].hidden)
<1>1. DOMAIN gets[g] = GetKeys /\ DOMAIN gets = Gets
  BY DEF IInv, Fields, GetFields
<1>2. ASSUME NEW from, NEW to, Step(g, from, to)
      PROVE  /\ UNCHANGED <<cfg, rows, routes, origin, seeds, mutation, abandoned, unread>>
             /\ \A h \in Gets : h # g => gets'[h] = gets[h]
             /\ gets'[g] = to /\ gets[g].phase = from
  BY <1>1, <1>2 DEF Step
<1>3. CASE Request(g) \/ Discard(g) \/ Hangup(g)
  <2>1. PICK from, to : /\ Step(g, from, to) /\ to.phase \in {"idle", "start"}
                        /\ to.refreshed = <<>> /\ to.passedBy = {}
    <3>0. ASSUME NEW from, NEW to, Step(g, from, to), to.phase \in {"idle", "start"},
                 to.refreshed = <<>>, to.passedBy = {}
          PROVE  \E f, t : /\ Step(g, f, t) /\ t.phase \in {"idle", "start"}
                           /\ t.refreshed = <<>> /\ t.passedBy = {}
      BY <3>0
    <3>1. CASE Request(g)
      <4> DEFINE to == [Idle EXCEPT !.phase = "start", !.tries = 1]
      <4>1. to.phase = "start" /\ to.refreshed = <<>> /\ to.passedBy = {}
        BY DEF Idle
      <4>2. Step(g, "idle", to)
        BY <3>1 DEF Request
      <4> HIDE DEF to
      <4>3. QED
        BY <3>0, <4>1, <4>2
    <3>2. CASE Discard(g)
      <4>1. /\ Retried(g).phase \in {"idle", "start"} /\ Retried(g).refreshed = <<>>
            /\ Retried(g).passedBy = {}
        BY DEF Retried, Idle
      <4>2. Step(g, "merged", Retried(g))
        BY <3>2 DEF Discard
      <4>3. QED
        BY <3>0, <4>1, <4>2
    <3>3. CASE Hangup(g)
      <4>1. Idle.phase = "idle" /\ Idle.refreshed = <<>> /\ Idle.passedBy = {}
        BY DEF Idle
      <4>2. Step(g, gets[g].phase, Idle)
        BY <3>3 DEF Hangup
      <4>3. QED
        BY <3>0, <4>1, <4>2
    <3>4. QED
      BY <1>3, <3>1, <3>2, <3>3
  <2>2. QED
    BY <1>2, <2>1
<1>4. CASE ReadRevision(g)
  <2>1. PICK to : /\ Step(g, "start", to) /\ to.phase = "snapshot"
                  /\ to.refreshed = gets[g].refreshed /\ to.passedBy = {}
    <3> DEFINE to == [gets[g] EXCEPT !.phase = "snapshot", !.current = TRUE, !.passedBy = {}]
    <3>1. Step(g, "start", to)
      BY <1>4 DEF ReadRevision
    <3>2. to.phase = "snapshot" /\ to.refreshed = gets[g].refreshed /\ to.passedBy = {}
      BY <1>1 DEF GetKeys
    <3> HIDE DEF to
    <3>3. QED
      BY <3>1, <3>2
  <2>2. QED
    BY <1>2, <2>1
<1>5. CASE ListProviders(g)
  <2>1. PICK to : /\ Step(g, "snapshot", to) /\ to.phase = "listed"
                  /\ to.refreshed = gets[g].refreshed /\ to.passedBy = gets[g].passedBy
    <3> DEFINE listed == [p \in Providers |-> IF On(p) THEN cfg[p].ident + 1 ELSE 0]
               manual == [p \in Providers |-> IF On(p) THEN cfg[p].catalog ELSE {}]
               to == [gets[g] EXCEPT !.phase = "listed", !.hidden = GloballyDisabled,
                        !.listed = listed, !.manual = manual]
    <3>1. Step(g, "snapshot", to)
      BY <1>5 DEF ListProviders
    <3> HIDE DEF listed, manual
    <3>2. /\ to.phase = "listed"
          /\ to.refreshed = gets[g].refreshed /\ to.passedBy = gets[g].passedBy
      BY <1>1 DEF GetKeys
    <3> HIDE DEF to
    <3>3. QED
      BY <3>1, <3>2
  <2>2. QED
    BY <1>2, <2>1
<1>6. CASE ReadSeeds(g)
  <2>1. PICK to :
          /\ Step(g, "listed", to) /\ to.phase = "seeded" /\ to.refreshed \in {rows, Failed}
          /\ to.passedBy = gets[g].passedBy /\ to.current = gets[g].current
          /\ to.found = SeedRoutes(RowsOr(to.refreshed), gets[g].hidden)
    <3>1. PICK read \in {rows, Failed} :
            LET base == SeedRoutes(RowsOr(read), gets[g].hidden) IN
            Step(g, "listed",
                 [gets[g] EXCEPT !.phase = "seeded", !.refreshed = read,
                    !.seedsCurrent = TRUE, !.found = base, !.learned = IdentityOf(base)])
      BY <1>6 DEF ReadSeeds
    <3> DEFINE base == SeedRoutes(RowsOr(read), gets[g].hidden)
               learned == IdentityOf(base)
               to == [gets[g] EXCEPT !.phase = "seeded", !.refreshed = read,
                        !.seedsCurrent = TRUE, !.found = base, !.learned = learned]
    <3>2. Step(g, "listed", to)
      BY <3>1
    <3> HIDE DEF base, learned
    <3>3. /\ to.phase = "seeded" /\ to.refreshed = read
          /\ to.passedBy = gets[g].passedBy /\ to.current = gets[g].current
          /\ to.found = base
      BY <1>1 DEF GetKeys
    <3> HIDE DEF to
    <3>4. to.found = SeedRoutes(RowsOr(to.refreshed), gets[g].hidden)
      BY <3>3 DEF base
    <3>5. QED
      BY <3>2, <3>3, <3>4
  <2>2. QED
    BY <1>2, <2>1
<1>7. CASE MergeCatalogs(g)
  <2>1. PICK to : /\ Step(g, "seeded", to) /\ to.phase = "merged"
                  /\ to.refreshed = gets[g].refreshed /\ to.passedBy = gets[g].passedBy
                  /\ to.current = gets[g].current /\ to.seedsCurrent = gets[g].seedsCurrent
                  /\ \A m \in Models : gets[g].found[m] # None => to.found[m] = gets[g].found[m]
    <3>1. PICK catalogs \in Catalogs(Listed(g)) :
            LET offers == [p \in Listed(g) |-> Fetched(catalogs)[p] \cup gets[g].manual[p]]
                found == Discovered(gets[g].found, offers, gets[g].hidden)
            IN
            Step(g, "seeded",
                 [gets[g] EXCEPT !.phase = "merged", !.found = found,
                    !.learned = [m \in Models |->
                                   IF found[m] = gets[g].found[m] THEN @[m]
                                   ELSE gets[g].listed[found[m]] - 1],
                    !.advertised = {m \in Models :
                                      found[m] \in Offering(m, offers, gets[g].hidden)},
                    !.failed = {p \in Listed(g) : catalogs[p] = Failed},
                    !.nothing = \E p \in Listed(g) : On(p) /\ catalogs[p] = Failed])
      BY <1>7 DEF MergeCatalogs
    <3> DEFINE offers == [p \in Listed(g) |-> Fetched(catalogs)[p] \cup gets[g].manual[p]]
               found == Discovered(gets[g].found, offers, gets[g].hidden)
               learned == [m \in Models |-> IF found[m] = gets[g].found[m]
                                            THEN gets[g].learned[m]
                                            ELSE gets[g].listed[found[m]] - 1]
               advertised == {m \in Models : found[m] \in Offering(m, offers, gets[g].hidden)}
               failed == {p \in Listed(g) : catalogs[p] = Failed}
               nothing == \E p \in Listed(g) : On(p) /\ catalogs[p] = Failed
               to == [gets[g] EXCEPT !.phase = "merged", !.found = found, !.learned = learned,
                        !.advertised = advertised, !.failed = failed, !.nothing = nothing]
    <3>2. Step(g, "seeded", to)
      BY <1>1, <3>1 DEF GetKeys
    <3>3. \A m \in Models : gets[g].found[m] # None => found[m] = gets[g].found[m]
      BY DEF Discovered
    <3> HIDE DEF found, learned, advertised, failed, nothing
    <3>4. /\ to.phase = "merged" /\ to.found = found
          /\ to.refreshed = gets[g].refreshed /\ to.passedBy = gets[g].passedBy
          /\ to.current = gets[g].current /\ to.seedsCurrent = gets[g].seedsCurrent
      BY <1>1 DEF GetKeys
    <3> HIDE DEF to
    <3>5. QED
      BY <3>2, <3>3, <3>4
  <2>2. QED
    BY <1>2, <2>1
<1>8. QED
  BY <1>3, <1>4, <1>5, <1>6, <1>7 DEF Looks

(* What the end of a discovery changes. *)
LEMMA Ends ==
  ASSUME IInv, NEW g \in Gets, Fail(g) \/ Publish(g)
  PROVE  /\ gets[g].phase = "merged" /\ gets[g].current /\ LockFree
         /\ UNCHANGED <<cfg, rows, mutation>>
         /\ \E gs \in {gets, SeedsBumped(gets)} :
              /\ gets' = [gs EXCEPT ![g] = Idle]
              /\ gets[g].refreshed # Failed => gs = SeedsBumped(gets)
         /\ IF gets[g].refreshed = Failed THEN seeds' = seeds /\ unread' = unread
            ELSE seeds' = gets[g].refreshed /\ unread' = gets[g].passedBy
BY DEF Fail, Publish, StillCurrent, RowsOr

(* The steps that end with a rebuilt route map. *)
LEMMA Rebuilds1 ==
  ASSUME IInv, TodoInv, ReconcileRefetch
  PROVE  \E step \in {"one", "all"} : /\ Doing(step) /\ StepDone
                                      /\ \E read, fetch, catalogs : Rebuilding(read, fetch, catalogs)
<1>1. PICK step \in {"one", "all"} : Doing(step) /\ StepDone
  BY DEF ReconcileRefetch
<1> DEFINE fetch == {p \in Providers : On(p) /\ (Doing("one") => p = mutation.p)}
<1>2. PICK read \in {rows, Failed}, catalogs \in Catalogs(fetch) :
        /\ SetRoutes(Rebuilt(read, fetch, catalogs)) /\ CacheRows(read)
        /\ abandoned' = unread' /\ UNCHANGED <<cfg, rows>>
  BY DEF ReconcileRefetch
<1>3. fetch \in SUBSET Providers
  OBVIOUS
<1> HIDE DEF fetch
<1>4. Rebuilding(read, fetch, catalogs)
  BY <1>2, <1>3 DEF Rebuilding
<1>5. QED
  BY <1>1, <1>4

(* The refresh of one provider, which rebuilds nothing without its catalog. *)
LEMMA Rebuilds2 ==
  ASSUME IInv, TodoInv, RefreshAtomic
  PROVE  /\ Doing("atomic") /\ StepDone
         /\ \/ UNCHANGED <<cfg, rows, routes, origin, seeds, gets, abandoned, unread>>
            \/ \E read, fetch, catalogs : Rebuilding(read, fetch, catalogs)
<1>1. PICK read \in {rows, Failed}, catalogs \in Catalogs({mutation.p}) :
        /\ Doing("atomic") /\ StepDone
        /\ IF FetchFailed(catalogs)
           THEN UNCHANGED <<routes, origin, seeds, gets, abandoned, unread>>
           ELSE /\ SetRoutes(Rebuilt(read, {mutation.p}, catalogs))
                /\ CacheRows(read)
                /\ abandoned' = unread'
        /\ UNCHANGED <<cfg, rows>>
  BY DEF RefreshAtomic
<1>2. {mutation.p} \in SUBSET Providers
  BY <1>1 DEF Doing, IInv, MutInv
<1>3. CASE FetchFailed(catalogs)
  BY <1>1, <1>3
<1>4. CASE ~FetchFailed(catalogs)
  BY <1>1, <1>2, <1>4 DEF Rebuilding
<1>5. QED
  BY <1>1, <1>3, <1>4

-----------------------------------------------------------------------------
(* What is left of a reconciliation goes with its operation. *)
LEMMA TodoKeeps == IInv /\ SeqInv /\ TodoInv /\ [Next]_vars => TodoInv'
<1> SUFFICES ASSUME IInv, SeqInv, TodoInv, [Next]_vars PROVE TodoInv'
  OBVIOUS
<1>1. CASE UNCHANGED vars
  BY <1>1 DEF vars, TodoInv, On
<1>2. CASE Mutate
  <2>1. PICK op \in Operations, p \in Providers, m \in Models \cup {None} : Committed(op, p, m)
    BY <1>2, Commits
  <2>2. /\ On(mutation.p)' = On(p)
        /\ mutation'.op = op /\ mutation'.m = m /\ mutation'.stage \in {"stored", "spawned"}
        /\ op # "refresh" => mutation'.stage = "stored"
        /\ mutation'.todo = Whole(op) \/ (op = "retarget" /\ ~On(p) /\ mutation'.todo = <<>>)
        /\ op \in ModelOps => m \in Models
    BY <2>1 DEF Committed, On
  <2>3. op = "retarget" /\ mutation'.todo = Whole(op) => mutation'.todo # <<>>
    BY ListsDiffer DEF Whole
  <2>4. QED
    BY <2>2, <2>3 DEF TodoInv
<1>3. CASE Apply
  <2>1. /\ mutation.stage = "stored" /\ mutation'.stage = "applied"
        /\ mutation'.op = mutation.op /\ mutation'.p = mutation.p /\ mutation'.m = mutation.m
        /\ mutation'.todo = mutation.todo
    BY <1>3 DEF Apply, IInv, Fields, MutFields
  <2>2. mutation.op = "createOff" => cfg'[mutation.p].status = "off"
    <3>1. mutation.op = "createOff" => NewConfig(cfg[mutation.p]).status = "off"
      BY DEF NewConfig
    <3>2. mutation.op # "none" => mutation.p \in DOMAIN cfg
      BY DEF IInv, Fields, CfgFields, MutInv
    <3>3. QED
      BY <1>3, <3>1, <3>2 DEF Apply
  <2>3. QED
    BY <2>1, <2>2 DEF TodoInv
<1>4. CASE Invalidate \/ Spawn
  <2>1. /\ mutation.stage # "stored" /\ mutation'.stage # "stored" /\ mutation.stage # "spawned"
        /\ mutation'.op = mutation.op /\ mutation'.p = mutation.p /\ mutation'.m = mutation.m
        /\ mutation'.todo = mutation.todo /\ cfg' = cfg
    BY <1>4 DEF Invalidate, Spawn, IInv, Fields, MutFields
  <2>2. QED
    BY <2>1 DEF TodoInv
<1>5. CASE Disconnect \/ DisconnectRefresh \/ Complete
  <2>1. mutation' = NoMutation
    BY <1>5 DEF Disconnect, DisconnectRefresh, Complete
  <2>2. QED
    BY <2>1 DEF NoMutation, TodoInv, Whole, ModelOps
<1>6. ASSUME NEW step, Doing(step), StepDone, UNCHANGED cfg PROVE TodoInv'
  <2>1. /\ mutation.stage = "spawned" /\ mutation'.stage = "spawned"
        /\ mutation'.op = mutation.op /\ mutation'.p = mutation.p /\ mutation'.m = mutation.m
        /\ mutation'.todo \in Part(mutation.op)
    BY <1>6, StepIs
  <2>2. QED
    BY <1>6, <2>1 DEF TodoInv
<1>7. CASE ReconcileEvict \/ ReconcileEvictLive \/ ReconcileSync
  <2>1. PICK step : Doing(step) /\ StepDone /\ UNCHANGED cfg
    BY <1>7 DEF ReconcileEvict, ReconcileEvictLive, ReconcileSync
  <2>2. QED
    BY <1>6, <2>1
<1>8. CASE ReconcileRefetch
  BY <1>6, <1>8, Rebuilds1 DEF Rebuilding
<1>9. CASE RefreshAtomic
  BY <1>6, <1>9, Rebuilds2 DEF Rebuilding
<1>10. ASSUME NEW g \in Gets, Looks(g) \/ Fail(g) \/ Publish(g) PROVE TodoInv'
  <2>1. UNCHANGED <<cfg, mutation>>
    BY <1>10, LooksAt, Ends
  <2>2. QED
    BY <2>1 DEF TodoInv, On
<1>11. QED
  BY <1>1, <1>2, <1>3, <1>4, <1>5, <1>7, <1>8, <1>9, <1>10 DEF Next, Reconcile, Discover, Looks

(* What is read and cached are sequences of rows. *)
LEMMA SeqKeeps == Base /\ [Next]_vars => SeqInv' /\ ProvInv'
<1> SUFFICES ASSUME Base, [Next]_vars PROVE SeqInv' /\ ProvInv'
  OBVIOUS
<1> USE DEF Base
<1>1. rows \in Seq(Row) /\ seeds \in Seq(Row) /\ GetFields
  BY DEF SeqInv, IInv, Fields
<1>2. ASSUME NEW p, p \in Providers \/ gets' \in {gets, ConfigBumped(gets), SeedsBumped(gets)},
             gets' \in {gets, ConfigBumped(gets), SeedsBumped(gets), PassedBy(gets, p)},
             rows' \in Seq(Row), seeds' \in Seq(Row),
             unread' \subseteq Providers, abandoned' \subseteq Providers
      PROVE  SeqInv' /\ ProvInv'
  <2>1. ASSUME NEW g \in Gets
        PROVE  /\ gets'[g].refreshed = gets[g].refreshed
               /\ gets'[g].passedBy \subseteq Providers
    <3>1. gets[g].passedBy \subseteq Providers
      BY DEF ProvInv
    <3>2. PICK gs : gs = gets'
      OBVIOUS
    <3>3. gs \in {gets, ConfigBumped(gets), SeedsBumped(gets), PassedBy(gets, p)}
      BY <1>2, <3>2
    <3>4. /\ gs[g].refreshed = gets[g].refreshed
          /\ gs[g].passedBy \in {gets[g].passedBy, gets[g].passedBy \cup {p}}
          /\ gs = gets \/ gs = ConfigBumped(gets) \/ gs = SeedsBumped(gets) =>
               gs[g].passedBy = gets[g].passedBy
      BY <1>1, <3>3, BumpsRead
    <3>5. gs[g].passedBy \subseteq Providers
      BY <1>2, <3>1, <3>2, <3>4
    <3>6. QED
      BY <3>2, <3>4, <3>5
  <2>2. QED
    BY <1>2, <2>1 DEF SeqInv, ProvInv
<1>3. CASE UNCHANGED vars
  BY <1>3 DEF vars, SeqInv, ProvInv
<1>4. CASE Mutate
  <2>1. PICK op \in Operations, p \in Providers, m \in Models \cup {None} : Committed(op, p, m)
    BY <1>4, Commits
  <2>2. /\ gets' \in {gets, ConfigBumped(gets)} /\ seeds' = seeds
        /\ unread' = unread /\ abandoned' = abandoned
    BY <2>1 DEF Committed
  <2>3. QED
    BY <1>1, <1>2, <2>1, <2>2, CommittedRows DEF ProvInv
<1>5. CASE Apply
  <2>1. mutation.p \in Providers /\ (mutation.op \in ModelOps => mutation.m \in Models)
    BY <1>5 DEF Apply, IInv, MutInv, TodoInv
  <2>2. NotOwnedBy(seeds, mutation.p) \in Seq(Row)
    BY <1>1, KeptType DEF NotOwnedBy
  <2>3. seeds' \in Seq(Row)
    BY <1>1, <1>5, <2>1, <2>2, EpochSeedsType DEF Apply, ModelOps
  <2>4. rows' = rows /\ gets' \in {gets, SeedsBumped(gets)} /\ UNCHANGED <<unread, abandoned>>
    BY <1>5 DEF Apply
  <2>5. QED
    BY <1>1, <1>2, <2>1, <2>3, <2>4 DEF ProvInv
<1>6. CASE Invalidate \/ Spawn \/ Disconnect \/ DisconnectRefresh \/ Complete
  <2>1. Disconnect => mutation.p \in Providers
    BY DEF Disconnect, AwaitsUnspawned, IInv, MutInv
  <2>2. CASE Disconnect
    <3>1. /\ UNCHANGED <<rows, seeds>> /\ gets' \in {gets, PassedBy(gets, mutation.p)}
          /\ unread' = unread \cup {mutation.p} /\ abandoned' = abandoned \cup {mutation.p}
      BY <2>2 DEF Disconnect
    <3>2. QED
      BY <1>1, <1>2, <2>1, <2>2, <3>1 DEF ProvInv
  <2>3. CASE Invalidate \/ Spawn \/ DisconnectRefresh \/ Complete
    <3>1. /\ UNCHANGED <<rows, seeds, unread, abandoned>>
          /\ gets' \in {gets, ConfigBumped(gets)}
      BY <2>3 DEF Invalidate, Spawn, DisconnectRefresh, Complete
    <3>2. QED
      BY <1>1, <1>2, <3>1 DEF ProvInv
  <2>4. QED
    BY <1>6, <2>2, <2>3
<1>7. CASE ReconcileEvict \/ ReconcileEvictLive
  <2>1. /\ UNCHANGED <<rows, unread, abandoned>> /\ gets' \in {gets, SeedsBumped(gets)}
        /\ seeds' \in {seeds, NotOwnedBy(seeds, mutation.p)}
    BY <1>7 DEF ReconcileEvict, ReconcileEvictLive
  <2>2. NotOwnedBy(seeds, mutation.p) \in Seq(Row)
    BY <1>1, KeptType DEF NotOwnedBy
  <2>3. QED
    BY <1>1, <1>2, <2>1, <2>2 DEF ProvInv
<1>8. ASSUME NEW read \in {rows, Failed}, CacheRows(read), UNCHANGED rows,
             abandoned' \in {abandoned, unread'}
      PROVE  SeqInv' /\ ProvInv'
  <2>1. seeds' \in Seq(Row) /\ gets' \in {gets, SeedsBumped(gets)}
    BY <1>8, Caches
  <2>2. Creating => mutation.p \in Providers
    BY DEF Creating, IInv, MutInv
  <2>3. unread' \subseteq Providers
    BY <1>8, <2>2, Caches DEF ProvInv
  <2>4. abandoned' \subseteq Providers
    BY <1>8, <2>3 DEF ProvInv
  <2>5. QED
    BY <1>1, <1>2, <1>8, <2>1, <2>3, <2>4
<1>9. CASE ReconcileSync
  BY <1>8, <1>9 DEF ReconcileSync
<1>10. CASE ReconcileRefetch
  <2>1. PICK read, fetch, catalogs : Rebuilding(read, fetch, catalogs)
    BY <1>10, Rebuilds1
  <2>2. QED
    BY <1>8, <2>1 DEF Rebuilding
<1>11. CASE RefreshAtomic
  <2>1. CASE UNCHANGED <<cfg, rows, routes, origin, seeds, gets, abandoned, unread>>
    BY <2>1 DEF SeqInv, ProvInv
  <2>2. ASSUME NEW read, NEW fetch, NEW catalogs, Rebuilding(read, fetch, catalogs)
        PROVE  SeqInv' /\ ProvInv'
    BY <1>8, <2>2 DEF Rebuilding
  <2>3. QED
    BY <1>11, <2>1, <2>2, Rebuilds2
<1>12. ASSUME NEW g \in Gets, Looks(g) PROVE SeqInv' /\ ProvInv'
  <2>1. /\ UNCHANGED <<rows, seeds, unread, abandoned>>
        /\ \A h \in Gets : h # g => gets'[h] = gets[h]
        /\ gets'[g].passedBy \in {{}, gets[g].passedBy}
        /\ gets'[g].refreshed \in {gets[g].refreshed, <<>>, rows, Failed}
    BY <1>12, LooksAt
  <2>2. gets'[g].passedBy \subseteq Providers
    BY <2>1 DEF ProvInv
  <2>3. gets'[g].refreshed # Failed => gets'[g].refreshed \in Seq(Row)
    <3>1. <<>> \in Seq(Row)
      OBVIOUS
    <3>2. QED
      BY <1>1, <2>1, <3>1 DEF SeqInv
  <2>4. QED
    BY <2>1, <2>2, <2>3 DEF SeqInv, ProvInv
<1>13. ASSUME NEW g \in Gets, Fail(g) \/ Publish(g) PROVE SeqInv' /\ ProvInv'
  <2>1. /\ rows' = rows
        /\ \E gs \in {gets, SeedsBumped(gets)} : gets' = [gs EXCEPT ![g] = Idle]
        /\ IF gets[g].refreshed = Failed THEN seeds' = seeds /\ unread' = unread
           ELSE seeds' = gets[g].refreshed /\ unread' = gets[g].passedBy
    BY <1>13, Ends
  <2>2. PICK gs \in {gets, SeedsBumped(gets)} : gets' = [gs EXCEPT ![g] = Idle]
    BY <2>1
  <2>3. /\ DOMAIN gs = Gets
        /\ \A h \in Gets : /\ gs[h].refreshed = gets[h].refreshed
                           /\ gs[h].passedBy = gets[h].passedBy
    BY <1>1, BumpsRead
  <2>4. ASSUME NEW h \in Gets
        PROVE  /\ gets'[h].passedBy \subseteq Providers
               /\ gets'[h].refreshed # Failed => gets'[h].refreshed \in Seq(Row)
    <3>1. CASE h = g
      <4>1. gets'[h] = Idle
        BY <2>2, <2>3, <3>1
      <4>2. Idle.passedBy = {} /\ Idle.refreshed = <<>>
        BY DEF Idle
      <4>3. <<>> \in Seq(Row)
        OBVIOUS
      <4>4. QED
        BY <4>1, <4>2, <4>3
    <3>2. CASE h # g
      <4>1. gets'[h] = gs[h]
        BY <2>2, <2>3, <3>2
      <4>2. QED
        BY <2>3, <4>1 DEF SeqInv, ProvInv
    <3>3. QED
      BY <3>1, <3>2
  <2>5. seeds' \in Seq(Row) /\ unread' \subseteq Providers
    BY <1>1, <2>1 DEF SeqInv, ProvInv
  <2>6. abandoned' \subseteq Providers
    <3>1. gets[g].passedBy \subseteq Providers /\ abandoned \subseteq Providers
      BY DEF ProvInv
    <3>2. QED
      BY <1>13, <2>5, <3>1 DEF Fail, Publish
  <2>7. QED
    BY <1>1, <2>1, <2>4, <2>5, <2>6 DEF SeqInv, ProvInv
<1>14. QED
  BY <1>3, <1>4, <1>5, <1>6, <1>7, <1>9, <1>10, <1>11, <1>12, <1>13
     DEF Next, Reconcile, Discover, Looks

(* Rows that are removed first and would be removed anyway. *)
LEMMA RemovedFirst ==
  ASSUME NEW s \in Seq(Row), NEW J, NEW K, K \subseteq J
  PROVE  Kept(Kept(s, J), K) = Kept(s, K)
<1>1. J \cap K = K
  OBVIOUS
<1>2. Kept(Kept(s, J), K) = Kept(s, J \cap K)
  BY KeptTwice
<1>3. QED
  BY <1>1, <1>2

(* A row at the end that is not kept. *)
LEMMA AddedLast ==
  ASSUME NEW s \in Seq(Row), NEW row \in Row, NEW K
  PROVE  /\ Append(s, row) = s \o <<row>>
         /\ Kept(Append(s, row), K) = Kept(s, K) \o Kept(<<row>>, K)
         /\ row \notin K => Kept(Append(s, row), K) = Kept(s, K)
<1>1. Append(s, row) = s \o <<row>> /\ <<row>> \in Seq(Row)
  OBVIOUS
<1>2. Kept(Append(s, row), K) = Kept(s, K) \o Kept(<<row>>, K)
  BY <1>1, KeptBoth
<1>3. ASSUME row \notin K PROVE Kept(s, K) \o Kept(<<row>>, K) = Kept(s, K)
  <2>1. PICK k \in Seq(Row) : k = Kept(s, K)
    BY KeptType
  <2>2. Kept(<<row>>, K) = <<>>
    BY <1>3, KeptOne
  <2>3. k \o <<>> = k
    OBVIOUS
  <2>4. QED
    BY <2>1, <2>2, <2>3
<1>4. QED
  BY <1>1, <1>2, <1>3

(* A row in the middle that is not kept. *)
LEMMA AddedBetween ==
  ASSUME NEW a \in Seq(Row), NEW b \in Seq(Row), NEW row \in Row, NEW K, row \notin K
  PROVE  Kept((a \o <<row>>) \o b, K) = Kept(a \o b, K)
<1>1. PICK c \in Seq(Row) : c = a \o <<row>> /\ c = Append(a, row)
  <2>1. a \o <<row>> \in Seq(Row) /\ a \o <<row>> = Append(a, row)
    OBVIOUS
  <2>2. QED
    BY <2>1
<1>2. Kept(c \o b, K) = Kept(c, K) \o Kept(b, K)
  BY KeptBoth
<1>3. Kept(a \o b, K) = Kept(a, K) \o Kept(b, K)
  BY KeptBoth
<1>4. Kept(c, K) = Kept(a, K)
  <2>1. Kept(Append(a, row), K) = Kept(a, K)
    BY AddedLast
  <2>2. QED
    BY <1>1, <2>1
<1>5. QED
  BY <1>1, <1>2, <1>3, <1>4

(* A commit leaves the other rows as they are. *)
LEMMA OtherRows ==
  ASSUME SeqInv, NEW op \in Operations, NEW p \in Providers, NEW m \in Models \cup {None},
         Committed(op, p, m), NEW K, K \subseteq Row,
         op \in {"create", "createOff", "delete"} => \A r \in K : r.owner # p,
         op \in ModelOps => [owner |-> p, model |-> m] \notin K
  PROVE  Kept(rows', K) = Kept(rows, K)
<1>1. rows \in Seq(Row)
  BY DEF SeqInv
<1>2. CASE op \in {"create", "createOff"}
  <2>1. SUFFICES ASSUME NEW a \in Seq(Row), NEW b \in Seq(Row), NEW row \in Row,
                        row.owner = p, rows = a \o b, rows' = (a \o <<row>>) \o b
                 PROVE  Kept(rows', K) = Kept(rows, K)
    BY <1>2 DEF Committed
  <2>2. row \notin K
    BY <1>2, <2>1
  <2>3. QED
    BY <2>1, <2>2, AddedBetween
<1>3. CASE op = "delete"
  <2>1. K \subseteq {r \in Row : r.owner # p}
    BY <1>3
  <2>2. rows' = Kept(rows, {r \in Row : r.owner # p})
    BY <1>3 DEF Committed, NotOwnedBy
  <2>3. QED
    BY <1>1, <2>1, <2>2, RemovedFirst
<1>4. CASE op \in ModelOps
  <2>1. K \subseteq Row \ {[owner |-> p, model |-> m]}
    BY <1>4
  <2>2. Kept(WithoutRow(rows, p, m), K) = Kept(rows, K)
    BY <1>1, <2>1, RemovedFirst DEF WithoutRow
  <2>3. [owner |-> p, model |-> m] \in Row /\ WithoutRow(rows, p, m) \in Seq(Row)
    BY <1>1, <1>4, KeptType DEF Committed, Row, WithoutRow
  <2>4. [owner |-> p, model |-> m] \notin K
    BY <1>4
  <2>5. Kept(Append(WithoutRow(rows, p, m), [owner |-> p, model |-> m]), K)
          = Kept(WithoutRow(rows, p, m), K)
    BY <2>3, <2>4, AddedLast
  <2>6. rows' = WithoutRow(rows, p, m)
        \/ rows' = Append(WithoutRow(rows, p, m), [owner |-> p, model |-> m])
    BY <1>4 DEF Committed, ModelOps
  <2>7. QED
    BY <2>2, <2>5, <2>6
<1>5. CASE op \in {"enable", "disable", "retarget", "refresh"}
  BY <1>5 DEF Committed
<1>6. QED
  BY <1>2, <1>3, <1>4, <1>5 DEF Operations, ModelOps

(* Agreement survives a commit, but for its provider. *)
LEMMA SameCommitted ==
  ASSUME SeqInv, NEW op \in Operations, NEW p \in Providers, NEW m \in Models \cup {None},
         Committed(op, p, m), op \in {"create", "createOff", "delete"},
         NEW rs \in Seq(Row), NEW ps, Same(rs, rows, ps)
  PROVE  Kept(rs, NotOf(ps \cup {p})) = Kept(rows', NotOf(ps \cup {p}))
<1> DEFINE K == NotOf(ps \cup {p})
<1>1. K \subseteq NotOf(ps) /\ K \subseteq Row /\ \A r \in K : r.owner # p
  BY DEF NotOf
<1>2. rows \in Seq(Row)
  BY DEF SeqInv
<1> HIDE DEF K
<1>3. Kept(rs, K) = Kept(rows, K)
  BY <1>1, <1>2, Fewer DEF Same
<1>4. op \notin ModelOps
  BY DEF ModelOps
<1>5. Kept(rows', K) = Kept(rows, K)
  BY <1>1, <1>4, OtherRows
<1>6. QED
  BY <1>3, <1>5 DEF K

(* Agreement but for more providers. *)
LEMMA SameMore ==
  ASSUME NEW rs \in Seq(Row), NEW ts \in Seq(Row), NEW ps, NEW qs, ps \subseteq qs,
         Same(rs, ts, ps)
  PROVE  Same(rs, ts, qs)
<1>1. NotOf(qs) \subseteq NotOf(ps)
  BY DEF NotOf
<1>2. QED
  BY <1>1, Fewer DEF Same

(* The cached copy after a commit of a model. *)
LEMMA SameModel ==
  ASSUME SeqInv, NEW op \in ModelOps, NEW p \in Providers, NEW m \in Models \cup {None},
         Committed(op, p, m), NEW ps, Same(seeds, rows, ps)
  PROVE  Kept(EpochSeeds(p, m)', NotOf(ps)) = Kept(rows', NotOf(ps))
<1> DEFINE row == [owner |-> p, model |-> m]
<1>1. rows \in Seq(Row) /\ seeds \in Seq(Row) /\ row \in Row
  BY DEF SeqInv, Committed, Row
<1>2. PICK rs \in Seq(Row), ss \in Seq(Row) :
        rs = WithoutRow(rows, p, m) /\ ss = WithoutRow(seeds, p, m)
  BY <1>1, KeptType DEF WithoutRow
<1>3. Kept(rs, NotOf(ps)) = Kept(ss, NotOf(ps))
  BY <1>1, <1>2, BothKept DEF WithoutRow, Same
<1>4. seeds' = seeds /\ mutation'.op = op
  BY DEF Committed
<1> HIDE DEF row
<1>5. CASE op \in {"add", "claim"}
  <2>1. EpochSeeds(p, m)' = Append(ss, row) /\ rows' = Append(rs, row)
    BY <1>2, <1>4, <1>5 DEF EpochSeeds, Claiming, Committed, WithoutRow, row
  <2>2. \A s \in Seq(Row) :
          Kept(Append(s, row), NotOf(ps)) = Kept(s, NotOf(ps)) \o Kept(<<row>>, NotOf(ps))
    BY <1>1, AddedLast
  <2>3. QED
    BY <1>3, <2>1, <2>2
<1>6. CASE op \in {"forget", "drop"}
  <2>1. EpochSeeds(p, m)' = ss /\ rows' = rs
    BY <1>2, <1>4, <1>6 DEF EpochSeeds, Claiming, Committed, WithoutRow
  <2>2. QED
    BY <1>3, <2>1
<1>7. QED
  BY <1>5, <1>6 DEF ModelOps

\* Agreement with the store between mutations.
Agrees == Same(seeds, rows, unread)

(* Before a mutation, and once it has cached its rows. *)
LEMMA AgreesWhen ==
  ASSUME StoreInv, ~Uncached, ~(mutation.op \in ModelOps /\ mutation.stage = "stored")
  PROVE  Agrees
BY DEF StoreInv, Agrees

(* Without a mutation there is nothing left to cache, to claim or to see. *)
LEMMA FreeAgrees ==
  ASSUME IInv, mutation.op = "none"
  PROVE  ~Uncached /\ ~(mutation.op \in ModelOps) /\ ~Unseen /\ ~Creating /\ ~Claiming
BY DEF Uncached, Creating, ModelOps, IInv, MutInv, Unseen, Claiming

(* What a write of the cache makes of the agreement. *)
LEMMA CachesAgree ==
  ASSUME Base, StoreInv, NEW read \in {rows, Failed}, CacheRows(read), UNCHANGED rows,
         IF Creating THEN Same(seeds, rows, unread \cup {mutation.p}) ELSE Agrees
  PROVE  Agrees'
<1>1. CASE seeds' = rows /\ unread' = {}
  BY <1>1 DEF Agrees, Same
<1>2. CASE seeds' = seeds /\ unread' = IF Creating THEN unread \cup {mutation.p} ELSE unread
  BY <1>2 DEF Agrees, Same
<1>3. QED
  BY <1>1, <1>2, Caches DEF Base

(* A commit disturbs the agreement only by the rows of its provider. *)
LEMMA CommitAgrees ==
  ASSUME Base, StoreInv, Mutate
  PROVE  StoreInv'
<1>1. PICK op \in Operations, p \in Providers, m \in Models \cup {None} : Committed(op, p, m)
  BY Commits DEF Base
<1>2. rows \in Seq(Row) /\ seeds \in Seq(Row) /\ mutation.op = "none"
  BY <1>1 DEF Committed, Base, SeqInv
<1>3. Same(seeds, rows, unread)
  BY <1>2, FreeAgrees, AgreesWhen DEF Base, Agrees
<1>4. /\ mutation'.op = op /\ mutation'.p = p /\ mutation'.m = m /\ seeds' = seeds
      /\ unread' = unread
      /\ mutation'.todo = Whole(op) \/ op = "retarget"
      /\ Creating' <=> op \in {"create", "createOff"}
      /\ Claiming' <=> op \in {"add", "claim"}
      /\ mutation'.stage = "stored" \/ op = "refresh"
  BY <1>1 DEF Committed, Creating, Claiming
<1>5. CASE op \in {"create", "createOff", "delete"}
  <2>1. Uncached'
    BY <1>4, <1>5 DEF Uncached, Whole
  <2>2. Same(seeds, rows, unread \cup {mutation.p})'
    BY <1>1, <1>2, <1>3, <1>4, <1>5, SameCommitted DEF Base, Same
  <2>3. op = "delete" => Kept(rows', NotOf({p})) = rows'
    <3>1. ASSUME op = "delete" PROVE rows' = Kept(rows, NotOf({p}))
      <4>1. {r \in Row : r.owner # p} = NotOf({p})
        BY DEF NotOf
      <4>2. QED
        BY <1>1, <3>1, <4>1 DEF Committed, NotOwnedBy
    <3>2. Kept(Kept(rows, NotOf({p})), NotOf({p})) = Kept(rows, NotOf({p}))
      BY <1>2, RemovedFirst
    <3>3. QED
      BY <3>1, <3>2
  <2>4. QED
    BY <1>4, <1>5, <2>1, <2>2, <2>3 DEF StoreInv, ModelOps
<1>6. CASE op \in {"enable", "disable", "retarget", "refresh"}
  <2>1. rows' = rows
    BY <1>1, <1>6 DEF Committed
  <2>2. ~Uncached'
    BY <1>4, <1>6 DEF Uncached
  <2>3. Same(seeds, rows, unread)'
    BY <1>3, <1>4, <2>1 DEF Same
  <2>4. QED
    BY <1>4, <1>6, <2>2, <2>3 DEF StoreInv, ModelOps
<1>7. CASE op \in ModelOps
  <2>1. ~Uncached'
    BY <1>4, <1>7 DEF Uncached, ModelOps
  <2>2. Kept(EpochSeeds(p, m)', NotOf(unread)) = Kept(rows', NotOf(unread))
    BY <1>1, <1>3, <1>7, SameModel DEF Base
  <2>3. Same(EpochSeeds(mutation.p, mutation.m), rows, unread)'
    BY <1>4, <2>2 DEF Same, EpochSeeds, Claiming, WithoutRow
  <2>4. ASSUME op \in {"add", "claim"}
        PROVE  rows' # <<>> /\ rows'[Len(rows')] = [owner |-> p, model |-> m]
    <3>1. PICK rs \in Seq(Row), row \in Row :
            rs = WithoutRow(rows, p, m) /\ row = [owner |-> p, model |-> m]
      BY <1>1, <1>2, <1>7, KeptType DEF WithoutRow, Committed, Row
    <3>2. rows' = Append(rs, row)
      BY <1>1, <2>4, <3>1 DEF Committed
    <3>3. Append(rs, row) # <<>> /\ Append(rs, row)[Len(Append(rs, row))] = row
      OBVIOUS
    <3>4. QED
      BY <3>1, <3>2, <3>3
  <2>5. QED
    BY <1>4, <1>7, <2>1, <2>3, <2>4 DEF StoreInv, ModelOps
<1>8. QED
  BY <1>5, <1>6, <1>7 DEF Operations, ModelOps

(* The configuration write caches the row of a model with its routes. *)
LEMMA ApplyAgrees ==
  ASSUME Base, StoreInv, Apply
  PROVE  StoreInv'
<1>1. /\ mutation.stage = "stored" /\ mutation'.stage = "applied"
      /\ mutation'.op = mutation.op /\ mutation'.p = mutation.p /\ mutation'.m = mutation.m
      /\ mutation'.todo = mutation.todo /\ UNCHANGED <<rows, unread>>
      /\ mutation.p \in Providers /\ mutation.op \in Operations
  BY DEF Apply, Base, IInv, Fields, MutFields, MutInv
<1>2. /\ Uncached' <=> Uncached
      /\ rows \in Seq(Row) /\ seeds \in Seq(Row)
  BY <1>1 DEF Uncached, Creating, Base, SeqInv
<1>3. CASE Creating
  <2>1. Uncached
    BY <1>1, <1>3 DEF Base, TodoInv, Whole, Uncached, Creating
  <2>2. seeds' = NotOwnedBy(seeds, mutation.p)
    BY <1>3 DEF Apply, Creating
  <2>3. NotOf(unread \cup {mutation.p}) \subseteq {r \in Row : r.owner # mutation.p}
    BY DEF NotOf
  <2>4. Kept(seeds', NotOf(unread \cup {mutation.p})) = Kept(seeds, NotOf(unread \cup {mutation.p}))
    BY <1>2, <2>2, <2>3, RemovedFirst DEF NotOwnedBy
  <2>5. Same(seeds, rows, unread \cup {mutation.p})
    BY <2>1 DEF StoreInv
  <2>6. Same(seeds, rows, unread \cup {mutation.p})'
    BY <1>1, <2>4, <2>5 DEF Same
  <2>7. QED
    BY <1>1, <1>2, <1>3, <2>1, <2>6 DEF StoreInv, Creating
<1>4. CASE mutation.op \in {"disable", "retarget", "enable", "delete"}
  <2>1. seeds' = seeds
    BY <1>4 DEF Apply
  <2>2. QED
    BY <1>1, <1>2, <1>4, <2>1 DEF StoreInv, Same, ModelOps
<1>5. CASE mutation.op \in ModelOps
  <2>1. seeds' = EpochSeeds(mutation.p, mutation.m) /\ ~Uncached
    BY <1>5 DEF Apply, ModelOps, Uncached, Creating
  <2>2. Same(EpochSeeds(mutation.p, mutation.m), rows, unread)
    BY <1>1, <1>5 DEF StoreInv
  <2>3. Same(seeds, rows, unread)'
    BY <1>1, <2>1, <2>2 DEF Same
  <2>4. QED
    BY <1>1, <1>2, <1>5, <2>1, <2>3 DEF StoreInv, ModelOps
<1>6. QED
  BY <1>1, <1>3, <1>4, <1>5 DEF Operations, ModelOps, Creating, Apply

(* The other steps of a handler: a disconnect leaves its rows unread. *)
LEMMA HandlerAgrees ==
  ASSUME Base, StoreInv, Invalidate \/ Spawn \/ Disconnect \/ DisconnectRefresh \/ Complete
  PROVE  StoreInv'
<1>1. CASE Invalidate \/ Spawn
  <2>1. /\ mutation.stage # "stored" /\ mutation'.stage # "stored"
        /\ mutation'.op = mutation.op /\ mutation'.p = mutation.p /\ mutation'.m = mutation.m
        /\ mutation'.todo = mutation.todo /\ UNCHANGED <<rows, seeds, unread>>
    BY <1>1 DEF Invalidate, Spawn, Base, IInv, Fields, MutFields
  <2>2. Uncached' <=> Uncached
    BY <2>1 DEF Uncached, Creating
  <2>3. QED
    BY <2>1, <2>2 DEF StoreInv, Same
<1>2. CASE Disconnect \/ DisconnectRefresh \/ Complete
  <2>1. mutation' = NoMutation /\ UNCHANGED <<rows, seeds>>
    BY <1>2 DEF Disconnect, DisconnectRefresh, Complete
  <2>2. Agrees'
    <3>1. CASE Disconnect
      <4>1. unread' = unread \cup {mutation.p} /\ mutation.stage # "stored"
        BY <3>1 DEF Disconnect, AwaitsUnspawned
      <4>2. rows \in Seq(Row) /\ seeds \in Seq(Row)
        BY DEF Base, SeqInv
      <4>3. Same(seeds, rows, unread \cup {mutation.p})
        <5>1. CASE Uncached
          BY <5>1 DEF StoreInv
        <5>2. CASE ~Uncached
          <6>1. Same(seeds, rows, unread)
            BY <4>1, <5>2 DEF StoreInv
          <6>2. unread \subseteq unread \cup {mutation.p}
            OBVIOUS
          <6>3. QED
            BY <4>2, <6>1, <6>2, SameMore
        <5>3. QED
          BY <5>1, <5>2
      <4>4. QED
        BY <2>1, <4>1, <4>3 DEF Agrees, Same
    <3>2. CASE DisconnectRefresh \/ Complete
      <4>1. unread' = unread
        BY <3>2 DEF DisconnectRefresh, Complete
      <4>2. ~Uncached /\ ~(mutation.op \in ModelOps /\ mutation.stage = "stored")
        <5>1. CASE DisconnectRefresh
          BY <5>1 DEF DisconnectRefresh, Uncached, Creating, ModelOps
        <5>2. CASE Complete
          BY <5>2, ListsDiffer DEF Complete, Uncached
        <5>3. QED
          BY <3>2, <5>1, <5>2
      <4>3. QED
        BY <2>1, <4>1, <4>2, AgreesWhen DEF Agrees, Same
    <3>3. QED
      BY <1>2, <3>1, <3>2
  <2>3. ~Uncached' /\ mutation'.op = "none"
    BY <2>1 DEF NoMutation, Uncached, Creating
  <2>4. QED
    BY <2>2, <2>3 DEF StoreInv, Agrees, ModelOps, Claiming
<1>3. QED
  BY <1>1, <1>2

(* The reconciliation caches the rows, or what it could not read is known. *)
LEMMA ReconcileAgrees ==
  ASSUME Base, StoreInv,
         \/ ReconcileEvict \/ ReconcileEvictLive \/ ReconcileSync
         \/ ReconcileRefetch \/ RefreshAtomic
  PROVE  StoreInv'
<1>1. rows \in Seq(Row) /\ seeds \in Seq(Row)
  BY DEF Base, SeqInv
<1>2. ASSUME NEW step, Doing(step), StepDone, UNCHANGED rows, ~Uncached', Agrees'
      PROVE  StoreInv'
  <2>1. /\ mutation.stage = "spawned" /\ mutation'.stage = "spawned"
        /\ mutation'.op = mutation.op /\ mutation'.p = mutation.p /\ mutation'.m = mutation.m
    BY <1>2, StepIs DEF Base
  <2>2. QED
    BY <1>2, <2>1 DEF StoreInv, Agrees
<1>3. CASE ReconcileEvict
  <2>1. /\ Doing("evict") /\ StepDone /\ UNCHANGED <<rows, unread>>
        /\ seeds' = NotOwnedBy(seeds, mutation.p)
    BY <1>3 DEF ReconcileEvict
  <2>2. /\ mutation.stage = "spawned" /\ mutation'.stage = "spawned"
        /\ mutation'.op = mutation.op /\ mutation'.p = mutation.p /\ mutation'.m = mutation.m
        /\ mutation.op \in {"create", "createOff", "delete"}
        /\ Uncached /\ (Creating <=> Uncached')
    BY <2>1, StepIs DEF Base
  <2> DEFINE p == mutation.p
             us == unread \cup {p}
  <2>3. Same(seeds, rows, us)
    BY <2>2 DEF StoreInv
  <2>4. {r \in Row : r.owner # p} = NotOf({p})
    BY DEF NotOf
  <2>5. seeds' = Kept(seeds, NotOf({p}))
    BY <2>1, <2>4 DEF NotOwnedBy
  <2>6. CASE Creating
    <3>1. NotOf(us) \subseteq NotOf({p})
      BY DEF NotOf
    <3>2. Kept(seeds', NotOf(us)) = Kept(seeds, NotOf(us))
      BY <1>1, <2>5, <3>1, RemovedFirst
    <3>3. Same(seeds, rows, unread \cup {mutation.p})'
      BY <2>1, <2>2, <2>3, <3>2 DEF Same
    <3>4. QED
      BY <2>2, <2>6, <3>3 DEF StoreInv, Creating
  <2>7. CASE mutation.op = "delete"
    <3>1. Kept(rows, NotOf({p})) = rows
      BY <2>7 DEF StoreInv
    <3> DEFINE J == NotOf({p})
               K == NotOf(unread)
    <3>2. J \cap K = NotOf(us)
      BY DEF NotOf
    <3>3. ASSUME NEW s \in Seq(Row) PROVE Kept(Kept(s, J), K) = Kept(s, NotOf(us))
      <4>1. PICK A, B : A = J /\ B = K
        OBVIOUS
      <4>2. Kept(Kept(s, A), B) = Kept(s, A \cap B)
        BY KeptTwice
      <4>3. QED
        BY <3>2, <4>1, <4>2
    <3>4. /\ Kept(seeds', NotOf(unread)) = Kept(seeds, NotOf(us))
          /\ Kept(rows, NotOf(unread)) = Kept(rows, NotOf(us))
      BY <1>1, <2>5, <3>1, <3>2, <3>3
    <3>5. Agrees'
      BY <2>1, <2>3, <3>4 DEF Agrees, Same
    <3>6. ~Uncached'
      BY <2>2, <2>7 DEF Creating
    <3>7. QED
      BY <1>2, <2>1, <3>5, <3>6
  <2>8. QED
    BY <2>2, <2>6, <2>7 DEF Creating
<1>4. CASE ReconcileEvictLive
  <2>1. Doing("evictLive") /\ StepDone /\ UNCHANGED <<rows, seeds, unread>>
    BY <1>4 DEF ReconcileEvictLive
  <2>2. ~Uncached /\ ~Uncached' /\ mutation.stage = "spawned"
    BY <2>1, StepIs DEF Base
  <2>3. Agrees
    BY <2>2, AgreesWhen
  <2>4. Agrees'
    BY <2>1, <2>3 DEF Agrees, Same
  <2>5. QED
    BY <1>2, <2>1, <2>2, <2>4
<1>5. CASE ReconcileSync
  <2>1. PICK read \in {rows, Failed} :
          Doing("sync") /\ StepDone /\ CacheRows(read) /\ UNCHANGED rows
    BY <1>5 DEF ReconcileSync
  <2>2. (Creating <=> Uncached) /\ ~Uncached' /\ mutation.stage = "spawned"
    BY <2>1, StepIs DEF Base
  <2>3. IF Creating THEN Same(seeds, rows, unread \cup {mutation.p}) ELSE Agrees
    BY <2>2, AgreesWhen DEF StoreInv
  <2>4. Agrees'
    BY <2>1, <2>3, CachesAgree
  <2>5. QED
    BY <1>2, <2>1, <2>2, <2>4
<1>6. ASSUME NEW step \in {"one", "all", "atomic"}, Doing(step), StepDone,
             NEW read, NEW fetch, NEW catalogs, Rebuilding(read, fetch, catalogs)
      PROVE  StoreInv'
  <2>1. ~Uncached /\ ~Uncached' /\ mutation.stage = "spawned"
    BY <1>6, StepIs DEF Base
  <2>2. Same(seeds, rows, unread)
    BY <2>1, AgreesWhen DEF Agrees
  <2>3. Same(seeds, rows, unread \cup {mutation.p})
    <3>1. unread \subseteq unread \cup {mutation.p}
      OBVIOUS
    <3>2. QED
      BY <1>1, <2>2, <3>1, SameMore
  <2>4. Agrees'
    BY <1>6, <2>2, <2>3, CachesAgree DEF Rebuilding, Agrees
  <2>5. QED
    BY <1>2, <1>6, <2>1, <2>4 DEF Rebuilding
<1>7. CASE ReconcileRefetch
  BY <1>6, <1>7, Rebuilds1 DEF Base
<1>8. CASE RefreshAtomic
  <2>1. Doing("atomic") /\ StepDone
    BY <1>8, Rebuilds2 DEF Base
  <2>2. CASE UNCHANGED <<cfg, rows, routes, origin, seeds, gets, abandoned, unread>>
    <3>1. ~Uncached /\ ~Uncached' /\ mutation.stage = "spawned"
      BY <2>1, StepIs DEF Base
    <3>2. Agrees'
      BY <2>2, <3>1, AgreesWhen DEF Agrees, Same
    <3>3. QED
      BY <1>2, <2>1, <2>2, <3>1, <3>2
  <2>3. QED
    BY <1>6, <1>8, <2>1, <2>2, Rebuilds2 DEF Base
<1>9. QED
  BY <1>3, <1>4, <1>5, <1>7, <1>8

(* A discovery caches the rows it has read, which may be older than its    *)
(* publication, but for those of the providers that passed it by.          *)
LEMMA EndAgrees ==
  ASSUME Base, StoreInv, ReadInv, NEW g \in Gets, Fail(g) \/ Publish(g)
  PROVE  StoreInv'
<1>1. /\ gets[g].phase = "merged" /\ gets[g].current /\ mutation.op = "none"
      /\ UNCHANGED <<rows, mutation>>
      /\ IF gets[g].refreshed = Failed THEN seeds' = seeds /\ unread' = unread
         ELSE seeds' = gets[g].refreshed /\ unread' = gets[g].passedBy
  BY Ends DEF Base, LockFree
<1>2. ~Uncached /\ ~(mutation.op \in ModelOps) /\ ~Unseen /\ ~Claiming
  BY <1>1, FreeAgrees DEF Base
<1>3. Agrees'
  <2>1. CASE gets[g].refreshed = Failed
    BY <1>1, <1>2, <2>1, AgreesWhen DEF Agrees, Same
  <2>2. CASE gets[g].refreshed # Failed
    BY <1>1, <1>2, <2>2 DEF ReadInv, ReadAt, HasRead, Agrees, Same
  <2>3. QED
    BY <2>1, <2>2
<1>4. ~Uncached' /\ mutation'.op = "none"
  BY <1>1, <1>2 DEF Uncached, Creating
<1>5. QED
  BY <1>3, <1>4 DEF StoreInv, Agrees, ModelOps, Claiming

(* The store invariant is kept. *)
LEMMA StoreKeeps == Base /\ StoreInv /\ ReadInv /\ [Next]_vars => StoreInv'
<1> SUFFICES ASSUME Base, StoreInv, ReadInv, [Next]_vars PROVE StoreInv'
  OBVIOUS
<1>1. ASSUME UNCHANGED <<rows, seeds, mutation, unread>> PROVE StoreInv'
  BY <1>1 DEF StoreInv, Same, Uncached, Creating, EpochSeeds, Claiming, WithoutRow
<1>2. CASE UNCHANGED vars
  BY <1>1, <1>2 DEF vars
<1>3. ASSUME NEW g \in Gets, Looks(g) PROVE StoreInv'
  BY <1>1, <1>3, LooksAt DEF Base
<1>4. QED
  BY <1>2, <1>3, CommitAgrees, ApplyAgrees, HandlerAgrees, ReconcileAgrees, EndAgrees
     DEF Next, Reconcile, Discover, Looks

-----------------------------------------------------------------------------
(* What a discovery has read still agrees with the store. *)
LEMMA ReadStays ==
  ASSUME NEW g, ReadAt(g), UNCHANGED rows,
         gets'[g].phase = gets[g].phase, gets'[g].refreshed = gets[g].refreshed,
         gets'[g].current => gets[g].current,
         \/ ~gets'[g].current
         \/ /\ gets'[g].passedBy = gets[g].passedBy
            /\ \/ ~Unseen /\ ~Unseen'
               \/ Unseen /\ Unseen' /\ (Creating' => Creating) /\ mutation'.p = mutation.p
         \/ /\ Unseen /\ Creating /\ ~Unseen'
            /\ gets'[g].passedBy = gets[g].passedBy \cup {mutation.p}
  PROVE  ReadAt(g)'
<1>1. HasRead(g)' => HasRead(g)
  BY DEF HasRead
<1> DEFINE D == gets[g].passedBy  r == gets[g].refreshed
<1>2. ASSUME gets'[g].passedBy = D, ~Unseen, ~Unseen'
      PROVE  ReadAt(g)'
  BY <1>1, <1>2 DEF ReadAt, Same
<1>3. ASSUME gets'[g].passedBy = D, Unseen, Unseen', Creating' => Creating,
             mutation'.p = mutation.p
      PROVE  ReadAt(g)'
  BY <1>1, <1>3 DEF ReadAt, Same
<1>4. ASSUME Unseen, Creating, ~Unseen', gets'[g].passedBy = D \cup {mutation.p}
      PROVE  ReadAt(g)'
  BY <1>1, <1>4 DEF ReadAt, Same
<1>5. CASE ~gets'[g].current
  BY <1>5 DEF ReadAt, HasRead
<1>6. QED
  BY <1>2, <1>3, <1>4, <1>5

(* What a discovery has found is still the newest. *)
LEMMA FoundStays ==
  ASSUME NEW g, FoundAt(g), UNCHANGED cfg, ~Unseen' => ~Unseen,
         gets'[g].phase = gets[g].phase, gets'[g].refreshed = gets[g].refreshed,
         gets'[g].found = gets[g].found,
         gets'[g].current => gets[g].current,
         gets'[g].seedsCurrent => gets[g].seedsCurrent /\ seeds' = seeds,
         gets'[g].passedBy = {} => gets[g].passedBy = {}
  PROVE  FoundAt(g)'
<1> SUFFICES ASSUME ~Unseen', Fresh(g)', NEW m \in Models \ GloballyDisabled',
                    Newest(RowsOr(gets[g].refreshed), m)' # None
             PROVE  gets'[g].found[m] = Newest(RowsOr(gets[g].refreshed), m)'
  BY DEF FoundAt
<1>1. Fresh(g) /\ ~Unseen
  BY DEF Fresh, HasRead
<1>2. RowsOr(gets[g].refreshed)' = RowsOr(gets[g].refreshed)
  BY DEF RowsOr, Fresh
<1>3. m \in Models \ GloballyDisabled
  BY DEF GloballyDisabled
<1>4. Newest(RowsOr(gets[g].refreshed), m)' = Newest(RowsOr(gets[g].refreshed), m)
  BY <1>2 DEF Newest, Able, On, ModelIsEnabled
<1>5. QED
  BY <1>1, <1>3, <1>4 DEF FoundAt

(* A step of no discovery: either all hear of it, or it changes nothing    *)
(* that they have read.                                                    *)
LEMMA Passive ==
  ASSUME Base, ReadInv, FoundInv, UNCHANGED rows,
         \/ gets' = ConfigBumped(gets)
         \/ /\ gets' \in {gets, SeedsBumped(gets)} /\ Unseen /\ Unseen'
            /\ (Creating' => Creating) /\ mutation'.p = mutation.p
         \/ /\ gets' = SeedsBumped(gets) \/ (gets' = gets /\ seeds' = seeds)
            /\ ~Unseen /\ ~Unseen' /\ UNCHANGED cfg
         \/ gets' = PassedBy(gets, mutation.p) /\ Unseen /\ Creating /\ ~Unseen'
  PROVE  ReadInv' /\ FoundInv'
<1>1. gets' \in {gets, ConfigBumped(gets), SeedsBumped(gets), PassedBy(gets, mutation.p)}
  OBVIOUS
<1>2. PICK p, gs : p = mutation.p /\ gs = gets'
  OBVIOUS
<1>3. \A g \in Gets :
        /\ gs[g].phase = gets[g].phase /\ gs[g].refreshed = gets[g].refreshed
        /\ gs[g].found = gets[g].found
        /\ gs[g].current => gets[g].current
        /\ gs[g].seedsCurrent => gets[g].seedsCurrent
        /\ gs[g].passedBy \in {gets[g].passedBy, gets[g].passedBy \cup {p}}
        /\ gs = gets \/ gs = ConfigBumped(gets) \/ gs = SeedsBumped(gets) =>
             gs[g].passedBy = gets[g].passedBy
        /\ gs = ConfigBumped(gets) => ~gs[g].current
        /\ gs = SeedsBumped(gets) => ~gs[g].seedsCurrent
        /\ gs = PassedBy(gets, p) => gs[g].passedBy = gets[g].passedBy \cup {p}
  BY <1>1, <1>2, BumpsRead DEF Base, IInv, Fields
<1>4. ASSUME NEW g \in Gets PROVE ReadAt(g)' /\ FoundAt(g)'
  <2>1. ReadAt(g) /\ FoundAt(g)
    BY DEF ReadInv, FoundInv
  <2>2. CASE gets' = ConfigBumped(gets)
    <3>1. ~gets'[g].current
      BY <1>2, <1>3, <2>2
    <3>2. QED
      BY <3>1 DEF ReadAt, FoundAt, HasRead, Fresh
  <2>3. CASE /\ gets' \in {gets, SeedsBumped(gets)} /\ Unseen /\ Unseen'
             /\ (Creating' => Creating) /\ mutation'.p = mutation.p
    <3>1. ReadAt(g)'
      BY <1>2, <1>3, <2>1, <2>3, ReadStays
    <3>2. QED
      BY <2>3, <3>1 DEF FoundAt
  <2>4. CASE /\ gets' = SeedsBumped(gets) \/ (gets' = gets /\ seeds' = seeds)
             /\ ~Unseen /\ ~Unseen' /\ UNCHANGED cfg
    <3>1. gets'[g].passedBy = gets[g].passedBy
      BY <1>2, <1>3, <2>4
    <3>2. ReadAt(g)'
      BY <1>2, <1>3, <2>1, <2>4, <3>1, ReadStays
    <3>3. gets'[g].seedsCurrent => gets[g].seedsCurrent /\ seeds' = seeds
      BY <1>2, <1>3, <2>4
    <3>4. FoundAt(g)'
      BY <1>2, <1>3, <2>1, <2>4, <3>1, <3>3, FoundStays
    <3>5. QED
      BY <3>2, <3>4
  <2>5. CASE gets' = PassedBy(gets, mutation.p) /\ Unseen /\ Creating /\ ~Unseen'
    <3>1. gets'[g].passedBy = gets[g].passedBy \cup {mutation.p}
      BY <1>2, <1>3, <2>5
    <3>2. ReadAt(g)'
      BY <1>2, <1>3, <2>1, <2>5, <3>1, ReadStays
    <3>3. QED
      BY <3>1, <3>2 DEF FoundAt, Fresh
  <2>6. QED
    BY <2>2, <2>3, <2>4, <2>5
<1>5. QED
  BY <1>4 DEF ReadInv, FoundInv

(* A commit, or a step of the handler. *)
LEMMA HandlerReads ==
  ASSUME Base, ReadInv, FoundInv,
         \/ Mutate \/ Apply \/ Invalidate \/ Spawn \/ Disconnect \/ DisconnectRefresh \/ Complete
  PROVE  ReadInv' /\ FoundInv'
<1>0. ASSUME gets' = ConfigBumped(gets) PROVE ReadInv' /\ FoundInv'
  <2>1. \A g \in Gets : ~gets'[g].current
    BY <1>0, BumpsRead DEF Base, IInv, Fields
  <2>2. QED
    BY <2>1 DEF ReadInv, FoundInv, ReadAt, FoundAt, HasRead, Fresh
<1>1. CASE Mutate
  <2>1. PICK op \in Operations, p \in Providers, m \in Models \cup {None} : Committed(op, p, m)
    BY <1>1, Commits DEF Base
  <2>2. CASE op = "refresh"
    BY <1>0, <2>1, <2>2 DEF Committed
  <2>3. CASE op # "refresh"
    <3>1. /\ mutation.op = "none" /\ gets' = gets /\ mutation'.op = op /\ mutation'.p = p
          /\ mutation'.stage = "stored" /\ rows \in Seq(Row)
      BY <2>1, <2>3 DEF Committed, Base, SeqInv
    <3>2. Unseen' /\ ~Unseen
      BY <3>1, FreeAgrees DEF Unseen, Base
    <3>3. ASSUME NEW g \in Gets, HasRead(g), gets[g].refreshed # Failed, Creating'
          PROVE  Same(gets[g].refreshed, rows, gets[g].passedBy \cup {mutation.p})'
      <4>1. Same(gets[g].refreshed, rows, gets[g].passedBy) /\ gets[g].refreshed \in Seq(Row)
        BY <3>2, <3>3 DEF ReadInv, ReadAt, Base, SeqInv
      <4>2. op \in {"create", "createOff", "delete"}
        BY <3>1, <3>3 DEF Creating
      <4>3. QED
        BY <2>1, <3>1, <4>1, <4>2, SameCommitted DEF Base, Same
    <3>4. QED
      BY <3>1, <3>2, <3>3 DEF ReadInv, FoundInv, ReadAt, FoundAt, HasRead
  <2>4. QED
    BY <2>2, <2>3
<1>2. CASE Apply
  <2>1. /\ mutation.stage = "stored" /\ mutation'.stage = "applied"
        /\ mutation'.op = mutation.op /\ mutation'.p = mutation.p
        /\ UNCHANGED rows /\ gets' \in {gets, SeedsBumped(gets)}
    BY <1>2 DEF Apply, Base, IInv, Fields, MutFields
  <2>2. QED
    BY <2>1, Passive DEF Unseen, Creating
<1>3. CASE Invalidate \/ Complete
  BY <1>0, <1>3 DEF Invalidate, Complete
<1>4. CASE Spawn \/ DisconnectRefresh
  <2>1. /\ mutation.stage \in {"invalidated", "spawned"} /\ mutation'.stage \in {"spawned", "free"}
        /\ UNCHANGED <<rows, gets, seeds, cfg>>
    <3>1. CASE Spawn
      BY <3>1 DEF Spawn, Base, IInv, Fields, MutFields
    <3>2. CASE DisconnectRefresh
      BY <3>2 DEF DisconnectRefresh, NoMutation, Base, IInv, MutInv
    <3>3. QED
      BY <1>4, <3>1, <3>2
  <2>2. QED
    BY <2>1, Passive DEF Unseen
<1>5. CASE Disconnect
  <2>1. mutation'.stage = "free" /\ UNCHANGED <<rows, seeds, cfg>>
    BY <1>5 DEF Disconnect, NoMutation
  <2>2. CASE mutation.stage = "applied"
    <3>1. Creating /\ gets' = PassedBy(gets, mutation.p)
      BY <1>5, <2>2 DEF Disconnect, AwaitsUnspawned, Creating
    <3>2. QED
      BY <2>1, <2>2, <3>1, Passive DEF Unseen
  <2>3. CASE mutation.stage # "applied"
    <3>1. mutation.stage = "invalidated" /\ gets' = gets
      BY <1>5, <2>3 DEF Disconnect, AwaitsUnspawned
    <3>2. QED
      BY <2>1, <3>1, Passive DEF Unseen
  <2>4. QED
    BY <2>2, <2>3
<1>6. QED
  BY <1>1, <1>2, <1>3, <1>4, <1>5

(* A step of the reconciliation. *)
LEMMA ReconcileReads ==
  ASSUME Base, ReadInv, FoundInv,
         \/ ReconcileEvict \/ ReconcileEvictLive \/ ReconcileSync
         \/ ReconcileRefetch \/ RefreshAtomic
  PROVE  ReadInv' /\ FoundInv'
<1>1. ASSUME NEW step, Doing(step), StepDone, UNCHANGED <<rows, cfg>>,
             gets' = SeedsBumped(gets) \/ (gets' = gets /\ seeds' = seeds)
      PROVE  ReadInv' /\ FoundInv'
  <2>1. mutation.stage = "spawned" /\ mutation'.stage = "spawned"
    BY <1>1, StepIs DEF Base
  <2>2. QED
    BY <1>1, <2>1, Passive DEF Unseen
<1>2. CASE ReconcileEvict \/ ReconcileEvictLive
  BY <1>1, <1>2 DEF ReconcileEvict, ReconcileEvictLive
<1>3. ASSUME NEW read \in {rows, Failed}, CacheRows(read)
      PROVE  gets' = SeedsBumped(gets) \/ (gets' = gets /\ seeds' = seeds)
  BY <1>3, Caches DEF Base
<1>4. CASE ReconcileSync
  BY <1>1, <1>3, <1>4 DEF ReconcileSync
<1>5. ASSUME NEW step, Doing(step), StepDone,
             NEW read, NEW fetch, NEW catalogs, Rebuilding(read, fetch, catalogs)
      PROVE  ReadInv' /\ FoundInv'
  BY <1>1, <1>3, <1>5 DEF Rebuilding
<1>6. CASE ReconcileRefetch
  BY <1>5, <1>6, Rebuilds1 DEF Base
<1>7. CASE RefreshAtomic
  <2>1. CASE UNCHANGED <<cfg, rows, routes, origin, seeds, gets, abandoned, unread>>
    BY <1>1, <1>7, <2>1, Rebuilds2 DEF Base
  <2>2. QED
    BY <1>5, <1>7, <2>1, Rebuilds2 DEF Base
<1>8. QED
  BY <1>2, <1>4, <1>6, <1>7

(* A step of a discovery that publishes nothing: it may read the rows. *)
LEMMA LookReads ==
  ASSUME Base, ReadInv, FoundInv, NEW g \in Gets, Looks(g)
  PROVE  ReadInv' /\ FoundInv'
<1>1. /\ UNCHANGED <<cfg, rows, seeds, mutation>>
      /\ \A h \in Gets : h # g => gets'[h] = gets[h]
  BY LooksAt DEF Base
<1>2. ASSUME NEW h \in Gets, h # g PROVE ReadAt(h)' /\ FoundAt(h)'
  <2>1. ReadAt(h) /\ FoundAt(h) /\ gets'[h] = gets[h]
    BY <1>1, <1>2 DEF ReadInv, FoundInv
  <2>2. ReadAt(h)'
    BY <1>1, <2>1, ReadStays DEF Unseen, Creating
  <2>3. FoundAt(h)'
    BY <1>1, <2>1, FoundStays DEF Unseen
  <2>4. QED
    BY <2>2, <2>3
<1>3. (Unseen' <=> Unseen) /\ (Creating' <=> Creating) /\ mutation'.p = mutation.p
  BY <1>1 DEF Unseen, Creating
<1> SUFFICES ReadAt(g)' /\ FoundAt(g)'
  BY <1>2 DEF ReadInv, FoundInv
<1>4. CASE gets'[g].phase \notin {"seeded", "merged"}
  BY <1>4 DEF ReadAt, FoundAt, HasRead, Fresh
<1>5. CASE /\ gets'[g].phase \in {"seeded", "merged"}
           /\ gets'[g].passedBy = gets[g].passedBy /\ gets'[g].current = gets[g].current
           /\ gets[g].phase = "seeded" /\ gets'[g].refreshed = gets[g].refreshed
           /\ gets'[g].seedsCurrent = gets[g].seedsCurrent
           /\ \A m \in Models : gets[g].found[m] # None =>
                                  gets'[g].found[m] = gets[g].found[m]
  <2>1. (HasRead(g)' => HasRead(g)) /\ (Fresh(g)' => Fresh(g))
    BY <1>5 DEF HasRead, Fresh
  <2>2. ReadAt(g)'
    BY <1>1, <1>3, <1>5, <2>1 DEF ReadInv, ReadAt, Same
  <2>3. FoundAt(g)'
    <3> SUFFICES ASSUME ~Unseen', Fresh(g)', NEW m \in Models \ GloballyDisabled',
                        Newest(RowsOr(gets[g].refreshed), m)' # None
                 PROVE  gets'[g].found[m] = Newest(RowsOr(gets[g].refreshed), m)'
      BY DEF FoundAt
    <3>1. RowsOr(gets[g].refreshed)' = RowsOr(gets[g].refreshed)
      BY <1>1, <1>5 DEF RowsOr
    <3>2. m \in Models \ GloballyDisabled
      BY <1>1 DEF GloballyDisabled
    <3>3. Newest(RowsOr(gets[g].refreshed), m)' = Newest(RowsOr(gets[g].refreshed), m)
      BY <1>1, <3>1 DEF Newest, Able, On, ModelIsEnabled
    <3>4. gets[g].found[m] = Newest(RowsOr(gets[g].refreshed), m)
      BY <1>3, <2>1, <3>2, <3>3 DEF FoundInv, FoundAt
    <3>5. QED
      BY <1>5, <3>3, <3>4
  <2>4. QED
    BY <2>2, <2>3
<1>6. CASE /\ gets'[g].phase \in {"seeded", "merged"}
           /\ gets'[g].passedBy = gets[g].passedBy /\ gets'[g].current = gets[g].current
           /\ gets[g].phase = "listed" /\ gets'[g].refreshed \in {rows, Failed}
           /\ gets'[g].found = SeedRoutes(RowsOr(gets'[g].refreshed), gets[g].hidden)
  <2>1. ReadAt(g)'
    BY <1>1, <1>6 DEF ReadAt, Same
  <2>2. FoundAt(g)'
    <3> SUFFICES ASSUME ~Unseen', Fresh(g)', NEW m \in Models \ GloballyDisabled',
                        Newest(RowsOr(gets[g].refreshed), m)' # None
                 PROVE  gets'[g].found[m] = Newest(RowsOr(gets[g].refreshed), m)'
      BY DEF FoundAt
    <3>1. gets[g].hidden = GloballyDisabled
      BY <1>3, <1>6 DEF Fresh, HasRead, Base, IInv, DiscInv, Quiet, Unseen, Knows, KnowsListed
    <3>2. m \in Models \ GloballyDisabled
      BY <1>1 DEF GloballyDisabled
    <3>3. PICK rs \in Seq(Row) : rs = RowsOr(gets'[g].refreshed)
      BY <1>6 DEF RowsOr, Base, SeqInv
    <3>4. gets'[g].found[m] = Newest(rs, m)
      BY <1>6, <3>1, <3>2, <3>3, SeedIs
    <3>5. RowsOr(gets[g].refreshed)' = rs
      BY <1>1, <3>3 DEF RowsOr
    <3>6. Newest(RowsOr(gets[g].refreshed), m)' = Newest(rs, m)
      BY <1>1, <3>5 DEF Newest, Able, On, ModelIsEnabled
    <3>7. QED
      BY <3>4, <3>6
  <2>3. QED
    BY <2>1, <2>2
<1>7. QED
  <2>1. gets'[g].phase \in {"seeded", "merged"} =>
          /\ gets'[g].passedBy = gets[g].passedBy /\ gets'[g].current = gets[g].current
          /\ \/ /\ gets[g].phase = "seeded" /\ gets'[g].refreshed = gets[g].refreshed
                /\ gets'[g].seedsCurrent = gets[g].seedsCurrent
                /\ \A m \in Models : gets[g].found[m] # None =>
                                       gets'[g].found[m] = gets[g].found[m]
             \/ /\ gets[g].phase = "listed" /\ gets'[g].refreshed \in {rows, Failed}
                /\ gets'[g].found = SeedRoutes(RowsOr(gets'[g].refreshed), gets[g].hidden)
    BY LooksAt DEF Base
  <2>2. QED
    BY <1>4, <1>5, <1>6, <2>1

(* The end of a discovery. *)
LEMMA EndReads ==
  ASSUME Base, ReadInv, FoundInv, NEW g \in Gets, Fail(g) \/ Publish(g)
  PROVE  ReadInv' /\ FoundInv'
<1>1. /\ UNCHANGED <<cfg, rows, mutation>>
      /\ \E gs \in {gets, SeedsBumped(gets)} :
           /\ gets' = [gs EXCEPT ![g] = Idle]
           /\ gets[g].refreshed # Failed => gs = SeedsBumped(gets)
      /\ gets[g].refreshed = Failed => seeds' = seeds
  BY Ends DEF Base
<1>2. PICK gs \in {gets, SeedsBumped(gets)} :
        /\ gets' = [gs EXCEPT ![g] = Idle]
        /\ gs = SeedsBumped(gets) \/ seeds' = seeds
  BY <1>1
<1>3. /\ DOMAIN gs = Gets
      /\ \A h \in Gets :
           /\ gs[h].phase = gets[h].phase /\ gs[h].refreshed = gets[h].refreshed
           /\ gs[h].found = gets[h].found
           /\ gs[h].current => gets[h].current
           /\ gs[h].seedsCurrent => gets[h].seedsCurrent
           /\ gs[h].passedBy = gets[h].passedBy
           /\ gs = SeedsBumped(gets) => ~gs[h].seedsCurrent
  BY BumpsRead DEF Base, IInv, Fields
<1>4. gets'[g] = Idle /\ \A h \in Gets : h # g => gets'[h] = gs[h]
  BY <1>2, <1>3
<1>5. ASSUME NEW h \in Gets, h # g PROVE ReadAt(h)' /\ FoundAt(h)'
  <2>1. ReadAt(h) /\ FoundAt(h) /\ gets'[h] = gs[h]
    BY <1>4, <1>5 DEF ReadInv, FoundInv
  <2>2. ReadAt(h)'
    BY <1>1, <1>3, <2>1, ReadStays DEF Unseen, Creating
  <2>3. FoundAt(h)'
    BY <1>1, <1>2, <1>3, <2>1, FoundStays DEF Unseen
  <2>4. QED
    BY <2>2, <2>3
<1>6. gets'[g].phase = "idle"
  BY <1>4 DEF Idle
<1>7. QED
  BY <1>5, <1>6 DEF ReadInv, FoundInv, ReadAt, FoundAt, HasRead, Fresh

(* What discoveries have read and found is kept. *)
LEMMA ReadsKeep == Base /\ ReadInv /\ FoundInv /\ [Next]_vars => ReadInv' /\ FoundInv'
<1> SUFFICES ASSUME Base, ReadInv, FoundInv, [Next]_vars PROVE ReadInv' /\ FoundInv'
  OBVIOUS
<1>1. CASE UNCHANGED vars
  <2>1. UNCHANGED <<cfg, rows, seeds, mutation, gets>>
    BY <1>1 DEF vars
  <2>2. ASSUME NEW g \in Gets PROVE ReadAt(g)' /\ FoundAt(g)'
    <3>1. ReadAt(g) /\ FoundAt(g)
      BY DEF ReadInv, FoundInv
    <3>2. ReadAt(g)'
      BY <2>1, <3>1, ReadStays DEF Unseen, Creating
    <3>3. FoundAt(g)'
      BY <2>1, <3>1, FoundStays DEF Unseen
    <3>4. QED
      BY <3>2, <3>3
  <2>3. QED
    BY <2>2 DEF ReadInv, FoundInv
<1>2. QED
  BY <1>1, HandlerReads, ReconcileReads, LookReads, EndReads
     DEF Next, Reconcile, Discover, Looks

-----------------------------------------------------------------------------
(* The configuration write, by the operation. *)
LEMMA Applies ==
  ASSUME Base, Apply
  PROVE  /\ mutation.p \in Providers /\ mutation.op \in Operations \ {"refresh"}
         /\ mutation.stage = "stored" /\ mutation'.stage = "applied"
         /\ mutation'.op = mutation.op /\ mutation'.p = mutation.p
         /\ mutation'.m = mutation.m /\ mutation'.todo = mutation.todo
         /\ UNCHANGED <<rows, abandoned, unread>>
         /\ Creating <=> cfg[mutation.p].status = "absent"
         /\ \A q \in Providers : q # mutation.p => cfg'[q] = cfg[q]
         /\ LET c == cfg[mutation.p]  new == cfg'[mutation.p] IN
            /\ mutation.op = "create" => new.status = "on"
            /\ mutation.op = "createOff" => new.status = "off" /\ new.off = {}
            /\ mutation.op = "enable" => new.status = "on"
            /\ mutation.op = "disable" => new.status = "off"
            /\ mutation.op = "delete" => new.status = "absent"
            /\ mutation.op = "retarget" =>
                 new.status = c.status /\ new.off = c.off /\ new.catalog = c.catalog
            /\ mutation.op \in ModelOps => new.status = c.status
            /\ mutation.op \in {"add", "claim"} =>
                 /\ new.off = c.off \ {mutation.m}
                 /\ new.catalog \in {c.catalog, c.catalog \cup {mutation.m}}
<1>1. /\ mutation.stage = "stored" /\ mutation.op \in Operations \ {"refresh"}
      /\ mutation.p \in Providers /\ (Creating <=> cfg[mutation.p].status = "absent")
  BY DEF Apply, Base, IInv, MutInv
<1>2. /\ mutation'.stage = "applied" /\ mutation'.op = mutation.op /\ mutation'.p = mutation.p
      /\ mutation'.m = mutation.m /\ mutation'.todo = mutation.todo
      /\ UNCHANGED <<rows, abandoned, unread>>
  BY DEF Apply, Base, IInv, Fields, MutFields
<1>3. /\ cfg'[mutation.p] = NewConfig(cfg[mutation.p])
      /\ \A q \in Providers : q # mutation.p => cfg'[q] = cfg[q]
  BY <1>1 DEF Apply, Base, IInv, Fields, CfgFields
<1>4. PICK c, new, op, m :
        /\ c = cfg[mutation.p] /\ new = cfg'[mutation.p] /\ op = mutation.op /\ m = mutation.m
        /\ new = NewConfig(c) /\ DOMAIN c = {"status", "ident", "catalog", "off"}
  BY <1>1, <1>3 DEF Base, IInv, Fields, CfgFields
<1>5. op = "create" => new.status = "on"
  BY <1>4 DEF NewConfig
<1>6. op = "createOff" => new.status = "off" /\ new.off = {}
  BY <1>4 DEF NewConfig
<1>7. op = "enable" => new.status = "on"
  BY <1>4 DEF NewConfig
<1>8. op = "disable" => new.status = "off"
  BY <1>4 DEF NewConfig
<1>9. op = "delete" => new.status = "absent"
  BY <1>4 DEF NewConfig
<1>10. op = "retarget" =>
         new.status = c.status /\ new.off = c.off /\ new.catalog = c.catalog
  BY <1>4 DEF NewConfig
<1>11. op = "add" => /\ new.status = c.status /\ new.off = c.off \ {m}
                     /\ new.catalog \in {c.catalog, c.catalog \cup {m}}
  BY <1>4 DEF NewConfig
<1>12. op = "claim" => /\ new.status = c.status /\ new.off = c.off \ {m}
                       /\ new.catalog \in {c.catalog, c.catalog \cup {m}}
  BY <1>4 DEF NewConfig
<1>13. op \in {"drop", "forget"} => new.status = c.status
  BY <1>4 DEF NewConfig
<1>14. op \in ModelOps => new.status = c.status
  BY <1>11, <1>12, <1>13 DEF ModelOps
<1>15. op \in {"add", "claim"} => /\ new.off = c.off \ {m}
                                  /\ new.catalog \in {c.catalog, c.catalog \cup {m}}
  BY <1>11, <1>12
<1>16. QED
  BY <1>1, <1>2, <1>3, <1>4, <1>5, <1>6, <1>7, <1>8, <1>9, <1>10, <1>14, <1>15

(* Nothing is known to be missing of a rebuild that has read the rows, or  *)
(* of one that has not: its routes are built from what is cached.          *)
LEMMA RebuildUnread ==
  ASSUME NEW read, NEW fetch, NEW catalogs, Rebuilding(read, fetch, catalogs)
  PROVE  UnreadInv'
BY DEF Rebuilding, UnreadInv

(* The providers whose rows are not cached have no routes to lose. *)
LEMMA UnreadKeeps == Base /\ UnreadInv /\ [Next]_vars => UnreadInv'
<1> SUFFICES ASSUME Base, UnreadInv, [Next]_vars PROVE UnreadInv'
  OBVIOUS
<1>0. unread \subseteq Providers
  BY DEF Base, ProvInv
<1>1. CASE UNCHANGED vars
  BY <1>1 DEF vars, UnreadInv, On
<1>2. CASE Mutate
  <2>1. PICK op \in Operations, p \in Providers, m \in Models \cup {None} : Committed(op, p, m)
    BY <1>2, Commits DEF Base
  <2>2. UNCHANGED <<cfg, abandoned, unread>> /\ mutation.op = "none"
    BY <2>1 DEF Committed
  <2>3. QED
    BY <2>2 DEF UnreadInv, On
<1>3. CASE Apply
  <2>1. /\ mutation.p \in Providers /\ mutation'.p = mutation.p
        /\ mutation.op \in Operations \ {"refresh"}
        /\ mutation'.op = mutation.op /\ mutation'.todo = mutation.todo
        /\ mutation.stage = "stored"
        /\ UNCHANGED <<abandoned, unread>>
        /\ \A q \in Providers : q # mutation.p => cfg'[q] = cfg[q]
    BY <1>3, Applies
  <2>2. cfg'[mutation.p].status = "on" =>
          cfg[mutation.p].status = "on" \/ mutation.op \in {"create", "enable"}
    <3>1. /\ mutation.op = "createOff" => cfg'[mutation.p].status = "off"
          /\ mutation.op = "disable" => cfg'[mutation.p].status = "off"
          /\ mutation.op = "delete" => cfg'[mutation.p].status = "absent"
          /\ mutation.op = "retarget" => cfg'[mutation.p].status = cfg[mutation.p].status
          /\ mutation.op \in ModelOps => cfg'[mutation.p].status = cfg[mutation.p].status
      BY <1>3, Applies
    <3>2. QED
      BY <2>1, <3>1 DEF Operations, ModelOps
  <2>3. mutation.op \in {"create", "enable"} => mutation.todo # <<>>
    BY <2>1, ListsDiffer DEF Base, TodoInv, Whole
  <2>4. ASSUME NEW q \in unread
        PROVE  \/ q \in abandoned' \/ ~On(q)'
               \/ mutation'.op \in {"create", "enable"} /\ mutation'.p = q /\ mutation'.todo # <<>>
    <3>1. q \in Providers
      BY <1>0
    <3>2. CASE q = mutation.p
      BY <2>1, <2>2, <2>3, <3>2 DEF UnreadInv, On
    <3>3. CASE q # mutation.p
      <4>1. On(q)' <=> On(q)
        BY <2>1, <3>1, <3>3 DEF On
      <4>2. QED
        BY <2>1, <4>1 DEF UnreadInv
    <3>4. QED
      BY <3>2, <3>3
  <2>5. QED
    BY <2>1, <2>4 DEF UnreadInv
<1>4. CASE Invalidate \/ Spawn
  <2>1. /\ mutation'.op = mutation.op /\ mutation'.p = mutation.p
        /\ mutation'.todo = mutation.todo /\ UNCHANGED <<cfg, abandoned, unread>>
    BY <1>4 DEF Invalidate, Spawn, Base, IInv, Fields, MutFields
  <2>2. QED
    BY <2>1 DEF UnreadInv, On
<1>5. CASE Disconnect
  <2>1. /\ abandoned' = abandoned \cup {mutation.p} /\ unread' = unread \cup {mutation.p}
        /\ cfg' = cfg
    BY <1>5 DEF Disconnect
  <2>2. QED
    BY <2>1 DEF UnreadInv, On
<1>6. CASE DisconnectRefresh \/ Complete
  <2>1. UNCHANGED <<cfg, abandoned, unread>>
        /\ (mutation.op = "refresh" \/ mutation.todo = <<>>)
    BY <1>6 DEF DisconnectRefresh, Complete
  <2>2. QED
    BY <2>1 DEF UnreadInv, On
<1>7. ASSUME NEW step, Doing(step), StepDone, step \in {"evict", "evictLive", "sync"},
             UNCHANGED <<cfg, abandoned>>,
             \/ unread' \in {unread, {}}
             \/ step = "sync" /\ Creating /\ unread' = unread \cup {mutation.p}
      PROVE  UnreadInv'
  <2>1. /\ mutation'.op = mutation.op /\ mutation'.p = mutation.p
        /\ mutation'.todo = <<>> => mutation.op = "createOff"
        /\ mutation.stage = "spawned"
    BY <1>7, StepIs DEF Base
  <2>2. ASSUME NEW q \in unread'
        PROVE  \/ q \in abandoned' \/ ~On(q)'
               \/ mutation'.op \in {"create", "enable"} /\ mutation'.p = q /\ mutation'.todo # <<>>
    <3>1. CASE q \in unread
      BY <1>7, <2>1, <3>1 DEF UnreadInv, On
    <3>2. CASE q \notin unread
      <4>1. Creating /\ q = mutation.p
        BY <1>7, <2>2, <3>2
      <4>2. CASE mutation.op = "createOff"
        <5>1. cfg[mutation.p].status = "off"
          BY <2>1, <4>2 DEF Base, TodoInv
        <5>2. QED
          BY <1>7, <4>1, <5>1 DEF On
      <4>3. CASE mutation.op = "create"
        BY <2>1, <4>1, <4>3
      <4>4. QED
        BY <4>1, <4>2, <4>3 DEF Creating
    <3>3. QED
      BY <3>1, <3>2
  <2>3. QED
    BY <2>2 DEF UnreadInv
<1>8. CASE ReconcileEvict \/ ReconcileEvictLive
  BY <1>7, <1>8 DEF ReconcileEvict, ReconcileEvictLive
<1>9. CASE ReconcileSync
  <2>1. PICK read \in {rows, Failed} :
          Doing("sync") /\ StepDone /\ CacheRows(read) /\ UNCHANGED <<cfg, abandoned>>
    BY <1>9 DEF ReconcileSync
  <2>2. unread' \in {unread, {}} \/ (Creating /\ unread' = unread \cup {mutation.p})
    BY <2>1 DEF CacheRows, Creating
  <2>3. QED
    BY <1>7, <2>1, <2>2
<1>10. CASE ReconcileRefetch
  BY <1>10, Rebuilds1, RebuildUnread DEF Base
<1>11. CASE RefreshAtomic
  <2>1. CASE UNCHANGED <<cfg, rows, routes, origin, seeds, gets, abandoned, unread>>
    <3>1. mutation.op = "refresh"
      BY <1>11, Rebuilds2, StepIs DEF Base
    <3>2. QED
      BY <2>1, <3>1 DEF UnreadInv, On
  <2>2. QED
    BY <1>11, <2>1, Rebuilds2, RebuildUnread DEF Base
<1>12. ASSUME NEW g \in Gets, Looks(g) PROVE UnreadInv'
  <2>1. UNCHANGED <<cfg, mutation, abandoned, unread>>
    BY <1>12, LooksAt DEF Base
  <2>2. QED
    BY <2>1 DEF UnreadInv, On
<1>13. ASSUME NEW g \in Gets, Publish(g) PROVE UnreadInv'
  BY <1>13 DEF Publish, UnreadInv
<1>14. ASSUME NEW g \in Gets, Fail(g) PROVE UnreadInv'
  BY <1>14 DEF Fail, UnreadInv, On
<1>15. QED
  BY <1>1, <1>2, <1>3, <1>4, <1>5, <1>6, <1>8, <1>9, <1>10, <1>11, <1>12, <1>13, <1>14
     DEF Next, Reconcile, Discover, Looks

-----------------------------------------------------------------------------
(* Where neither the configuration, nor the rows, nor the routes change.   *)
LEMMA RoutedStays ==
  ASSUME NEW m, Routed(m), UNCHANGED <<cfg, rows, routes>>, StillToClaim(m) => StillToClaim(m)'
  PROVE  Routed(m)'
<1>1. /\ Newest(rows, m)' = Newest(rows, m)
      /\ GloballyDisabled' = GloballyDisabled
      /\ ClaimedSwitchedOff(m)' = ClaimedSwitchedOff(m)
  BY DEF Newest, Able, On, ModelIsEnabled, GloballyDisabled, ClaimedSwitchedOff
<1>2. QED
  BY <1>1 DEF Routed

(* Where the model is routed to its newest owner, or hidden. *)
LEMMA RoutedNow ==
  ASSUME NEW m, UNCHANGED <<cfg, rows>>,
         IF m \in GloballyDisabled THEN routes'[m] = None
         ELSE Newest(rows, m) # None => routes'[m] = Newest(rows, m)
  PROVE  Routed(m)'
<1>1. /\ Newest(rows, m)' = Newest(rows, m)
      /\ GloballyDisabled' = GloballyDisabled
  BY DEF Newest, Able, On, ModelIsEnabled, GloballyDisabled
<1>2. QED
  BY <1>1 DEF Routed

(* A rebuild routes a model as it seeds it, and a hidden one nowhere. *)
LEMMA RebuiltClaims ==
  ASSUME NEW read, NEW fetch, NEW catalogs, NEW m \in Models
  PROVE  LET seeded == SeedRoutes(RowsOr(read), GloballyDisabled)[m]
             new == Rebuilt(read, fetch, catalogs)[m]
         IN IF m \in GloballyDisabled THEN new = None
            ELSE seeded # None => new = seeded
<1> DEFINE hidden == GloballyDisabled
           base == SeedRoutes(RowsOr(read), hidden)
           fresh == Discovered(base, Fetched(catalogs), hidden)
           kept == [n \in Models |->
                      IF /\ base[n] = None
                         /\ routes[n] \in Providers \ fetch
                         /\ MayOwn(routes[n], n, hidden)
                      THEN routes[n] ELSE fresh[n]]
           keep == {p \in Providers : On(p)} \ {p \in fetch : catalogs[p] # Failed}
<1>1. Rebuilt(read, fetch, catalogs)[m] = Published(kept, keep)[m]
  BY DEF Rebuilt
<1>2. fresh[m] = IF base[m] # None \/ Offering(m, Fetched(catalogs), hidden) = {}
                 THEN base[m] ELSE LeastOf(Offering(m, Fetched(catalogs), hidden))
  BY DEF Discovered
<1>3. CASE m \in hidden
  <2>1. base[m] = None
    BY <1>3, SeedHidden
  <2>2. Offering(m, Fetched(catalogs), hidden) = {}
    BY <1>3 DEF Offering, MayOwn
  <2>3. fresh[m] = None
    BY <1>2, <2>1, <2>2
  <2>4. \A p : ~MayOwn(p, m, hidden)
    BY <1>3 DEF MayOwn
  <2> HIDE DEF fresh, base
  <2>5. kept[m] = None
    BY <2>3, <2>4
  <2> HIDE DEF kept, keep
  <2>6. Published(kept, keep)[m] = None
    BY <2>4, <2>5 DEF Published
  <2>7. QED
    BY <1>1, <1>3, <2>6
<1>4. CASE m \notin hidden /\ base[m] # None
  <2>1. fresh[m] = base[m]
    BY <1>2, <1>4
  <2> HIDE DEF fresh, base
  <2>2. kept[m] = base[m]
    BY <1>4, <2>1
  <2> HIDE DEF kept, keep
  <2>3. Published(kept, keep)[m] = kept[m]
    BY <1>4, <2>2 DEF Published
  <2>4. QED
    BY <1>1, <1>4, <2>2, <2>3 DEF base
<1>5. QED
  BY <1>3, <1>4

(* The end of a rebuild. *)
LEMMA RebuildClaims ==
  ASSUME Base, StoreInv, NEW step \in {"one", "all", "atomic"}, Doing(step), StepDone,
         NEW read, NEW fetch, NEW catalogs, Rebuilding(read, fetch, catalogs)
  PROVE  ClaimInv'
<1> SUFFICES ASSUME abandoned' = {} PROVE \A m \in Models : Routed(m)'
  BY DEF ClaimInv, NoRebuild
<1>1. /\ read \in {rows, Failed} /\ CacheRows(read) /\ unread' = {} /\ UNCHANGED <<cfg, rows>>
      /\ routes' = Rebuilt(read, fetch, catalogs)
  BY DEF Rebuilding, SetRoutes
<1>2. rows \in Seq(Row) /\ seeds \in Seq(Row)
  BY DEF Base, SeqInv
<1>3. RowsOr(read) = rows
  <2>1. CASE read # Failed
    BY <1>1, <2>1 DEF RowsOr
  <2>2. CASE read = Failed
    <3>1. unread = {}
      BY <1>1, <2>2 DEF CacheRows
    <3>2. ~Uncached /\ mutation.stage = "spawned"
      BY StepIs DEF Base
    <3>3. Same(seeds, rows, {})
      BY <3>1, <3>2, AgreesWhen DEF Agrees
    <3>4. QED
      BY <1>2, <2>2, <3>3, SameAll DEF RowsOr
  <2>3. QED
    BY <2>1, <2>2
<1>4. ASSUME NEW m \in Models PROVE Routed(m)'
  <2>1. IF m \in GloballyDisabled THEN routes'[m] = None
        ELSE SeedRoutes(rows, GloballyDisabled)[m] # None =>
               routes'[m] = SeedRoutes(rows, GloballyDisabled)[m]
    BY <1>1, <1>3, RebuiltClaims
  <2>2. m \notin GloballyDisabled => SeedRoutes(rows, GloballyDisabled)[m] = Newest(rows, m)
    BY <1>2, SeedIs
  <2>3. QED
    BY <1>1, <2>1, <2>2, RoutedNow
<1>5. QED
  BY <1>4

(* The end of a discovery. *)
LEMMA EndClaims ==
  ASSUME Base, StoreInv, ReadInv, FoundInv, ClaimInv, NEW g \in Gets, Fail(g) \/ Publish(g)
  PROVE  ClaimInv'
<1>1. /\ gets[g].phase = "merged" /\ gets[g].current /\ mutation.op = "none"
      /\ UNCHANGED <<cfg, rows, mutation>>
      /\ IF gets[g].refreshed = Failed THEN seeds' = seeds /\ unread' = unread
         ELSE seeds' = gets[g].refreshed /\ unread' = gets[g].passedBy
  BY Ends DEF Base, LockFree
<1>2. CASE Fail(g)
  <2>1. routes' = routes /\ (abandoned' = {} => abandoned = {})
    BY <1>2 DEF Fail
  <2>2. NoRebuild' => NoRebuild
    BY <1>1, <2>1 DEF NoRebuild
  <2>3. ASSUME NEW m \in Models, Routed(m) PROVE Routed(m)'
    BY <1>1, <2>1, <2>3, RoutedStays DEF StillToClaim, Claiming
  <2>4. QED
    BY <2>2, <2>3 DEF ClaimInv
<1>3. CASE Publish(g)
  <2> SUFFICES ASSUME abandoned' = {} PROVE \A m \in Models : Routed(m)'
    BY DEF ClaimInv, NoRebuild
  <2>1. /\ routes' = Published(gets[g].found, gets[g].failed)
        /\ unread' = {} /\ gets[g].passedBy = {}
        /\ gets[g].refreshed = Failed => gets[g].seedsCurrent
    BY <1>3 DEF Publish, StillCurrent
  <2>2. rows \in Seq(Row) /\ seeds \in Seq(Row)
        /\ (gets[g].refreshed # Failed => gets[g].refreshed \in Seq(Row))
    BY DEF Base, SeqInv
  <2>3. ~Unseen /\ ~Uncached /\ ~(mutation.op \in ModelOps) /\ Quiet
    BY <1>1, FreeAgrees DEF Base, Quiet, Unseen
  <2>4. RowsOr(gets[g].refreshed) = rows
    <3>1. CASE gets[g].refreshed # Failed
      <4>1. Same(gets[g].refreshed, rows, {})
        BY <1>1, <2>1, <2>3, <3>1 DEF ReadInv, ReadAt, HasRead
      <4>2. QED
        BY <2>2, <3>1, <4>1, SameAll DEF RowsOr
    <3>2. CASE gets[g].refreshed = Failed
      <4>1. Same(seeds, rows, {})
        BY <1>1, <2>1, <2>3, <3>2, AgreesWhen DEF Agrees
      <4>2. QED
        BY <2>2, <3>2, <4>1, SameAll DEF RowsOr
    <3>3. QED
      BY <3>1, <3>2
  <2>5. Fresh(g)
    BY <1>1, <2>1 DEF Fresh, HasRead
  <2>6. KnowsFound(g)
    BY <1>1, <2>3 DEF Base, IInv, DiscInv, Knows
  <2>7. ASSUME NEW m \in Models PROVE Routed(m)'
    <3>1. CASE m \in GloballyDisabled
      <4>1. gets[g].found[m] = None
        BY <2>6, <3>1 DEF KnowsFound, MayOwn
      <4>2. routes'[m] = None
        BY <2>1, <3>1, <4>1 DEF Published, MayOwn
      <4>3. QED
        BY <1>1, <3>1, <4>2, RoutedNow
    <3>2. CASE m \notin GloballyDisabled
      <4>1. Newest(rows, m) # None => gets[g].found[m] = Newest(rows, m)
        BY <2>3, <2>4, <2>5, <3>2 DEF FoundInv, FoundAt
      <4>2. gets[g].found[m] # None => routes'[m] = gets[g].found[m]
        BY <2>1 DEF Published
      <4>3. Newest(rows, m) # None => routes'[m] = Newest(rows, m)
        BY <4>1, <4>2
      <4>4. QED
        BY <1>1, <3>2, <4>3, RoutedNow
    <3>3. QED
      BY <3>1, <3>2
  <2>8. QED
    BY <2>7
<1>4. QED
  BY <1>2, <1>3

(* A provider that is not switched on owns no route between mutations.     *)
LEMMA OffOwnsNothing ==
  ASSUME Base, NoRebuild, mutation.op # "delete", NEW m \in Models, NEW p \in Providers, ~On(p)
  PROVE  routes[m] # p
<1> SUFFICES ASSUME routes[m] = p PROVE FALSE
  OBVIOUS
<1>1. p # None
  BY Limits
<1>2. OwnerOK(m, p)
  BY <1>1 DEF Base, IInv, RouteInv
<1>3. QED
  BY <1>2 DEF OwnerOK, NoRebuild, Evicting

(* A commit that rebuilds nothing keeps the claims of the switched off. *)
LEMMA SwitchedOffStays ==
  ASSUME Base, NEW op \in Operations, NEW p \in Providers, NEW m \in Models \cup {None},
         Committed(op, p, m), op \notin Rebuilds, NEW x \in Models, ClaimedSwitchedOff(x)
  PROVE  ClaimedSwitchedOff(x)'
<1>1. rows \in Seq(Row) /\ rows' \in Seq(Row)
  BY CommittedRows DEF Base, SeqInv
<1>2. PICK row \in Row : /\ \E i \in 1..Len(rows) : rows[i] = row
                         /\ row.model = x /\ cfg[row.owner].status = "off"
  BY <1>1 DEF ClaimedSwitchedOff
<1>3. cfg' = cfg
  BY DEF Committed
<1>4. SUFFICES \E i \in 1..Len(rows') : rows'[i] = row
  BY <1>1, <1>2, <1>3 DEF ClaimedSwitchedOff
<1>5. CASE op \in {"add", "claim"} /\ row = [owner |-> p, model |-> m]
  <2>1. PICK rs \in Seq(Row) : rs = WithoutRow(rows, p, m)
    BY <1>1, KeptType DEF WithoutRow
  <2>2. rows' = Append(rs, row)
    BY <1>5, <2>1 DEF Committed
  <2>3. Len(rows') \in 1..Len(rows') /\ rows'[Len(rows')] = row
    BY <2>2
  <2>4. QED
    BY <2>3
<1>6. CASE ~(op \in {"add", "claim"} /\ row = [owner |-> p, model |-> m])
  <2>1. PICK K : K = {row}
    OBVIOUS
  <2>2. op \in {"create", "createOff", "delete"} => row.owner # p
    BY <1>2 DEF Committed, Rebuilds
  <2>3. op \in ModelOps => [owner |-> p, model |-> m] \notin K
    BY <1>6, <2>1 DEF ModelOps, Rebuilds
  <2>4. Kept(rows', K) = Kept(rows, K)
    BY <2>1, <2>2, <2>3, OtherRows DEF Base
  <2>5. \E i \in 1..Len(Kept(rows, K)) : Kept(rows, K)[i] = row
    BY <1>1, <1>2, <2>1, KeptElements
  <2>6. QED
    BY <1>1, <2>1, <2>4, <2>5, KeptElements
<1>7. QED
  BY <1>5, <1>6

(* A commit: the rows of a switched-on provider change only with a claim. *)
LEMMA CommitClaims ==
  ASSUME Base, ClaimInv, Mutate
  PROVE  ClaimInv'
<1>1. PICK op \in Operations, p \in Providers, m \in Models \cup {None} : Committed(op, p, m)
  BY Commits DEF Base
<1>2. /\ mutation.op = "none" /\ UNCHANGED <<cfg, routes, abandoned>>
      /\ mutation'.op = op /\ mutation'.p = p /\ mutation'.m = m
      /\ mutation'.todo = Whole(op) \/ (op = "retarget" /\ ~On(p) /\ mutation'.todo = <<>>)
      /\ op # "refresh" => mutation'.stage = "stored"
  BY <1>1 DEF Committed
<1> SUFFICES ASSUME NoRebuild', NEW x \in Models PROVE Routed(x)'
  BY DEF ClaimInv
<1>3. op \notin Rebuilds \/ op = "retarget"
  BY <1>2, ListsDiffer DEF NoRebuild, Rebuilds, Whole
<1>4. NoRebuild
  BY <1>2 DEF NoRebuild, Rebuilds
<1>5. Routed(x) /\ ~StillToClaim(x)
  BY <1>2, <1>4 DEF ClaimInv, StillToClaim, Claiming
<1>6. CASE op \in {"retarget", "refresh", "enable", "disable"}
  <2>1. rows' = rows
    BY <1>1, <1>6 DEF Committed
  <2>2. QED
    BY <1>2, <1>5, <2>1, RoutedStays
<1>7. CASE op \in {"createOff", "add", "claim"} /\ ~StillToClaim(x)'
  <2>1. rows \in Seq(Row) /\ rows' \in Seq(Row)
    BY <1>1, CommittedRows DEF Base, SeqInv
  <2>2. PICK K : K = ClaimsOf(x, Able(x))
    OBVIOUS
  <2>3. K \subseteq Row /\ \A r \in K : r.model = x /\ On(r.owner)
    BY <2>2 DEF ClaimsOf, Able
  <2>4. op = "createOff" => ~On(p)
    BY <1>1 DEF Committed, On
  <2>5. op \in {"add", "claim"} => m # x \/ ~On(p)
    BY <1>2, <1>7 DEF StillToClaim, Claiming, On
  <2>6. Kept(rows', K) = Kept(rows, K)
    <3>1. op \in {"create", "createOff", "delete"} => \A r \in K : r.owner # p
      BY <1>7, <2>3, <2>4
    <3>2. op \in ModelOps => [owner |-> p, model |-> m] \notin K
      BY <1>7, <2>3, <2>5 DEF ModelOps
    <3>3. QED
      BY <1>1, <2>3, <3>1, <3>2, OtherRows DEF Base
  <2>7. Newest(rows', x) = Newest(rows, x)
    BY <2>1, <2>2, <2>6, NewestSame
  <2>8. Newest(rows, x)' = Newest(rows', x) /\ GloballyDisabled' = GloballyDisabled
    BY <1>2 DEF Newest, Able, On, ModelIsEnabled, GloballyDisabled
  <2>9. ClaimedSwitchedOff(x) => ClaimedSwitchedOff(x)'
    <3>1. op \notin Rebuilds
      BY <1>7 DEF Rebuilds
    <3>2. QED
      BY <1>1, <3>1, SwitchedOffStays
  <2>10. QED
    BY <1>2, <1>5, <2>7, <2>8, <2>9 DEF Routed
<1>8. CASE StillToClaim(x)'
  BY <1>8 DEF Routed
<1>9. QED
  BY <1>3, <1>6, <1>7, <1>8 DEF Operations, Rebuilds

(* The configuration write publishes the claim with it. *)
LEMMA ApplyClaims ==
  ASSUME Base, StoreInv, ClaimInv, Apply
  PROVE  ClaimInv'
<1>1. PICK p, m, op : p = mutation.p /\ m = mutation.m /\ op = mutation.op
  OBVIOUS
<1>2. /\ p \in Providers /\ op \in Operations \ {"refresh"}
      /\ mutation.stage = "stored" /\ mutation'.stage = "applied"
      /\ mutation'.op = op /\ mutation'.todo = mutation.todo
      /\ UNCHANGED <<rows, abandoned>>
      /\ Creating <=> cfg[p].status = "absent"
      /\ \A q \in Providers : q # p => cfg'[q] = cfg[q]
  BY <1>1, Applies
<1>3. PICK c, new :
        /\ c = cfg[p] /\ new = cfg'[p]
        /\ op = "createOff" => new.status = "off" /\ new.off = {}
        /\ op = "retarget" =>
             new.status = c.status /\ new.off = c.off /\ new.catalog = c.catalog
        /\ op \in ModelOps => new.status = c.status
        /\ op \in {"add", "claim"} => /\ new.off = c.off \ {m}
                                      /\ new.catalog \in {c.catalog, c.catalog \cup {m}}
  BY <1>1, Applies
<1> SUFFICES ASSUME NoRebuild', NEW x \in Models PROVE Routed(x)'
  BY DEF ClaimInv
<1>4. NoRebuild
  BY <1>1, <1>2 DEF NoRebuild
<1>5. Routed(x)
  BY <1>4 DEF ClaimInv
<1>6. op \in {"createOff", "add", "claim"} \/ (op = "retarget" /\ ~On(p))
  <2>1. op \in Rebuilds => mutation.todo = <<>>
    BY <1>1, <1>4 DEF NoRebuild
  <2>2. op \in Rebuilds => op = "retarget"
    BY <1>1, <1>2, <2>1, ListsDiffer DEF Base, TodoInv, Whole, Rebuilds
  <2>3. op = "retarget" => ~On(p)
    BY <1>1, <1>2, <2>1 DEF Base, TodoInv, Rebuilds
  <2>4. QED
    BY <1>2, <2>2, <2>3 DEF Operations, Rebuilds
<1>7. rows \in Seq(Row)
  BY DEF Base, SeqInv
<1>8. ~StillToClaim(x)'
  BY <1>2 DEF StillToClaim
<1>9. ClaimedSwitchedOff(x) => ClaimedSwitchedOff(x)'
  <2> SUFFICES ASSUME ClaimedSwitchedOff(x) PROVE ClaimedSwitchedOff(x)'
    OBVIOUS
  <2>1. PICK i \in DOMAIN rows : rows[i].model = x /\ cfg[rows[i].owner].status = "off"
    BY DEF ClaimedSwitchedOff
  <2>2. rows[i].owner \in Providers
    <3>1. rows[i] \in Row
      BY <1>7, <2>1
    <3>2. QED
      BY <3>1 DEF Row
  <2>3. new.status = c.status \/ op = "createOff"
    BY <1>3, <1>6 DEF ModelOps
  <2>4. cfg'[rows[i].owner].status = "off"
    BY <1>2, <1>3, <2>1, <2>2, <2>3
  <2>5. QED
    BY <1>2, <2>1, <2>4 DEF ClaimedSwitchedOff
<1>10. ASSUME Newest(rows, x)' = Newest(rows, x), routes'[x] = routes[x],
              x \in GloballyDisabled => x \in GloballyDisabled' \/ ClaimedSwitchedOff(x)',
              ~StillToClaim(x)
       PROVE  Routed(x)'
  BY <1>5, <1>9, <1>10 DEF Routed
<1>11. CASE ~On(p)
  <2>1. routes[x] # p
    BY <1>1, <1>2, <1>4, <1>6, <1>11, OffOwnsNothing
  <2>2. routes'[x] = routes[x]
    <3>1. CASE op = "createOff"
      <4>1. routes' = Evicted(p)
        BY <1>1, <3>1 DEF Apply, SetRoutes
      <4>2. QED
        BY <2>1, <4>1 DEF Evicted
    <3>2. CASE op = "retarget"
      <4>1. mutation.epoch = FALSE
        BY <1>1, <1>2, <1>11, <3>2 DEF Base, IInv, MutInv, TakesEpoch
      <4>2. QED
        BY <1>1, <3>2, <4>1 DEF Apply, SetRoutes
    <3>3. CASE op \in {"add", "claim"}
      <4>1. routes' = EpochRoutes(p, m) /\ ~On(p) /\ DOMAIN routes = Models
        BY <1>1, <1>11, <3>3 DEF Apply, SetRoutes, Base, IInv, Fields, RouteFields
      <4>2. QED
        BY <2>1, <4>1 DEF EpochRoutes
    <3>4. QED
      BY <1>6, <3>1, <3>2, <3>3
  <2>3. ~On(p)'
    BY <1>3, <1>6, <1>11 DEF On, ModelOps
  <2>4. Able(x)' = Able(x) /\ p \notin Able(x)
    BY <1>2, <1>11, <2>3 DEF Able, On, ModelIsEnabled
  <2>5. Newest(rows, x)' = Newest(rows, x)
    <3>1. \A q \in Able(x) : x \in cfg'[q].catalog <=> x \in cfg[q].catalog
      BY <1>2, <2>4 DEF Able
    <3>2. QED
      BY <1>2, <2>4, <3>1 DEF Newest
  <2>6. x \in GloballyDisabled => x \in GloballyDisabled' \/ ClaimedSwitchedOff(x)'
    <3> SUFFICES ASSUME x \in GloballyDisabled, x \notin GloballyDisabled'
                 PROVE  ClaimedSwitchedOff(x)'
      OBVIOUS
    <3>1. PICK q \in Providers : cfg[q].status # "absent" /\ x \in cfg[q].off
      BY DEF GloballyDisabled
    <3>2. ~(cfg'[q].status # "absent" /\ x \in cfg'[q].off)
      BY DEF GloballyDisabled
    <3>3. q = p
      BY <1>2, <3>1, <3>2
    <3>4. op \in {"add", "claim"} /\ x = m
      BY <1>1, <1>2, <1>3, <1>6, <3>1, <3>2, <3>3 DEF Creating, ModelOps
    <3>5. rows # <<>> /\ rows[Len(rows)] = [owner |-> p, model |-> m]
      BY <1>1, <1>2, <3>4 DEF StoreInv, Claiming
    <3>6. cfg'[p].status = "off"
      <4>1. cfg[p].status \in {"absent", "off", "on"}
        BY <1>2 DEF Base, IInv, Fields, CfgFields
      <4>2. cfg[p].status = "off"
        BY <1>11, <3>1, <3>3, <4>1 DEF On
      <4>3. QED
        BY <1>3, <3>4, <4>2 DEF ModelOps
    <3>7. Len(rows) \in DOMAIN rows
      BY <1>7, <3>5
    <3>8. QED
      BY <1>2, <3>4, <3>5, <3>6, <3>7 DEF ClaimedSwitchedOff
  <2>7. ~StillToClaim(x)
    BY <1>1, <1>11 DEF StillToClaim
  <2>8. QED
    BY <1>10, <2>2, <2>5, <2>6, <2>7
<1>12. CASE On(p)
  <2>1. op \in {"add", "claim"}
    BY <1>1, <1>2, <1>6, <1>12 DEF On, Creating
  <2>2. On(p)' /\ new.status = c.status
    BY <1>3, <1>12, <2>1 DEF On, ModelOps
  <2>3. /\ routes' = [routes EXCEPT ![m] = p] /\ DOMAIN routes = Models /\ m \in Models
    BY <1>1, <1>12, <2>1
       DEF Apply, SetRoutes, EpochRoutes, Claiming, Base, IInv, Fields, RouteFields, TodoInv, ModelOps
  <2>4. CASE x = m
    <3>1. PICK rs \in Seq(Row) : rs = rows
      BY <1>7
    <3>2. p \in Able(x)'
      BY <1>2, <1>3, <2>1, <2>2, <2>4 DEF Able, ModelIsEnabled
    <3>3. rs # <<>> /\ rs[Len(rs)] = [owner |-> p, model |-> x]
      BY <1>1, <1>2, <2>1, <2>4, <3>1 DEF StoreInv, Claiming
    <3>4. PICK A : A = Able(x)'
      OBVIOUS
    <3>5. Kept(rs, ClaimsOf(x, A)) # <<>>
          /\ Kept(rs, ClaimsOf(x, A))[Len(Kept(rs, ClaimsOf(x, A)))].owner = p
      <4> DEFINE at == {i \in DOMAIN rs : rs[i].model = x /\ rs[i].owner \in A}
                 k == Kept(rs, ClaimsOf(x, A))
      <4>1. Len(rs) \in at /\ at \subseteq 1..Len(rs) /\ Len(rs) \in Nat
        BY <3>2, <3>3, <3>4
      <4>2. /\ k = <<>> => at = {}
            /\ k # <<>> => \E i \in at : (\A j \in at : j <= i) /\ k[Len(k)] = rs[i]
        BY LastClaim
      <4> HIDE DEF at, k
      <4>3. k # <<>> /\ k[Len(k)] = rs[Len(rs)]
        BY <4>1, <4>2
      <4>4. QED
        BY <3>3, <4>3 DEF k
    <3>6. Newest(rows, x)' = p
      BY <1>2, <3>1, <3>4, <3>5 DEF Newest, Choice
    <3>7. QED
      BY <2>3, <2>4, <3>6 DEF Routed
  <2>5. CASE x # m
    <3>1. Able(x)' = Able(x)
      BY <1>2, <1>3, <1>12, <2>1, <2>2, <2>5 DEF Able, On, ModelIsEnabled
    <3>2. \A q \in Able(x) : x \in cfg'[q].catalog <=> x \in cfg[q].catalog
      BY <1>2, <1>3, <2>1, <2>5 DEF Able
    <3>3. Newest(rows, x)' = Newest(rows, x)
      BY <1>2, <3>1, <3>2 DEF Newest
    <3>4. x \in GloballyDisabled => x \in GloballyDisabled'
      BY <1>2, <1>3, <2>1, <2>2, <2>5 DEF GloballyDisabled
    <3>5. ~StillToClaim(x) /\ routes'[x] = routes[x]
      BY <1>1, <2>3, <2>5 DEF StillToClaim
    <3>6. QED
      BY <1>10, <3>3, <3>4, <3>5
  <2>6. QED
    BY <2>4, <2>5
<1>13. QED
  BY <1>11, <1>12

(* A step of the reconciliation that rebuilds nothing. *)
LEMMA ReconcileClaims ==
  ASSUME Base, StoreInv, UnreadInv, ClaimInv,
         ReconcileEvict \/ ReconcileEvictLive \/ ReconcileSync
  PROVE  ClaimInv'
<1>1. PICK step \in {"evict", "evictLive", "sync"} :
        Doing(step) /\ StepDone /\ UNCHANGED <<cfg, rows, abandoned>>
  BY DEF ReconcileEvict, ReconcileEvictLive, ReconcileSync
<1>2. /\ mutation.stage = "spawned" /\ mutation'.stage = "spawned"
      /\ mutation'.op = mutation.op /\ mutation'.p = mutation.p
      /\ mutation'.todo = <<>> => step = "sync" /\ mutation.op = "createOff"
      /\ mutation.op \in {"create", "createOff", "delete", "disable", "enable"}
  BY <1>1, StepIs DEF Base
<1> SUFFICES ASSUME NoRebuild', NEW m \in Models PROVE Routed(m)'
  BY DEF ClaimInv
<1>3. mutation.op = "createOff"
  BY <1>2 DEF NoRebuild, Rebuilds
<1>4. NoRebuild
  BY <1>1, <1>3 DEF NoRebuild, Rebuilds
<1>5. Routed(m) /\ ~StillToClaim(m)
  BY <1>2, <1>4 DEF ClaimInv, StillToClaim
<1>6. mutation.p \in Providers /\ ~On(mutation.p)
  BY <1>2, <1>3 DEF Base, IInv, MutInv, TodoInv, On
<1>7. CASE routes'[m] = routes[m]
  <2>1. Newest(rows, m)' = Newest(rows, m) /\ GloballyDisabled' = GloballyDisabled
        /\ ClaimedSwitchedOff(m)' = ClaimedSwitchedOff(m)
    BY <1>1 DEF Newest, Able, On, ModelIsEnabled, GloballyDisabled, ClaimedSwitchedOff
  <2>2. QED
    BY <1>5, <1>7, <2>1 DEF Routed
<1>8. CASE ReconcileEvict \/ ReconcileEvictLive
  <2>1. routes' = Evicted(mutation.p)
    BY <1>8 DEF ReconcileEvict, ReconcileEvictLive, SetRoutes
  <2>2. routes[m] # mutation.p
    BY <1>3, <1>4, <1>6, OffOwnsNothing
  <2>3. routes'[m] = routes[m]
    BY <2>1, <2>2 DEF Evicted
  <2>4. QED
    BY <1>7, <2>3
<1>9. CASE ReconcileSync
  <2>1. PICK read \in {rows, Failed} :
          /\ Doing("sync") /\ StepDone /\ CacheRows(read)
          /\ SetRoutes([n \in Models |->
                          IF SeedRoutes(RowsOr(read), GloballyDisabled)[n] = None THEN routes[n]
                          ELSE SeedRoutes(RowsOr(read), GloballyDisabled)[n]])
    BY <1>9 DEF ReconcileSync
  <2>2. routes'[m] = IF SeedRoutes(RowsOr(read), GloballyDisabled)[m] = None THEN routes[m]
                     ELSE SeedRoutes(RowsOr(read), GloballyDisabled)[m]
    BY <2>1 DEF SetRoutes
  <2>3. rows \in Seq(Row) /\ seeds \in Seq(Row) /\ RowsOr(read) \in Seq(Row)
    BY DEF Base, SeqInv, RowsOr
  <2>4. CASE m \in GloballyDisabled
    <3>1. SeedRoutes(RowsOr(read), GloballyDisabled)[m] = None
      BY <2>4, SeedHidden
    <3>2. QED
      BY <1>7, <2>2, <3>1
  <2>5. CASE m \notin GloballyDisabled
    <3>1. SeedRoutes(RowsOr(read), GloballyDisabled)[m] = Newest(RowsOr(read), m)
      BY <2>3, <2>5, SeedIs
    <3>2. Newest(RowsOr(read), m) = Newest(rows, m)
      <4>1. CASE read = Failed
        <5>1. Same(seeds, rows, unread \cup {mutation.p})
          <6>1. Uncached
            BY <1>3, <2>1, StepIs DEF Base, Creating
          <6>2. QED
            BY <6>1 DEF StoreInv
        <5>2. \A p \in unread \cup {mutation.p} : p \in Providers => ~On(p)
          BY <1>3, <1>4, <1>6 DEF UnreadInv, NoRebuild
        <5>3. Newest(seeds, m) = Newest(rows, m)
          BY <2>3, <5>1, <5>2, NewestOfSame
        <5>4. QED
          BY <4>1, <5>3 DEF RowsOr
      <4>2. CASE read # Failed
        BY <4>2 DEF RowsOr
      <4>3. QED
        BY <4>1, <4>2
    <3>3. Newest(rows, m) = None => routes'[m] = routes[m]
      BY <2>2, <3>1, <3>2
    <3>4. Newest(rows, m) # None => routes'[m] = Newest(rows, m)
      BY <2>2, <3>1, <3>2
    <3>5. QED
      BY <1>1, <1>7, <2>5, <3>3, <3>4, RoutedNow
  <2>6. QED
    BY <2>4, <2>5
<1>10. QED
  BY <1>8, <1>9

(* The models are routed to their newest owners: it is kept. *)
LEMMA ClaimsKeep ==
  Base /\ StoreInv /\ ReadInv /\ FoundInv /\ UnreadInv /\ ClaimInv /\ [Next]_vars => ClaimInv'
<1> SUFFICES ASSUME Base, StoreInv, ReadInv, FoundInv, UnreadInv, ClaimInv, [Next]_vars
             PROVE  ClaimInv'
  OBVIOUS
<1>1. ASSUME UNCHANGED <<cfg, rows, routes>>, NoRebuild' => NoRebuild,
             \A m \in Models : StillToClaim(m) => StillToClaim(m)'
      PROVE  ClaimInv'
  <2>1. ASSUME NEW m \in Models, Routed(m) PROVE Routed(m)'
    BY <1>1, <2>1, RoutedStays
  <2>2. QED
    BY <1>1, <2>1 DEF ClaimInv
<1>2. CASE UNCHANGED vars
  <2>1. UNCHANGED <<cfg, rows, routes, mutation, abandoned>>
    BY <1>2 DEF vars
  <2>2. QED
    BY <1>1, <2>1 DEF NoRebuild, StillToClaim, Claiming, On
<1>3. ASSUME NEW g \in Gets, Looks(g) PROVE ClaimInv'
  <2>1. UNCHANGED <<cfg, rows, routes, mutation, abandoned>>
    BY <1>3, LooksAt DEF Base
  <2>2. QED
    BY <1>1, <2>1 DEF NoRebuild, StillToClaim, Claiming, On
<1>4. CASE Invalidate \/ Spawn
  <2>1. /\ mutation.stage # "stored"
        /\ mutation'.op = mutation.op /\ mutation'.todo = mutation.todo
        /\ UNCHANGED <<cfg, rows, routes, abandoned>>
    BY <1>4 DEF Invalidate, Spawn, Base, IInv, Fields, MutFields
  <2>2. QED
    BY <1>1, <2>1 DEF NoRebuild, StillToClaim
<1>5. CASE DisconnectRefresh \/ Complete
  <2>1. /\ mutation.stage # "stored" /\ (mutation.op = "refresh" \/ mutation.todo = <<>>)
        /\ UNCHANGED <<cfg, rows, routes, abandoned>>
    BY <1>5 DEF DisconnectRefresh, Complete, Base, IInv, MutInv
  <2>2. QED
    BY <1>1, <2>1 DEF NoRebuild, StillToClaim, Rebuilds
<1>6. CASE Disconnect
  <2>1. abandoned' # {}
    BY <1>6 DEF Disconnect
  <2>2. QED
    BY <2>1 DEF ClaimInv, NoRebuild
<1>7. CASE ReconcileRefetch
  <2>1. PICK step \in {"one", "all"} : /\ Doing(step) /\ StepDone
                                       /\ \E read, fetch, catalogs : Rebuilding(read, fetch, catalogs)
    BY <1>7, Rebuilds1 DEF Base
  <2>2. QED
    BY <2>1, RebuildClaims
<1>8. CASE RefreshAtomic
  <2>1. /\ Doing("atomic") /\ StepDone
        /\ \/ UNCHANGED <<cfg, rows, routes, origin, seeds, gets, abandoned, unread>>
           \/ \E read, fetch, catalogs : Rebuilding(read, fetch, catalogs)
    BY <1>8, Rebuilds2 DEF Base
  <2>2. CASE UNCHANGED <<cfg, rows, routes, origin, seeds, gets, abandoned, unread>>
    <3>1. mutation.op = "refresh" /\ mutation.stage = "spawned"
      BY <2>1, StepIs DEF Base
    <3>2. QED
      BY <1>1, <2>2, <3>1 DEF NoRebuild, StillToClaim, Rebuilds
  <2>3. QED
    BY <2>1, <2>2, RebuildClaims
<1>9. QED
  BY <1>2, <1>3, <1>4, <1>5, <1>6, <1>7, <1>8, CommitClaims, ApplyClaims, ReconcileClaims, EndClaims
     DEF Next, Reconcile, Discover, Looks

-----------------------------------------------------------------------------
\* Everything the two properties rest on.
CacheInv == Base /\ StoreInv /\ ReadInv /\ FoundInv /\ UnreadInv /\ ClaimInv

(* It holds at the start. *)
LEMMA InitCache == Init => CacheInv
<1> SUFFICES ASSUME Init PROVE CacheInv
  OBVIOUS
<1>1. IInv
  BY InitInv
<1>2. /\ rows = <<>> /\ seeds = <<>> /\ mutation = NoMutation /\ abandoned = {} /\ unread = {}
      /\ gets = [g \in Gets |-> Idle] /\ routes = [m \in Models |-> None]
      /\ \A p \in Providers : cfg[p].catalog = {} /\ cfg[p].status # "off"
  BY DEF Init
<1>3. /\ Idle.refreshed = <<>> /\ Idle.passedBy = {} /\ Idle.phase = "idle"
  BY DEF Idle
<1>4. mutation.op = "none" /\ mutation.stage = "free" /\ mutation.todo = <<>>
  BY <1>2 DEF NoMutation
<1>5. PICK e \in Seq(Row) : e = <<>>
  <2>1. <<>> \in Seq(Row)
    OBVIOUS
  <2>2. QED
    BY <2>1
<1>6. TodoInv
  BY <1>4 DEF TodoInv, Whole, ModelOps
<1>7. SeqInv /\ ProvInv
  BY <1>2, <1>3, <1>5 DEF SeqInv, ProvInv
<1>8. StoreInv
  BY <1>2, <1>4 DEF StoreInv, Same, Uncached, Creating, ModelOps, Claiming
<1>9. ReadInv /\ FoundInv
  BY <1>2, <1>3 DEF ReadInv, FoundInv, ReadAt, FoundAt, HasRead, Fresh
<1>10. UnreadInv
  BY <1>2 DEF UnreadInv
<1>11. ClaimInv
  <2>1. ASSUME NEW m \in Models PROVE Newest(rows, m) = None
    <3>1. Kept(rows, ClaimsOf(m, Able(m))) = <<>>
      BY <1>2, KeptEmpty
    <3>2. {p \in Able(m) : m \in cfg[p].catalog} = {}
      BY <1>2 DEF Able
    <3>3. QED
      BY <3>1, <3>2 DEF Newest, Choice
  <2>2. QED
    BY <2>1 DEF ClaimInv, Routed
<1>12. QED
  BY <1>1, <1>6, <1>7, <1>8, <1>9, <1>10, <1>11 DEF CacheInv, Base

(* The invariant of every behaviour about the rows, their cached copy and   *)
(* the routes built from them.                                             *)
THEOREM CacheInvariance == Spec => []CacheInv
<1>1. CacheInv /\ [Next]_vars => CacheInv'
  <2> SUFFICES ASSUME CacheInv, [Next]_vars PROVE CacheInv'
    OBVIOUS
  <2>1. Base'
    BY NextKeeps, TodoKeeps, SeqKeeps DEF CacheInv, Base
  <2>2. QED
    BY <2>1, StoreKeeps, ReadsKeep, UnreadKeeps, ClaimsKeep DEF CacheInv
<1>2. QED
  BY InitCache, <1>1, PTL DEF Spec

(* Between mutations the cached copy of the overlay rows is what SQLite    *)
(* holds, but for the providers whose rows are known to be unread          *)
(* (state.rs, model_route_seeds).                                          *)
THEOREM SeedsTrackStoreHolds == Spec => []SeedsTrackStore
<1>1. CacheInv => SeedsTrackStore
  <2> SUFFICES ASSUME CacheInv, LockFree
               PROVE  LET cached == {r \in Row : r.owner \notin unread}
                      IN Kept(seeds, cached) = Kept(rows, cached)
    BY DEF SeedsTrackStore
  <2>1. Agrees
    BY FreeAgrees, AgreesWhen DEF CacheInv, Base, LockFree
  <2>2. QED
    BY <2>1 DEF Agrees, Same, NotOf
<1>2. QED
  BY CacheInvariance, <1>1, PTL

(* Between mutations a model is routed to its newest claim, whatever was   *)
(* discovered meanwhile (webui.rs, publish_model_route_epoch).             *)
THEOREM NewestClaimOwnsHolds == Spec => []NewestClaimOwns
<1>1. CacheInv => NewestClaimOwns
  <2> SUFFICES ASSUME CacheInv, LockFree, abandoned = {}, NEW m \in Models,
                      SeedRoutes(rows, GloballyDisabled)[m] # None
               PROVE  \/ routes[m] = SeedRoutes(rows, GloballyDisabled)[m]
                      \/ routes[m] = None /\ ClaimedSwitchedOff(m)
    BY DEF NewestClaimOwns
  <2>1. m \notin GloballyDisabled
    BY SeedHidden
  <2>2. SeedRoutes(rows, GloballyDisabled)[m] = Newest(rows, m)
    BY <2>1, SeedIs DEF CacheInv, Base, SeqInv
  <2>3. Routed(m) /\ ~StillToClaim(m)
    BY DEF CacheInv, ClaimInv, NoRebuild, LockFree, Rebuilds, StillToClaim, Claiming
  <2>4. QED
    BY <2>1, <2>2, <2>3 DEF Routed
<1>2. QED
  BY CacheInvariance, <1>1, PTL

-----------------------------------------------------------------------------
\* The types that no other invariant needs.  A provider gets a new identity
\* with a mutation, so identities and mutations that are left are bounded.
Stages == {"free", "stored", "applied", "invalidated", "spawned"}
Phases == {"idle", "start", "snapshot", "listed", "seeded", "merged"}
ToCome(p) == IF mutation.stage = "stored" /\ mutation.p = p THEN 1 ELSE 0
CfgType == cfg \in [Providers -> Config]
BudgetType ==
  /\ budget \in [left: 0..MaxMutations, providers: SUBSET Providers,
                 models: SUBSET Models, discovers: SUBSET Gets]
  /\ \A p \in Providers : cfg[p].ident + budget.left + ToCome(p) <= MaxMutations
RouteType == routes \in [Models -> Owners] /\ origin \in [Models -> Identities]
MutType == mutation.m \in Models \cup {None} /\ mutation.stage \in Stages
GetType(get) ==
  /\ get.phase \in Phases /\ get.tries \in 0..RetryLimit
  /\ get.found \in [Models -> Owners] /\ get.learned \in [Models -> Identities]
  /\ get.listed \in [Providers -> 0..MaxMutations + 2]
TypeInv ==
  /\ CfgType /\ BudgetType /\ RouteType /\ MutType
  /\ \A g \in Gets : GetType(gets[g])

(* The types at the start. *)
LEMMA InitType == Init => TypeInv
<1> SUFFICES ASSUME Init PROVE TypeInv
  OBVIOUS
<1>0. MaxMutations \in Nat /\ RetryLimit \in Nat \ {0}
  BY ConstantsAssumption
<1>1. PICK present \in SUBSET Providers :
        cfg = [p \in Providers |->
                 [status |-> IF p \in present THEN "on" ELSE "absent",
                  ident |-> 0, catalog |-> {}, off |-> {}]]
  BY DEF Init
<1>2. CfgType
  BY <1>0, <1>1 DEF CfgType, Config, Identities
<1>3. budget \in [left: 0..MaxMutations, providers: SUBSET Providers,
                  models: SUBSET Models, discovers: SUBSET Gets]
  BY ConstantsAssumption DEF Init, Providers
<1>4. mutation.stage = "free" /\ mutation.m = None
  BY DEF Init, NoMutation
<1>5. BudgetType
  BY <1>0, <1>1, <1>3, <1>4 DEF BudgetType, ToCome
<1>6. RouteType
  BY <1>0 DEF Init, RouteType, Owners, Identities
<1>7. MutType
  BY <1>4 DEF MutType, Stages
<1>8. GetType(Idle)
  BY <1>0 DEF GetType, Idle, Phases, Owners, Identities
<1>9. \A g \in Gets : gets[g] = Idle
  BY DEF Init
<1>10. QED
  BY <1>2, <1>5, <1>6, <1>7, <1>8, <1>9 DEF TypeInv

(* What the seeds route to are owners. *)
LEMMA SeedType ==
  ASSUME NEW rs, NEW hidden
  PROVE  SeedRoutes(rs, hidden) \in [Models -> Owners]
<1> DEFINE f == SeedRoutes(rs, hidden)
<1>1. f = [m \in Models |-> f[m]]
  BY DEF SeedRoutes
<1>2. \A m \in Models : f[m] \in Owners
  BY SeedOwner DEF MayOwn, Owners
<1> HIDE DEF f
<1>3. QED
  BY <1>1, <1>2 DEF f

(* So is what is published. *)
LEMMA PublishedType ==
  ASSUME NEW fresh \in [Models -> Owners], NEW keep, RouteType
  PROVE  Published(fresh, keep) \in [Models -> Owners]
BY DEF Published, RouteType

(* And what is rebuilt. *)
LEMMA RebuiltType ==
  ASSUME NEW read, NEW fetch \in SUBSET Providers, NEW catalogs \in Catalogs(fetch)
  PROVE  Rebuilt(read, fetch, catalogs) \in [Models -> Owners]
<1> DEFINE f == Rebuilt(read, fetch, catalogs)
<1>1. f = [m \in Models |-> f[m]]
  BY DEF Rebuilt, Published
<1>2. \A m \in Models : f[m] \in Owners
  BY RebuiltOwner DEF Owners
<1> HIDE DEF f
<1>3. QED
  BY <1>1, <1>2 DEF f

(* The identities of a configuration, and of routes to it. *)
LEMMA IdentType ==
  ASSUME CfgType
  PROVE  /\ \A p \in Providers : cfg[p].ident \in Identities
         /\ \A owners \in [Models -> Owners] : IdentityOf(owners) \in [Models -> Identities]
<1>1. \A p \in Providers : cfg[p].ident \in Identities
  BY DEF CfgType, Config
<1>2. 0 \in Identities
  BY ConstantsAssumption DEF Identities
<1>3. QED
  BY <1>1, <1>2 DEF IdentityOf, Owners

(* A change of the routes keeps their types. *)
LEMMA RoutesType ==
  ASSUME CfgType, RouteType, NEW new \in [Models -> Owners], SetRoutes(new)
  PROVE  RouteType'
<1>1. 0 \in Identities
  BY ConstantsAssumption DEF Identities
<1>2. \A m \in Models : (IF new[m] = routes[m] THEN origin[m]
                         ELSE IF new[m] = None THEN 0 ELSE cfg[new[m]].ident) \in Identities
  BY <1>1, IdentType DEF RouteType, Owners
<1>3. QED
  BY <1>2 DEF SetRoutes, RouteType

(* Telling the discoveries of a change keeps theirs. *)
LEMMA BumpsType ==
  ASSUME GetFields, \A g \in Gets : GetType(gets[g]), NEW p, NEW gs,
         gs \in {gets, ConfigBumped(gets), SeedsBumped(gets), PassedBy(gets, p)}
  PROVE  \A g \in Gets : GetType(gs[g])
<1>1. \A g \in Gets : DOMAIN gets[g] = GetKeys
  BY DEF GetFields
<1>2. ASSUME NEW g \in Gets
      PROVE  /\ gs[g].phase = gets[g].phase /\ gs[g].tries = gets[g].tries
             /\ gs[g].found = gets[g].found /\ gs[g].learned = gets[g].learned
             /\ gs[g].listed = gets[g].listed
  <2>1. CASE gs = gets
    BY <2>1
  <2>2. CASE gs = ConfigBumped(gets)
    BY <1>1, <2>2 DEF ConfigBumped, GetKeys
  <2>3. CASE gs = SeedsBumped(gets)
    BY <1>1, <2>3 DEF SeedsBumped, GetKeys
  <2>4. CASE gs = PassedBy(gets, p)
    BY <1>1, <2>4 DEF PassedBy, GetKeys
  <2>5. QED
    BY <2>1, <2>2, <2>3, <2>4
<1>3. QED
  BY <1>2 DEF GetType

(* A commit spends one of the mutations that are left. *)
LEMMA CommitType == Base /\ TypeInv /\ Mutate => TypeInv'
<1> SUFFICES ASSUME Base, TypeInv, Mutate PROVE TypeInv'
  OBVIOUS
<1>1. PICK op \in Operations, p \in Providers, m \in Models \cup {None} : Committed(op, p, m)
  BY Commits DEF Base
<1>2. /\ UNCHANGED <<cfg, routes>> /\ gets' \in {gets, ConfigBumped(gets)}
      /\ mutation.op = "none" /\ mutation'.m = m /\ mutation'.stage \in {"stored", "spawned"}
  BY <1>1 DEF Committed
<1>3. UNCHANGED origin /\ Spend
  <2>1. ASSUME NEW o, NEW q, NEW n, NEW todo, Commit(o, q, n, todo) PROVE UNCHANGED origin /\ Spend
    BY <2>1 DEF Commit
  <2>2. QED
    BY <2>1 DEF Mutate, CommitCreate, CommitDelete, CommitEnable, CommitDisable,
                CommitRetarget, StartRefresh, CommitClaim, CommitForget, CommitDrop
<1>4. CfgType' /\ RouteType' /\ MutType'
  BY <1>1, <1>2, <1>3 DEF TypeInv, CfgType, RouteType, MutType, Stages
<1>5. BudgetType'
  <2>1. /\ budget \in [left: 0..MaxMutations, providers: SUBSET Providers,
                        models: SUBSET Models, discovers: SUBSET Gets]
        /\ budget.left > 0 /\ budget' = [budget EXCEPT !.left = @ - 1]
    BY <1>3 DEF Spend, TypeInv, BudgetType
  <2>2. MaxMutations \in Nat
    BY ConstantsAssumption
  <2>3. /\ budget' \in [left: 0..MaxMutations, providers: SUBSET Providers,
                         models: SUBSET Models, discovers: SUBSET Gets]
        /\ budget'.left = budget.left - 1 /\ budget.left \in Nat
    BY <2>1, <2>2
  <2>4. ASSUME NEW q \in Providers PROVE cfg'[q].ident + budget'.left + ToCome(q)' <= MaxMutations
    <3>1. cfg[q].ident \in Nat /\ cfg'[q].ident = cfg[q].ident
      BY <1>2 DEF Base, IInv, Fields, CfgFields
    <3>2. ToCome(q) \in {0, 1} /\ ToCome(q)' \in {0, 1}
      BY DEF ToCome
    <3>3. ToCome(q) = 0
      BY <1>2 DEF ToCome, Base, IInv, MutInv
    <3>4. cfg[q].ident + budget.left + ToCome(q) <= MaxMutations
      BY DEF TypeInv, BudgetType
    <3>5. QED
      BY <2>2, <2>3, <3>1, <3>2, <3>3, <3>4
  <2>5. QED
    BY <2>3, <2>4 DEF BudgetType
<1>6. \A g \in Gets : GetType(gets'[g])
  BY <1>2, BumpsType DEF Base, IInv, Fields, TypeInv
<1>7. QED
  BY <1>4, <1>5, <1>6 DEF TypeInv

(* What the operations write is a configuration, with at most one more     *)
(* identity.                                                               *)
LEMMA NewConfigType ==
  ASSUME NEW c \in Config, mutation.m \in Models \cup {None},
         mutation.op \in ModelOps => mutation.m \in Models,
         mutation.op \in Operations \ {"refresh"}, c.ident + 1 \in Identities
  PROVE  NewConfig(c) \in Config /\ NewConfig(c).ident \in {c.ident, c.ident + 1}
<1>1. c \in [status: {"absent", "off", "on"}, ident: Identities,
             catalog: SUBSET Models, off: SUBSET Models]
  BY DEF Config
<1>2. CASE mutation.op \in {"create", "createOff"}
  <2>1. NewConfig(c) = [status |-> IF mutation.op = "create" THEN "on" ELSE "off",
                        ident |-> c.ident + 1, catalog |-> {mutation.m} \ {None}, off |-> {}]
    BY <1>2 DEF NewConfig
  <2>2. {mutation.m} \ {None} \subseteq Models
    OBVIOUS
  <2>3. QED
    BY <2>1, <2>2 DEF Config
<1>3. CASE mutation.op = "delete"
  BY <1>1, <1>3 DEF NewConfig, Config
<1>4. CASE mutation.op = "enable"
  BY <1>1, <1>4 DEF NewConfig, Config
<1>5. CASE mutation.op = "disable"
  BY <1>1, <1>5 DEF NewConfig, Config
<1>6. CASE mutation.op = "retarget"
  BY <1>1, <1>6 DEF NewConfig, Config
<1>7. CASE mutation.op = "add"
  <2>1. mutation.m \in Models
    BY <1>7 DEF ModelOps
  <2>2. NewConfig(c) = [c EXCEPT !.catalog = @ \cup {mutation.m}, !.off = @ \ {mutation.m}]
    BY <1>7 DEF NewConfig
  <2>3. c.catalog \cup {mutation.m} \subseteq Models /\ c.off \ {mutation.m} \subseteq Models
    BY <1>1, <2>1
  <2>4. QED
    BY <1>1, <2>2, <2>3 DEF Config
<1>8. CASE mutation.op = "claim"
  <2>1. NewConfig(c) = [c EXCEPT !.off = @ \ {mutation.m}]
    BY <1>8 DEF NewConfig
  <2>2. c.off \ {mutation.m} \subseteq Models
    BY <1>1
  <2>3. QED
    BY <1>1, <2>1, <2>2 DEF Config
<1>9. CASE mutation.op = "drop"
  <2>1. NewConfig(c) = [c EXCEPT !.catalog = @ \ {mutation.m}, !.off = @ \ {mutation.m}]
    BY <1>9 DEF NewConfig
  <2>2. c.catalog \ {mutation.m} \subseteq Models /\ c.off \ {mutation.m} \subseteq Models
    BY <1>1
  <2>3. QED
    BY <1>1, <2>1, <2>2 DEF Config
<1>10. CASE mutation.op = "forget"
  <2>1. mutation.m \in Models
    BY <1>10 DEF ModelOps
  <2>2. NewConfig(c) = [c EXCEPT !.off = @ \cup {mutation.m}]
    BY <1>10 DEF NewConfig
  <2>3. QED
    BY <1>1, <2>1, <2>2 DEF Config
<1>11. QED
  BY <1>2, <1>3, <1>4, <1>5, <1>6, <1>7, <1>8, <1>9, <1>10 DEF Operations

(* The configuration write gives its provider the identity it had to come. *)
LEMMA ApplyType == Base /\ TypeInv /\ Apply => TypeInv'
<1> SUFFICES ASSUME Base, TypeInv, Apply PROVE TypeInv'
  OBVIOUS
<1>0. MaxMutations \in Nat /\ Identities = 0..MaxMutations + 1
  BY ConstantsAssumption DEF Identities
<1>1. PICK p, m : p = mutation.p /\ m = mutation.m
  OBVIOUS
<1>2. /\ mutation.stage = "stored" /\ p \in Providers /\ m \in Models \cup {None}
      /\ mutation.op \in Operations \ {"refresh"}
      /\ mutation.op \in ModelOps => m \in Models
  BY <1>1 DEF Apply, TypeInv, MutType, Base, IInv, MutInv, TodoInv
<1>3. /\ cfg' = [cfg EXCEPT ![p] = NewConfig(cfg[p])] /\ UNCHANGED budget
      /\ mutation'.stage = "applied" /\ mutation'.m = m
  BY <1>1 DEF Apply, Base, IInv, Fields, MutFields
<1>4. /\ \A q \in Providers : cfg[q] \in Config /\ cfg[q].ident \in Nat
      /\ budget.left \in Nat
      /\ \A q \in Providers : cfg[q].ident + budget.left + ToCome(q) <= MaxMutations
  BY <1>0 DEF TypeInv, CfgType, BudgetType, Base, IInv, Fields, CfgFields
<1>5. ToCome(p) = 1
  BY <1>1, <1>2 DEF ToCome
<1>6. cfg[p].ident + budget.left + 1 <= MaxMutations
  BY <1>2, <1>4, <1>5
<1>7. NewConfig(cfg[p]) \in Config /\ NewConfig(cfg[p]).ident \in {cfg[p].ident, cfg[p].ident + 1}
  <2>1. cfg[p].ident + 1 \in Identities
    BY <1>0, <1>2, <1>4, <1>6
  <2>2. QED
    BY <1>1, <1>2, <1>4, <2>1, NewConfigType
<1>8. CfgType'
  BY <1>3, <1>7 DEF TypeInv, CfgType
<1>9. BudgetType'
  <2>1. ASSUME NEW q \in Providers PROVE cfg'[q].ident + budget'.left + ToCome(q)' <= MaxMutations
    <3>1. ToCome(q)' = 0 /\ ToCome(q) \in {0, 1}
      BY <1>3 DEF ToCome
    <3>2. CASE q = p
      <4>1. cfg'[q].ident \in {cfg[q].ident, cfg[q].ident + 1}
        BY <1>2, <1>3, <1>7, <3>2 DEF TypeInv, CfgType
      <4>2. QED
        BY <1>0, <1>3, <1>4, <1>6, <3>1, <3>2, <4>1
    <3>3. CASE q # p
      <4>1. cfg'[q] = cfg[q]
        BY <1>3, <3>3 DEF TypeInv, CfgType
      <4>2. QED
        BY <1>0, <1>3, <1>4, <3>1, <4>1
    <3>4. QED
      BY <3>2, <3>3
  <2>2. QED
    BY <1>3, <2>1 DEF TypeInv, BudgetType
<1>10. MutType'
  BY <1>2, <1>3 DEF MutType, Stages
<1>11. RouteType'
  <2>1. RouteType /\ CfgType /\ p \in Owners
    BY <1>2 DEF TypeInv, Owners
  <2>2. \/ UNCHANGED <<routes, origin>>
        \/ \E new \in {Evicted(p), routes, EpochRoutes(p, m)} : SetRoutes(new)
    BY <1>1 DEF Apply
  <2>3. /\ Evicted(p) \in [Models -> Owners] /\ routes \in [Models -> Owners]
        /\ EpochRoutes(p, m) \in [Models -> Owners]
    <3>1. routes \in [Models -> Owners]
      BY <2>1 DEF RouteType
    <3>2. Evicted(p) \in [Models -> Owners]
      BY <3>1 DEF Evicted, Owners
    <3>3. PICK owner \in Owners : EpochRoutes(p, m) = [routes EXCEPT ![m] = owner] \/ m \notin Models
      <4>1. CASE m \in Models
        <5>1. routes[m] \in Owners /\ None \in Owners
          BY <3>1, <4>1 DEF Owners
        <5>2. (IF Claiming /\ On(p) THEN p ELSE IF routes[m] = p THEN None ELSE routes[m]) \in Owners
          BY <2>1, <5>1
        <5>3. EpochRoutes(p, m) = [routes EXCEPT ![m] = IF Claiming /\ On(p) THEN p
                                     ELSE IF routes[m] = p THEN None ELSE routes[m]]
          BY DEF EpochRoutes
        <5>4. QED
          BY <5>2, <5>3
      <4>2. CASE m \notin Models
        BY <2>1, <4>2
      <4>3. QED
        BY <4>1, <4>2
    <3>4. EpochRoutes(p, m) \in [Models -> Owners]
      <4>1. CASE m \in Models
        BY <3>1, <3>3, <4>1
      <4>2. CASE m \notin Models
        BY <3>1, <4>2 DEF EpochRoutes
      <4>3. QED
        BY <4>1, <4>2
    <3>5. QED
      BY <3>1, <3>2, <3>4
  <2>4. CASE UNCHANGED <<routes, origin>>
    BY <2>1, <2>4 DEF RouteType
  <2>5. ASSUME NEW new \in [Models -> Owners], SetRoutes(new) PROVE RouteType'
    BY <2>1, <2>5, RoutesType
  <2>6. QED
    BY <2>2, <2>3, <2>4, <2>5
<1>12. \A g \in Gets : GetType(gets'[g])
  <2>1. gets' \in {gets, SeedsBumped(gets)}
    BY DEF Apply
  <2>2. QED
    BY <2>1, BumpsType DEF Base, IInv, Fields, TypeInv
<1>13. QED
  BY <1>8, <1>9, <1>10, <1>11, <1>12 DEF TypeInv

(* The steps that leave routes, configuration and bounds alone. *)
LEMMA StillType ==
  ASSUME TypeInv, UNCHANGED <<cfg, routes, origin, budget>>, MutType',
         \A p \in Providers : ToCome(p)' \in {0, ToCome(p)},
         \A g \in Gets : GetType(gets'[g]), CfgFields
  PROVE  TypeInv'
<1>1. CfgType' /\ RouteType'
  BY DEF TypeInv, CfgType, RouteType
<1>2. MaxMutations \in Nat
  BY ConstantsAssumption
<1>3. ASSUME NEW p \in Providers PROVE cfg'[p].ident + budget'.left + ToCome(p)' <= MaxMutations
  <2>1. /\ cfg[p].ident \in Nat /\ budget.left \in Nat /\ ToCome(p) \in {0, 1}
        /\ cfg[p].ident + budget.left + ToCome(p) <= MaxMutations
    BY <1>2 DEF CfgFields, TypeInv, BudgetType, ToCome
  <2>2. cfg'[p].ident = cfg[p].ident /\ budget'.left = budget.left
    OBVIOUS
  <2>3. QED
    BY <1>2, <2>1, <2>2
<1>4. BudgetType'
  BY <1>3 DEF TypeInv, BudgetType
<1>5. QED
  BY <1>1, <1>4 DEF TypeInv

(* A mutation moves on, or ends. *)
LEMMA HandlerType ==
  Base /\ TypeInv /\ (Invalidate \/ Spawn \/ Disconnect \/ DisconnectRefresh \/ Complete) => TypeInv'
<1> SUFFICES ASSUME Base, TypeInv,
                    Invalidate \/ Spawn \/ Disconnect \/ DisconnectRefresh \/ Complete
             PROVE  TypeInv'
  OBVIOUS
<1>1. /\ UNCHANGED <<cfg, routes, origin, budget>>
      /\ gets' \in {gets, ConfigBumped(gets), PassedBy(gets, mutation.p)}
  BY DEF Invalidate, Spawn, Disconnect, DisconnectRefresh, Complete
<1>2. \/ mutation' = NoMutation
      \/ /\ mutation'.stage \in {"invalidated", "spawned"} /\ mutation'.m = mutation.m
  BY DEF Invalidate, Spawn, Disconnect, DisconnectRefresh, Complete, Base, IInv, Fields, MutFields
<1>3. MutType' /\ mutation'.stage # "stored"
  BY <1>2 DEF TypeInv, MutType, Stages, NoMutation
<1>4. \A g \in Gets : GetType(gets'[g])
  BY <1>1, BumpsType DEF Base, IInv, Fields, TypeInv
<1>5. QED
  BY <1>1, <1>3, <1>4, StillType DEF ToCome, Base, IInv, Fields

(* A step of the reconciliation publishes owners. *)
LEMMA ReconcileType ==
  Base /\ TypeInv /\ (ReconcileEvict \/ ReconcileEvictLive \/ ReconcileSync
                        \/ ReconcileRefetch \/ RefreshAtomic) => TypeInv'
<1> SUFFICES ASSUME Base, TypeInv,
                    \/ ReconcileEvict \/ ReconcileEvictLive \/ ReconcileSync
                    \/ ReconcileRefetch \/ RefreshAtomic
             PROVE  TypeInv'
  OBVIOUS
<1>0. CfgType /\ RouteType /\ GetFields /\ SeqInv /\ IInv /\ TodoInv
  BY DEF TypeInv, Base, IInv, Fields
<1>1. UNCHANGED <<cfg, budget>> /\ \E step : Doing(step) /\ StepDone
  BY DEF ReconcileEvict, ReconcileEvictLive, ReconcileSync, ReconcileRefetch, RefreshAtomic
<1>2. mutation'.m = mutation.m /\ mutation'.stage = "spawned"
  BY <1>0, <1>1, StepIs
<1>3. MutType'
  BY <1>2 DEF TypeInv, MutType, Stages
<1>4. /\ \/ UNCHANGED <<routes, origin>>
         \/ \E new \in [Models -> Owners] : SetRoutes(new)
      /\ gets' \in {gets, SeedsBumped(gets)}
  <2>1. ASSUME NEW read, NEW fetch, NEW catalogs, Rebuilding(read, fetch, catalogs)
        PROVE  /\ \E new \in [Models -> Owners] : SetRoutes(new)
               /\ gets' \in {gets, SeedsBumped(gets)}
    <3>1. Rebuilt(read, fetch, catalogs) \in [Models -> Owners]
      BY <2>1, RebuiltType DEF Rebuilding
    <3>2. QED
      BY <1>0, <2>1, <3>1, Caches DEF Rebuilding
  <2>2. CASE ReconcileEvict \/ ReconcileEvictLive
    <3>1. Evicted(mutation.p) \in [Models -> Owners]
      BY <1>0 DEF Evicted, RouteType, Owners
    <3>2. QED
      BY <2>2, <3>1 DEF ReconcileEvict, ReconcileEvictLive
  <2>3. CASE ReconcileSync
    <3>1. PICK read \in {rows, Failed} :
            LET stable == SeedRoutes(RowsOr(read), GloballyDisabled) IN
            /\ SetRoutes([m \in Models |-> IF stable[m] = None THEN routes[m] ELSE stable[m]])
            /\ CacheRows(read)
      BY <2>3 DEF ReconcileSync
    <3>2. PICK stable : stable = SeedRoutes(RowsOr(read), GloballyDisabled)
      OBVIOUS
    <3>3. stable \in [Models -> Owners]
      BY <3>2, SeedType
    <3>4. [m \in Models |-> IF stable[m] = None THEN routes[m] ELSE stable[m]] \in [Models -> Owners]
      BY <1>0, <3>3 DEF RouteType
    <3>5. SetRoutes([m \in Models |-> IF stable[m] = None THEN routes[m] ELSE stable[m]])
      BY <3>1, <3>2
    <3>6. gets' \in {gets, SeedsBumped(gets)}
      BY <1>0, <3>1, Caches
    <3>7. QED
      BY <3>4, <3>5, <3>6
  <2>4. CASE ReconcileRefetch
    BY <1>0, <2>1, <2>4, Rebuilds1
  <2>5. CASE RefreshAtomic
    <3>1. CASE UNCHANGED <<cfg, rows, routes, origin, seeds, gets, abandoned, unread>>
      BY <3>1
    <3>2. CASE \E read, fetch, catalogs : Rebuilding(read, fetch, catalogs)
      BY <2>1, <3>2
    <3>3. QED
      BY <1>0, <2>5, <3>1, <3>2, Rebuilds2
  <2>6. QED
    BY <2>2, <2>3, <2>4, <2>5
<1>5. RouteType'
  <2>1. CASE UNCHANGED <<routes, origin>>
    BY <1>0, <2>1 DEF RouteType
  <2>2. CASE \E new \in [Models -> Owners] : SetRoutes(new)
    BY <1>0, <2>2, RoutesType
  <2>3. QED
    BY <1>4, <2>1, <2>2
<1>6. \A g \in Gets : GetType(gets'[g])
  BY <1>0, <1>4, BumpsType DEF TypeInv
<1>7. CfgType' /\ BudgetType'
  <2>1. CfgType'
    BY <1>0, <1>1 DEF CfgType
  <2>2. \A p \in Providers : ToCome(p)' = 0 /\ ToCome(p) \in {0, 1} /\ cfg[p].ident \in Nat
    BY <1>2 DEF ToCome, Base, IInv, Fields, CfgFields
  <2>3. MaxMutations \in Nat
    BY ConstantsAssumption
  <2>4. budget.left \in Nat
    BY <2>3 DEF TypeInv, BudgetType
  <2>5. ASSUME NEW p \in Providers PROVE cfg'[p].ident + budget'.left + ToCome(p)' <= MaxMutations
    <3>1. cfg[p].ident + budget.left + ToCome(p) <= MaxMutations
      BY DEF TypeInv, BudgetType
    <3>2. cfg'[p].ident = cfg[p].ident /\ budget'.left = budget.left
      BY <1>1
    <3>3. QED
      BY <2>2, <2>3, <2>4, <3>1, <3>2
  <2>6. QED
    BY <1>1, <2>1, <2>5 DEF TypeInv, BudgetType
<1>8. QED
  BY <1>3, <1>5, <1>6, <1>7 DEF TypeInv

(* A step of one discovery touches its record only. *)
LEMMA StepType ==
  ASSUME Base, TypeInv, NEW g \in Gets, NEW from, NEW to, Step(g, from, to), GetType(to)
  PROVE  TypeInv'
<1>1. /\ gets' = [gets EXCEPT ![g] = to]
      /\ UNCHANGED <<cfg, routes, origin, mutation, budget>>
  BY DEF Step
<1>2. \A h \in Gets : GetType(gets'[h])
  BY <1>1 DEF TypeInv, Base, IInv, Fields, GetFields
<1>3. MutType' /\ \A p \in Providers : ToCome(p)' = ToCome(p)
  BY <1>1 DEF TypeInv, MutType, ToCome
<1>4. QED
  BY <1>1, <1>2, <1>3, StillType DEF Base, IInv, Fields

(* What a discovery finds are owners, learned under identities. *)
LEMMA LookType ==
  ASSUME Base, TypeInv, NEW g \in Gets, Looks(g)
  PROVE  TypeInv'
<1>0. /\ DOMAIN gets[g] = GetKeys /\ GetType(gets[g]) /\ CfgType
      /\ RetryLimit \in Nat \ {0} /\ MaxMutations \in Nat /\ Identities = 0..MaxMutations + 1
  BY ConstantsAssumption DEF TypeInv, Base, IInv, Fields, GetFields, Identities
<1>1. CASE Request(g)
  <2>1. GetType([Idle EXCEPT !.phase = "start", !.tries = 1])
    BY <1>0 DEF GetType, Idle, Phases, Owners
  <2>2. Step(g, "idle", [Idle EXCEPT !.phase = "start", !.tries = 1])
    BY <1>1 DEF Request
  <2>3. QED
    BY <2>1, <2>2, StepType
<1>2. CASE Discard(g)
  <2>1. GetType([Idle EXCEPT !.phase = "start", !.tries = gets[g].tries + 1])
        \/ ~(gets[g].tries < RetryLimit)
    BY <1>0 DEF GetType, Idle, Phases, Owners
  <2>2. GetType(Idle)
    BY <1>0 DEF GetType, Idle, Phases, Owners
  <2>3. GetType(Retried(g))
    BY <2>1, <2>2 DEF Retried
  <2>4. Step(g, "merged", Retried(g))
    BY <1>2 DEF Discard
  <2>5. QED
    BY <2>3, <2>4, StepType
<1>3. CASE Hangup(g)
  <2>1. GetType(Idle)
    BY <1>0 DEF GetType, Idle, Phases, Owners
  <2>2. QED
    BY <1>3, <2>1, StepType DEF Hangup
<1>4. CASE ReadRevision(g)
  <2>1. PICK to : to = [gets[g] EXCEPT !.phase = "snapshot", !.current = TRUE, !.passedBy = {}]
    OBVIOUS
  <2>2. GetType(to)
    BY <1>0, <2>1 DEF GetKeys, GetType, Phases
  <2>3. Step(g, "start", to)
    BY <1>4, <2>1 DEF ReadRevision
  <2>4. QED
    BY <2>2, <2>3, StepType
<1>5. CASE ListProviders(g)
  <2>1. PICK listed, manual :
          /\ listed = [p \in Providers |-> IF On(p) THEN cfg[p].ident + 1 ELSE 0]
          /\ manual = [p \in Providers |-> IF On(p) THEN cfg[p].catalog ELSE {}]
    OBVIOUS
  <2>2. PICK to : to = [gets[g] EXCEPT !.phase = "listed", !.hidden = GloballyDisabled,
                          !.listed = listed, !.manual = manual]
    OBVIOUS
  <2>3. Step(g, "snapshot", to)
    BY <1>5, <2>1, <2>2 DEF ListProviders
  <2>4. listed \in [Providers -> 0..MaxMutations + 2]
    <3>1. \A p \in Providers : cfg[p].ident \in 0..MaxMutations + 1
      BY <1>0, IdentType
    <3>2. \A p \in Providers : cfg[p].ident + 1 \in 0..MaxMutations + 2
      BY <1>0, <3>1
    <3>3. 0 \in 0..MaxMutations + 2
      BY <1>0
    <3>4. QED
      BY <2>1, <3>2, <3>3
  <2>5. GetType(to)
    BY <1>0, <2>2, <2>4 DEF GetKeys, GetType, Phases
  <2>6. QED
    BY <2>3, <2>5, StepType
<1>6. CASE ReadSeeds(g)
  <2>1. PICK read \in {rows, Failed} :
          LET base == SeedRoutes(RowsOr(read), gets[g].hidden) IN
          Step(g, "listed",
               [gets[g] EXCEPT !.phase = "seeded", !.refreshed = read,
                  !.seedsCurrent = TRUE, !.found = base, !.learned = IdentityOf(base)])
    BY <1>6 DEF ReadSeeds
  <2>2. PICK base, learned : /\ base = SeedRoutes(RowsOr(read), gets[g].hidden)
                             /\ learned = IdentityOf(base)
    OBVIOUS
  <2>3. base \in [Models -> Owners] /\ learned \in [Models -> Identities]
    BY <1>0, <2>2, SeedType, IdentType
  <2>4. PICK to : to = [gets[g] EXCEPT !.phase = "seeded", !.refreshed = read,
                          !.seedsCurrent = TRUE, !.found = base, !.learned = learned]
    OBVIOUS
  <2>5. Step(g, "listed", to)
    BY <2>1, <2>2, <2>4
  <2>6. GetType(to)
    BY <1>0, <2>3, <2>4 DEF GetKeys, GetType, Phases
  <2>7. QED
    BY <2>5, <2>6, StepType
<1>7. CASE MergeCatalogs(g)
  <2>1. PICK catalogs \in Catalogs(Listed(g)) :
          LET offers == [p \in Listed(g) |-> Fetched(catalogs)[p] \cup gets[g].manual[p]]
              found == Discovered(gets[g].found, offers, gets[g].hidden)
          IN
          Step(g, "seeded",
               [gets[g] EXCEPT !.phase = "merged", !.found = found,
                  !.learned = [m \in Models |->
                                 IF found[m] = gets[g].found[m] THEN @[m]
                                 ELSE gets[g].listed[found[m]] - 1],
                  !.advertised = {m \in Models :
                                    found[m] \in Offering(m, offers, gets[g].hidden)},
                  !.failed = {p \in Listed(g) : catalogs[p] = Failed},
                  !.nothing = \E p \in Listed(g) : On(p) /\ catalogs[p] = Failed])
    BY <1>7 DEF MergeCatalogs
  <2>0. ASSUME NEW base, NEW os, NEW hidden, NEW m \in Models, DOMAIN os \subseteq Providers
        PROVE  LET new == Discovered(base, os, hidden)[m] IN new = base[m] \/ new \in DOMAIN os
    BY <2>0, DiscoveredOwner
  <2> DEFINE offers == [p \in Listed(g) |-> Fetched(catalogs)[p] \cup gets[g].manual[p]]
             found == Discovered(gets[g].found, offers, gets[g].hidden)
             learned == [m \in Models |-> IF found[m] = gets[g].found[m]
                                          THEN gets[g].learned[m]
                                          ELSE gets[g].listed[found[m]] - 1]
             advertised == {m \in Models : found[m] \in Offering(m, offers, gets[g].hidden)}
             failed == {p \in Listed(g) : catalogs[p] = Failed}
             nothing == \E p \in Listed(g) : On(p) /\ catalogs[p] = Failed
             to == [gets[g] EXCEPT !.phase = "merged", !.found = found, !.learned = learned,
                      !.advertised = advertised, !.failed = failed, !.nothing = nothing]
  <2>2. Step(g, "seeded", to)
    BY <1>0, <2>1 DEF GetKeys
  <2>3. DOMAIN offers = Listed(g) /\ Listed(g) \subseteq Providers
    BY DEF Listed
  <2>4. /\ gets[g].found \in [Models -> Owners] /\ gets[g].learned \in [Models -> Identities]
        /\ gets[g].listed \in [Providers -> 0..MaxMutations + 2]
    BY <1>0 DEF GetType
  <2>5. ASSUME NEW m \in Models
        PROVE  \/ found[m] = gets[g].found[m]
               \/ found[m] \in Listed(g)
    <3>1. PICK hidden, base, os : hidden = gets[g].hidden /\ base = gets[g].found /\ os = offers
      OBVIOUS
    <3>2. DOMAIN os \subseteq Providers
      BY <2>3, <3>1
    <3>3. LET new == Discovered(base, os, hidden)[m] IN new = base[m] \/ new \in DOMAIN os
      BY <2>0, <3>2
    <3>4. QED
      BY <2>3, <3>1, <3>3
  <2>6. found = [m \in Models |-> found[m]] /\ learned = [m \in Models |-> learned[m]]
    BY DEF Discovered
  <2>7. \A p \in Listed(g) : gets[g].listed[p] - 1 \in Identities
    <3>1. \A p \in Listed(g) : gets[g].listed[p] \in 0..MaxMutations + 2 /\ gets[g].listed[p] # 0
      BY <2>4 DEF Listed
    <3>2. QED
      BY <1>0, <3>1
  <2> HIDE DEF offers, found
  <2>8. found \in [Models -> Owners]
    BY <2>3, <2>4, <2>5, <2>6 DEF Owners
  <2>9. learned \in [Models -> Identities]
    BY <2>4, <2>5, <2>7
  <2> HIDE DEF learned, advertised, failed, nothing
  <2>10. GetType(to)
    BY <1>0, <2>8, <2>9 DEF GetKeys, GetType, Phases
  <2> HIDE DEF to
  <2>11. QED
    BY <2>2, <2>10, StepType
<1>8. QED
  BY <1>1, <1>2, <1>3, <1>4, <1>5, <1>6, <1>7 DEF Looks

(* What a discovery publishes are the owners it found or those it keeps.   *)
LEMMA EndType ==
  ASSUME Base, TypeInv, NEW g \in Gets, Fail(g) \/ Publish(g)
  PROVE  TypeInv'
<1>1. /\ UNCHANGED <<cfg, mutation, budget>> /\ GetFields
      /\ \E gs \in {gets, SeedsBumped(gets)} : gets' = [gs EXCEPT ![g] = Idle]
  BY DEF Fail, Publish, Base, IInv, Fields
<1>2. GetType(Idle)
  <2>1. RetryLimit \in Nat /\ MaxMutations \in Nat
    BY ConstantsAssumption
  <2>2. QED
    BY <2>1 DEF GetType, Idle, Phases, Owners, Identities
<1>3. \A h \in Gets : GetType(gets'[h])
  <2>1. PICK gs \in {gets, SeedsBumped(gets)} : gets' = [gs EXCEPT ![g] = Idle]
    BY <1>1
  <2>2. DOMAIN gs = Gets /\ \A h \in Gets : GetType(gs[h])
    BY <1>1, BumpsType, BumpsRead DEF TypeInv
  <2>3. QED
    BY <1>2, <2>1, <2>2
<1>4. RouteType'
  <2>1. RouteType /\ GetType(gets[g])
    BY DEF TypeInv
  <2>2. CASE Fail(g)
    BY <2>1, <2>2 DEF Fail, RouteType
  <2>3. CASE Publish(g)
    <3>1. PICK new : /\ new = Published(gets[g].found, gets[g].failed) /\ routes' = new
                     /\ origin' = [m \in Models |-> IF new[m] = gets[g].found[m]
                                                     THEN gets[g].learned[m] ELSE origin[m]]
      BY <2>3 DEF Publish
    <3>2. new \in [Models -> Owners]
      BY <2>1, <3>1, PublishedType DEF GetType
    <3>3. QED
      BY <2>1, <3>1, <3>2 DEF RouteType, GetType
  <2>4. QED
    BY <2>2, <2>3
<1>5. MutType' /\ CfgType' /\ BudgetType'
  BY <1>1 DEF TypeInv, MutType, CfgType, BudgetType, ToCome
<1>6. QED
  BY <1>3, <1>4, <1>5 DEF TypeInv

(* The types hold in every behaviour: in particular no provider gets more  *)
(* identities, and no catalog request more attempts, than the bounds say.  *)
THEOREM TypeCorrect == Spec => []TypeOK
<1>1. Init => TypeInv
  BY InitType
<1>2. Base /\ TypeInv /\ [Next]_vars => TypeInv'
  <2> SUFFICES ASSUME Base, TypeInv, [Next]_vars PROVE TypeInv'
    OBVIOUS
  <2>1. CASE UNCHANGED vars
    BY <2>1 DEF vars, TypeInv, CfgType, BudgetType, RouteType, MutType, ToCome
  <2>2. CASE Next
    BY <2>2, CommitType, ApplyType, HandlerType, ReconcileType, LookType, EndType
       DEF Next, Reconcile, Discover, Looks
  <2>3. QED
    BY <2>1, <2>2
<1>3. Base /\ TypeInv => TypeOK
  <2> SUFFICES ASSUME Base, TypeInv PROVE TypeOK
    OBVIOUS
  <2>1. mutation.op \in Operations \cup {"none"} /\ SeqInv /\ ProvInv
    BY DEF Base, IInv, MutInv
  <2>2. QED
    BY <2>1 DEF TypeOK, TypeInv, CfgType, BudgetType, RouteType, MutType, GetType, Stages,
                Phases, SeqInv, ProvInv
<1>4. CacheInv => Base
  BY DEF CacheInv
<1>5. QED
  BY CacheInvariance, <1>1, <1>2, <1>3, <1>4, PTL DEF Spec
=============================================================================
