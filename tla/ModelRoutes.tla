---------------------------- MODULE ModelRoutes ----------------------------
(***************************************************************************)
(* Which provider serves a model: the route map of AppState                *)
(* (src/src/state.rs), read by select_provider (provider.rs), rebuilt by   *)
(* GET /v1/models (models.rs) and changed by the Web UI mutations          *)
(* (webui.rs), together with the overlay rows in SQLite and the cached     *)
(* copy of them that replaces a failed read.                               *)
(*                                                                         *)
(* A mutation holds mutation_lock from its start to its completion; a      *)
(* discovery runs without it and takes it only to publish.  Readers of     *)
(* the configuration and of SQLite are stopped by neither, so a mutation   *)
(* is split where they can look: the store commit, the configuration       *)
(* write, the invalidation, and the steps of its reconciliation.           *)
(*                                                                         *)
(* Simplifications.  Every provider is Web UI-managed; a model has no      *)
(* second (upstream) name and no provider prefix, and is enabled when it   *)
(* is added to a catalog.  An update changes the destination or the        *)
(* enablement of a provider, not both.  A revision is                      *)
(* only ever compared with its own earlier value, so it is modelled by the *)
(* answer: a discovery knows whether the configuration, or the seed cache, *)
(* is still the one it read.  A fetch ends with a catalog or a failure     *)
(* (each has a timeout).  Rows of different models never decide anything   *)
(* between them, so which of the two comes first is not kept exactly.      *)
(* discovered_models, the metadata of the management view, is left out.    *)
(***************************************************************************)
EXTENDS Naturals, FiniteSets, Sequences, SequencesExt, Filter

CONSTANTS
  NumProviders,   \* provider ids, in the order of provider_entries
  Models,         \* model slugs
  Upstream,       \* those a gateway may list in its own catalog
  None,           \* no provider, no model
  Failed,         \* a read of SQLite, or a catalog fetch, that failed
  Gets,           \* GET /v1/models requests under way at once
  RetryLimit,     \* MODEL_DISCOVERY_RETRY_LIMIT
  MaxMutations,   \* bound on Web UI mutations
  Budgets         \* what a behaviour may do: at most left mutations, of
                  \* these providers and models, and these discoveries

ASSUME ConstantsAssumption ==
  /\ NumProviders \in Nat \ {0}
  /\ None \notin (1..NumProviders) \cup Models
  /\ Upstream \subseteq Models
  /\ RetryLimit \in Nat \ {0}
  /\ MaxMutations \in Nat
  /\ Budgets \subseteq [left: 0..MaxMutations, providers: SUBSET (1..NumProviders),
                        models: SUBSET Models, discovers: SUBSET Gets]

VARIABLES
  cfg,        \* provider -> its live configuration
  rows,       \* enabled overlay rows in SQLite, in route_order
  routes,     \* model -> owner: model_routes
  origin,     \* history: model -> identity its owner had when it was learned
  seeds,      \* model_route_seeds: the last rows read from SQLite
  mutation,   \* the mutation that holds mutation_lock
  gets,       \* the discoveries under way
  abandoned,  \* history: providers whose last mutation the routes, or the
              \* rows they are built from, have not heard of
  unread,     \* history: providers whose committed rows were never cached
  budget      \* what is left of the bounds chosen at the start

vars == <<cfg, rows, routes, origin, seeds, mutation, gets, abandoned, unread, budget>>

Providers == 1..NumProviders
Owners == Providers \cup {None}
Identities == 0..MaxMutations + 1
Row == [owner: Providers, model: Models]

(* catalog holds the configured models, off the disabled ones.  ident is a *)
(* history value: it counts the identities (destination and credentials) a *)
(* provider id has had.                                                    *)
Config == [status: {"absent", "off", "on"}, ident: Identities,
           catalog: SUBSET Models, off: SUBSET Models]

Operations == {"create", "createOff", "delete", "enable", "disable", "retarget",
               "add", "claim", "forget", "drop", "refresh"}

(* epoch: the mutation holds the write lock of the routes.  todo holds the *)
(* steps of the reconciliation that are left.                              *)
NoMutation == [op |-> "none", p |-> None, m |-> None, stage |-> "free",
               epoch |-> FALSE, todo |-> <<>>]

(* A discovery.  current, seedsCurrent: nothing has changed since it read. *)
(* listed: the identity it asked each provider under, plus 1; manual: the  *)
(* configured catalogs it adds.  passedBy is history: the providers with a *)
(* configuration write that the discovery was never told of.               *)
Idle == [phase |-> "idle", tries |-> 0, current |-> FALSE,
         listed |-> [p \in Providers |-> 0],
         manual |-> [p \in Providers |-> {}], hidden |-> {},
         found |-> [m \in Models |-> None], learned |-> [m \in Models |-> 0],
         advertised |-> {}, failed |-> {}, nothing |-> FALSE, refreshed |-> <<>>,
         seedsCurrent |-> FALSE, passedBy |-> {}]

TypeOK ==
  /\ cfg \in [Providers -> Config]
  /\ rows \in Seq(Row)
  /\ routes \in [Models -> Owners]
  /\ origin \in [Models -> Identities]
  /\ seeds \in Seq(Row)
  /\ mutation.op \in Operations \cup {"none"}
  /\ mutation.stage \in {"free", "stored", "applied", "invalidated", "spawned"}
  /\ \A g \in Gets :
       /\ gets[g].phase \in {"idle", "start", "snapshot", "listed", "seeded",
                             "merged"}
       /\ gets[g].tries \in 0..RetryLimit
       /\ gets[g].found \in [Models -> Owners]
  /\ abandoned \subseteq Providers
  /\ unread \subseteq Providers
  /\ budget.left \in 0..MaxMutations

----------------------------------------------------------------------------
(* The configuration *)

On(p) == cfg[p].status = "on"
ModelIsEnabled(p, m) == m \notin cfg[p].off

(* GloballyDisabledModels: a disable made under one configured provider    *)
(* counts for all, also while that provider is switched off.               *)
GloballyDisabled ==
  {m \in Models : \E p \in Providers : cfg[p].status # "absent" /\ m \in cfg[p].off}

(* Mutant: a publication does not look whether the owner is switched on. *)
MayOwnSwitchedOff(p, m, hidden) ==
  /\ p \in Providers /\ cfg[p].status # "absent"
  /\ ModelIsEnabled(p, m) /\ m \notin hidden

(* provider_by_id and the two checks every publication of a route makes. *)
MayOwn(p, m, hidden) ==
  p \in Providers /\ On(p) /\ ModelIsEnabled(p, m) /\ m \notin hidden

(* The positions of the rows that claim m for a provider that may own it.  *)
Claims(rs, m, hidden) ==
  {i \in DOMAIN rs : rs[i].model = m /\ MayOwn(rs[i].owner, m, hidden)}
Holders(m, hidden) ==
  {p \in Providers : m \in cfg[p].catalog /\ MayOwn(p, m, hidden)}

LeastOf(ps) == CHOOSE p \in ps : \A q \in ps : p <= q

NotOwnedBy(rs, p) == Kept(rs, {r \in Row : r.owner # p})
WithoutRow(rs, p, m) == Kept(rs, Row \ {[owner |-> p, model |-> m]})

(* Mutant: the first row wins. *)
SeedRoutesFirst(rs, hidden) ==
  [m \in Models |->
     LET claims == Claims(rs, m, hidden)
         first == {i \in claims : \A j \in claims : i <= j}
     IN CASE first # {} -> rs[CHOOSE i \in first : TRUE].owner
          [] first = {} /\ Holders(m, hidden) # {} -> LeastOf(Holders(m, hidden))
          [] OTHER -> None]

(* route_seeds_from_config_and_rows: the first catalog that has a model,   *)
(* then the rows in order, so that the last row wins.                      *)
SeedRoutes(rs, hidden) ==
  [m \in Models |->
     LET claims == Claims(rs, m, hidden)
         last == {i \in claims : \A j \in claims : j <= i}
     IN CASE last # {} -> rs[CHOOSE i \in last : TRUE].owner
          [] last = {} /\ Holders(m, hidden) # {} -> LeastOf(Holders(m, hidden))
          [] OTHER -> None]

IdentityOf(owners) ==
  [m \in Models |-> IF owners[m] = None THEN 0 ELSE cfg[owners[m]].ident]

(* add_models_for_provider over the fetched catalogs, provider by          *)
(* provider: the first one that may own a model without a route gets it.   *)
Fetched(catalogs) ==
  [p \in DOMAIN catalogs |-> IF catalogs[p] = Failed THEN {} ELSE catalogs[p]]

Offering(m, offers, hidden) ==
  {p \in DOMAIN offers : m \in offers[p] /\ MayOwn(p, m, hidden)}

Discovered(base, offers, hidden) ==
  [m \in Models |->
     IF base[m] # None \/ Offering(m, offers, hidden) = {}
     THEN base[m]
     ELSE LeastOf(Offering(m, offers, hidden))]

(* publish_model_routes: a provider whose catalog could not be loaded      *)
(* keeps what it owned, unless somebody else owns it now.                  *)
Published(fresh, keep) ==
  [m \in Models |->
     IF /\ fresh[m] = None
        /\ routes[m] \in keep
        /\ MayOwn(routes[m], m, GloballyDisabled)
     THEN routes[m] ELSE fresh[m]]

(* Mutant: the routes of the old identity stay. *)
EvictedNothing(p) == routes

(* remove_provider_live_routes_from *)
Evicted(p) == [m \in Models |-> IF routes[m] = p THEN None ELSE routes[m]]

Catalogs(ps) == [ps -> SUBSET Upstream \cup {Failed}]

(* Mutant: the configuration changes and no discovery hears of it. *)
ConfigBumpedUnheard(gs) == gs

(* Every configuration bump and every write of the seed cache is noticed   *)
(* by the discoveries under way.                                           *)
ConfigBumped(gs) == [g \in Gets |-> [gs[g] EXCEPT !.current = FALSE]]
PassedBy(gs, p) == [g \in Gets |-> [gs[g] EXCEPT !.passedBy = @ \cup {p}]]
SeedsBumped(gs) == [g \in Gets |-> [gs[g] EXCEPT !.seedsCurrent = FALSE]]

----------------------------------------------------------------------------
Init ==
  /\ budget \in Budgets
  /\ \E present \in SUBSET Providers :
       present \subseteq budget.providers /\
       cfg = [p \in Providers |->
                [status |-> IF p \in present THEN "on" ELSE "absent",
                 ident |-> 0, catalog |-> {}, off |-> {}]]
  /\ rows = <<>>
  /\ routes = [m \in Models |-> None]
  /\ origin = [m \in Models |-> 0]
  /\ seeds = <<>>
  /\ mutation = NoMutation
  /\ gets = [g \in Gets |-> Idle]
  /\ abandoned = {}
  /\ unread = {}

----------------------------------------------------------------------------
(* Web UI mutations: the handler takes the lock, validates, and commits to *)
(* SQLite.                                                                 *)

LockFree == mutation.op = "none"

(* TakesEpoch: the routes are locked before the store commit by every      *)
(* mutation but delete_provider and those that leave the owner as it was.  *)
TakesEpoch(op, p) ==
  op \notin {"delete", "enable"} /\ (op \in {"disable", "retarget"} => On(p))

Spend == budget.left > 0 /\ budget' = [budget EXCEPT !.left = @ - 1]

Commit(op, p, m, todo) ==
  /\ LockFree
  /\ p \in budget.providers /\ m \in budget.models \cup {None}
  /\ Spend
  /\ mutation' = [op |-> op, p |-> p, m |-> m, stage |-> "stored",
                  epoch |-> TakesEpoch(op, p), todo |-> todo]
  /\ UNCHANGED <<cfg, routes, origin, seeds, gets, abandoned, unread>>

(* The rows with a new one: a provider made from a template yields to the  *)
(* provider that has claimed the model already, another takes it over.     *)
WithNewRow(row, template) ==
  LET claimed == SelectInSeq(rows, LAMBDA r : r.model = row.model)
  IN IF template /\ claimed # 0 THEN InsertAt(rows, claimed, row)
     ELSE Append(rows, row)

(* create_provider, with at most one model in the catalog it is given.     *)
CommitCreate(p, m) ==
  /\ cfg[p].status = "absent"
  /\ \/ Commit("create", p, m, <<"evict", "sync", "one">>)
     \/ Commit("createOff", p, m, <<"evict", "sync">>)
  /\ \/ m = None /\ UNCHANGED rows
     \/ m # None /\ \E template \in BOOLEAN :
          rows' = WithNewRow([owner |-> p, model |-> m], template)

CommitDelete(p) ==
  /\ cfg[p].status # "absent"
  /\ Commit("delete", p, None, <<"evict", "evictLive", "all">>)
  /\ rows' = NotOwnedBy(rows, p)

CommitEnable(p) ==
  /\ cfg[p].status # "absent"
  /\ Commit("enable", p, None, <<"sync", "one">>)
  /\ UNCHANGED rows

CommitDisable(p) ==
  /\ cfg[p].status # "absent"
  /\ Commit("disable", p, None, <<"evictLive", "all">>)
  /\ UNCHANGED rows

(* update_provider with new discovery settings. *)
CommitRetarget(p) ==
  /\ cfg[p].status # "absent"
  /\ Commit("retarget", p, None, IF On(p) THEN <<"all">> ELSE <<>>)
  /\ UNCHANGED rows

(* add_model and set_model_enabled(true): the row goes to the end of the   *)
(* route order.                                                            *)
CommitClaim(p, m) ==
  /\ cfg[p].status # "absent"
  /\ \/ m \notin cfg[p].catalog /\ Commit("add", p, m, <<>>)
     \/ Commit("claim", p, m, <<>>)
  /\ rows' = Append(WithoutRow(rows, p, m), [owner |-> p, model |-> m])

(* set_model_enabled(false), and delete_model outside the catalog. *)
CommitForget(p, m) ==
  /\ cfg[p].status # "absent"
  /\ Commit("forget", p, m, <<"all">>)
  /\ rows' = WithoutRow(rows, p, m)

(* delete_model of an entry of the catalog. *)
CommitDrop(p, m) ==
  /\ m \in cfg[p].catalog
  /\ Commit("drop", p, m, <<"all">>)
  /\ rows' = WithoutRow(rows, p, m)

(* refresh_provider_models: no commit; it invalidates and fetches. *)
StartRefresh(p) ==
  /\ On(p)
  /\ LockFree
  /\ p \in budget.providers
  /\ Spend
  /\ mutation' = [op |-> "refresh", p |-> p, m |-> None,
                  stage |-> "spawned", epoch |-> FALSE, todo |-> <<"atomic">>]
  /\ gets' = ConfigBumped(gets)
  /\ UNCHANGED <<cfg, rows, routes, origin, seeds, abandoned, unread>>

(* What each operation does to the configuration of its provider. *)
NewConfig(c) ==
  CASE mutation.op \in {"create", "createOff"} ->
         [status |-> IF mutation.op = "create" THEN "on" ELSE "off",
          ident |-> c.ident + 1, catalog |-> {mutation.m} \ {None}, off |-> {}]
    [] mutation.op = "delete" ->
         [c EXCEPT !.status = "absent", !.catalog = {}, !.off = {}]
    [] mutation.op = "enable" -> [c EXCEPT !.status = "on"]
    [] mutation.op = "disable" -> [c EXCEPT !.status = "off"]
    [] mutation.op = "retarget" -> [c EXCEPT !.ident = @ + 1]
    [] mutation.op = "add" ->
         [c EXCEPT !.catalog = @ \cup {mutation.m}, !.off = @ \ {mutation.m}]
    [] mutation.op = "claim" -> [c EXCEPT !.off = @ \ {mutation.m}]
    [] mutation.op = "drop" ->
         [c EXCEPT !.catalog = @ \ {mutation.m}, !.off = @ \ {mutation.m}]
    [] mutation.op = "forget" -> [c EXCEPT !.off = @ \cup {mutation.m}]

(* publish_model_route_epoch: the routes a model mutation leaves. *)
Claiming == mutation.op \in {"add", "claim"}

EpochRoutes(p, m) ==
  [routes EXCEPT ![m] = IF Claiming /\ On(p) THEN p
                        ELSE IF @ = p THEN None ELSE @]

EpochSeeds(p, m) ==
  IF Claiming
  THEN Append(WithoutRow(seeds, p, m), [owner |-> p, model |-> m])
  ELSE WithoutRow(seeds, p, m)

SetRoutes(new) ==
  /\ routes' = new
  /\ origin' = [m \in Models |->
                  IF new[m] = routes[m] THEN origin[m]
                  ELSE IF new[m] = None THEN 0 ELSE cfg[new[m]].ident]

(* The configuration write, with what the route epoch publishes with it.   *)
Apply ==
  LET p == mutation.p  m == mutation.m IN
  /\ mutation.stage = "stored"
  /\ cfg' = [cfg EXCEPT ![p] = NewConfig(@)]
  /\ mutation' = [mutation EXCEPT !.stage = "applied",
                     !.epoch = @ /\ mutation.op \notin {"create", "createOff"}]
  /\ \/ /\ mutation.op \in {"create", "createOff"}
        /\ SetRoutes(Evicted(p))
        /\ seeds' = NotOwnedBy(seeds, p)
        /\ gets' = SeedsBumped(gets)
     \/ /\ mutation.op \in {"disable", "retarget"}
        /\ SetRoutes(IF mutation.epoch THEN Evicted(p) ELSE routes)
        /\ UNCHANGED <<seeds, gets>>
     \/ /\ mutation.op \in {"add", "claim", "forget", "drop"}
        /\ SetRoutes(EpochRoutes(p, m))
        /\ seeds' = EpochSeeds(p, m)
        /\ gets' = SeedsBumped(gets)
     \/ /\ mutation.op \in {"enable", "delete"}
        /\ UNCHANGED <<routes, origin, seeds, gets>>
  /\ UNCHANGED <<rows, abandoned, unread, budget>>

(* invalidate_model_discovery. *)
Invalidate ==
  /\ mutation.stage = "applied"
  /\ mutation' = [mutation EXCEPT !.stage = "invalidated",
                     !.epoch = @ /\ mutation.op = "retarget"]
  /\ gets' = ConfigBumped(gets)
  /\ UNCHANGED <<cfg, rows, routes, origin, seeds, abandoned, unread, budget>>

(* The handlers that await between the commit and finish_model_discovery_  *)
(* mutation: the request future may be dropped there, and mutation_lock    *)
(* with it.  create_provider awaits before it invalidates.                 *)
AwaitsUnspawned ==
  \/ mutation.op \in {"create", "createOff"} /\ mutation.stage = "applied"
  \/ mutation.op \in {"delete", "retarget"} /\ mutation.stage = "invalidated"

Disconnect ==
  /\ AwaitsUnspawned
  /\ mutation' = NoMutation
  /\ abandoned' = abandoned \cup {mutation.p}
  /\ unread' = unread \cup {mutation.p}
  /\ gets' = IF mutation.stage = "applied" THEN PassedBy(gets, mutation.p) ELSE gets
  /\ UNCHANGED <<cfg, rows, routes, origin, seeds, budget>>

(* refresh_provider_models is not spawned: a disconnect ends it.           *)
DisconnectRefresh ==
  /\ mutation.op = "refresh"
  /\ mutation' = NoMutation
  /\ UNCHANGED <<cfg, rows, routes, origin, seeds, gets, abandoned, unread, budget>>

Spawn ==
  /\ mutation.stage = "invalidated"
  /\ mutation' = [mutation EXCEPT !.stage = "spawned", !.epoch = FALSE]
  /\ UNCHANGED <<cfg, rows, routes, origin, seeds, gets, abandoned, unread, budget>>

----------------------------------------------------------------------------
(* The spawned reconciliation *)

Doing(step) ==
  /\ mutation.stage = "spawned"
  /\ mutation.todo # <<>>
  /\ Head(mutation.todo) = step

StepDone == mutation' = [mutation EXCEPT !.todo = Tail(@)]

(* remove_provider_model_routes. *)
ReconcileEvict ==
  /\ Doing("evict")
  /\ StepDone
  /\ SetRoutes(Evicted(mutation.p))
  /\ seeds' = NotOwnedBy(seeds, mutation.p)
  /\ gets' = SeedsBumped(gets)
  /\ UNCHANGED <<cfg, rows, abandoned, unread, budget>>

(* remove_provider_live_routes. *)
ReconcileEvictLive ==
  /\ Doing("evictLive")
  /\ StepDone
  /\ SetRoutes(Evicted(mutation.p))
  /\ UNCHANGED <<cfg, rows, seeds, gets, abandoned, unread, budget>>

(* What a read of the overlay rows returns: the rows, or, when SQLite      *)
(* fails, nothing, and the cache stands in.                                *)
RowsOr(read) == IF read = Failed THEN seeds ELSE read

CacheRows(read) ==
  /\ seeds' = RowsOr(read)
  /\ gets' = IF read = Failed THEN gets ELSE SeedsBumped(gets)
  /\ unread' = IF read # Failed THEN {}
               ELSE IF mutation.op \in {"create", "createOff"}
               THEN unread \cup {mutation.p} ELSE unread

(* synchronize_global_route_seed_snapshot. *)
ReconcileSync ==
  \E read \in {rows, Failed} :
    LET stable == SeedRoutes(RowsOr(read), GloballyDisabled) IN
    /\ Doing("sync")
    /\ StepDone
    /\ SetRoutes([m \in Models |-> IF stable[m] = None THEN routes[m] ELSE stable[m]])
    /\ CacheRows(read)
    /\ UNCHANGED <<cfg, rows, abandoned, budget>>

(* discover_routes_for_mutation: the providers in fetch are asked for      *)
(* their catalogs, the others keep what they own and no seed claims.       *)
Rebuilt(read, fetch, catalogs) ==
  LET hidden == GloballyDisabled
      base == SeedRoutes(RowsOr(read), hidden)
      fresh == Discovered(base, Fetched(catalogs), hidden)
      kept == [m \in Models |->
                 IF /\ base[m] = None
                    /\ routes[m] \in Providers \ fetch
                    /\ MayOwn(routes[m], m, hidden)
                 THEN routes[m] ELSE fresh[m]]
      loaded == {p \in fetch : catalogs[p] # Failed}
  IN Published(kept, {p \in Providers : On(p)} \ loaded)

FetchFailed(catalogs) == \E p \in DOMAIN catalogs : catalogs[p] = Failed

(* refresh_model_routes_while_mutation_locked, modes RefetchAll and        *)
(* RefetchOne.  Its revision checks cannot fail: both revisions move only  *)
(* under the mutation lock it holds.                                       *)
ReconcileRefetch ==
  \E read \in {rows, Failed} :
    LET fetch == {p \in Providers : On(p) /\ (Doing("one") => p = mutation.p)} IN
    \E catalogs \in Catalogs(fetch) :
      /\ Doing("one") \/ Doing("all")
      /\ StepDone
      /\ SetRoutes(Rebuilt(read, fetch, catalogs))
      /\ CacheRows(read)
      /\ abandoned' = unread'
      /\ UNCHANGED <<cfg, rows, budget>>

(* Mode RefetchOneAtomic: nothing is published when the fetch failed. *)
RefreshAtomic ==
  \E read \in {rows, Failed}, catalogs \in Catalogs({mutation.p}) :
    /\ Doing("atomic")
    /\ StepDone
    /\ IF FetchFailed(catalogs)
       THEN UNCHANGED <<routes, origin, seeds, gets, abandoned, unread>>
       ELSE /\ SetRoutes(Rebuilt(read, {mutation.p}, catalogs))
            /\ CacheRows(read)
            /\ abandoned' = unread'
    /\ UNCHANGED <<cfg, rows, budget>>

(* Mutant: only a spawned reconciliation releases the lock. *)
CompleteSpawned ==
  /\ mutation.stage = "spawned"
  /\ mutation.todo = <<>>
  /\ mutation.op # "refresh"
  /\ mutation' = NoMutation
  /\ gets' = ConfigBumped(gets)
  /\ UNCHANGED <<cfg, rows, routes, origin, seeds, abandoned, unread, budget>>

(* complete_model_discovery_mutation, then the lock is released. *)
Complete ==
  /\ mutation.stage = "spawned"
  /\ mutation.todo = <<>>
  /\ mutation' = NoMutation
  /\ gets' = ConfigBumped(gets)
  /\ UNCHANGED <<cfg, rows, routes, origin, seeds, abandoned, unread, budget>>

----------------------------------------------------------------------------
(* GET /v1/models.  What a discovery reads without waiting in between is   *)
(* one step.                                                               *)

Step(g, from, to) ==
  /\ gets[g].phase = from
  /\ gets' = [gets EXCEPT ![g] = to]
  /\ UNCHANGED <<cfg, rows, routes, origin, seeds, mutation, abandoned, unread, budget>>

Request(g) ==
  g \in budget.discovers /\ Step(g, "idle", [Idle EXCEPT !.phase = "start", !.tries = 1])

ReadRevision(g) ==
  Step(g, "start", [gets[g] EXCEPT !.phase = "snapshot", !.current = TRUE,
                                      !.passedBy = {}])

(* The providers to ask, each with the destination it has now, and the     *)
(* globally disabled models; the fetches start.                            *)
ListProviders(g) ==
  /\ Step(g, "snapshot",
          [gets[g] EXCEPT !.phase = "listed", !.hidden = GloballyDisabled,
             !.listed = [p \in Providers |-> IF On(p) THEN cfg[p].ident + 1 ELSE 0],
             !.manual = [p \in Providers |-> IF On(p) THEN cfg[p].catalog ELSE {}]])

(* The fetches have ended: read the configuration and the overlay rows. *)
ReadSeeds(g) ==
  \E read \in {rows, Failed} :
    LET base == SeedRoutes(RowsOr(read), gets[g].hidden) IN
    Step(g, "listed",
         [gets[g] EXCEPT !.phase = "seeded", !.refreshed = read,
            !.seedsCurrent = TRUE, !.found = base, !.learned = IdentityOf(base)])

Listed(g) == {p \in Providers : gets[g].listed[p] # 0}

(* Merge the catalogs into the seeded routes; a provider gone since is     *)
(* skipped.                                                                *)
MergeCatalogs(g) ==
  \E catalogs \in Catalogs(Listed(g)) :
    LET offers == [p \in Listed(g) |-> Fetched(catalogs)[p] \cup gets[g].manual[p]]
        found == Discovered(gets[g].found, offers, gets[g].hidden)
    IN
    Step(g, "seeded",
         [gets[g] EXCEPT !.phase = "merged", !.found = found,
            !.learned = [m \in Models |->
                           IF found[m] = gets[g].found[m] THEN @[m]
                           ELSE gets[g].listed[found[m]] - 1],
            !.advertised = {m \in Models :
                              found[m] \in Offering(m, offers, gets[g].hidden)},
            !.failed = {p \in Listed(g) : catalogs[p] = Failed},
            !.nothing = \E p \in Listed(g) : On(p) /\ catalogs[p] = Failed])

(* No catalog could be loaded, and a provider that is still there failed.  *)
NothingLoaded(g) == gets[g].advertised = {} /\ gets[g].nothing

(* Mutant: only the fallback seeds are checked. *)
StillCurrentSeeds(g) == gets[g].refreshed = Failed => gets[g].seedsCurrent

(* publish_models_if_current's verdict on the snapshot g worked from. *)
StillCurrent(g) ==
  /\ gets[g].current
  /\ gets[g].refreshed = Failed => gets[g].seedsCurrent

(* Mutant: one attempt too many. *)
RetriedOnceMore(g) ==
  IF gets[g].tries <= RetryLimit
  THEN [Idle EXCEPT !.phase = "start", !.tries = gets[g].tries + 1]
  ELSE Idle

Retried(g) ==
  IF gets[g].tries < RetryLimit
  THEN [Idle EXCEPT !.phase = "start", !.tries = gets[g].tries + 1]
  ELSE Idle

(* Mutant: a snapshot whose seeds are out of date is not given up. *)
DiscardOldConfig(g) ==
  /\ gets[g].phase = "merged"
  /\ LockFree
  /\ ~gets[g].current
  /\ Step(g, "merged", Retried(g))

(* cache_seed_snapshot_if_current and publish_models_if_current, once they *)
(* have the mutation lock: the snapshot is out of date.                    *)
Discard(g) ==
  /\ gets[g].phase = "merged"
  /\ LockFree
  /\ IF NothingLoaded(g) THEN ~gets[g].current ELSE ~StillCurrent(g)
  /\ Step(g, "merged", Retried(g))

(* 502: the routes stay, the rows that were read are cached.  They may be  *)
(* older than those in the cache, by the providers that passed g by.       *)
Fail(g) ==
  /\ gets[g].phase = "merged"
  /\ LockFree
  /\ NothingLoaded(g)
  /\ gets[g].current
  /\ seeds' = RowsOr(gets[g].refreshed)
  /\ gets' = [(IF gets[g].refreshed = Failed THEN gets ELSE SeedsBumped(gets))
                EXCEPT ![g] = Idle]
  /\ unread' = IF gets[g].refreshed = Failed THEN unread ELSE gets[g].passedBy
  /\ abandoned' = abandoned \cup (IF gets[g].refreshed = Failed THEN {} ELSE unread')
  /\ UNCHANGED <<cfg, rows, routes, origin, mutation, budget>>

(* 200: the discovered routes replace the map. *)
Publish(g) ==
  LET new == Published(gets[g].found, gets[g].failed) IN
  /\ gets[g].phase = "merged"
  /\ LockFree
  /\ ~NothingLoaded(g)
  /\ StillCurrent(g)
  /\ routes' = new
  /\ origin' = [m \in Models |-> IF new[m] = gets[g].found[m]
                                 THEN gets[g].learned[m] ELSE origin[m]]
  /\ seeds' = RowsOr(gets[g].refreshed)
  /\ gets' = [(IF gets[g].refreshed = Failed THEN gets ELSE SeedsBumped(gets))
                EXCEPT ![g] = Idle]
  /\ unread' = IF gets[g].refreshed = Failed THEN unread ELSE gets[g].passedBy
  /\ abandoned' = unread' \cup gets[g].passedBy
  /\ UNCHANGED <<cfg, rows, mutation, budget>>

(* The client is gone. *)
Hangup(g) == gets[g].phase # "idle" /\ Step(g, gets[g].phase, Idle)

----------------------------------------------------------------------------
Mutate ==
  \/ \E p \in Providers :
       \/ CommitDelete(p) \/ CommitEnable(p) \/ CommitDisable(p)
       \/ CommitRetarget(p) \/ StartRefresh(p)
  \/ \E p \in Providers, m \in Models :
       CommitClaim(p, m) \/ CommitForget(p, m) \/ CommitDrop(p, m)
  \/ \E p \in Providers, m \in Models \cup {None} : CommitCreate(p, m)

Reconcile ==
  \/ Apply \/ Invalidate \/ Spawn
  \/ ReconcileEvict \/ ReconcileEvictLive \/ ReconcileSync
  \/ ReconcileRefetch \/ RefreshAtomic \/ Complete

Discover(g) ==
  \/ ReadRevision(g) \/ ListProviders(g) \/ ReadSeeds(g) \/ MergeCatalogs(g)
  \/ Discard(g) \/ Fail(g) \/ Publish(g)

Next ==
  \/ Mutate \/ Reconcile \/ Disconnect \/ DisconnectRefresh
  \/ \E g \in Gets : Request(g) \/ Discover(g) \/ Hangup(g)

(* Handlers and the spawned task keep running; the mutex is handed out in  *)
(* the order it was asked for, so a discovery that waits for it gets it.   *)
Fairness ==
  /\ WF_vars(Reconcile)
  /\ \A g \in Gets : SF_vars(Discover(g))

Spec == Init /\ [][Next]_vars /\ Fairness

----------------------------------------------------------------------------
(* select_provider *)

(* It waits for the read lock of the routes before it reads anything. *)
RoutesLocked == mutation.epoch

Select(m) ==
  LET enabled == {p \in Providers : On(p)}
      holders == {p \in enabled : m \in cfg[p].catalog /\ ModelIsEnabled(p, m)}
      fallback == IF holders # {} THEN holders ELSE
                  {p \in enabled : enabled = {p} /\ ModelIsEnabled(p, m)}
  IN CASE m \in GloballyDisabled -> None
       [] m \notin GloballyDisabled /\ routes[m] \in enabled
            /\ ModelIsEnabled(routes[m], m) -> routes[m]
       [] m \notin GloballyDisabled /\ ~(routes[m] \in enabled
            /\ ModelIsEnabled(routes[m], m)) /\ fallback # {} -> LeastOf(fallback)
       [] OTHER -> None

----------------------------------------------------------------------------
(* Properties *)

(* "A live route discovered from the old identity must never be paired     *)
(* with the new destination or credentials" (webui.rs, update_provider):   *)
(* whenever a request can be routed, the owner of its model is the         *)
(* provider, with the destination it has now, that the route was learned   *)
(* from.                                                                   *)
RoutesMatchIdentity ==
  ~RoutesLocked =>
    \A m \in Models : routes[m] # None /\ On(routes[m]) =>
      origin[m] = cfg[routes[m]].ident

(* A disabled provider never owns a route a request can see (webui.rs,     *)
(* set_provider_enabled), and once the lock is free a route's owner is     *)
(* enabled, unless a disconnect left a mutation without reconciliation.    *)
OwnersEnabled ==
  \A m \in Models : routes[m] # None =>
    /\ ~RoutesLocked => cfg[routes[m]].status # "off"
    /\ LockFree => On(routes[m]) \/ routes[m] \in abandoned

(* The cache that stands in for SQLite holds what SQLite holds whenever no *)
(* mutation is under way, but for the rows of a provider whose mutation a  *)
(* disconnect cut short, or whose creation could not read SQLite back      *)
(* (state.rs, model_route_seeds).                                          *)
SeedsTrackStore ==
  LockFree => LET cached == {r \in Row : r.owner \notin unread}
              IN Kept(seeds, cached) = Kept(rows, cached)

(* "Explicit operator enable/add/update remains the newest owner for       *)
(* colliding slugs, matching persisted route_order precedence" (webui.rs,  *)
(* publish_model_route_epoch): between mutations a model is routed to the  *)
(* newest row that may own it, whatever was discovered meanwhile.  Only a  *)
(* model that a switched-off provider claims too may be left without a     *)
(* route: that claim lifts the global disable and rebuilds nothing.        *)
ClaimedSwitchedOff(m) == \E i \in DOMAIN rows :
  rows[i].model = m /\ cfg[rows[i].owner].status = "off"

NewestClaimOwns ==
  LockFree /\ abandoned = {} =>
    LET owner == SeedRoutes(rows, GloballyDisabled)
    IN \A m \in Models : owner[m] # None =>
         routes[m] = owner[m] \/ (routes[m] = None /\ ClaimedSwitchedOff(m))

(* No discovery "would advertise models that are subsequently sent to the  *)
(* edited provider" (models.rs, models_for_revision): what a published     *)
(* response lists is served, from then on, by the provider that listed it, *)
(* with the destination it listed it under.                                *)
AdvertisedIsServed ==
  [][\A g \in Gets : Publish(g) =>
       \A m \in gets[g].advertised :
         LET p == gets[g].found[m] IN
         /\ Select(m)' = p
         /\ cfg[p].ident + 1 = gets[g].listed[p]]_vars

(* A catalog request is answered, if need be with 503 after RetryLimit     *)
(* attempts (models.rs, models_with_publish_lock), and a mutation ends.    *)
Answered == \A g \in Gets : gets[g].phase = "start" ~> gets[g].phase = "idle"
LockReleased == ~LockFree ~> LockFree

(* "The owned task keeps both reconciliation and mutation_lock alive until *)
(* the route/provenance snapshot and completion generation have been       *)
(* published" (webui.rs, finish_model_discovery_mutation): a committed     *)
(* mutation releases the lock reconciled, also when the client is gone.    *)
CommittedIsReconciled ==
  LockFree => \A m \in Models : routes[m] # None => On(routes[m])
============================================================================
