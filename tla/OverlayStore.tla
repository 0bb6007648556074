---------------------------- MODULE OverlayStore ----------------------------
(***************************************************************************)
(* The overlay rows of the Web UI (src/src/store.rs) and the configuration *)
(* they must restore.  A mutation (webui.rs) commits its rows to SQLite    *)
(* and then publishes the new configuration of its provider; a start reads *)
(* codex-warp.toml and replays the rows over it.  The process may stop     *)
(* between the two, and the operator may edit the TOML file at any time.   *)
(*                                                                         *)
(* mutation_lock admits one mutation at a time, so a mutation is a commit  *)
(* (every statement of its transaction) followed by Publish.  A store      *)
(* error rolls back and changes nothing.  Routes are the subject of        *)
(* ModelRoutes.                                                            *)
(*                                                                         *)
(* Simplifications.  dest stands for every field of a provider that an     *)
(* edit may change, key for its credentials and headers; rows are never    *)
(* corrupt; the enabled column is never NULL; provider and model ids are   *)
(* numbered in their alphabetical order, and ids that only differ by a     *)
(* provider prefix are left out, so that two ids overlap when they are     *)
(* equal.  The primary provider slot behaves as a TOML provider that the   *)
(* Web UI cannot delete or create, and is left out.                        *)
(***************************************************************************)
EXTENDS Integers, FiniteSets, Sequences, SequencesExt, Filter

CONSTANTS
  NumProviders,  \* provider ids
  NumIds,        \* model ids, those of upstream slugs included
  Toml,          \* the providers of codex-warp.toml at the first start
  NewProviders,  \* the providers that can be created
  Entries,       \* the catalog entries that can be added or updated to
  Edits,         \* the edits of a provider: its enabled, dest and key
  Targets,       \* the ids that are switched, or deleted, by name
  Versions,      \* values of dest and of key
  None,          \* no row, no JSON, no upstream id, no provider
  MaxMutations,  \* bound on Web UI mutations
  MaxDisturbances,  \* bound on restarts, TOML edits and lost rows
  MaxEvents      \* bound on both together

Providers == 1..NumProviders
Ids == 1..NumIds
Upstreams == Ids \cup {None}
Keys == Providers \X Ids

VARIABLES
  toml,        \* provider -> its configuration in codex-warp.toml, or None
  prows,       \* provider -> its row in provider_overlays, or None
  mrows,       \* <<provider, id>> -> its row in model_overlays
  live,        \* provider -> its configuration in the process, or None
  remembered,  \* remembered_managed
  committed,   \* a committed mutation that is not published: [p, to], or None
  claims,      \* history: enabled claims <<provider, id>>, the newest last
  collateral,  \* history: the <<provider, id>> that a mutation of another id
               \* disabled, cleared or uncovered, of which no row tells
  mutations, disturbances  \* counted for the bounds

db == <<prows, mrows>>
history == <<claims, collateral, mutations, disturbances>>
vars == <<toml, prows, mrows, live, remembered, committed, history>>

Entry == [id: Ids, up: Upstreams, enabled: BOOLEAN]
Provider == [enabled: BOOLEAN, dest: Versions, key: Versions \cup {None},
             catalog: Seq(Entry), disabled: SUBSET Ids]
ProviderRow == [enabled: BOOLEAN, removed: BOOLEAN, managed: BOOLEAN,
                json: Provider \cup {None}]
ModelRow == [enabled: BOOLEAN, removed: BOOLEAN, json: Entry \cup {None},
             uiCreated: BOOLEAN, order: Int]

(* A created provider names no model twice (validate_model_catalog).       *)
ASSUME ConstantsAssumption ==
  /\ NumProviders \in Nat /\ NumIds \in Nat
  /\ None \notin Providers \cup Ids \cup Versions \cup Entry \cup Provider
       \cup ProviderRow \cup [p: Providers, to: Provider \cup {None}]
  /\ Toml \in [Providers -> Provider \cup {None}]
  /\ NewProviders \subseteq Provider
  /\ \A c \in NewProviders : \A i, j \in DOMAIN c.catalog :
       c.catalog[i].id = c.catalog[j].id => i = j
  /\ Entries \subseteq Entry /\ Targets \subseteq Ids
  /\ Edits \subseteq [enabled: BOOLEAN, dest: Versions, key: Versions \cup {None}]
  /\ MaxMutations \in Nat /\ MaxDisturbances \in Nat /\ MaxEvents \in Nat

(* No sequence of mutations writes the credentials of a TOML provider into *)
(* the database, not even into the row of a provider that once was managed *)
(* (config.api_key and headers, provider_overlay_config_json).             *)
CredentialsStayInToml ==
  \A p \in Providers :
    prows[p] # None /\ ~prows[p].managed /\ prows[p].json # None =>
      prows[p].json.key = None

(* Every row and every configuration is well formed: no blank id is ever   *)
(* stored or disabled, and no row holds the credentials of a TOML provider.*)
TypeOK ==
  /\ toml \in [Providers -> Provider \cup {None}]
  /\ prows \in [Providers -> ProviderRow \cup {None}]
  /\ DOMAIN mrows \subseteq Keys
  /\ \A k \in DOMAIN mrows : mrows[k] \in ModelRow
  /\ live \in [Providers -> Provider \cup {None}]
  /\ remembered \subseteq Providers
  /\ committed = None \/ committed \in [p: Providers, to: Provider \cup {None}]
  /\ CredentialsStayInToml

----------------------------------------------------------------------------
(* The configuration of a provider (config.rs) *)

Has(c, id) == \E i \in DOMAIN c.catalog : c.catalog[i].id = id
Position(c, id) == SelectInSeq(c.catalog, LAMBDA e : e.id = id)
EntryOf(c, id) == c.catalog[Position(c, id)]
UpstreamOf(c, id) == IF Has(c, id) THEN EntryOf(c, id).up ELSE None

(* The first entry with the id, or else the first one with that upstream   *)
(* id, decides; and an alias is off when its upstream id is.               *)
ModelIsEnabled(c, id) ==
  LET direct == Position(c, id)
      alias  == SelectInSeq(c.catalog, LAMBDA e : e.up = id)
      at     == IF direct # 0 THEN direct ELSE alias
  IN /\ id \notin c.disabled
     /\ at # 0 => c.catalog[at].enabled /\ c.catalog[at].up \notin c.disabled

Cleared(c, ids) == [c EXCEPT !.disabled = @ \ ids]
Disabled(c, ids) == [c EXCEPT !.disabled = @ \cup (ids \ {None})]
WithoutEntry(c, id) ==
  [c EXCEPT !.catalog = Kept(@, {e \in Entry : e.id # id})]

(* suppress_catalog_model and remove_model_catalog_entry *)
Suppressed(c, id, up) == Disabled(WithoutEntry(c, id), {id, up})
Removed(c, id, up) == Cleared(WithoutEntry(c, id), {id, up})

WithEntry(c, e) ==
  IF Has(c, e.id) THEN [c EXCEPT !.catalog[Position(c, e.id)] = e]
  ELSE [c EXCEPT !.catalog = Append(@, e)]
WithEnabled(c, id, b) ==
  IF Has(c, id) THEN [c EXCEPT !.catalog[Position(c, id)].enabled = b] ELSE c

(* upsert_model_catalog_entry: a disabled entry clears nothing. *)
Upserted(c, e) ==
  WithEntry(IF e.enabled THEN Cleared(c, {e.id, e.up}) ELSE c, e)
----------------------------------------------------------------------------
(* The rows (store.rs) *)

Orders(rows) == {rows[k].order : k \in DOMAIN rows}
Greatest(ns) == CHOOSE n \in ns : \A m \in ns : m <= n

(* Mutant for NextOrder: the order is the number of rows.                  *)
NextOrderByCount(rows) == Cardinality(DOMAIN rows) + 1

(* next_route_order *)
NextOrder(rows) == IF DOMAIN rows = {} THEN 1 ELSE Greatest(Orders(rows)) + 1

(* Mutant for Precedes: the rows are replayed in the order of their keys.  *)
PrecedesByKey(rows, j, k) ==
  j[1] < k[1] \/ (j[1] = k[1] /\ j[2] < k[2])

(* ORDER BY route_order, provider_id, model_id *)
Precedes(rows, j, k) ==
  \/ rows[j].order < rows[k].order
  \/ rows[j].order = rows[k].order
       /\ (j[1] < k[1] \/ (j[1] = k[1] /\ j[2] < k[2]))
Before(rows, keys, k) == Cardinality({j \in keys : Precedes(rows, j, k)})
InOrder(rows, keys) ==
  [i \in 1..Cardinality(keys) |-> CHOOSE k \in keys : Before(rows, keys, k) = i - 1]

(* normalize_route_orders: compact, and none above 0. *)
Normalized(rows) ==
  [k \in DOMAIN rows |-> [rows[k] EXCEPT !.order =
     1 - Cardinality(DOMAIN rows) + Before(rows, DOMAIN rows, k)]]

WithRow(rows, k, r) == [j \in DOMAIN rows \cup {k} |-> IF j = k THEN r ELSE rows[j]]
WithoutRows(rows, keys) == [j \in DOMAIN rows \ keys |-> rows[j]]
RowsOf(rows, p) == {k \in DOMAIN rows : k[1] = p}
EnabledRows(rows, id) ==
  {k \in DOMAIN rows : k[2] = id /\ rows[k].enabled /\ ~rows[k].removed}

(* upsert_model_catalog: a conflict keeps ui_created. *)
UpsertedRow(rows, k, e, uiCreated) ==
  WithRow(rows, k,
    [enabled |-> e.enabled, removed |-> FALSE, json |-> e,
     uiCreated |-> IF k \in DOMAIN rows THEN rows[k].uiCreated ELSE uiCreated,
     order |-> NextOrder(rows)])

(* A row of create_provider_with_catalog: one that must leave the owner of *)
(* its id alone is put before the oldest claim.                            *)
CreatedRow(rows, p, e, preserve) ==
  LET others == {k \in EnabledRows(rows, e.id) : k[1] # p}
      oldest == InOrder(rows, others)[1]
      normal == Normalized(rows)
      row == [enabled |-> e.enabled, removed |-> FALSE, json |-> e,
              uiCreated |-> FALSE, order |-> NextOrder(rows)]
  IN IF preserve /\ e.enabled /\ others # {}
     THEN WithRow(normal, <<p, e.id>>, [row EXCEPT !.order = normal[oldest].order - 1])
     ELSE WithRow(rows, <<p, e.id>>, row)

(* create_provider_with_catalog: the rows of p are dropped, then written.  *)
CreatedRows(rows, p, catalog, preserve) ==
  LET after[i \in 0..Len(catalog)] ==
        IF i = 0 THEN WithoutRows(rows, RowsOf(rows, p))
        ELSE CreatedRow(after[i - 1], p, catalog[i], preserve)
  IN after[Len(catalog)]

(* set_model_enabled: the stored entry follows, and the row goes last. *)
ToggledRow(rows, k, b) ==
  IF k \in DOMAIN rows
  THEN LET r == rows[k]
           json == IF r.json = None THEN None ELSE [r.json EXCEPT !.enabled = b]
       IN WithRow(rows, k, [r EXCEPT !.enabled = b, !.removed = FALSE,
                                     !.json = json, !.order = NextOrder(rows)])
  ELSE WithRow(rows, k, [enabled |-> b, removed |-> FALSE, json |-> None,
                         uiCreated |-> FALSE, order |-> NextOrder(rows)])

(* soft_remove_model and persist_managed_overlay_disable leave the order   *)
(* as it is; a new row gets the default, 0.                                *)
SoftRemovedRow(rows, k, e) ==
  IF k \in DOMAIN rows
  THEN [rows EXCEPT ![k].enabled = FALSE, ![k].removed = TRUE, ![k].json = e]
  ELSE WithRow(rows, k, [enabled |-> FALSE, removed |-> TRUE, json |-> e,
                         uiCreated |-> FALSE, order |-> 0])
DisabledRow(rows, k) ==
  IF k \in DOMAIN rows
  THEN [rows EXCEPT ![k].enabled = FALSE, ![k].removed = FALSE]
  ELSE WithRow(rows, k, [enabled |-> FALSE, removed |-> FALSE, json |-> None,
                         uiCreated |-> FALSE, order |-> 0])

(* Mutant for Snapshot: the row of a TOML provider keeps the credentials.  *)
SnapshotWhole(c, managed) == c

(* provider_overlay_config_json: a copy, but credentials stay in the TOML file. *)
Snapshot(c, managed) ==
  IF managed THEN c
  ELSE [enabled |-> c.enabled, dest |-> c.dest, key |-> None,
        catalog |-> c.catalog, disabled |-> c.disabled]

(* Mutant for ProviderRowOf: the row of a provider is written enabled.     *)
ProviderRowOfOn(c, managed) ==
  [enabled |-> TRUE, removed |-> FALSE, managed |-> managed,
   json |-> Snapshot(c, managed)]

ProviderRowOf(c, managed) ==
  [enabled |-> c.enabled, removed |-> FALSE, managed |-> managed,
   json |-> Snapshot(c, managed)]

(* provider_is_managed: a row that was lost is remembered. *)
Managed(p) == IF prows[p] # None THEN prows[p].managed ELSE p \in remembered

----------------------------------------------------------------------------
(* Replay at a start (apply_overlays_with_tracing_fallback) *)

(* The provider rows: a tombstone removes, a managed row is the provider,  *)
(* another row only edits a provider that the TOML file still has.         *)
ReplayedProvider(p) ==
  LET r == prows[p]
      base == toml[p]
  IN CASE r = None -> base
       [] r # None /\ r.removed -> None
       [] r # None /\ ~r.removed /\ r.managed /\ r.json # None ->
            [r.json EXCEPT !.enabled = r.enabled]
       [] r # None /\ ~r.removed /\ ~r.managed /\ r.json # None /\ base # None ->
            [r.json EXCEPT !.enabled = r.enabled, !.key = base.key,
                           !.catalog = base.catalog, !.disabled = base.disabled]
       [] r # None /\ ~r.removed /\ r.json = None /\ base # None ->
            [base EXCEPT !.enabled = r.enabled]
       [] OTHER -> None

(* A model row over the configuration of its provider. *)
ReplayedModel(c, id, r) ==
  LET up == IF r.json # None /\ r.json.up # None THEN r.json.up
            ELSE UpstreamOf(c, id)
      set == IF r.json = None THEN WithEnabled(c, id, r.enabled)
             ELSE WithEntry(c, r.json)
      on == IF r.json = None THEN r.enabled ELSE r.json.enabled
  IN CASE r.removed -> Suppressed(c, id, up)
       [] ~r.removed /\ on -> Cleared(set, {id, UpstreamOf(set, id)})
       [] ~r.removed /\ ~on -> Disabled(set, {id})

Replayed(p) ==
  LET base == ReplayedProvider(p)
      keys == InOrder(mrows, RowsOf(mrows, p))
      after[i \in 0..Len(keys)] ==
        IF i = 0 THEN base
        ELSE ReplayedModel(after[i - 1], keys[i][2], mrows[keys[i]])
  IN IF base = None THEN None ELSE after[Len(keys)]

Init ==
  /\ toml = Toml
  /\ prows = [p \in Providers |-> None]
  /\ mrows = <<>>
  /\ live = toml
  /\ remembered = {}
  /\ committed = None
  /\ claims = <<>> /\ collateral = {}
  /\ mutations = 0 /\ disturbances = 0

----------------------------------------------------------------------------
(* Web UI mutations (webui.rs): a handler reads the live configuration,    *)
(* and commits the rows of the configuration it will publish.              *)

Commit(p, to) ==
  /\ committed = None
  /\ mutations < MaxMutations /\ mutations + disturbances < MaxEvents
  /\ mutations' = mutations + 1
  /\ committed' = [p |-> p, to |-> to]
  /\ UNCHANGED <<toml, live, disturbances>>

Unclaimed(k) == Kept(claims, Keys \ {k})
Claimed(k, on) == IF on THEN Append(Unclaimed(k), k) ELSE Unclaimed(k)
Disowned(p) == Kept(claims, {k \in Keys : k[1] # p})

(* The claim of an entry of a provider that is created, and of all.        *)
FirstClaim(cs, id) == SelectInSeq(cs, LAMBDA k : k[2] = id)
CreatedClaim(cs, p, e, preserve) ==
  LET first == FirstClaim(cs, e.id)
  IN CASE ~e.enabled -> cs
       [] e.enabled /\ preserve /\ first # 0 -> InsertAt(cs, first, <<p, e.id>>)
       [] e.enabled /\ ~(preserve /\ first # 0) -> Append(cs, <<p, e.id>>)
CreatedClaims(p, catalog, preserve) ==
  LET after[i \in 0..Len(catalog)] ==
        IF i = 0 THEN Disowned(p)
        ELSE CreatedClaim(after[i - 1], p, catalog[i], preserve)
  IN after[Len(catalog)]

(* The upstream ids that a mutation of an entry may decide about, in the   *)
(* process or, when its row covers the TOML entry, at a start only.        *)
Drawn(p, id) ==
  {<<p, UpstreamOf(c, id)>> : c \in {c \in {live[p], toml[p]} \ {None} : Has(c, id)}}
(* Whether it decides about the id as another entry's upstream id, too. *)
Shared(p, id) == IF \E i \in DOMAIN live[p].catalog : live[p].catalog[i].up = id
                 THEN {<<p, id>>} ELSE {}

CreateProvider(p, c, preserve) ==
  /\ live[p] = None
  /\ Commit(p, c)
  /\ prows' = [prows EXCEPT ![p] = ProviderRowOf(c, TRUE)]
  /\ mrows' = CreatedRows(mrows, p, c.catalog, preserve)
  /\ remembered' = remembered \cup {p}
  /\ claims' = CreatedClaims(p, c.catalog, preserve)
  /\ UNCHANGED collateral

(* validate_toml_owned_credential_selector, apply_provider_persist *)
MayEdit(c, edit, managed) == managed \/ edit.key = c.key
Edited(c, edit) ==
  [c EXCEPT !.enabled = edit.enabled, !.dest = edit.dest, !.key = edit.key]

UpdateProvider(p, edit) ==
  LET managed == Managed(p)
      to == Edited(live[p], edit)
  IN /\ live[p] # None
     /\ MayEdit(live[p], edit, managed)
     /\ Commit(p, to)
     /\ prows' = [prows EXCEPT ![p] = ProviderRowOf(to, managed)]
     /\ remembered' = IF managed THEN remembered \cup {p} ELSE remembered \ {p}
     /\ UNCHANGED <<mrows, claims, collateral>>

(* A TOML provider leaves a tombstone and its model rows. *)
DeleteProvider(p) ==
  /\ live[p] # None
  /\ Commit(p, None)
  /\ remembered' = remembered \ {p}
  /\ \/ /\ Managed(p)
        /\ prows' = [prows EXCEPT ![p] = None]
        /\ mrows' = WithoutRows(mrows, RowsOf(mrows, p))
        /\ claims' = Disowned(p)
     \/ /\ ~Managed(p)
        /\ prows' = [prows EXCEPT ![p] =
             [enabled |-> FALSE, removed |-> TRUE, managed |-> FALSE,
              json |-> IF prows[p] = None THEN None ELSE prows[p].json]]
        /\ UNCHANGED <<mrows, claims>>
  /\ UNCHANGED collateral

(* A managed provider whose row was lost is written again in full. *)
SetProviderEnabled(p, b) ==
  LET to == [live[p] EXCEPT !.enabled = b]
      row == CASE prows[p] # None -> [prows[p] EXCEPT !.enabled = b, !.removed = FALSE]
               [] prows[p] = None /\ Managed(p) -> ProviderRowOf(to, TRUE)
               [] prows[p] = None /\ ~Managed(p) ->
                    [enabled |-> b, removed |-> FALSE, managed |-> FALSE, json |-> None]
  IN /\ live[p] # None
     /\ Commit(p, to)
     /\ prows' = [prows EXCEPT ![p] = row]
     /\ UNCHANGED <<mrows, remembered, claims, collateral>>

(* add_model and update_model; only an update needs the entry to exist. *)
PutModel(p, e) ==
  /\ live[p] # None
  /\ Commit(p, Upserted(live[p], e))
  /\ mrows' = UpsertedRow(mrows, <<p, e.id>>, e, ~Has(live[p], e.id))
  /\ claims' = Claimed(<<p, e.id>>, e.enabled)
  /\ collateral' = IF e.enabled /\ UpstreamOf(live[p], e.id) = e.up THEN collateral
                   ELSE collateral \cup Drawn(p, e.id) \cup Shared(p, e.id)
  /\ UNCHANGED <<prows, remembered>>

SetModelEnabled(p, id, b) ==
  LET k == <<p, id>>
      rows == ToggledRow(mrows, k, b)
      restored == rows[k].json
      up == IF restored # None /\ restored.up # None THEN restored.up
            ELSE UpstreamOf(live[p], id)
      back == IF restored = None THEN live[p] ELSE WithEntry(live[p], restored)
      to == CASE Has(live[p], id) /\ b -> Cleared(WithEnabled(live[p], id, b), {id, up})
              [] Has(live[p], id) /\ ~b -> Disabled(WithEnabled(live[p], id, b), {id, up})
              [] ~Has(live[p], id) /\ b -> Cleared(back, {id, up})
              [] ~Has(live[p], id) /\ ~b -> Disabled(live[p], {id})
  IN /\ live[p] # None
     /\ Commit(p, to)
     /\ mrows' = rows
     /\ claims' = Claimed(k, b)
     /\ collateral' = IF b THEN collateral ELSE collateral \cup Drawn(p, id)
     /\ UNCHANGED <<prows, remembered>>

(* A managed provider, and a model the Web UI added to another, forget the *)
(* entry; an entry of the TOML file is suppressed.                         *)
DeleteModel(p, id) ==
  LET k == <<p, id>>
      c == live[p]
      up == UpstreamOf(c, id)
      hard == Managed(p) \/ (k \in DOMAIN mrows /\ mrows[k].uiCreated)
      to == CASE Has(c, id) /\ hard -> Removed(c, id, up)
              [] Has(c, id) /\ ~hard -> Suppressed(c, id, up)
              [] ~Has(c, id) -> Disabled(c, {id})
  IN /\ c # None
     /\ Commit(p, to)
     /\ mrows' = CASE Has(c, id) /\ hard -> WithoutRows(mrows, {k})
                    [] Has(c, id) /\ ~hard -> SoftRemovedRow(mrows, k, EntryOf(c, id))
                    [] ~Has(c, id) /\ Managed(p) -> DisabledRow(mrows, k)
                    [] ~Has(c, id) /\ ~Managed(p) -> ToggledRow(mrows, k, FALSE)
     /\ prows' = IF Managed(p) THEN [prows EXCEPT ![p] = ProviderRowOf(to, TRUE)]
                 ELSE prows
     /\ claims' = Unclaimed(k)
     /\ collateral' = collateral \cup Drawn(p, id) \cup Shared(p, id)
     /\ UNCHANGED remembered

(* The configuration write that follows the commit. *)
Publish ==
  /\ committed # None
  /\ live' = [live EXCEPT ![committed.p] = committed.to]
  /\ committed' = None
  /\ UNCHANGED <<toml, prows, mrows, remembered, history>>

----------------------------------------------------------------------------
(* What happens to the process and its files *)

Disturbed ==
  /\ disturbances < MaxDisturbances /\ mutations + disturbances < MaxEvents
  /\ disturbances' = disturbances + 1

(* The process stops, between any two steps, and starts again. *)
Restart ==
  /\ Disturbed
  /\ live' = [p \in Providers |-> Replayed(p)]
  /\ remembered' = {p \in Providers :
       prows[p] # None /\ ~prows[p].removed /\ prows[p].managed /\ prows[p].json # None}
  /\ committed' = None
  /\ UNCHANGED <<toml, prows, mrows, claims, collateral, mutations>>

(* The operator removes a provider from the TOML file, or rotates its      *)
(* credentials.                                                            *)
EditToml(p, key) ==
  /\ toml[p] # None /\ key # toml[p].key
  /\ Disturbed
  /\ toml' = [toml EXCEPT ![p] = IF key = None THEN None ELSE [@ EXCEPT !.key = key]]
  /\ UNCHANGED <<prows, mrows, live, remembered, committed, claims, collateral, mutations>>

(* "If a managed overlay row disappears while Codex Warp is still running" *)
(* (docs/configuration.md).                                                *)
LoseRow(p) ==
  /\ committed = None
  /\ prows[p] # None /\ prows[p].managed
  /\ Disturbed
  /\ prows' = [prows EXCEPT ![p] = None]
  /\ UNCHANGED <<toml, mrows, live, remembered, committed, claims, collateral, mutations>>

Next ==
  \/ \E p \in Providers :
       \/ DeleteProvider(p) \/ LoseRow(p)
       \/ \E b \in BOOLEAN : SetProviderEnabled(p, b)
       \/ \E key \in Versions \cup {None} : EditToml(p, key)
       \/ \E edit \in Edits : UpdateProvider(p, edit)
       \/ \E e \in Entries : PutModel(p, e)
       \/ \E id \in Targets : DeleteModel(p, id)
       \/ \E id \in Targets, b \in BOOLEAN : SetModelEnabled(p, id, b)
       \/ \E c \in NewProviders, preserve \in BOOLEAN : CreateProvider(p, c, preserve)
  \/ Publish
  \/ Restart

Spec == Init /\ [][Next]_vars

----------------------------------------------------------------------------
(* Properties *)

(* What the committed mutations say the configuration is, and what a start *)
(* must make of it when the TOML file has changed since: an edit of a TOML *)
(* provider never outlives it, and its credentials are those of the file.  *)
Intended(p) == IF committed # None /\ committed.p = p THEN committed.to ELSE live[p]
Expected(p) ==
  CASE Intended(p) = None \/ Managed(p) -> Intended(p)
    [] Intended(p) # None /\ ~Managed(p) /\ toml[p] = None -> None
    [] OTHER -> [Intended(p) EXCEPT !.key = toml[p].key]

(* Where the code does forget: a provider whose row was lost; a TOML       *)
(* provider that was deleted, created again under the same id and deleted, *)
(* which took its tombstone; and an id of disabled_models whose row a      *)
(* deletion took.                                                          *)
Lost(p) == prows[p] = None /\ p \in remembered
Resurrected(p) == toml[p] # None /\ prows[p] = None /\ Intended(p) = None
Forgotten(p, id) ==
  toml[p] # None /\ id \in toml[p].disabled /\ <<p, id>> \notin DOMAIN mrows

SameProvider(c, d) ==
  \/ c = None /\ d = None
  \/ /\ c # None /\ d # None
     /\ c.enabled = d.enabled /\ c.dest = d.dest /\ c.key = d.key

(* An id that is disabled on one side only because no row tells of it.     *)
Untold(p, c, d, id) ==
  /\ Forgotten(p, id) \/ <<p, id>> \in collateral
  /\ (id \in c.disabled) # (id \in d.disabled)
(* An entry of the TOML file whose tombstone a second deletion took: it    *)
(* comes back, switched off.                                               *)
Revived(p, c, d, id) ==
  /\ Has(c, id) /\ ~Has(d, id)
  /\ <<p, id>> \in DOMAIN mrows /\ ~mrows[<<p, id>>].removed /\ ~mrows[<<p, id>>].enabled
(* An id that is only an upstream id: the first entry that has it decides, *)
(* and an entry that was deleted and added again has another place.        *)
Contested(c, id) ==
  \E i, j \in DOMAIN c.catalog : i # j /\ c.catalog[i].up = id /\ c.catalog[j].up = id
SameModel(p, c, d, id) ==
  \/ ModelIsEnabled(c, id) = ModelIsEnabled(d, id)
  \/ \E x \in {id, UpstreamOf(d, id)} : Untold(p, c, d, x)
  \/ ~Has(c, id) /\ ~Has(d, id) /\ (<<p, id>> \in collateral \/ Contested(d, id))
  \/ Revived(p, c, d, id)

(* Wherever the process stops, also between a commit and its publication,  *)
(* a start brings back the same providers with the same destination and    *)
(* credentials.                                                            *)
ProvidersRestored ==
  \A p \in Providers :
    Lost(p) \/ Resurrected(p) \/ SameProvider(Replayed(p), Expected(p))

(* A provider that comes back serves the same models, in whatever order    *)
(* they were added, switched, removed and created, but for three kinds of  *)
(* ids: an id on which a mutation of another id decided, which no row      *)
(* tells (ToggleOffAsRestored is such a case), a deleted entry of the TOML *)
(* file that is deleted once more (Revived), and an upstream id of several *)
(* entries (Contested).                                                    *)
ModelsRestored ==
  \A p \in Providers :
    LET c == Replayed(p)
        d == Expected(p)
    IN \/ Lost(p) \/ c = None \/ d = None
       \/ \A id \in Ids : SameModel(p, c, d, id)

(* A start restores what the committed mutations left, of providers and of *)
(* the models they serve, with the exceptions named above.                 *)
ReplayRestores == ProvidersRestored /\ ModelsRestored

(* Switching a model off leaves every id on or off as a start from the     *)
(* rows will: "Match overlay restore: a catalog toggle-off is a Web UI     *)
(* disable" (webui.rs:2991).  An id whose state the start had changed      *)
(* already is left aside.                                                  *)
AsRestored(p, id) ==
  /\ Replayed(p) # None /\ Expected(p) # None
  /\ ModelIsEnabled(Replayed(p), id) = ModelIsEnabled(Expected(p), id)
ToggleOffAsRestored ==
  [][\A p \in Providers, id \in Ids :
       SetModelEnabled(p, id, FALSE) =>
         \A x \in Ids : AsRestored(p, x) => AsRestored(p, x)']_vars

(* The enabled rows of an id are in the order in which they were claimed,  *)
(* whatever was removed, toggled or created in front of others since: the  *)
(* order from which a start, and ModelRoutes, derive the owner of a model. *)
ClaimsInOrder ==
  \A id \in Ids :
    InOrder(mrows, EnabledRows(mrows, id)) = Kept(claims, {k \in Keys : k[2] = id})
============================================================================
