--------------------------- MODULE SessionModels ---------------------------
(***************************************************************************)
(* The cache that tells a guardian ("codex-auto-review") request which     *)
(* concrete model its session is using: SessionModelCache in               *)
(* src/src/state.rs, entered by begin_session_model_update,                *)
(* complete_session_model_update and resolve_auto_review_model.            *)
(*                                                                         *)
(* Every request of a session is one SessionModelUpdate: begun when the    *)
(* request is dispatched, completed when its stream ends well, dropped     *)
(* with its handler or its stream in every case.  The three operations run *)
(* under one write lock, so each is one step; drops happen outside the     *)
(* lock at any moment, and the cache only notices them later, because it   *)
(* holds Weak references to the token and to the order object of an        *)
(* update.                                                                 *)
(*                                                                         *)
(* Simplifications.  Session keys are those the callers let through (not   *)
(* empty, no "guardian:" prefix, within the byte limits): a request with   *)
(* another key never reaches the cache.  An order object is named by the   *)
(* request that created it, an update by its request number.  next_use is  *)
(* a u64 that wraps after 2^64 operations; here it stops at MaxUse.        *)
(***************************************************************************)
EXTENDS Naturals, FiniteSets

CONSTANTS
  Keys,              \* session keys
  Models,            \* concrete model names
  None,              \* no model resolved
  MaxSessionModels,  \* capacity of the cache and of the order registry
  MaxUse,            \* bound on next_use
  MaxHeld            \* bound on updates held at once

ASSUME ConstantsAssumption ==
  /\ IsFiniteSet(Keys)
  /\ None \notin Models
  /\ MaxSessionModels \in Nat \ {0}
  /\ MaxUse \in Nat
  /\ MaxHeld \in Nat

VARIABLES
  entries,   \* key -> [model, last_use, order]: the last success of a session
  pending,   \* key -> provisional mappings, live or dead
  orders,    \* key -> order object, held weakly
  latest,    \* order object -> its latest_successful_request
  next_use,  \* the counter behind requests and last uses
  updates,   \* the SessionModelUpdates alive in handlers and streams
  newest     \* history: key -> [request, model] of its newest success ever

cache == <<entries, pending, orders, latest, next_use>>
vars == <<entries, pending, orders, latest, next_use, updates, newest>>

Requests == 1..MaxUse
OrderIds == Requests
Entry == [model: Models, last_use: Requests, order: OrderIds]
PendingEntry == [model: Models, request: Requests]
Update == [key: Keys, model: Models, request: Requests, order: OrderIds,
           done: BOOLEAN]
Success == [request: 0..MaxUse, model: Models \cup {None}]

(* f maps some of S to T. *)
MapsSome(f, S, T) == DOMAIN f \subseteq S /\ f \in [DOMAIN f -> T]

TypeOK ==
  /\ MapsSome(entries, Keys, Entry)
  /\ pending \in [Keys -> SUBSET PendingEntry]
  /\ MapsSome(orders, Keys, OrderIds)
  /\ latest \in [OrderIds -> 0..MaxUse]
  /\ next_use \in 0..MaxUse
  /\ updates \in SUBSET Update
  /\ newest \in [Keys -> Success]

----------------------------------------------------------------------------
(* Weak references.  An order object lives while an entry or an update     *)
(* holds it; a token lives while its update does.                          *)

OrderLive(o) ==
  \/ \E k \in DOMAIN entries : entries[k].order = o
  \/ \E u \in updates : u.order = o

TokenLive(p) == \E u \in updates : u.request = p.request

LivePending(k) == {p \in pending[k] : TokenLive(p)}

LiveOrders == {k \in DOMAIN orders : OrderLive(orders[k])}

Without(f, k) == [j \in DOMAIN f \ {k} |-> f[j]]
With(f, k, v) == [j \in DOMAIN f \cup {k} |-> IF j = k THEN v ELSE f[j]]

(* The latest success get() compares pending requests with: the entry's,   *)
(* or the default 0 when the session has no entry.                         *)
LatestOf(k) == IF k \in DOMAIN entries THEN latest[entries[k].order] ELSE 0

(* Mutant: get() forgets to compare with the latest success. *)
CandidatesUncompared(k) == LivePending(k)

(* The pending requests get() may answer with, and the newest of them.     *)
Candidates(k) == {p \in LivePending(k) : p.request > LatestOf(k)}

NewestOf(ps) == CHOOSE p \in ps : \A q \in ps : q.request <= p.request

(* What get() answers for a session in this state. *)
Resolve(k) ==
  CASE Candidates(k) # {} -> NewestOf(Candidates(k)).model
    [] Candidates(k) = {} /\ k \in DOMAIN entries -> entries[k].model
    [] OTHER -> None

----------------------------------------------------------------------------
Init ==
  /\ entries = [k \in {} |-> None]
  /\ pending = [k \in Keys |-> {}]
  /\ orders = [k \in {} |-> None]
  /\ latest = [o \in OrderIds |-> 0]
  /\ next_use = 0
  /\ updates = {}
  /\ newest = [k \in Keys |-> [request |-> 0, model |-> None]]

(* get: a guardian request asks for the model of its session.  Answering   *)
(* with a pending request does not count as a use of the entry.            *)
Get(k) ==
  /\ pending' = [pending EXCEPT ![k] = LivePending(k)]
  /\ \/ /\ Candidates(k) # {}
        /\ UNCHANGED <<entries, next_use>>
     \/ /\ Candidates(k) = {}
        /\ next_use < MaxUse
        /\ next_use' = next_use + 1
        /\ entries' = IF k \in DOMAIN entries
                      THEN [entries EXCEPT ![k].last_use = next_use + 1]
                      ELSE entries
  /\ UNCHANGED <<orders, latest, updates, newest>>

(* begin_update, the part before the order is looked up: take a request    *)
(* number and prune what only dropped updates still referred to.           *)
TakeRequest ==
  /\ next_use < MaxUse
  /\ next_use' = next_use + 1

(* The order object begin_update finds for a session already known. *)
KnownOrder(k) == IF k \in DOMAIN entries THEN entries[k].order ELSE orders[k]

PushPending(k, m) ==
  [j \in Keys |-> LivePending(j) \cup
     (IF j = k THEN {[model |-> m, request |-> next_use + 1]} ELSE {})]

HoldUpdate(k, m, o) ==
  updates' = updates \cup {[key |-> k, model |-> m, request |-> next_use + 1,
                            order |-> o, done |-> FALSE]}

(* begin_update for a session with an entry or a live order. *)
BeginKnown(k, m) ==
  /\ TakeRequest
  /\ Cardinality(updates) < MaxHeld
  /\ k \in DOMAIN entries \cup LiveOrders
  /\ orders' = [j \in LiveOrders |-> orders[j]]
  /\ HoldUpdate(k, m, KnownOrder(k))
  /\ pending' = PushPending(k, m)
  /\ UNCHANGED <<entries, latest, newest>>

(* begin_update for a new session while the registry has room. *)
BeginNew(k, m) ==
  /\ TakeRequest
  /\ Cardinality(updates) < MaxHeld
  /\ k \notin DOMAIN entries \cup LiveOrders
  /\ Cardinality(LiveOrders) < MaxSessionModels
  /\ orders' = [j \in LiveOrders \cup {k} |->
                  IF j = k THEN next_use + 1 ELSE orders[j]]
  /\ latest' = [latest EXCEPT ![next_use + 1] = 0]
  /\ HoldUpdate(k, m, next_use + 1)
  /\ pending' = PushPending(k, m)
  /\ UNCHANGED <<entries, newest>>

(* begin_update for a new session with the registry full: not tracked. *)
BeginRejected(k) ==
  /\ TakeRequest
  /\ k \notin DOMAIN entries \cup LiveOrders
  /\ Cardinality(LiveOrders) >= MaxSessionModels
  /\ orders' = [j \in LiveOrders |-> orders[j]]
  /\ pending' = [j \in Keys |-> LivePending(j)]
  /\ UNCHANGED <<entries, latest, updates, newest>>

(* Mutant: the completed request stays among the pending ones. *)
SettleKeepingPending(u) ==
  /\ u \in updates
  /\ ~u.done
  /\ TakeRequest
  /\ pending' = [pending EXCEPT ![u.key] = LivePending(u.key)]
  /\ updates' = (updates \ {u}) \cup {[u EXCEPT !.done = TRUE]}

(* complete_update, the part every outcome shares. *)
Settle(u) ==
  /\ u \in updates
  /\ ~u.done
  /\ TakeRequest
  /\ pending' = [pending EXCEPT ![u.key] =
                   {p \in LivePending(u.key) : p.request # u.request}]
  /\ updates' = (updates \ {u}) \cup {[u EXCEPT !.done = TRUE]}

(* complete_update of a request a later success has overtaken. *)
CompleteOvertaken(u) ==
  /\ Settle(u)
  /\ latest[u.order] > u.request
  /\ UNCHANGED <<entries, orders, latest, newest>>

(* Mutant: eviction starts one entry too late. *)
MustEvictLate(k) ==
  /\ k \notin DOMAIN entries
  /\ Cardinality(DOMAIN entries) > MaxSessionModels

MustEvict(k) ==
  /\ k \notin DOMAIN entries
  /\ Cardinality(DOMAIN entries) = MaxSessionModels

LeastRecentlyUsed(k) ==
  /\ k \in DOMAIN entries
  /\ \A j \in DOMAIN entries : entries[k].last_use <= entries[j].last_use

(* Mutant: the latest success is compared but never stored. *)
InsertEntryUnrecorded(u, rest, registry) ==
  /\ latest[u.order] <= u.request
  /\ entries' = With(rest, u.key,
                     [model |-> u.model, last_use |-> next_use + 1,
                      order |-> u.order])
  /\ orders' = Without(registry, u.key)
  /\ newest' = [newest EXCEPT ![u.key] =
                  IF u.request > @.request
                  THEN [request |-> u.request, model |-> u.model]
                  ELSE @]
  /\ UNCHANGED latest

(* Mutant: a late stream overwrites the entry of a later request. *)
InsertEntryUnordered(u, rest, registry) ==
  /\ latest' = [latest EXCEPT ![u.order] = u.request]
  /\ entries' = With(rest, u.key,
                     [model |-> u.model, last_use |-> next_use + 1,
                      order |-> u.order])
  /\ orders' = Without(registry, u.key)
  /\ newest' = [newest EXCEPT ![u.key] =
                  IF u.request > @.request
                  THEN [request |-> u.request, model |-> u.model]
                  ELSE @]

(* What complete_update of a newest success does once there is room for    *)
(* its entry: rest is what eviction left of the entries, registry what it  *)
(* made of the orders.                                                     *)
InsertEntry(u, rest, registry) ==
  /\ latest[u.order] <= u.request
  /\ latest' = [latest EXCEPT ![u.order] = u.request]
  /\ entries' = With(rest, u.key,
                     [model |-> u.model, last_use |-> next_use + 1,
                      order |-> u.order])
  /\ orders' = Without(registry, u.key)
  /\ newest' = [newest EXCEPT ![u.key] =
                  IF u.request > @.request
                  THEN [request |-> u.request, model |-> u.model]
                  ELSE @]

CompleteInRoom(u) ==
  /\ Settle(u)
  /\ ~MustEvict(u.key)
  /\ InsertEntry(u, entries, orders)

(* Mutant: eviction drops the order of the evicted session. *)
CompleteEvictingForgetful(u, victim) ==
  /\ Settle(u)
  /\ MustEvict(u.key)
  /\ LeastRecentlyUsed(victim)
  /\ InsertEntry(u, Without(entries, victim), orders)

(* The order of an evicted session stays reachable while an update of that *)
(* session still holds it.                                                 *)
CompleteEvicting(u, victim) ==
  /\ Settle(u)
  /\ MustEvict(u.key)
  /\ LeastRecentlyUsed(victim)
  /\ InsertEntry(u, Without(entries, victim),
                 With(orders, victim, entries[victim].order))

(* The handler or stream that owned the update is gone. *)
Drop(u) ==
  /\ u \in updates
  /\ updates' = updates \ {u}
  /\ UNCHANGED <<entries, pending, orders, latest, next_use, newest>>

Next ==
  \/ \E k \in Keys : Get(k) \/ BeginRejected(k)
  \/ \E k \in Keys, m \in Models : BeginKnown(k, m) \/ BeginNew(k, m)
  \/ \E u \in updates : CompleteOvertaken(u) \/ CompleteInRoom(u) \/ Drop(u)
  \/ \E u \in updates, victim \in Keys : CompleteEvicting(u, victim)

Spec == Init /\ [][Next]_vars

----------------------------------------------------------------------------
(* Properties *)

(* Two requests of one session are always ordered against each other:      *)
(* whatever was dropped, completed or evicted in between, an update in     *)
(* flight holds the very order object the next begin_update of its session *)
(* will find (state.rs, begin_update and the weak reinsertion at eviction).*)
SharedOrder ==
  \A u \in updates :
    /\ u.key \in DOMAIN entries \cup DOMAIN orders
    /\ KnownOrder(u.key) = u.order

(* Neither map outgrows its capacity.  For orders this is not a guard:     *)
(* complete_update inserts the evicted session without looking at the      *)
(* size, and stays within it because the completing session leaves.        *)
WithinCapacity ==
  /\ Cardinality(DOMAIN entries) <= MaxSessionModels
  /\ Cardinality(DOMAIN orders) <= MaxSessionModels

(* The entry of a session is its newest success, in whatever order the     *)
(* streams finished and however often the session was evicted.             *)
EntryIsNewestSuccess ==
  \A k \in DOMAIN entries :
    /\ entries[k].model = newest[k].model
    /\ latest[entries[k].order] = newest[k].request

(* "A later request for the same session must win even when an earlier     *)
(* stream happens to finish last" (state.rs, begin_update): an answer      *)
(* never comes from a request older than a success of the same session.    *)
LaterRequestWins ==
  \A k \in Keys :
    (Candidates(k) # {} /\ newest[k].request # 0) =>
      NewestOf(Candidates(k)).request > newest[k].request

(* The strengthening that makes the properties above inductive. *)

(* Every number handed out lies behind the counter, and an order object is *)
(* no younger than the updates that hold it.                               *)
NumbersPast ==
  /\ \A u \in updates : u.request <= next_use /\ u.order <= u.request
  /\ \A k \in Keys : \A p \in pending[k] : p.request <= next_use
  /\ \A k \in Keys : newest[k].request <= next_use
  /\ \A k \in DOMAIN entries : entries[k].order <= next_use
  /\ \A k \in DOMAIN orders : orders[k] <= next_use

(* A request number names one update, and a success is never in flight. *)
RequestsDistinct ==
  /\ \A u, v \in updates : u.request = v.request => u = v
  /\ \A u \in updates : ~u.done => u.request # newest[u.key].request

(* A session is in one of the two maps, and no order object serves two     *)
(* sessions.                                                               *)
OrdersDistinct ==
  /\ DOMAIN entries \cap DOMAIN orders = {}
  /\ \A j, k \in DOMAIN entries \cup DOMAIN orders :
       KnownOrder(j) = KnownOrder(k) => j = k

(* The order object of a session without an entry either knows the newest  *)
(* success, or was created after it and has seen none.                     *)
OrderKnowsNewest ==
  \A k \in DOMAIN orders :
    \/ latest[orders[k]] = newest[k].request
    \/ latest[orders[k]] = 0 /\ newest[k].request < orders[k]

(* The pending entries whose token lives are exactly the updates in flight.*)
PendingIsInFlight ==
  /\ \A k \in Keys : \A p \in pending[k] : \A u \in updates :
       u.request = p.request => u.key = k /\ u.model = p.model /\ ~u.done
  /\ \A u \in updates : ~u.done =>
       [model |-> u.model, request |-> u.request] \in pending[u.key]

IInv ==
  /\ TypeOK
  /\ NumbersPast
  /\ RequestsDistinct
  /\ OrdersDistinct
  /\ SharedOrder
  /\ EntryIsNewestSuccess
  /\ OrderKnowsNewest
  /\ PendingIsInFlight

----------------------------------------------------------------------------
(* The abstract promise: an update in flight is what is left of a request  *)
(* and an entry is a remembered success.                                   *)
InFlightRequests ==
  {[key |-> u.key, model |-> u.model, request |-> u.request] :
     u \in {v \in updates : ~v.done}}

Promise == INSTANCE SessionPromise WITH
  clock <- next_use, inflight <- InFlightRequests, settled <- DOMAIN entries

(* The cache implements the promise. *)
KeepsPromise == Promise!PSpec

(* What get() reads out of the three maps and the weak references is what  *)
(* the promise answers.                                                    *)
AnswersAsPromised == \A k \in Keys : Resolve(k) = Promise!Answer(k)
============================================================================
