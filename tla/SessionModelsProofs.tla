------------------------ MODULE SessionModelsProofs ------------------------
(***************************************************************************)
(* Proofs about SessionModels, for every set of sessions and models and    *)
(* every capacity and bound.                                               *)
(***************************************************************************)
EXTENDS SessionModels, FiniteSetTheorems, WellFoundedInduction, TLAPS

----------------------------------------------------------------------------
(* Type correctness *)

(* Restricting and extending a partial function keeps its type. *)
LEMMA WithoutType ==
  ASSUME NEW S, NEW T, NEW f, NEW k, MapsSome(f, S, T)
  PROVE  MapsSome(Without(f, k), S, T)
BY DEF MapsSome, Without

LEMMA WithType ==
  ASSUME NEW S, NEW T, NEW f, NEW k \in S, NEW v \in T, MapsSome(f, S, T)
  PROVE  MapsSome(With(f, k, v), S, T)
BY DEF MapsSome, With

LEMMA PendingType ==
  ASSUME NEW k \in Keys, NEW m \in Models, TypeOK, TakeRequest
  PROVE  /\ [j \in Keys |-> LivePending(j)] \in [Keys -> SUBSET PendingEntry]
         /\ PushPending(k, m) \in [Keys -> SUBSET PendingEntry]
         /\ next_use + 1 \in Requests
         /\ next_use' \in 0..MaxUse
BY ConstantsAssumption
   DEF TypeOK, TakeRequest, LivePending, PushPending, PendingEntry, Requests

(* A completed update differs from what it was in nothing but done. *)
LEMMA DoneFields ==
  ASSUME NEW u \in Update
  PROVE  /\ [u EXCEPT !.done = TRUE] \in Update
         /\ [u EXCEPT !.done = TRUE].key = u.key
         /\ [u EXCEPT !.done = TRUE].model = u.model
         /\ [u EXCEPT !.done = TRUE].request = u.request
         /\ [u EXCEPT !.done = TRUE].order = u.order
         /\ [u EXCEPT !.done = TRUE].done
<1>1. [u EXCEPT !.done = TRUE] \in Update
  BY DEF Update
<1>2. QED
  BY <1>1 DEF Update

LEMMA HoldUpdateType ==
  ASSUME NEW k \in Keys, NEW m \in Models, NEW o \in OrderIds,
         next_use + 1 \in Requests, updates \in SUBSET Update,
         HoldUpdate(k, m, o)
  PROVE  updates' \in SUBSET Update
<1> DEFINE u == [key |-> k, model |-> m, request |-> next_use + 1,
                 order |-> o, done |-> FALSE]
<1>1. u \in Update
  BY DEF Update
<1>2. updates' = updates \cup {u}
  BY DEF HoldUpdate
<1> HIDE DEF u
<1>3. QED
  BY <1>1, <1>2

LEMMA TypeInit == Init => TypeOK
BY ConstantsAssumption
   DEF Init, TypeOK, MapsSome, Success, OrderIds, Requests

LEMMA TypeStep == TypeOK /\ [Next]_vars => TypeOK'
<1> SUFFICES ASSUME TypeOK, [Next]_vars PROVE TypeOK'
  OBVIOUS
<1> MaxUse \in Nat /\ 0 \in 0..MaxUse
  BY ConstantsAssumption
<1>1. ASSUME NEW k \in Keys, Get(k) PROVE TypeOK'
  <2>1. pending' \in [Keys -> SUBSET PendingEntry]
    BY <1>1 DEF Get, TypeOK, LivePending
  <2>2. next_use' \in 0..MaxUse
    BY <1>1 DEF Get, TypeOK
  <2>3. MapsSome(entries', Keys, Entry)
    <3>1. CASE entries' = entries
      BY <3>1 DEF TypeOK
    <3>2. CASE entries' # entries
      <4>1. /\ entries' = [entries EXCEPT ![k].last_use = next_use + 1]
            /\ next_use < MaxUse
        BY <1>1, <3>2 DEF Get
      <4>2. next_use + 1 \in Requests
        BY <4>1 DEF TypeOK, Requests
      <4>3. QED
        BY <4>1, <4>2 DEF TypeOK, MapsSome, Entry
    <3>3. QED BY <3>1, <3>2
  <2>4. QED
    BY <1>1, <2>1, <2>2, <2>3 DEF Get, TypeOK
<1>2. ASSUME NEW k \in Keys, BeginRejected(k) PROVE TypeOK'
  <2>1. MapsSome(orders', Keys, OrderIds)
    BY <1>2 DEF BeginRejected, TypeOK, MapsSome, LiveOrders
  <2>2. QED
    BY <1>2, <2>1
       DEF BeginRejected, TypeOK, TakeRequest, LivePending
<1>3. ASSUME NEW k \in Keys, NEW m \in Models, BeginKnown(k, m)
      PROVE  TypeOK'
  <2>1. MapsSome(orders', Keys, OrderIds)
    BY <1>3 DEF BeginKnown, TypeOK, MapsSome, LiveOrders
  <2>2. KnownOrder(k) \in OrderIds
    BY <1>3
       DEF BeginKnown, TypeOK, MapsSome, LiveOrders, KnownOrder, Entry
  <2>3. updates' \in SUBSET Update
    BY <1>3, <2>2, PendingType, HoldUpdateType DEF BeginKnown, TypeOK
  <2>4. QED
    BY <1>3, <2>1, <2>3, PendingType DEF BeginKnown, TypeOK
<1>4. ASSUME NEW k \in Keys, NEW m \in Models, BeginNew(k, m)
      PROVE  TypeOK'
  <2>1. next_use + 1 \in Requests
    BY <1>4, PendingType DEF BeginNew
  <2>2. MapsSome(orders', Keys, OrderIds)
    BY <1>4, <2>1
       DEF BeginNew, TypeOK, MapsSome, LiveOrders, OrderIds
  <2>3. updates' \in SUBSET Update
    BY <1>4, <2>1, HoldUpdateType DEF BeginNew, TypeOK, OrderIds
  <2>4. latest' \in [OrderIds -> 0..MaxUse]
    BY <1>4 DEF BeginNew, TypeOK
  <2>5. QED
    BY <1>4, <2>2, <2>3, <2>4, PendingType DEF BeginNew, TypeOK
<1>5. ASSUME NEW u \in updates, Settle(u)
      PROVE  /\ pending' \in [Keys -> SUBSET PendingEntry]
             /\ updates' \in SUBSET Update
             /\ next_use' \in 0..MaxUse
             /\ next_use + 1 \in Requests
  <2>1. u \in Update
    BY DEF TypeOK
  <2>2. [u EXCEPT !.done = TRUE] \in Update
    BY <2>1, DoneFields
  <2>3. updates' \in SUBSET Update
    BY <1>5, <2>2 DEF Settle, TypeOK
  <2>4. pending' \in [Keys -> SUBSET PendingEntry]
    BY <1>5, <2>1 DEF Settle, TypeOK, LivePending, Update
  <2>5. QED
    BY <1>5, <2>3, <2>4 DEF Settle, TakeRequest, TypeOK, Requests
<1>6. ASSUME NEW u \in updates, CompleteOvertaken(u) PROVE TypeOK'
  BY <1>5, <1>6 DEF CompleteOvertaken, TypeOK
<1>7. ASSUME NEW u \in updates, NEW rest, NEW registry,
             MapsSome(rest, Keys, Entry),
             MapsSome(registry, Keys, OrderIds),
             Settle(u), InsertEntry(u, rest, registry)
      PROVE  TypeOK'
  <2>1. /\ u.key \in Keys
        /\ u.model \in Models
        /\ u.request \in Requests
        /\ u.order \in OrderIds
    BY DEF TypeOK, Update
  <2>2. MapsSome(entries', Keys, Entry)
    BY <1>5, <1>7, <2>1, WithType DEF InsertEntry, Entry
  <2>3. MapsSome(orders', Keys, OrderIds)
    BY <1>7, WithoutType DEF InsertEntry
  <2>4. latest' \in [OrderIds -> 0..MaxUse]
    BY <1>7, <2>1 DEF InsertEntry, TypeOK, Requests
  <2>5. newest' \in [Keys -> Success]
    BY <1>7, <2>1 DEF InsertEntry, TypeOK, Success, Requests
  <2>6. QED
    BY <1>5, <1>7, <2>2, <2>3, <2>4, <2>5 DEF TypeOK
<1>8. ASSUME NEW u \in updates, CompleteInRoom(u) PROVE TypeOK'
  BY <1>7, <1>8 DEF CompleteInRoom, TypeOK
<1>9. ASSUME NEW u \in updates, NEW victim \in Keys,
             CompleteEvicting(u, victim)
      PROVE  TypeOK'
  <2>1. entries[victim].order \in OrderIds
    BY <1>9
       DEF CompleteEvicting, LeastRecentlyUsed, TypeOK, MapsSome, Entry
  <2>2. MapsSome(Without(entries, victim), Keys, Entry)
    BY WithoutType DEF TypeOK
  <2>3. MapsSome(With(orders, victim, entries[victim].order),
                 Keys, OrderIds)
    BY <2>1, WithType DEF TypeOK
  <2>4. QED
    BY <1>7, <1>9, <2>2, <2>3 DEF CompleteEvicting
<1>10. ASSUME NEW u \in updates, Drop(u) PROVE TypeOK'
  BY <1>10 DEF Drop, TypeOK
<1>11. CASE UNCHANGED vars
  BY <1>11 DEF vars, TypeOK
<1>12. QED
  BY <1>1, <1>2, <1>3, <1>4, <1>6, <1>8, <1>9, <1>10, <1>11 DEF Next

(* The whole state stays well typed (state.rs: SessionModelCache). *)
THEOREM TypeCorrect == Spec => []TypeOK
BY TypeInit, TypeStep, PTL DEF Spec

----------------------------------------------------------------------------
(* The inductive invariant *)

LEMMA IInvInit == Init => IInv
<1> SUFFICES ASSUME Init PROVE IInv
  OBVIOUS
<1>1. TypeOK
  BY TypeInit
<1>2. QED
  BY <1>1
     DEF Init, IInv, NumbersPast, RequestsDistinct, OrdersDistinct,
         SharedOrder, EntryIsNewestSuccess, OrderKnowsNewest,
         PendingIsInFlight

(* Facts about a well-typed state that the steps below need. *)
LEMMA UpdateFields ==
  ASSUME TypeOK, NEW u \in updates
  PROVE  /\ u.key \in Keys
         /\ u.model \in Models
         /\ u.request \in Nat
         /\ u.order \in OrderIds
         /\ u.order \in Nat
         /\ u.done \in BOOLEAN
BY DEF TypeOK, Update, OrderIds, Requests

LEMMA StateFields ==
  ASSUME TypeOK
  PROVE  /\ next_use \in Nat
         /\ DOMAIN entries \subseteq Keys
         /\ DOMAIN orders \subseteq Keys
         /\ \A k \in DOMAIN entries :
              /\ entries[k].order \in OrderIds
              /\ entries[k].order \in Nat
              /\ entries[k].model \in Models
         /\ \A k \in DOMAIN orders : orders[k] \in OrderIds /\ orders[k] \in Nat
         /\ \A o \in OrderIds : latest[o] \in Nat
         /\ \A k \in Keys : newest[k].request \in Nat
         /\ \A k \in Keys : \A p \in pending[k] : p.request \in Nat
BY ConstantsAssumption
   DEF TypeOK, MapsSome, Entry, OrderIds, Requests, Success, PendingEntry

(* Dropping an update loosens the invariant and breaks nothing. *)
LEMMA DropStep ==
  ASSUME IInv, NEW u \in updates, Drop(u)
  PROVE  IInv'
<1>1. TypeOK'
  BY TypeStep DEF IInv, Next
<1>2. /\ updates' = updates \ {u}
      /\ entries' = entries
      /\ pending' = pending
      /\ orders' = orders
      /\ latest' = latest
      /\ next_use' = next_use
      /\ newest' = newest
  BY DEF Drop
<1>3. NumbersPast' /\ RequestsDistinct'
  BY <1>2 DEF IInv, NumbersPast, RequestsDistinct
<1>4. OrdersDistinct' /\ SharedOrder'
  BY <1>2 DEF IInv, OrdersDistinct, SharedOrder, KnownOrder
<1>5. EntryIsNewestSuccess' /\ OrderKnowsNewest'
  BY <1>2 DEF IInv, EntryIsNewestSuccess, OrderKnowsNewest
<1>6. PendingIsInFlight'
  BY <1>2 DEF IInv, PendingIsInFlight
<1>7. QED
  BY <1>1, <1>3, <1>4, <1>5, <1>6 DEF IInv

(* A lookup prunes dead pending entries and may touch the entry it read. *)
LEMMA GetStep ==
  ASSUME IInv, NEW k \in Keys, Get(k)
  PROVE  IInv'
<1>1. TypeOK /\ TypeOK'
  BY TypeStep DEF IInv, Next
<1>2. /\ updates' = updates
      /\ orders' = orders
      /\ latest' = latest
      /\ newest' = newest
      /\ next_use <= next_use'
  BY <1>1, StateFields DEF Get
<1>3. /\ DOMAIN entries' = DOMAIN entries
      /\ \A j \in DOMAIN entries :
           /\ entries'[j].order = entries[j].order
           /\ entries'[j].model = entries[j].model
  BY <1>1 DEF Get, TypeOK, MapsSome, Entry
<1>4. /\ \A j \in Keys : pending'[j] \subseteq pending[j]
      /\ \A j \in Keys : \A p \in pending[j] : TokenLive(p) => p \in pending'[j]
  BY <1>1 DEF Get, TypeOK, LivePending
<1>5. NumbersPast'
  <2>1. next_use \in Nat /\ next_use' \in Nat
    BY <1>1, ConstantsAssumption DEF TypeOK
  <2>2. \A u \in updates : u.request \in Nat
    BY <1>1, UpdateFields
  <2>3. \A u \in updates : u.request <= next_use' /\ u.order <= u.request
    BY <1>2, <2>1, <2>2 DEF IInv, NumbersPast
  <2>4. \A j \in Keys : \A p \in pending'[j] : p.request <= next_use'
    BY <1>1, <1>2, <1>4, <2>1, StateFields DEF IInv, NumbersPast
  <2>5. \A j \in Keys : newest[j].request <= next_use'
    BY <1>1, <1>2, <2>1, StateFields DEF IInv, NumbersPast
  <2>6. \A j \in DOMAIN entries : entries[j].order <= next_use'
    BY <1>1, <1>2, <2>1, StateFields DEF IInv, NumbersPast
  <2>7. \A j \in DOMAIN orders : orders[j] <= next_use'
    BY <1>1, <1>2, <2>1, StateFields DEF IInv, NumbersPast
  <2>8. QED
    BY <1>2, <1>3, <2>3, <2>4, <2>5, <2>6, <2>7 DEF NumbersPast
<1>6. RequestsDistinct'
  BY <1>2 DEF IInv, RequestsDistinct
<1>7. OrdersDistinct' /\ SharedOrder'
  BY <1>2, <1>3 DEF IInv, OrdersDistinct, SharedOrder, KnownOrder
<1>8. EntryIsNewestSuccess' /\ OrderKnowsNewest'
  BY <1>2, <1>3 DEF IInv, EntryIsNewestSuccess, OrderKnowsNewest
<1>9. PendingIsInFlight'
  <2>1. ASSUME NEW u \in updates, ~u.done
        PROVE  [model |-> u.model, request |-> u.request] \in pending'[u.key]
    BY <1>1, <1>4, <2>1, UpdateFields DEF IInv, PendingIsInFlight, TokenLive
  <2>2. QED
    BY <1>2, <1>4, <2>1 DEF IInv, PendingIsInFlight
<1>10. QED
  BY <1>1, <1>5, <1>6, <1>7, <1>8, <1>9 DEF IInv

(* Pruning never loses the order object of a session in flight. *)
LEMMA HeldOrdersLive ==
  ASSUME SharedOrder, NEW u \in updates, u.key \notin DOMAIN entries
  PROVE  u.key \in LiveOrders
BY DEF SharedOrder, LiveOrders, OrderLive, KnownOrder

(* A request that is not tracked only prunes. *)
LEMMA RejectStep ==
  ASSUME IInv, NEW k \in Keys, BeginRejected(k)
  PROVE  IInv'
<1>1. TypeOK /\ TypeOK'
  BY TypeStep DEF IInv, Next
<1>2. /\ updates' = updates
      /\ entries' = entries
      /\ latest' = latest
      /\ newest' = newest
      /\ next_use' = next_use + 1
      /\ DOMAIN orders' = LiveOrders
      /\ LiveOrders \subseteq DOMAIN orders
      /\ \A j \in LiveOrders : orders'[j] = orders[j]
  BY DEF BeginRejected, TakeRequest, LiveOrders
<1>3. \A j \in Keys : pending'[j] = LivePending(j)
  BY DEF BeginRejected
<1>4. NumbersPast'
  BY <1>1, <1>2, <1>3, StateFields, UpdateFields
     DEF IInv, NumbersPast, LivePending
<1>5. RequestsDistinct'
  BY <1>2 DEF IInv, RequestsDistinct
<1>6. OrdersDistinct'
  BY <1>2 DEF IInv, OrdersDistinct, KnownOrder
<1>7. SharedOrder'
  <2>1. ASSUME NEW u \in updates
        PROVE  /\ u.key \in DOMAIN entries \cup LiveOrders
               /\ u.key \in DOMAIN entries => entries[u.key].order = u.order
               /\ u.key \notin DOMAIN entries => orders[u.key] = u.order
    BY HeldOrdersLive DEF IInv, SharedOrder, KnownOrder
  <2>2. QED
    BY <1>2, <2>1 DEF SharedOrder, KnownOrder
<1>8. EntryIsNewestSuccess' /\ OrderKnowsNewest'
  BY <1>2 DEF IInv, EntryIsNewestSuccess, OrderKnowsNewest
<1>9. PendingIsInFlight'
  <2>1. ASSUME NEW u \in updates, ~u.done
        PROVE  [model |-> u.model, request |-> u.request] \in pending'[u.key]
    BY <1>1, <1>3, <2>1, UpdateFields
       DEF IInv, PendingIsInFlight, TokenLive, LivePending
  <2>2. QED
    BY <1>2, <1>3, <2>1 DEF IInv, PendingIsInFlight, LivePending
<1>10. QED
  BY <1>1, <1>4, <1>5, <1>6, <1>7, <1>8, <1>9 DEF IInv

(* Beginning a tracked update, whichever order object o it finds or makes: *)
(* o is that of its session, or new, and no older than the new request.    *)
LEMMA BeginStep ==
  ASSUME IInv, NEW k \in Keys, NEW m \in Models,
         BeginKnown(k, m) \/ BeginNew(k, m)
  PROVE  IInv'
<1>1. TypeOK /\ TypeOK'
  BY TypeStep DEF IInv, Next
<1> DEFINE r == next_use + 1
<1> DEFINE o == IF BeginNew(k, m) THEN r ELSE KnownOrder(k)
<1> DEFINE new == [key |-> k, model |-> m, request |-> r,
                   order |-> o, done |-> FALSE]
<1>2. /\ next_use \in Nat
      /\ next_use' = r
      /\ r \in Nat
      /\ r > next_use
  BY <1>1, StateFields DEF BeginKnown, BeginNew, TakeRequest
<1>3. /\ entries' = entries
      /\ newest' = newest
      /\ pending' = PushPending(k, m)
  BY DEF BeginKnown, BeginNew
<1>4. ~(BeginKnown(k, m) /\ BeginNew(k, m))
  BY DEF BeginKnown, BeginNew
<1>5. updates' = updates \cup {new}
  BY <1>4 DEF BeginKnown, BeginNew, HoldUpdate
<1>6. /\ k \in DOMAIN entries => o = entries[k].order
      /\ k \notin DOMAIN entries => k \in DOMAIN orders' /\ orders'[k] = o
  BY <1>4 DEF BeginKnown, BeginNew, KnownOrder
<1>7. /\ LiveOrders \subseteq DOMAIN orders
      /\ LiveOrders \subseteq DOMAIN orders'
      /\ DOMAIN orders' \subseteq LiveOrders \cup {k}
      /\ \A j \in LiveOrders : orders'[j] = orders[j]
      /\ k \in DOMAIN orders' /\ k \notin LiveOrders =>
           /\ k \notin DOMAIN entries
           /\ o = r
           /\ latest'[r] = 0
  <2>1. LiveOrders \subseteq DOMAIN orders
    BY DEF LiveOrders
  <2>2. r \in OrderIds
    BY <1>1, <1>2 DEF TypeOK, OrderIds, Requests
  <2>3. CASE BeginKnown(k, m)
    BY <2>1, <2>3 DEF BeginKnown
  <2>4. CASE BeginNew(k, m)
    BY <1>1, <2>1, <2>2, <2>4 DEF BeginNew, TypeOK
  <2>5. QED
    BY <2>3, <2>4
<1>8. \A j \in OrderIds : j # r => latest'[j] = latest[j]
  BY <1>1 DEF BeginKnown, BeginNew, TypeOK
<1>9. o \in Nat /\ o <= r
  <2>1. CASE BeginNew(k, m)
    BY <1>2, <2>1
  <2>2. CASE ~BeginNew(k, m)
    <3>1. BeginKnown(k, m)
      BY <2>2
    <3>2. KnownOrder(k) \in Nat /\ KnownOrder(k) <= next_use
      BY <1>1, <3>1, StateFields
         DEF BeginKnown, KnownOrder, LiveOrders, IInv, NumbersPast
    <3>3. QED
      BY <1>2, <2>2, <3>2
  <2>3. QED
    BY <2>1, <2>2
<1>10. /\ new.key = k
       /\ new.model = m
       /\ new.request = r
       /\ new.order = o
       /\ ~new.done
  OBVIOUS
<1>11. \A j \in Keys : pending'[j] = LivePending(j) \cup
          (IF j = k THEN {[model |-> m, request |-> r]} ELSE {})
  BY <1>3 DEF PushPending
<1> HIDE DEF r, o, new
<1>12. NumbersPast'
  <2>1. \A u \in updates' : u.request <= r /\ u.order <= u.request
    BY <1>1, <1>2, <1>5, <1>9, <1>10, UpdateFields DEF IInv, NumbersPast
  <2>2. \A j \in Keys : \A p \in pending'[j] : p.request <= r
    BY <1>1, <1>2, <1>11, StateFields DEF IInv, NumbersPast, LivePending
  <2>3. \A j \in Keys : newest[j].request <= r
    BY <1>1, <1>2, StateFields DEF IInv, NumbersPast
  <2>4. \A j \in DOMAIN entries : entries[j].order <= r
    BY <1>1, <1>2, StateFields DEF IInv, NumbersPast
  <2>5. \A j \in DOMAIN orders' : orders'[j] <= r
    BY <1>1, <1>2, <1>6, <1>7, <1>9, StateFields DEF IInv, NumbersPast
  <2>6. QED
    BY <1>2, <1>3, <2>1, <2>2, <2>3, <2>4, <2>5 DEF NumbersPast
<1>13. RequestsDistinct'
  <2>1. \A u \in updates : u.request # r
    BY <1>1, <1>2, UpdateFields DEF IInv, NumbersPast
  <2>2. newest[k].request # r
    BY <1>1, <1>2, StateFields DEF IInv, NumbersPast
  <2>3. QED
    BY <1>3, <1>5, <1>10, <2>1, <2>2 DEF IInv, RequestsDistinct
<1>14. ASSUME NEW j \in DOMAIN entries \cup DOMAIN orders'
       PROVE  \/ /\ j \in DOMAIN entries \cup DOMAIN orders
                 /\ KnownOrder(j)' = KnownOrder(j)
                 /\ KnownOrder(j) # r
              \/ j = k /\ KnownOrder(j)' = r /\ k \notin DOMAIN entries
  BY <1>1, <1>2, <1>3, <1>6, <1>7, StateFields
     DEF IInv, NumbersPast, KnownOrder
<1>15. OrdersDistinct'
  <2>1. DOMAIN entries \cap DOMAIN orders' = {}
    BY <1>7 DEF IInv, OrdersDistinct
  <2>2. QED
    BY <1>3, <1>14, <2>1 DEF IInv, OrdersDistinct
<1>16. SharedOrder'
  <2>1. ASSUME NEW u \in updates
        PROVE  /\ u.key \in DOMAIN entries \cup LiveOrders
               /\ u.key \in DOMAIN entries => entries[u.key].order = u.order
               /\ u.key \notin DOMAIN entries => orders[u.key] = u.order
    BY HeldOrdersLive DEF IInv, SharedOrder, KnownOrder
  <2>2. QED
    BY <1>3, <1>5, <1>6, <1>7, <1>10, <2>1 DEF SharedOrder, KnownOrder
<1>17. EntryIsNewestSuccess'
  BY <1>1, <1>2, <1>3, <1>8, StateFields
     DEF IInv, EntryIsNewestSuccess, NumbersPast
<1>18. OrderKnowsNewest'
  <2>1. ASSUME NEW j \in LiveOrders
        PROVE  /\ orders'[j] = orders[j]
               /\ latest'[orders[j]] = latest[orders[j]]
    BY <1>1, <1>2, <1>7, <1>8, StateFields DEF IInv, NumbersPast
  <2>2. newest[k].request < r
    BY <1>1, <1>2, StateFields DEF IInv, NumbersPast
  <2>3. QED
    BY <1>3, <1>6, <1>7, <2>1, <2>2 DEF IInv, OrderKnowsNewest
<1>19. PendingIsInFlight'
  <2>1. ASSUME NEW j \in Keys, NEW p \in pending'[j], NEW u \in updates',
               u.request = p.request
        PROVE  u.key = j /\ u.model = p.model /\ ~u.done
    <3>1. CASE p \in LivePending(j)
      <4>1. p.request # r
        BY <1>1, <1>2, <3>1, StateFields DEF LivePending, IInv, NumbersPast
      <4>2. u \in updates
        BY <1>5, <1>10, <2>1, <4>1
      <4>3. QED
        BY <2>1, <3>1, <4>2 DEF IInv, PendingIsInFlight, LivePending
    <3>2. CASE p \notin LivePending(j)
      <4>1. j = k /\ p.model = m /\ p.request = r
        BY <1>11, <3>2
      <4>2. \A v \in updates : v.request # r
        BY <1>1, <1>2, UpdateFields DEF IInv, NumbersPast
      <4>3. QED
        BY <1>5, <1>10, <2>1, <4>1, <4>2
    <3>3. QED
      BY <3>1, <3>2
  <2>2. ASSUME NEW u \in updates', ~u.done
        PROVE  [model |-> u.model, request |-> u.request] \in pending'[u.key]
    <3>1. CASE u \in updates
      BY <1>1, <1>11, <2>2, <3>1, UpdateFields
         DEF IInv, PendingIsInFlight, TokenLive, LivePending
    <3>2. CASE u = new
      BY <1>10, <1>11, <3>2
    <3>3. QED
      BY <1>5, <3>1, <3>2
  <2>3. QED
    BY <2>1, <2>2 DEF PendingIsInFlight
<1>20. QED
  BY <1>1, <1>12, <1>13, <1>15, <1>16, <1>17, <1>18, <1>19 DEF IInv

(* What every outcome of complete_update does to the updates, the pending  *)
(* entries and the counter keeps their part of the invariant, as long as   *)
(* newest only advances to the update that is now done.                    *)
LEMMA SettleStep ==
  ASSUME IInv, NEW u \in updates, Settle(u),
         \A k \in Keys : newest'[k].request \in {newest[k].request, u.request}
  PROVE  /\ RequestsDistinct'
         /\ PendingIsInFlight'
         /\ \A v \in updates' : \E w \in updates :
              v.key = w.key /\ v.order = w.order /\ v.request = w.request
         /\ \A v \in updates' : v.request <= next_use' /\ v.order <= v.request
         /\ \A k \in Keys : \A p \in pending'[k] : p.request <= next_use'
         /\ \A k \in Keys : newest'[k].request <= next_use'
         /\ next_use' = next_use + 1
<1>1. TypeOK /\ u \in Update
  BY DEF IInv, TypeOK
<1> DEFINE d == [u EXCEPT !.done = TRUE]
<1>2. /\ d.key = u.key
      /\ d.model = u.model
      /\ d.request = u.request
      /\ d.order = u.order
      /\ d.done
  BY <1>1, DoneFields
<1>3. updates' = (updates \ {u}) \cup {d}
  BY DEF Settle
<1> HIDE DEF d
<1>4. /\ next_use \in Nat
      /\ next_use' = next_use + 1
      /\ ~u.done
  BY <1>1, StateFields DEF Settle, TakeRequest
<1>5. /\ \A k \in Keys : k # u.key => pending'[k] = pending[k]
      /\ pending'[u.key] = {p \in LivePending(u.key) : p.request # u.request}
  BY <1>1, UpdateFields DEF Settle, TypeOK
<1>6. \A v \in updates' : \E w \in updates :
        v.key = w.key /\ v.order = w.order /\ v.request = w.request
  BY <1>2, <1>3
<1>7. RequestsDistinct'
  <2>1. ASSUME NEW v \in updates', ~v.done
        PROVE  v.request # newest'[v.key].request
    <3>1. v \in updates /\ v # u
      BY <1>2, <1>3, <2>1
    <3>2. v.request # u.request
      BY <3>1 DEF IInv, RequestsDistinct
    <3>3. QED
      BY <1>1, <2>1, <3>1, <3>2, UpdateFields DEF IInv, RequestsDistinct
  <2>2. QED
    BY <1>2, <1>3, <2>1 DEF IInv, RequestsDistinct
<1>8. PendingIsInFlight'
  <2>1. \A k \in Keys : \A p \in pending'[k] :
          p \in pending[k] /\ p.request # u.request
    BY <1>1, <1>5 DEF LivePending, IInv, PendingIsInFlight
  <2>2. ASSUME NEW v \in updates', ~v.done
        PROVE  [model |-> v.model, request |-> v.request] \in pending'[v.key]
    <3>1. v \in updates /\ v # u
      BY <1>2, <1>3, <2>2
    <3>2. v.request # u.request
      BY <3>1 DEF IInv, RequestsDistinct
    <3>3. [model |-> v.model, request |-> v.request] \in LivePending(v.key)
      BY <2>2, <3>1 DEF IInv, PendingIsInFlight, LivePending, TokenLive
    <3>4. QED
      BY <1>1, <1>5, <3>1, <3>2, <3>3, UpdateFields DEF LivePending
  <2>3. QED
    BY <1>2, <1>3, <2>1, <2>2 DEF IInv, PendingIsInFlight
<1>9. \A v \in updates' : v.request <= next_use' /\ v.order <= v.request
  BY <1>1, <1>2, <1>3, <1>4, UpdateFields DEF IInv, NumbersPast
<1>10. \A k \in Keys : \A p \in pending'[k] : p.request <= next_use'
  BY <1>1, <1>4, <1>5, StateFields DEF IInv, NumbersPast, LivePending
<1>11. \A k \in Keys : newest'[k].request <= next_use'
  BY <1>1, <1>4, StateFields, UpdateFields DEF IInv, NumbersPast
<1>12. QED
  BY <1>4, <1>6, <1>7, <1>8, <1>9, <1>10, <1>11

LEMMA OvertakenStep ==
  ASSUME IInv, NEW u \in updates, CompleteOvertaken(u)
  PROVE  IInv'
<1>1. TypeOK /\ TypeOK'
  BY TypeStep DEF IInv, Next
<1>2. /\ Settle(u)
      /\ entries' = entries
      /\ orders' = orders
      /\ latest' = latest
      /\ newest' = newest
  BY DEF CompleteOvertaken
<1>3. /\ RequestsDistinct'
      /\ PendingIsInFlight'
      /\ \A v \in updates' : \E w \in updates :
           v.key = w.key /\ v.order = w.order /\ v.request = w.request
      /\ \A v \in updates' : v.request <= next_use' /\ v.order <= v.request
      /\ \A k \in Keys : \A p \in pending'[k] : p.request <= next_use'
      /\ \A k \in Keys : newest'[k].request <= next_use'
      /\ next_use' = next_use + 1
  BY <1>2, SettleStep
<1>4. NumbersPast'
  BY <1>1, <1>2, <1>3, StateFields DEF IInv, NumbersPast
<1>5. OrdersDistinct' /\ SharedOrder'
  BY <1>2, <1>3 DEF IInv, OrdersDistinct, SharedOrder, KnownOrder
<1>6. EntryIsNewestSuccess' /\ OrderKnowsNewest'
  BY <1>2 DEF IInv, EntryIsNewestSuccess, OrderKnowsNewest
<1>7. QED
  BY <1>1, <1>3, <1>4, <1>5, <1>6 DEF IInv

(* The comparison complete_update makes with the order object is the       *)
(* comparison with the newest success of the session.                      *)
LEMMA NewerThanNewest ==
  ASSUME IInv, NEW u \in updates, ~u.done
  PROVE  latest[u.order] <= u.request <=> newest[u.key].request < u.request
<1>1. TypeOK
  BY DEF IInv
<1>2. u.order <= u.request /\ u.request # newest[u.key].request
  BY DEF IInv, NumbersPast, RequestsDistinct
<1>3. CASE u.key \in DOMAIN entries
  <2>1. latest[u.order] = newest[u.key].request
    BY <1>3 DEF IInv, SharedOrder, KnownOrder, EntryIsNewestSuccess
  <2>2. QED
    BY <1>1, <1>2, <2>1, StateFields, UpdateFields
<1>4. CASE u.key \notin DOMAIN entries
  <2>1. \/ latest[u.order] = newest[u.key].request
        \/ latest[u.order] = 0 /\ newest[u.key].request < u.order
    BY <1>4 DEF IInv, SharedOrder, KnownOrder, OrderKnowsNewest
  <2>2. QED
    BY <1>1, <1>2, <2>1, StateFields, UpdateFields
<1>5. QED
  BY <1>3, <1>4

(* Storing the newest success, whether or not eviction moved another       *)
(* session from the entries to the orders.                                 *)
LEMMA InsertStep ==
  ASSUME IInv, TypeOK', NEW u \in updates, Settle(u),
         latest[u.order] <= u.request,
         latest' = [latest EXCEPT ![u.order] = u.request],
         newest' = [newest EXCEPT ![u.key] =
                      IF u.request > @.request
                      THEN [request |-> u.request, model |-> u.model]
                      ELSE @],
         u.key \in DOMAIN entries',
         DOMAIN entries' \subseteq DOMAIN entries \cup {u.key},
         entries'[u.key].order = u.order,
         entries'[u.key].model = u.model,
         \A k \in DOMAIN entries' : k # u.key => entries'[k] = entries[k],
         DOMAIN orders' =
           (DOMAIN orders \cup (DOMAIN entries \ DOMAIN entries')) \ {u.key},
         \A k \in DOMAIN orders' :
           orders'[k] = IF k \in DOMAIN entries
                        THEN entries[k].order
                        ELSE orders[k]
  PROVE  IInv'
<1> DEFINE moved == DOMAIN entries \ DOMAIN entries'
<1> DEFINE key == u.key
<1>1. TypeOK /\ key \in Keys
  BY UpdateFields DEF IInv
<1>2. ~u.done /\ latest[u.order] <= u.request
  BY DEF Settle
<1>3. newest[key].request < u.request
  BY <1>2, NewerThanNewest
<1>4. /\ newest'[key].request = u.request
      /\ newest'[key].model = u.model
      /\ \A k \in Keys : k # key => newest'[k] = newest[k]
  BY <1>1, <1>3, UpdateFields, StateFields DEF TypeOK
<1>5. /\ latest'[u.order] = u.request
      /\ \A o \in OrderIds : o # u.order => latest'[o] = latest[o]
  BY <1>1, UpdateFields DEF TypeOK
<1>6. /\ DOMAIN entries' = (DOMAIN entries \ moved) \cup {key}
      /\ entries'[key].order = u.order
      /\ entries'[key].model = u.model
      /\ \A k \in DOMAIN entries \ moved : k # key => entries'[k] = entries[k]
  OBVIOUS
<1>7. /\ DOMAIN orders' = (DOMAIN orders \cup moved) \ {key}
      /\ \A k \in DOMAIN orders' :
           orders'[k] = IF k \in moved THEN entries[k].order ELSE orders[k]
  BY DEF IInv, OrdersDistinct
<1>8. /\ key \in DOMAIN entries \cup DOMAIN orders
      /\ KnownOrder(key) = u.order
  BY DEF IInv, SharedOrder
<1>9. DOMAIN entries' \cup DOMAIN orders' = DOMAIN entries \cup DOMAIN orders
  BY <1>6, <1>7, <1>8
<1>10. DOMAIN entries \cap DOMAIN orders = {}
  BY DEF IInv, OrdersDistinct
<1>11. ASSUME NEW k \in DOMAIN entries \cup DOMAIN orders
       PROVE  KnownOrder(k)' = KnownOrder(k)
  <2>1. CASE k = key
    BY <1>6, <1>8, <2>1 DEF KnownOrder
  <2>2. CASE k # key /\ k \in moved
    BY <1>6, <1>7, <2>2 DEF KnownOrder
  <2>3. CASE k # key /\ k \notin moved
    BY <1>6, <1>7, <2>3 DEF KnownOrder
  <2>4. QED
    BY <2>1, <2>2, <2>3
<1>12. \A k \in DOMAIN entries \cup DOMAIN orders :
         k # key => KnownOrder(k) # u.order
  BY <1>8 DEF IInv, OrdersDistinct
<1>13. /\ RequestsDistinct'
       /\ PendingIsInFlight'
       /\ \A v \in updates' : \E w \in updates :
            v.key = w.key /\ v.order = w.order /\ v.request = w.request
       /\ \A v \in updates' : v.request <= next_use' /\ v.order <= v.request
       /\ \A k \in Keys : \A p \in pending'[k] : p.request <= next_use'
       /\ \A k \in Keys : newest'[k].request <= next_use'
       /\ next_use' = next_use + 1
  BY <1>4, SettleStep
<1>14. NumbersPast'
  <2>1. u.order <= next_use
    BY <1>1, UpdateFields, StateFields DEF IInv, NumbersPast
  <2>2. \A k \in DOMAIN entries' : entries'[k].order <= next_use'
    BY <1>1, <1>6, <1>13, <2>1, UpdateFields, StateFields DEF IInv, NumbersPast
  <2>3. \A k \in DOMAIN orders' : orders'[k] <= next_use'
    BY <1>1, <1>7, <1>13, StateFields DEF IInv, NumbersPast
  <2>4. QED
    BY <1>13, <2>2, <2>3 DEF NumbersPast
<1>15. OrdersDistinct'
  <2>1. DOMAIN entries' \cap DOMAIN orders' = {}
    BY <1>6, <1>7, <1>10
  <2>2. QED
    BY <1>9, <1>11, <2>1 DEF IInv, OrdersDistinct
<1>16. SharedOrder'
  BY <1>9, <1>11, <1>13 DEF IInv, SharedOrder
<1>17. EntryIsNewestSuccess'
  <2>1. ASSUME NEW k \in DOMAIN entries', k # key
        PROVE  /\ entries'[k].model = newest'[k].model
               /\ latest'[entries'[k].order] = newest'[k].request
    <3>1. k \in DOMAIN entries /\ k \in Keys /\ entries'[k] = entries[k]
      BY <1>1, <1>6, <2>1, StateFields
    <3>2. entries[k].order # u.order
      BY <1>12, <2>1, <3>1 DEF KnownOrder
    <3>3. QED
      BY <1>1, <1>4, <1>5, <2>1, <3>1, <3>2, StateFields
         DEF IInv, EntryIsNewestSuccess
  <2>2. QED
    BY <1>4, <1>5, <1>6, <2>1 DEF EntryIsNewestSuccess
<1>18. OrderKnowsNewest'
  <2>1. SUFFICES ASSUME NEW k \in DOMAIN orders'
                 PROVE  \/ latest'[orders'[k]] = newest'[k].request
                        \/ /\ latest'[orders'[k]] = 0
                           /\ newest'[k].request < orders'[k]
    BY DEF OrderKnowsNewest
  <2>2. k # key /\ k \in Keys /\ newest'[k] = newest[k]
    BY <1>1, <1>4, <1>7, StateFields
  <2>3. CASE k \in moved
    <3>1. orders'[k] = entries[k].order /\ entries[k].order # u.order
      BY <1>7, <1>12, <2>2, <2>3 DEF KnownOrder
    <3>2. QED
      BY <1>1, <1>5, <2>2, <2>3, <3>1, StateFields
         DEF IInv, EntryIsNewestSuccess
  <2>4. CASE k \notin moved
    <3>1. k \in DOMAIN orders /\ orders'[k] = orders[k] /\ orders[k] # u.order
      BY <1>7, <1>10, <1>12, <2>2, <2>4 DEF KnownOrder
    <3>2. QED
      BY <1>1, <1>5, <2>2, <3>1, StateFields DEF IInv, OrderKnowsNewest
  <2>5. QED
    BY <2>3, <2>4
<1>19. QED
  BY <1>13, <1>14, <1>15, <1>16, <1>17, <1>18 DEF IInv

LEMMA InRoomStep ==
  ASSUME IInv, NEW u \in updates, CompleteInRoom(u)
  PROVE  IInv'
<1>1. TypeOK'
  BY TypeStep DEF IInv, Next
<1>2. Settle(u) /\ InsertEntry(u, entries, orders)
  BY DEF CompleteInRoom
<1>3. /\ DOMAIN entries' = DOMAIN entries \cup {u.key}
      /\ entries'[u.key].order = u.order
      /\ entries'[u.key].model = u.model
      /\ \A k \in DOMAIN entries' : k # u.key => entries'[k] = entries[k]
      /\ DOMAIN orders' = DOMAIN orders \ {u.key}
      /\ \A k \in DOMAIN orders' : orders'[k] = orders[k]
  BY <1>2 DEF InsertEntry, With, Without
<1>4. \A k \in DOMAIN orders' : k \notin DOMAIN entries
  BY <1>3 DEF IInv, OrdersDistinct
<1>5. DOMAIN entries \ DOMAIN entries' = {}
  BY <1>3
<1>6. QED
  BY <1>1, <1>2, <1>3, <1>4, <1>5, InsertStep DEF InsertEntry

LEMMA EvictingStep ==
  ASSUME IInv, NEW u \in updates, NEW victim \in Keys,
         CompleteEvicting(u, victim)
  PROVE  IInv'
<1>1. TypeOK'
  BY TypeStep DEF IInv, Next
<1>2. /\ victim \in DOMAIN entries
      /\ u.key \notin DOMAIN entries
      /\ Settle(u)
      /\ InsertEntry(u, Without(entries, victim),
                     With(orders, victim, entries[victim].order))
  BY DEF CompleteEvicting, LeastRecentlyUsed, MustEvict
<1>3. /\ DOMAIN entries' = (DOMAIN entries \ {victim}) \cup {u.key}
      /\ entries'[u.key].order = u.order
      /\ entries'[u.key].model = u.model
      /\ \A k \in DOMAIN entries' : k # u.key => entries'[k] = entries[k]
      /\ DOMAIN orders' = (DOMAIN orders \cup {victim}) \ {u.key}
      /\ \A k \in DOMAIN orders' :
           orders'[k] = IF k = victim THEN entries[k].order ELSE orders[k]
  BY <1>2 DEF InsertEntry, With, Without
<1>4. \A k \in DOMAIN orders' : k \in DOMAIN entries <=> k = victim
  BY <1>2, <1>3 DEF IInv, OrdersDistinct
<1>5. DOMAIN entries \ DOMAIN entries' = {victim}
  BY <1>2, <1>3
<1>6. QED
  BY <1>1, <1>2, <1>3, <1>4, <1>5, InsertStep DEF InsertEntry

LEMMA IInvStep == IInv /\ [Next]_vars => IInv'
<1> SUFFICES ASSUME IInv, [Next]_vars PROVE IInv'
  OBVIOUS
<1>1. CASE UNCHANGED vars
  BY <1>1
     DEF vars, IInv, TypeOK, NumbersPast, RequestsDistinct, OrdersDistinct,
         SharedOrder, EntryIsNewestSuccess, OrderKnowsNewest,
         PendingIsInFlight, KnownOrder
<1>2. CASE Next
  BY <1>2, GetStep, RejectStep, BeginStep, OvertakenStep, InRoomStep,
     EvictingStep, DropStep
     DEF Next
<1>3. QED
  BY <1>1, <1>2

LEMMA Invariance == Spec => []IInv
BY IInvInit, IInvStep, PTL DEF Spec

(* Requests of one session are always ordered against each other by one    *)
(* shared order object (state.rs: begin_update, complete_update).          *)
THEOREM SharedOrderHolds == Spec => []SharedOrder
<1>1. IInv => SharedOrder
  BY DEF IInv
<1>2. QED
  BY <1>1, Invariance, PTL

(* The entry of a session is its newest success, however streams finish    *)
(* and sessions are evicted (state.rs: complete_update).                   *)
THEOREM EntryIsNewestSuccessHolds == Spec => []EntryIsNewestSuccess
<1>1. IInv => EntryIsNewestSuccess
  BY DEF IInv
<1>2. QED
  BY <1>1, Invariance, PTL

----------------------------------------------------------------------------
(* Capacity *)

LEMMA CapacityStep == IInv /\ WithinCapacity /\ [Next]_vars => WithinCapacity'
<1> SUFFICES ASSUME IInv, WithinCapacity, [Next]_vars PROVE WithinCapacity'
  OBVIOUS
<1> DEFINE E == DOMAIN entries
<1> DEFINE R == DOMAIN orders
<1>1. /\ IsFiniteSet(E)
      /\ IsFiniteSet(R)
      /\ IsFiniteSet(LiveOrders)
      /\ Cardinality(E) \in Nat
      /\ Cardinality(R) \in Nat
      /\ Cardinality(LiveOrders) \in Nat
      /\ Cardinality(LiveOrders) <= Cardinality(R)
  <2>1. E \in SUBSET Keys /\ R \in SUBSET Keys
    BY StateFields DEF IInv
  <2>2. IsFiniteSet(E) /\ IsFiniteSet(R)
    BY <2>1, ConstantsAssumption, FS_Subset
  <2>3. LiveOrders \in SUBSET R
    BY DEF LiveOrders
  <2>4. IsFiniteSet(LiveOrders) /\ Cardinality(LiveOrders) <= Cardinality(R)
    BY <2>2, <2>3, FS_Subset
  <2>5. QED
    BY <2>2, <2>4, FS_CardinalityType
<1>2. MaxSessionModels \in Nat
  BY ConstantsAssumption
<1>3. CASE E' = E /\ R' = R
  BY <1>3 DEF WithinCapacity
<1>4. ASSUME NEW k \in Keys, Get(k) PROVE WithinCapacity'
  <2>1. E' = E /\ R' = R
    BY <1>4 DEF Get, IInv, TypeOK, MapsSome
  <2>2. QED
    BY <1>3, <2>1
<1>5. CASE E' = E /\ R' = LiveOrders
  BY <1>1, <1>2, <1>5 DEF WithinCapacity
<1>6. ASSUME NEW k \in Keys, BeginRejected(k) PROVE WithinCapacity'
  BY <1>5, <1>6 DEF BeginRejected
<1>7. ASSUME NEW k \in Keys, NEW m \in Models, BeginKnown(k, m)
      PROVE  WithinCapacity'
  BY <1>5, <1>7 DEF BeginKnown
<1>8. ASSUME NEW k \in Keys, NEW m \in Models, BeginNew(k, m)
      PROVE  WithinCapacity'
  <2>1. E' = E /\ R' = LiveOrders \cup {k}
    BY <1>8 DEF BeginNew
  <2>2. Cardinality(LiveOrders) < MaxSessionModels
    BY <1>8 DEF BeginNew
  <2>3. Cardinality(LiveOrders \cup {k}) \in
          {Cardinality(LiveOrders), Cardinality(LiveOrders) + 1}
    BY <1>1, FS_AddElement
  <2>4. QED
    BY <1>1, <1>2, <2>1, <2>2, <2>3 DEF WithinCapacity
<1>9. ASSUME NEW u \in updates, CompleteOvertaken(u) PROVE WithinCapacity'
  BY <1>3, <1>9 DEF CompleteOvertaken
<1>10. ASSUME NEW u \in updates, CompleteInRoom(u) PROVE WithinCapacity'
  <2>1. E' = E \cup {u.key} /\ R' = R \ {u.key}
    BY <1>10 DEF CompleteInRoom, InsertEntry, With, Without
  <2>2. Cardinality(E \cup {u.key}) <= MaxSessionModels
    <3>1. u.key \notin E => Cardinality(E) # MaxSessionModels
      BY <1>10 DEF CompleteInRoom, MustEvict
    <3>2. Cardinality(E \cup {u.key}) =
            IF u.key \in E THEN Cardinality(E) ELSE Cardinality(E) + 1
      BY <1>1, FS_AddElement
    <3>3. Cardinality(E) <= MaxSessionModels
      BY DEF WithinCapacity
    <3>4. QED
      BY <1>1, <1>2, <3>1, <3>2, <3>3
  <2>3. Cardinality(R \ {u.key}) <= MaxSessionModels
    <3>1. Cardinality(R \ {u.key}) \in {Cardinality(R), Cardinality(R) - 1}
      BY <1>1, FS_RemoveElement
    <3>2. Cardinality(R) <= MaxSessionModels
      BY DEF WithinCapacity
    <3>3. QED
      BY <1>1, <1>2, <3>1, <3>2
  <2>4. QED
    BY <2>1, <2>2, <2>3 DEF WithinCapacity
<1>11. ASSUME NEW u \in updates, NEW victim \in Keys,
              CompleteEvicting(u, victim)
       PROVE  WithinCapacity'
  <2>1. /\ E' = (E \ {victim}) \cup {u.key}
        /\ R' = (R \cup {victim}) \ {u.key}
    BY <1>11 DEF CompleteEvicting, InsertEntry, With, Without
  <2>2. victim \in E /\ u.key \notin E
    BY <1>11 DEF CompleteEvicting, LeastRecentlyUsed, MustEvict
  <2>3. u.key \in R /\ victim \notin R
    BY <2>2 DEF IInv, SharedOrder, OrdersDistinct
  <2>4. /\ IsFiniteSet(E \ {victim})
        /\ Cardinality(E \ {victim}) = Cardinality(E) - 1
    BY <1>1, <2>2, FS_RemoveElement
  <2>5. Cardinality(E') = Cardinality(E)
    <3>1. Cardinality((E \ {victim}) \cup {u.key}) = Cardinality(E \ {victim}) + 1
      BY <2>2, <2>4, FS_AddElement
    <3>2. QED
      BY <1>1, <2>1, <2>4, <3>1
  <2>6. /\ IsFiniteSet(R \cup {victim})
        /\ Cardinality(R \cup {victim}) = Cardinality(R) + 1
    BY <1>1, <2>3, FS_AddElement
  <2>7. u.key \in R \cup {victim}
    BY <2>3
  <2>8. Cardinality(R') = Cardinality(R)
    <3>1. Cardinality((R \cup {victim}) \ {u.key}) =
            Cardinality(R \cup {victim}) - 1
      BY <2>6, <2>7, FS_RemoveElement
    <3>2. QED
      BY <1>1, <2>1, <2>6, <3>1
  <2>9. QED
    BY <2>5, <2>8 DEF WithinCapacity
<1>12. ASSUME NEW u \in updates, Drop(u) PROVE WithinCapacity'
  BY <1>3, <1>12 DEF Drop
<1>13. CASE UNCHANGED vars
  BY <1>3, <1>13 DEF vars
<1>14. QED
  BY <1>4, <1>6, <1>7, <1>8, <1>9, <1>10, <1>11, <1>12, <1>13 DEF Next

(* Neither the entries nor the order registry outgrows its capacity        *)
(* (state.rs: MAX_SESSION_MODELS), although complete_update puts the       *)
(* evicted session into the registry without looking at its size.          *)
THEOREM WithinCapacityHolds == Spec => []WithinCapacity
<1>1. Init => WithinCapacity
  <2>1. ASSUME Init PROVE DOMAIN entries = {} /\ DOMAIN orders = {}
    BY <2>1 DEF Init
  <2>2. QED
    BY <2>1, FS_EmptySet, ConstantsAssumption DEF WithinCapacity
<1>2. QED
  BY <1>1, Invariance, CapacityStep, PTL DEF Spec

----------------------------------------------------------------------------
(* Refinement *)

LEMMA PromiseInit == Init => Promise!PInit
BY DEF Init, Promise!PInit, InFlightRequests

LEMMA PromiseStep == IInv /\ [Next]_vars => [Promise!PNext]_(Promise!pvars)
<1> SUFFICES ASSUME IInv, [Next]_vars
             PROVE  Promise!PNext \/ UNCHANGED Promise!pvars
  BY DEF Promise!pvars
<1> DEFINE Req(u) == [key |-> u.key, model |-> u.model, request |-> u.request]
<1>1. /\ TypeOK
      /\ \A u \in updates : u \in Update
  BY DEF IInv, TypeOK
<1>2. \A u \in updates : ~u.done => Req(u) \in InFlightRequests
  BY DEF InFlightRequests
<1>3. CASE UNCHANGED vars
  BY <1>3 DEF vars, Promise!pvars, InFlightRequests
<1>4. ASSUME TakeRequest, UNCHANGED <<updates, newest>>,
             DOMAIN entries' = DOMAIN entries
      PROVE  Promise!PNext
  BY <1>4 DEF TakeRequest, InFlightRequests, Promise!PNext, Promise!Consult,
              Promise!Tick
<1>5. ASSUME NEW k \in Keys, Get(k)
      PROVE  Promise!PNext \/ UNCHANGED Promise!pvars
  <2>1. DOMAIN entries' = DOMAIN entries
    BY <1>1, <1>5 DEF Get, TypeOK, MapsSome
  <2>2. UNCHANGED <<updates, newest>>
    BY <1>5 DEF Get
  <2>3. CASE Candidates(k) = {}
    BY <1>4, <1>5, <2>1, <2>2, <2>3 DEF Get, TakeRequest
  <2>4. CASE Candidates(k) # {}
    BY <1>5, <2>1, <2>2, <2>4 DEF Get, Promise!pvars, InFlightRequests
  <2>5. QED
    BY <2>3, <2>4
<1>6. ASSUME NEW k \in Keys, BeginRejected(k) PROVE Promise!PNext
  BY <1>4, <1>6 DEF BeginRejected
<1>7. ASSUME NEW k \in Keys, NEW m \in Models, NEW o,
             TakeRequest, HoldUpdate(k, m, o), UNCHANGED <<entries, newest>>
      PROVE  Promise!PNext
  <2> DEFINE new == [key |-> k, model |-> m, request |-> next_use + 1,
                     order |-> o, done |-> FALSE]
  <2>1. /\ ~new.done
        /\ Req(new) = [key |-> k, model |-> m, request |-> next_use + 1]
    OBVIOUS
  <2>2. updates' = updates \cup {new}
    BY <1>7 DEF HoldUpdate
  <2> HIDE DEF new
  <2>3. InFlightRequests' = InFlightRequests \cup {Req(new)}
    BY <2>1, <2>2 DEF InFlightRequests
  <2>4. Promise!Dispatch(k, m)
    BY <1>7, <2>1, <2>3 DEF Promise!Dispatch, Promise!Tick, TakeRequest
  <2>5. QED
    BY <2>4 DEF Promise!PNext
<1>8. ASSUME NEW k \in Keys, NEW m \in Models,
             BeginKnown(k, m) \/ BeginNew(k, m)
      PROVE  Promise!PNext
  <2>1. CASE BeginKnown(k, m)
    BY <1>7, <2>1 DEF BeginKnown
  <2>2. CASE BeginNew(k, m)
    BY <1>7, <2>2 DEF BeginNew
  <2>3. QED
    BY <1>8, <2>1, <2>2
<1>9. ASSUME NEW u \in updates, ~u.done,
             \A v \in updates' : v.done \/ (v \in updates /\ v # u),
             updates \ {u} \subseteq updates'
      PROVE  InFlightRequests' = InFlightRequests \ {Req(u)}
  <2>1. \A v \in updates : v # u => Req(v) # Req(u)
    <3>1. \A v \in updates : v # u => v.request # u.request
      BY DEF IInv, RequestsDistinct
    <3>2. QED
      BY <3>1
  <2> HIDE DEF Req
  <2>2. ASSUME NEW x
        PROVE  x \in InFlightRequests' <=> x \in InFlightRequests \ {Req(u)}
    <3>1. x \in InFlightRequests <=> \E v \in updates : ~v.done /\ x = Req(v)
      BY DEF InFlightRequests, Req
    <3>2. x \in InFlightRequests' <=> \E v \in updates' : ~v.done /\ x = Req(v)
      BY DEF InFlightRequests, Req
    <3>3. QED
      BY <1>9, <2>1, <3>1, <3>2
  <2>3. QED
    BY <2>2
<1>10. ASSUME NEW u \in updates, Settle(u)
       PROVE  /\ InFlightRequests' = InFlightRequests \ {Req(u)}
              /\ Req(u) \in InFlightRequests
              /\ Promise!Tick
  <2>1. ~u.done /\ updates' = (updates \ {u}) \cup {[u EXCEPT !.done = TRUE]}
    BY <1>10 DEF Settle
  <2>2. [u EXCEPT !.done = TRUE].done
    BY <1>1, DoneFields
  <2>3. InFlightRequests' = InFlightRequests \ {Req(u)}
    <3>1. \A v \in updates' : v.done \/ (v \in updates /\ v # u)
      BY <2>1, <2>2
    <3>2. updates \ {u} \subseteq updates'
      BY <2>1
    <3>3. QED
      BY <1>9, <2>1, <3>1, <3>2
  <2>4. Promise!Tick
    BY <1>10 DEF Settle, TakeRequest, Promise!Tick
  <2>5. QED
    BY <1>2, <2>1, <2>3, <2>4
<1>11. ASSUME NEW u \in updates, CompleteOvertaken(u) PROVE Promise!PNext
  <2>1. /\ Settle(u)
        /\ ~u.done
        /\ latest[u.order] > u.request
        /\ UNCHANGED <<entries, newest>>
    BY <1>11 DEF CompleteOvertaken, Settle
  <2>2. u.request < newest[u.key].request
    <3>1. ~(newest[u.key].request < u.request)
      BY <1>1, <2>1, NewerThanNewest, UpdateFields, StateFields
    <3>2. newest[u.key].request # u.request
      BY <2>1 DEF IInv, RequestsDistinct
    <3>3. QED
      BY <1>1, <3>1, <3>2, UpdateFields, StateFields
  <2>3. Promise!SucceedLate(Req(u))
    BY <1>10, <2>1, <2>2 DEF Promise!SucceedLate
  <2>4. QED
    BY <1>10, <2>1, <2>3 DEF Promise!PNext
<1>12. ASSUME NEW u \in updates, Settle(u), latest[u.order] <= u.request,
              newest' = [newest EXCEPT ![u.key] =
                           IF u.request > @.request
                           THEN [request |-> u.request, model |-> u.model]
                           ELSE @],
              \E f \in SUBSET (DOMAIN entries \ {u.key}) :
                /\ \A j, k \in f : j = k
                /\ DOMAIN entries' = (DOMAIN entries \ f) \cup {u.key}
       PROVE  Promise!PNext
  <2>1. newest[u.key].request < u.request
    BY <1>12, NewerThanNewest DEF Settle
  <2>2. newest' = [newest EXCEPT ![u.key] =
                     [request |-> u.request, model |-> u.model]]
    BY <1>1, <1>12, <2>1, UpdateFields, StateFields
  <2>4. u.request > newest[u.key].request
    BY <1>1, <2>1, UpdateFields, StateFields
  <2>5. /\ Req(u).key = u.key
        /\ Req(u).model = u.model
        /\ Req(u).request = u.request
    OBVIOUS
  <2>6. Promise!Succeed(Req(u))
    BY <1>10, <1>12, <2>2, <2>4, <2>5 DEF Promise!Succeed
  <2>7. QED
    BY <1>10, <1>12, <2>6 DEF Promise!PNext
<1>13. ASSUME NEW u \in updates, CompleteInRoom(u) PROVE Promise!PNext
  <2>1. DOMAIN entries' = (DOMAIN entries \ {}) \cup {u.key}
    BY <1>13 DEF CompleteInRoom, InsertEntry, With
  <2>2. \E f \in SUBSET (DOMAIN entries \ {u.key}) :
          /\ \A j, k \in f : j = k
          /\ DOMAIN entries' = (DOMAIN entries \ f) \cup {u.key}
    BY <2>1
  <2>3. QED
    BY <1>12, <1>13, <2>2 DEF CompleteInRoom, InsertEntry
<1>14. ASSUME NEW u \in updates, NEW victim \in Keys,
              CompleteEvicting(u, victim)
       PROVE  Promise!PNext
  <2>1. DOMAIN entries' = (DOMAIN entries \ {victim}) \cup {u.key}
    BY <1>14 DEF CompleteEvicting, InsertEntry, With, Without
  <2>2. {victim} \in SUBSET (DOMAIN entries \ {u.key})
    BY <1>14 DEF CompleteEvicting, LeastRecentlyUsed, MustEvict
  <2>3. \E f \in SUBSET (DOMAIN entries \ {u.key}) :
          /\ \A j, k \in f : j = k
          /\ DOMAIN entries' = (DOMAIN entries \ f) \cup {u.key}
    BY <2>1, <2>2
  <2>4. QED
    BY <1>12, <1>14, <2>3 DEF CompleteEvicting, InsertEntry
<1>15. ASSUME NEW u \in updates, Drop(u)
       PROVE  Promise!PNext \/ UNCHANGED Promise!pvars
  <2>1. UNCHANGED <<next_use, entries, newest>>
    BY <1>15 DEF Drop
  <2>2. CASE u.done
    <3>1. InFlightRequests' = InFlightRequests
      BY <1>15, <2>2 DEF Drop, InFlightRequests
    <3>2. QED
      BY <2>1, <3>1 DEF Promise!pvars
  <2>3. CASE ~u.done
    <3>1. updates' = updates \ {u}
      BY <1>15 DEF Drop
    <3>2. InFlightRequests' = InFlightRequests \ {Req(u)}
      BY <1>9, <2>3, <3>1
    <3>3. Promise!Abandon(Req(u))
      BY <2>1, <3>2 DEF Promise!Abandon
    <3>4. QED
      BY <1>2, <2>3, <3>3 DEF Promise!PNext
  <2>4. QED
    BY <2>2, <2>3 DEF IInv, TypeOK, Update
<1>16. QED
  BY <1>3, <1>5, <1>6, <1>8, <1>11, <1>13, <1>14, <1>15 DEF Next

(* The cache implements the promise of SessionPromise (state.rs: what      *)
(* begin_update, complete_update and get are documented to do together).   *)
THEOREM KeepsPromiseHolds == Spec => KeepsPromise
BY PromiseInit, PromiseStep, Invariance, PTL
   DEF Spec, KeepsPromise, Promise!PSpec

----------------------------------------------------------------------------
(* Answers *)

(* Among numbers up to a bound there is a greatest one. *)
LEMMA GreatestExists ==
  ASSUME NEW n \in Nat, NEW S \in SUBSET (1..n), S # {}
  PROVE  \E r \in S : \A q \in S : q <= r
<1> DEFINE T == {n - r : r \in S}
<1>1. T \subseteq Nat /\ T # {}
  <2>1. \A r \in S : n - r \in Nat
    OBVIOUS
  <2>2. QED
    BY <2>1
<1>2. PICK t \in T : \A y \in T : ~(<<y, t>> \in OpToRel(<, Nat))
  BY <1>1, WFMin, NatLessThanWellFounded
<1>3. PICK r \in S : t = n - r
  BY <1>2
<1>4. ASSUME NEW q \in S PROVE q <= r
  <2>1. n - q \in T /\ n - q \in Nat /\ n - r \in Nat
    OBVIOUS
  <2>2. ~(n - q < n - r)
    BY <1>2, <1>3, <2>1 DEF OpToRel
  <2>3. QED
    BY <2>2
<1>5. QED
  BY <1>4

(* The pending mappings whose token lives are the requests in flight of    *)
(* their session, each with the model of its request.                      *)
LEMMA PendingMatchesFlight ==
  ASSUME IInv, NEW k \in Keys
  PROVE  /\ \A p \in LivePending(k) :
              /\ p \in PendingEntry
              /\ [key |-> k, model |-> p.model, request |-> p.request]
                   \in InFlightRequests
         /\ \A r \in InFlightRequests : r.key = k =>
              [model |-> r.model, request |-> r.request] \in LivePending(k)
         /\ \A q, r \in InFlightRequests : q.request = r.request => q = r
         /\ \A r \in InFlightRequests :
              r = [key |-> r.key, model |-> r.model, request |-> r.request]
<1>1. TypeOK
  BY DEF IInv
<1>2. ASSUME NEW p \in LivePending(k)
      PROVE  /\ p \in PendingEntry
             /\ [key |-> k, model |-> p.model, request |-> p.request]
                  \in InFlightRequests
  <2>1. p \in pending[k] /\ p \in PendingEntry
    BY <1>1 DEF LivePending, TypeOK
  <2>2. PICK u \in updates : u.request = p.request
    BY DEF LivePending, TokenLive
  <2>3. u.key = k /\ u.model = p.model /\ ~u.done
    BY <2>1, <2>2 DEF IInv, PendingIsInFlight
  <2>4. QED
    BY <2>1, <2>2, <2>3 DEF InFlightRequests
<1>3. ASSUME NEW r \in InFlightRequests
      PROVE  \E u \in updates : /\ ~u.done
                                /\ r = [key |-> u.key, model |-> u.model,
                                        request |-> u.request]
  BY DEF InFlightRequests
<1>4. ASSUME NEW r \in InFlightRequests, r.key = k
      PROVE  [model |-> r.model, request |-> r.request] \in LivePending(k)
  <2>1. PICK u \in updates : /\ ~u.done
                             /\ r = [key |-> u.key, model |-> u.model,
                                     request |-> u.request]
    BY <1>3
  <2>2. [model |-> u.model, request |-> u.request] \in pending[k]
    BY <1>4, <2>1 DEF IInv, PendingIsInFlight
  <2>3. QED
    BY <2>1, <2>2 DEF LivePending, TokenLive
<1>5. ASSUME NEW q \in InFlightRequests, NEW r \in InFlightRequests,
             q.request = r.request
      PROVE  q = r
  BY <1>3, <1>5 DEF IInv, RequestsDistinct
<1>6. \A r \in InFlightRequests :
        r = [key |-> r.key, model |-> r.model, request |-> r.request]
  BY <1>3
<1>7. QED
  BY <1>2, <1>4, <1>5, <1>6

(* The success get() compares with is the newest of its session while that *)
(* is remembered, and no bound otherwise.                                  *)
LEMMA ComparesWithNewest ==
  ASSUME IInv, NEW k \in Keys, NEW r \in Requests
  PROVE  r > LatestOf(k) <=>
           (k \in DOMAIN entries => r > newest[k].request)
BY DEF IInv, EntryIsNewestSuccess, LatestOf, Requests

LEMMA AnswersStep == IInv => AnswersAsPromised
<1> SUFFICES ASSUME IInv, NEW k \in Keys
             PROVE  Resolve(k) = Promise!Answer(k)
  BY DEF AnswersAsPromised
<1> DEFINE flying == {p \in InFlightRequests : p.key = k}
<1> DEFINE newer == {p \in flying :
                       k \in DOMAIN entries => p.request > newest[k].request}
<1> DEFINE top == CHOOSE p \in newer : \A q \in newer : q.request <= p.request
<1> DEFINE C == Candidates(k)
<1> DEFINE Seen(p) == [key |-> k, model |-> p.model, request |-> p.request]
<1>1. Promise!Answer(k) =
        CASE newer # {} -> top.model
          [] newer = {} /\ k \in DOMAIN entries -> newest[k].model
          [] OTHER -> None
  BY DEF Promise!Answer
<1>2. /\ \A p \in LivePending(k) :
           /\ p.request \in Requests
           /\ Seen(p) \in InFlightRequests
           /\ p = [model |-> p.model, request |-> p.request]
      /\ \A r \in InFlightRequests : r.key = k =>
           /\ [model |-> r.model, request |-> r.request] \in LivePending(k)
           /\ r.request \in Requests
  BY PendingMatchesFlight DEF PendingEntry
<1>3. \A p \in C : Seen(p) \in newer /\ p.request \in Requests
  <2> SUFFICES ASSUME NEW p \in C
               PROVE  Seen(p) \in newer /\ p.request \in Requests
    OBVIOUS
  <2>1. p \in LivePending(k) /\ p.request > LatestOf(k)
    BY DEF Candidates
  <2>2. p.request \in Requests /\ Seen(p) \in InFlightRequests
    BY <1>2, <2>1
  <2>3. k \in DOMAIN entries => p.request > newest[k].request
    BY <2>1, <2>2, ComparesWithNewest
  <2>4. QED
    BY <2>2, <2>3
<1>4. \A r \in newer : /\ [model |-> r.model, request |-> r.request] \in C
                       /\ r.request \in Requests
  <2> SUFFICES ASSUME NEW r \in newer
               PROVE  /\ [model |-> r.model, request |-> r.request] \in C
                      /\ r.request \in Requests
    OBVIOUS
  <2>1. /\ [model |-> r.model, request |-> r.request] \in LivePending(k)
        /\ r.request \in Requests
    BY <1>2
  <2>2. r.request > LatestOf(k)
    BY <2>1, ComparesWithNewest
  <2>3. QED
    BY <2>1, <2>2 DEF Candidates
<1>5. CASE C = {}
  <2>1. newer = {}
    BY <1>4, <1>5
  <2>2. Resolve(k) = IF k \in DOMAIN entries THEN entries[k].model ELSE None
    BY <1>5 DEF Resolve
  <2>3. Promise!Answer(k) =
          IF k \in DOMAIN entries THEN newest[k].model ELSE None
    BY <1>1, <2>1
  <2>4. QED
    BY <2>2, <2>3 DEF IInv, EntryIsNewestSuccess
<1>6. CASE C # {}
  <2>1. newer # {}
    BY <1>3, <1>6
  <2>2. /\ Resolve(k) = NewestOf(C).model
        /\ Promise!Answer(k) = top.model
    BY <1>1, <1>6, <2>1 DEF Resolve
  <2> DEFINE S == {r.request : r \in newer}
  <2>3. PICK n \in S : \A q \in S : q <= n
    <3>1. S \in SUBSET (1..MaxUse) /\ S # {} /\ MaxUse \in Nat
      BY <1>4, <2>1, ConstantsAssumption DEF Requests
    <3>2. QED
      BY <3>1, GreatestExists
  <2>4. PICK t \in newer : t.request = n
    BY <2>3
  <2>5. \A q \in newer : q.request <= t.request
    BY <2>3, <2>4
  <2>6. top \in newer /\ \A q \in newer : q.request <= top.request
    BY <2>5
  <2>7. \A q \in C : q.request <= t.request
    BY <1>3, <2>5
  <2>8. [model |-> t.model, request |-> t.request] \in C
    BY <1>4
  <2>9. NewestOf(C) \in C /\ \A q \in C : q.request <= NewestOf(C).request
    BY <2>7, <2>8 DEF NewestOf
  <2> DEFINE p == NewestOf(C)
  <2> HIDE DEF top, p, newer, C
  <2>10. Seen(p) \in newer /\ p.request \in Requests
    BY <1>3, <2>9 DEF p
  <2>11. [model |-> top.model, request |-> top.request] \in C
         /\ top.request \in Requests
    BY <1>4, <2>6
  <2>12. p.request <= top.request /\ top.request <= p.request
    <3>1. Seen(p).request <= top.request
      BY <2>6, <2>10
    <3>2. [model |-> top.model, request |-> top.request].request <= p.request
      BY <2>9, <2>11 DEF p
    <3>3. QED
      BY <3>1, <3>2
  <2>13. p.request = top.request
    BY <2>10, <2>11, <2>12 DEF Requests
  <2>14. Seen(p) = top
    <3>1. Seen(p) \in InFlightRequests /\ top \in InFlightRequests
      BY <2>6, <2>10 DEF newer
    <3>2. Seen(p).request = top.request
      BY <2>13
    <3>3. QED
      BY <3>1, <3>2, PendingMatchesFlight
  <2>15. p.model = top.model
    BY <2>14
  <2>16. QED
    BY <2>2, <2>15 DEF p, C
<1>7. QED
  BY <1>5, <1>6

(* A lookup answers what the promise answers: the newest request in        *)
(* flight, unless a remembered success is newer (state.rs: get).           *)
THEOREM AnswersAsPromisedHolds == Spec => []AnswersAsPromised
BY AnswersStep, Invariance, PTL
============================================================================
