--------------------------- MODULE DispatchProofs ---------------------------
(***************************************************************************)
(* Proofs about Dispatch, for every set of requests, of upstreams and of   *)
(* scenarios, every time to live and every limit.                          *)
(***************************************************************************)
EXTENDS Dispatch, Recursion, FiniteSetTheorems, TLAPS

\* The fields of the records that actions update.
Fields ==
  /\ DOMAIN req = Requests
  /\ \A r \in Requests : DOMAIN req[r] =
       {"stage", "format", "cached", "retried", "answer", "outcome", "followUp", "messages"}
  /\ DOMAIN history = {"executed", "rejectedAt", "steady", "finished", "credited",
                       "trimmed", "streak", "evicted"}
  /\ DOMAIN history.executed = Requests
  /\ DOMAIN history.rejectedAt = Keys
  /\ DOMAIN history.steady = Keys
  /\ DOMAIN history.streak = Sessions
  /\ DOMAIN history.finished = Requests
  /\ DOMAIN supports = Keys

\* A scenario as the constants allow it.
ShapesOK ==
  \A r \in Requests : shape(r) # None =>
    shape(r).key \in Keys /\ shape(r).session \in Sessions \cup {None}

\* A request that is asked, or may be asked again, was not executed yet.
Unexecuted(r) ==
  \/ req[r].stage \in {"new", "sent"}
  \/ req[r].stage = "answered" /\ req[r].answer = "rejected"
OnceInv ==
  \A r \in Requests :
    /\ history.executed[r] \in {0, 1}
    /\ Unexecuted(r) => history.executed[r] = 0

\* What an upstream that never changed does not support.
Lacks(k, format) == history.steady[k] => format \notin supports[k]

\* What a request knows of its upstream.
FormatInv ==
  \A r \in Requests :
    /\ req[r].stage = "new" => req[r].format = "plain" /\ ~req[r].retried
    /\ req[r].stage # "new" =>
         /\ shape(r) # None
         /\ req[r].format = "object" \/ req[r].retried => Lacks(shape(r).key, "schema")
         /\ req[r].stage = "answered" /\ req[r].answer = "rejected" =>
              Lacks(shape(r).key, req[r].format)

\* What the cache knows: it refuses a format no longer than TTL after the
\* last rejection.
TimeInv ==
  /\ clock \in Nat
  /\ \A k \in Keys : history.rejectedAt[k] # None =>
       history.rejectedAt[k] \in Nat /\ history.rejectedAt[k] <= clock
Trusted(k, e) ==
  /\ k \in Keys /\ e.until \in Nat
  /\ e.can = "none" =>
       /\ history.rejectedAt[k] # None
       /\ e.until <= history.rejectedAt[k] + TTL
       /\ Lacks(k, "object")
  /\ e.can = "object" => Lacks(k, "schema")
CacheInv == \A k \in DOMAIN cache : Trusted(k, cache[k])

JustInv == FormatInv /\ TimeInv /\ CacheInv

\* The steps after the answer: the end of the body, the credit, a client
\* that leaves.
Concludes(r) ==
  Finish(r) \/ (\E midTask \in BOOLEAN : Deliver(r, midTask)) \/ Leave(r)

\* The usage table with what was deleted from it: a row is a response whose
\* end was read, its id one that no other row ever had.
All == rows \cup history.trimmed
Ends(S) == {r \in Requests : history.finished[r] \in S}
Delivered == {r \in Ends({"completed"}) : req[r].outcome = "served" /\ shape(r).session # None}
EndedAs(r) ==
  /\ req[r].stage # "done" => req[r].outcome # "served"
  /\ req[r].stage \notin {"recorded", "done"} => history.finished[r] = "no"
  /\ req[r].stage = "recorded" =>
       history.finished[r] = "completed" /\ shape(r).session # None
  /\ history.finished[r] \in {"completed", "incomplete"} =>
       \/ req[r].outcome = "served"
       \/ /\ history.finished[r] = "completed" /\ shape(r).session # None
          /\ req[r].stage = "recorded" \/ req[r].outcome = "left"
AccInv ==
  /\ lastId \in Nat /\ All \subseteq [id: Nat, at: Nat, of: Requests]
  /\ \A row \in All : row.id <= lastId
  /\ \A row, other \in All : row.id = other.id => row = other
  /\ \A row, other \in All : row.of = other.of => row = other
  /\ {row.of : row \in All} = Ends({"completed", "incomplete"})
  /\ \A row \in history.trimmed :
       row.at < clock - Retention \/ lastId - row.id >= MaxEvents
  /\ history.credited = Delivered
  /\ \A r \in Requests : EndedAs(r)

-----------------------------------------------------------------------------
(* What the assumption says of the limits. *)
LEMMA Limits ==
  /\ TTL \in Nat /\ TTL > 0 /\ MaxFollowups \in Nat /\ NumSessions \in Nat
  /\ Retention \in Nat /\ MaxEvents \in Nat
  /\ None \notin Nat \cup {"schema", "object", "none", "served"}
BY ConstantsAssumption

(* The records start with the fields that the actions update. *)
LEMMA InitFields == Init => Fields /\ ShapesOK
<1> SUFFICES ASSUME Init PROVE Fields /\ ShapesOK
  OBVIOUS
<1>1. PICK i \in DOMAIN Families : scenario \in Families[i]
  BY DEF Init
<1>2. /\ scenario.supports \in [Keys -> SUBSET {"schema", "object"}]
      /\ \A r \in Requests : scenario.shape[r] # None => scenario.shape[r] \in Shape
  BY <1>1, ConstantsAssumption
<1>3. ShapesOK
  BY <1>2 DEF ShapesOK, shape, Shape
<1>4. Fields
  BY <1>2 DEF Fields, Init
<1>5. QED
  BY <1>3, <1>4

(* No action adds a field or takes one away. *)
LEMMA NextFields == Fields /\ ShapesOK /\ [Next]_vars => Fields' /\ ShapesOK'
<1> SUFFICES ASSUME Fields, ShapesOK, [Next]_vars PROVE Fields' /\ ShapesOK'
  OBVIOUS
<1>1. ASSUME NEW r \in Requests, Begin(r) PROVE Fields' /\ ShapesOK'
  BY <1>1 DEF Begin, Progress, Done, Body, Fields, ShapesOK, shape
<1>2. ASSUME NEW r \in Requests, UpstreamAnswer(r) PROVE Fields' /\ ShapesOK'
  BY <1>2 DEF UpstreamAnswer, shared, Fields, ShapesOK, shape
<1>3. ASSUME NEW r \in Requests, Handle(r) PROVE Fields' /\ ShapesOK'
  <2>1. DOMAIN req' = DOMAIN req /\ \A q \in DOMAIN req : DOMAIN req'[q] = DOMAIN req[q]
    BY <1>3 DEF Handle, Done, Body, Fields
  <2>2. /\ DOMAIN history' = DOMAIN history
        /\ history'.executed = history.executed /\ history'.steady = history.steady
        /\ history'.streak = history.streak /\ history'.finished = history.finished
        /\ DOMAIN history'.rejectedAt = DOMAIN history.rejectedAt
    BY <1>3 DEF Handle, Witness, Fields
  <2>3. UNCHANGED <<scenario, supports>>
    BY <1>3 DEF Handle
  <2>4. QED
    BY <2>1, <2>2, <2>3 DEF Fields, ShapesOK, shape
<1>4. ASSUME NEW r \in Requests, Concludes(r) PROVE Fields' /\ ShapesOK'
  <2>1. ASSUME NEW end, Record(r, end), UNCHANGED <<scenario, supports>>
        PROVE  Fields' /\ ShapesOK'
    <3>1. DOMAIN req' = DOMAIN req /\ \A q \in DOMAIN req : DOMAIN req'[q] = DOMAIN req[q]
      BY <2>1 DEF Record, Done, Fields
    <3>2. /\ DOMAIN history' = DOMAIN history
          /\ history'.executed = history.executed
          /\ history'.rejectedAt = history.rejectedAt
          /\ history'.steady = history.steady /\ history'.streak = history.streak
          /\ DOMAIN history'.finished = DOMAIN history.finished
      BY <2>1 DEF Record, Fields
    <3>3. QED
      BY <2>1, <3>1, <3>2 DEF Fields, ShapesOK, shape
  <2>2. CASE Done(r, "bad_gateway") /\ UNCHANGED <<scenario, supports, history>>
    BY <2>2 DEF Done, Fields, ShapesOK, shape
  <2>3. ASSUME NEW midTask, Deliver(r, midTask) PROVE Fields' /\ ShapesOK'
    <3>1. /\ DOMAIN req' = DOMAIN req
          /\ \A q \in DOMAIN req : DOMAIN req'[q] = DOMAIN req[q]
          /\ UNCHANGED <<scenario, supports>>
      BY <2>3 DEF Deliver, Fields
    <3>2. /\ DOMAIN history' = DOMAIN history
          /\ history'.executed = history.executed
          /\ history'.rejectedAt = history.rejectedAt
          /\ history'.steady = history.steady
          /\ history'.finished = history.finished
          /\ DOMAIN history'.streak = DOMAIN history.streak
      BY <2>3 DEF Deliver, Fields
    <3>3. QED
      BY <3>1, <3>2 DEF Fields, ShapesOK, shape
  <2>4. CASE Leave(r)
    BY <2>4 DEF Leave, Done, shared, Fields, ShapesOK, shape
  <2>5. QED
    BY <1>4, <2>1, <2>2, <2>3, <2>4 DEF Concludes, Finish
<1>5. ASSUME NEW k \in Keys, Change(k) PROVE Fields' /\ ShapesOK'
  BY <1>5 DEF Change, shared, Fields, ShapesOK, shape
<1>6. CASE Tick
  BY <1>6 DEF Tick, shared, Fields, ShapesOK, shape
<1>7. CASE UNCHANGED vars
  BY <1>7 DEF vars, Fields, ShapesOK, shape
<1>8. QED
  BY <1>1, <1>2, <1>3, <1>4, <1>5, <1>6, <1>7 DEF Next, Concludes

-----------------------------------------------------------------------------
(* What the steps after the answer leave alone. *)
LEMMA ConcludesKeeps ==
  ASSUME Fields, NEW r \in Requests, Concludes(r)
  PROVE  /\ UNCHANGED <<scenario, clock, supports, cache>>
         /\ history'.executed = history.executed
         /\ history'.rejectedAt = history.rejectedAt
         /\ history'.steady = history.steady
         /\ \A q \in Requests : q # r => req'[q] = req[q]
         /\ req[r].stage \in {"answered", "body", "recorded"}
         /\ req'[r].stage \in {"recorded", "done"}
         /\ req'[r].outcome \in {req[r].outcome, "served", "bad_gateway", "left"}
         /\ req'[r].format = req[r].format /\ req'[r].retried = req[r].retried
<1>1. ASSUME NEW end, Record(r, end)
      PROVE  /\ history'.executed = history.executed
             /\ history'.rejectedAt = history.rejectedAt
             /\ history'.steady = history.steady
             /\ \A q \in Requests : q # r => req'[q] = req[q]
             /\ req'[r].stage \in {"recorded", "done"}
             /\ req'[r].outcome \in {req[r].outcome, "served"}
             /\ req'[r].format = req[r].format /\ req'[r].retried = req[r].retried
  <2>1. /\ history'.executed = history.executed
        /\ history'.rejectedAt = history.rejectedAt
        /\ history'.steady = history.steady
    BY <1>1 DEF Record, Fields
  <2>2. CASE req' = [req EXCEPT ![r].stage = "recorded"]
    BY <2>1, <2>2 DEF Fields
  <2>3. CASE Done(r, "served")
    BY <2>1, <2>3 DEF Done, Fields
  <2>4. QED
    BY <1>1, <2>2, <2>3 DEF Record
<1>2. CASE Finish(r)
  <2>1. req[r].stage = "body" /\ UNCHANGED <<scenario, clock, supports, cache>>
    BY <1>2 DEF Finish
  <2>2. CASE Done(r, "bad_gateway") /\ UNCHANGED history
    BY <2>1, <2>2 DEF Done, Fields
  <2>3. QED
    BY <1>1, <1>2, <2>1, <2>2 DEF Finish
<1>3. ASSUME NEW midTask, Deliver(r, midTask)
      PROVE  /\ UNCHANGED <<scenario, clock, supports, cache>>
             /\ history'.executed = history.executed
             /\ history'.rejectedAt = history.rejectedAt
             /\ history'.steady = history.steady
             /\ \A q \in Requests : q # r => req'[q] = req[q]
             /\ req[r].stage = "recorded" /\ req'[r].stage = "done"
             /\ req'[r].outcome = "served"
             /\ req'[r].format = req[r].format /\ req'[r].retried = req[r].retried
  <2>1. /\ UNCHANGED <<scenario, clock, supports, cache>>
        /\ history'.executed = history.executed
        /\ history'.rejectedAt = history.rejectedAt
        /\ history'.steady = history.steady
    BY <1>3 DEF Deliver, Fields
  <2>2. /\ \A q \in Requests : q # r => req'[q] = req[q]
        /\ req[r].stage = "recorded" /\ req'[r].stage = "done"
    BY <1>3 DEF Deliver, Fields
  <2>3. /\ req'[r].outcome = "served"
        /\ req'[r].format = req[r].format /\ req'[r].retried = req[r].retried
    BY <1>3 DEF Deliver, Fields
  <2>4. QED
    BY <2>1, <2>2, <2>3
<1>4. CASE Leave(r)
  BY <1>4 DEF Leave, Done, shared, Fields
<1>5. QED
  BY <1>2, <1>3, <1>4 DEF Concludes

-----------------------------------------------------------------------------
(* Nothing is executed at the start. *)
LEMMA InitOnce == Init /\ Fields => OnceInv
BY DEF Init, Fields, OnceInv, Unexecuted

(* Only an upstream executes, and what it rejects it did not execute. *)
LEMMA NextOnce == OnceInv /\ Fields /\ [Next]_vars => OnceInv'
<1> SUFFICES ASSUME OnceInv, Fields, [Next]_vars PROVE OnceInv'
  OBVIOUS
<1>1. ASSUME NEW r \in Requests, Begin(r) PROVE OnceInv'
  <2>1. history'.executed = history.executed
    BY <1>1 DEF Begin, Progress, Fields
  <2>2. req[r].stage = "new" /\ \A q \in Requests : q # r => req'[q] = req[q]
    BY <1>1 DEF Begin, Done, Fields
  <2>3. QED
    BY <2>1, <2>2 DEF OnceInv, Unexecuted
<1>2. ASSUME NEW r \in Requests, UpstreamAnswer(r) PROVE OnceInv'
  <2>1. PICK answer \in Answers, executes \in BOOLEAN :
          /\ executes => answer # "rejected"
          /\ req' = [req EXCEPT ![r].stage = "answered", ![r].answer = answer]
          /\ history' = [history EXCEPT !.executed[r] = IF executes THEN @ + 1 ELSE @]
    BY <1>2 DEF UpstreamAnswer, Answers
  <2>2. req[r].stage = "sent" /\ history.executed[r] = 0
    BY <1>2 DEF UpstreamAnswer, OnceInv, Unexecuted
  <2>3. /\ \A q \in Requests : q # r => req'[q] = req[q]
        /\ req'[r].stage = "answered" /\ req'[r].answer = answer
    BY <2>1 DEF Fields
  <2>4. /\ \A q \in Requests : q # r => history'.executed[q] = history.executed[q]
        /\ history'.executed[r] = IF executes THEN 1 ELSE 0
    BY <2>1, <2>2 DEF Fields
  <2>5. QED
    BY <2>1, <2>3, <2>4 DEF OnceInv, Unexecuted
<1>3. ASSUME NEW r \in Requests, Handle(r) PROVE OnceInv'
  <2>1. history'.executed = history.executed
    BY <1>3 DEF Handle, Witness, Fields
  <2>2. \A q \in Requests : q # r => req'[q] = req[q]
    BY <1>3 DEF Handle, Done, Fields
  <2>3. Unexecuted(r)' => Unexecuted(r)
    BY <1>3 DEF Handle, AsksAgain, Done, Body, Unexecuted, Fields
  <2>4. QED
    BY <2>1, <2>2, <2>3 DEF OnceInv, Unexecuted
<1>4. ASSUME NEW r \in Requests, Concludes(r) PROVE OnceInv'
  BY <1>4, ConcludesKeeps DEF OnceInv, Unexecuted
<1>5. ASSUME NEW k \in Keys, Change(k) PROVE OnceInv'
  BY <1>5 DEF Change, OnceInv, Unexecuted, Fields
<1>6. CASE Tick
  BY <1>6 DEF Tick, OnceInv, Unexecuted
<1>7. CASE UNCHANGED vars
  BY <1>7 DEF vars, OnceInv, Unexecuted
<1>8. QED
  BY <1>1, <1>2, <1>3, <1>4, <1>5, <1>6, <1>7 DEF Next, Concludes

(* No upstream ever does the work of a request twice, whatever the requests *)
(* ask again and whatever answers are lost: a request is only sent again    *)
(* after an answer that says it was not understood (AsksAgain).             *)
THEOREM ExecutedOnceHolds == Spec => []ExecutedOnce
<1>1. OnceInv => ExecutedOnce
  BY DEF OnceInv, ExecutedOnce
<1>2. QED
  BY <1>1, InitFields, NextFields, InitOnce, NextOnce, PTL DEF Spec
-----------------------------------------------------------------------------
(* remember_at: every entry is the new one or an old one. *)
LEMMA RememberedEntries ==
  ASSUME NEW k, NEW can, NEW c \in Remembered(cache, k, can)
  PROVE  \A j \in DOMAIN c :
           \/ j = k /\ c[j] = [can |-> can, until |-> clock + TTL]
           \/ j \in DOMAIN cache /\ c[j] = cache[j]
<1> DEFINE all == [j \in DOMAIN Fresh(cache) \cup {k} |->
                     IF j = k THEN [can |-> can, until |-> clock + TTL] ELSE cache[j]]
<1>1. DOMAIN Fresh(cache) \subseteq DOMAIN cache
  BY DEF Fresh, Restrict
<1>2. \A j \in DOMAIN all :
           \/ j = k /\ all[j] = [can |-> can, until |-> clock + TTL]
           \/ j \in DOMAIN cache /\ all[j] = cache[j]
  BY <1>1
<1>3. c = all \/ \E j : c = Restrict(all, DOMAIN all \ {j})
  <2>1. c \in WithinCap(all)
    BY DEF Remembered
  <2> HIDE DEF all
  <2>2. QED
    BY <2>1 DEF WithinCap
<1>4. \A j \in DOMAIN c : j \in DOMAIN all /\ c[j] = all[j]
  <2> HIDE DEF all
  <2>1. QED
    BY <1>3 DEF Restrict
<1>5. QED
  <2> HIDE DEF all
  <2>1. QED
    BY <1>2, <1>4

(* Time and the upstreams only move on. *)
LEMMA MovesOn ==
  ASSUME Fields, TimeInv, [Next]_vars
  PROVE  /\ clock' \in Nat /\ clock <= clock'
         /\ \A k \in Keys :
              /\ history'.steady[k] => history.steady[k] /\ supports'[k] = supports[k]
              /\ history'.rejectedAt[k] \in {history.rejectedAt[k], clock}
<1>1. ASSUME NEW r \in Requests, Begin(r) \/ UpstreamAnswer(r) \/ Concludes(r)
      PROVE  /\ clock' = clock /\ supports' = supports
             /\ history'.steady = history.steady
             /\ history'.rejectedAt = history.rejectedAt
  <2>1. CASE Begin(r)
    BY <2>1 DEF Begin, Progress, Fields
  <2>2. CASE UpstreamAnswer(r)
    BY <2>2 DEF UpstreamAnswer, shared, Fields
  <2>3. CASE Concludes(r)
    BY <2>3, ConcludesKeeps
  <2>4. QED
    BY <1>1, <2>1, <2>2, <2>3
<1>2. ASSUME NEW r \in Requests, Handle(r)
      PROVE  /\ clock' = clock /\ supports' = supports
             /\ history'.steady = history.steady
             /\ \A k \in Keys : history'.rejectedAt[k] \in {history.rejectedAt[k], clock}
  BY <1>2 DEF Handle, Witness, Fields
<1>3. ASSUME NEW k \in Keys, Change(k)
      PROVE  /\ clock' = clock /\ history'.rejectedAt = history.rejectedAt
             /\ \A j \in Keys :
                  history'.steady[j] => history.steady[j] /\ supports'[j] = supports[j]
  BY <1>3 DEF Change, Fields
<1>4. CASE Tick
  BY <1>4 DEF Tick, TimeInv
<1>5. CASE UNCHANGED vars
  BY <1>5 DEF vars, TimeInv
<1>6. QED
  BY <1>1, <1>2, <1>3, <1>4, <1>5 DEF Next, Concludes, TimeInv

(* A rejection is remembered with the time it was seen. *)
LEMMA NextTime == Fields /\ TimeInv /\ [Next]_vars => TimeInv'
BY MovesOn DEF TimeInv
(* What was trusted stays so: an upstream either is as it was, or has      *)
(* changed and promises nothing; and a rejection only becomes more recent. *)
LEMMA LacksStill ==
  ASSUME Fields, TimeInv, [Next]_vars, NEW k \in Keys, NEW f, Lacks(k, f)
  PROVE  Lacks(k, f)'
BY MovesOn DEF Lacks

(* Time and other requests do not take the reason for an entry away. *)
LEMMA TrustedStill ==
  ASSUME Fields, TimeInv, [Next]_vars, NEW k, NEW e, Trusted(k, e)
  PROVE  Trusted(k, e)'
<1>1. k \in Keys /\ e.until \in Nat
  BY DEF Trusted
<1>2. e.can = "object" => Lacks(k, "schema")'
  BY <1>1, LacksStill DEF Trusted
<1>3. ASSUME e.can = "none"
      PROVE  /\ history'.rejectedAt[k] # None
             /\ e.until <= history'.rejectedAt[k] + TTL
             /\ Lacks(k, "object")'
  <2>1. Lacks(k, "object")'
    BY <1>1, <1>3, LacksStill DEF Trusted
  <2>2. /\ history.rejectedAt[k] \in Nat /\ history.rejectedAt[k] <= clock
        /\ e.until <= history.rejectedAt[k] + TTL
        /\ clock \in Nat
    BY <1>1, <1>3 DEF Trusted, TimeInv
  <2>3. history'.rejectedAt[k] \in {history.rejectedAt[k], clock}
    BY <1>1, MovesOn
  <2>4. QED
    BY <1>1, <2>1, <2>2, <2>3, Limits
<1>4. QED
  BY <1>1, <1>2, <1>3 DEF Trusted
-----------------------------------------------------------------------------
(* At the start nothing is known of any upstream. *)
LEMMA InitJust == Init /\ Fields => JustInv
<1> SUFFICES ASSUME Init, Fields PROVE JustInv
  OBVIOUS
<1>1. FormatInv
  BY DEF Init, FormatInv
<1>2. TimeInv
  BY DEF Init, TimeInv
<1>3. CacheInv
  BY DEF Init, CacheInv
<1>4. QED
  BY <1>1, <1>2, <1>3 DEF JustInv

(* What a lookup tells a handler is trusted and fresh. *)
LEMMA CapabilityTrusted ==
  ASSUME CacheInv, NEW k, Capability(k) # None
  PROVE  /\ k \in DOMAIN cache /\ cache[k].until > clock
         /\ Capability(k) = cache[k].can /\ Trusted(k, cache[k])
BY DEF Capability, Fresh, Restrict, CacheInv

(* The handler of a request, until it awaits the upstream. *)
LEMMA BeginEffect ==
  ASSUME Fields, NEW r \in Requests, Begin(r)
  PROVE  /\ shape(r) # None /\ req[r].stage = "new"
         /\ UNCHANGED <<scenario, clock, supports>>
         /\ history'.rejectedAt = history.rejectedAt
         /\ history'.steady = history.steady
         /\ \A q \in Requests : q # r => req'[q] = req[q]
         /\ \/ /\ req'[r].stage = "done" /\ req'[r].format = req[r].format
               /\ req'[r].retried = req[r].retried
               /\ req'[r].outcome = "refused" =>
                    Negotiates(r) /\ Capability(shape(r).key) = "none"
            \/ /\ req'[r].stage = "sent" /\ ~req'[r].retried
               /\ req'[r].outcome = req[r].outcome
               /\ req'[r].format = "object" => Capability(shape(r).key) = "object"
         /\ req'[r].stage # "recorded"
         /\ req'[r].outcome = "served" => req[r].outcome = "served"
<1>1. /\ shape(r) # None /\ req[r].stage = "new"
      /\ UNCHANGED <<scenario, clock, supports>>
  BY DEF Begin
<1>2. history'.rejectedAt = history.rejectedAt /\ history'.steady = history.steady
  BY DEF Begin, Progress, Fields
<1>3. \A q \in Requests : q # r => req'[q] = req[q]
  BY DEF Begin, Done, Fields
<1> DEFINE cached == IF Negotiates(r) THEN Capability(shape(r).key) ELSE None
           format == CASE ~Negotiates(r) -> "plain"
                       [] Negotiates(r) /\ cached = "object" -> "object"
                       [] OTHER -> "schema"
<1>4. \/ Foreign(r) /\ Done(r, "foreign")
      \/ cached = "none" /\ Done(r, "refused")
      \/ cached # "none" /\ req' = [req EXCEPT ![r] = Body(r, format, cached, FALSE)]
  BY DEF Begin
<1>5. CASE Foreign(r) /\ Done(r, "foreign")
  BY <1>1, <1>2, <1>3, <1>5 DEF Done, Fields
<1>6. CASE cached = "none" /\ Done(r, "refused")
  <2>1. /\ req'[r].stage = "done" /\ req'[r].format = req[r].format
        /\ req'[r].retried = req[r].retried /\ req'[r].outcome = "refused"
    BY <1>6 DEF Done, Fields
  <2>2. Negotiates(r) /\ Capability(shape(r).key) = "none"
    BY <1>6, Limits
  <2>3. QED
    BY <1>1, <1>2, <1>3, <2>1, <2>2
<1>7. CASE cached # "none" /\ req' = [req EXCEPT ![r] = Body(r, format, cached, FALSE)]
  <2>1. format = "object" => Capability(shape(r).key) = "object"
    OBVIOUS
  <2> HIDE DEF format, cached
  <2>2. /\ req'[r].stage = "sent" /\ req'[r].retried = FALSE
        /\ req'[r].format = format /\ req'[r].outcome = req[r].outcome
    BY <1>7 DEF Body, Fields
  <2>3. QED
    BY <1>1, <1>2, <1>3, <2>1, <2>2
<1>8. QED
  BY <1>4, <1>5, <1>6, <1>7
(* The handler of an answer. *)
LEMMA HandleEffect ==
  ASSUME Fields, NEW r \in Requests, Handle(r)
  PROVE  /\ req[r].stage = "answered"
         /\ UNCHANGED <<scenario, clock, supports>>
         /\ Incompatible(r) => history' = [history EXCEPT !.rejectedAt[shape(r).key] = clock]
         /\ history'.steady = history.steady
         /\ \A q \in Requests : q # r => req'[q] = req[q]
         /\ \/ /\ AsksAgain(r)
               /\ req'[r].stage = "sent" /\ req'[r].outcome = req[r].outcome
            \/ /\ req'[r].stage \in {"body", "done"} /\ req'[r].format = req[r].format
               /\ req'[r].retried = req[r].retried
               /\ req'[r].outcome = "refused" => Incompatible(r) \/ req[r].outcome = "refused"
         /\ req'[r].outcome = "served" => req[r].outcome = "served"
<1>1. req[r].stage = "answered" /\ UNCHANGED <<scenario, clock, supports>>
  BY DEF Handle
<1>2. Incompatible(r) => history' = [history EXCEPT !.rejectedAt[shape(r).key] = clock]
  BY DEF Handle, Witness
<1>3. history'.steady = history.steady
  BY DEF Handle, Witness, Fields
<1>4. \A q \in Requests : q # r => req'[q] = req[q]
  BY DEF Handle, Done, Fields
<1>5. CASE AsksAgain(r)
  <2>1. req' = [req EXCEPT ![r] = Body(r, "object", req[r].cached, TRUE)]
    BY <1>5 DEF Handle
  <2>2. req'[r].stage = "sent" /\ req'[r].outcome = req[r].outcome
    BY <2>1 DEF Body, Fields
  <2>3. QED
    BY <1>1, <1>2, <1>3, <1>4, <1>5, <2>2
<1>6. CASE ~AsksAgain(r)
  <2>1. \/ req' = [req EXCEPT ![r].stage = "body"]
        \/ Incompatible(r) /\ Done(r, "refused")
        \/ Done(r, "bad_gateway") \/ Done(r, "passed")
    BY <1>6 DEF Handle
  <2>2. /\ req'[r].stage \in {"body", "done"} /\ req'[r].format = req[r].format
        /\ req'[r].retried = req[r].retried
        /\ req'[r].outcome = "refused" => Incompatible(r) \/ req[r].outcome = "refused"
        /\ req'[r].outcome = "served" => req[r].outcome = "served"
    BY <2>1 DEF Done, Fields
  <2>3. QED
    BY <1>1, <1>2, <1>3, <1>4, <2>2
<1>7. QED
  BY <1>5, <1>6

(* What the answer to a request teaches is true of its upstream. *)
LEMMA LearntTrusted ==
  ASSUME Fields, ShapesOK, JustInv, NEW r \in Requests, Handle(r), Learns(r) # None,
         NEW k, k = shape(r).key, NEW e, e = [can |-> Learns(r), until |-> clock + TTL]
  PROVE  Trusted(k, e)'
<1>1. /\ req[r].stage = "answered" /\ UNCHANGED <<scenario, clock, supports>>
      /\ history'.steady = history.steady
      /\ Incompatible(r) => history' = [history EXCEPT !.rejectedAt[k] = clock]
  BY HandleEffect
<1>2. shape(r) # None /\ k \in Keys
  BY <1>1 DEF JustInv, FormatInv, ShapesOK
<1>3. clock \in Nat
  BY DEF JustInv, TimeInv
<1>4. ASSUME Learns(r) = "none"
      PROVE  history'.rejectedAt[k] = clock /\ Lacks(k, "object")
  <2>1. Incompatible(r)
    BY <1>4, Limits DEF Learns
  <2>2. history'.rejectedAt[k] = clock
    BY <1>1, <1>2, <2>1 DEF Fields
  <2>3. req[r].format = "object" /\ req[r].answer = "rejected"
    BY <2>1 DEF Incompatible
  <2>4. QED
    BY <1>1, <2>2, <2>3 DEF JustInv, FormatInv
<1>5. ASSUME Learns(r) = "object" PROVE Lacks(k, "schema")
  <2>1. req[r].retried
    BY <1>5, Limits DEF Learns
  <2>2. QED
    BY <1>1, <2>1 DEF JustInv, FormatInv
<1>6. QED
  <2>1. e.can = Learns(r) /\ e.until = clock + TTL /\ e.until \in Nat
    BY <1>3, Limits
  <2>2. e.can = "none" =>
          /\ history'.rejectedAt[k] # None
          /\ e.until <= history'.rejectedAt[k] + TTL
          /\ history'.steady[k] => "object" \notin supports'[k]
    BY <1>1, <1>3, <1>4, <2>1, Limits DEF Lacks
  <2>3. e.can = "object" => (history'.steady[k] => "schema" \notin supports'[k])
    BY <1>1, <1>5, <2>1 DEF Lacks
  <2>4. QED
    BY <1>2, <2>1, <2>2, <2>3 DEF Trusted, Lacks
(* What is remembered, looked up or evicted leaves every entry justified. *)
LEMMA NextCache == Fields /\ ShapesOK /\ JustInv /\ [Next]_vars => CacheInv'
<1> SUFFICES ASSUME Fields, ShapesOK, JustInv, [Next]_vars PROVE CacheInv'
  OBVIOUS
<1>1. ASSUME NEW j, j \in DOMAIN cache, cache'[j] = cache[j]
      PROVE  Trusted(j, cache[j])'
  <2>1. Trusted(j, cache[j])
    BY <1>1 DEF JustInv, CacheInv
  <2>2. \A e : Trusted(j, e) => Trusted(j, e)'
    BY TrustedStill DEF JustInv
  <2>3. QED
    BY <1>1, <2>1, <2>2
<1>2. (\A j \in DOMAIN cache' : j \in DOMAIN cache /\ cache'[j] = cache[j]) => CacheInv'
  BY <1>1 DEF CacheInv
<1>3. ASSUME NEW r \in Requests, Begin(r) PROVE CacheInv'
  <2>1. cache' = cache \/ cache' = Fresh(cache)
    BY <1>3 DEF Begin, LookedUp
  <2>2. QED
    BY <1>2, <2>1 DEF Fresh, Restrict
<1>4. ASSUME NEW r \in Requests, Handle(r) PROVE CacheInv'
  <2>1. CASE Learns(r) = None
    BY <1>2, <1>4, <2>1 DEF Handle, Learn
  <2>2. CASE Learns(r) # None
    <3>1. cache' \in Remembered(cache, shape(r).key, Learns(r))
      BY <1>4, <2>2 DEF Handle, Learn
    <3>2. ASSUME NEW j \in DOMAIN cache'
          PROVE  \/ j = shape(r).key
                    /\ cache'[j] = [can |-> Learns(r), until |-> clock + TTL]
                 \/ j \in DOMAIN cache /\ cache'[j] = cache[j]
      BY <3>1, RememberedEntries
    <3>3. ASSUME NEW j \in DOMAIN cache' PROVE Trusted(j, cache[j])'
      <4>1. CASE j = shape(r).key
                 /\ cache'[j] = [can |-> Learns(r), until |-> clock + TTL]
        <5>1. \A e : e = cache'[j] => Trusted(j, e)'
          BY <1>4, <2>2, <4>1, LearntTrusted
        <5>2. QED
          BY <5>1
      <4>2. CASE j \in DOMAIN cache /\ cache'[j] = cache[j]
        BY <1>1, <4>2
      <4>3. QED
        BY <3>2, <4>1, <4>2
    <3>4. QED
      BY <3>3 DEF CacheInv
  <2>3. QED
    BY <2>1, <2>2
<1>5. ASSUME UNCHANGED cache PROVE CacheInv'
  BY <1>2, <1>5
<1>6. ASSUME NEW r \in Requests, Concludes(r) PROVE CacheInv'
  BY <1>5, <1>6, ConcludesKeeps
<1>7. QED
  BY <1>3, <1>4, <1>5, <1>6 DEF Next, Concludes, UpstreamAnswer, Change, Tick, vars, shared

(* A request is weakened only by an entry, or by its own rejection. *)
LEMMA NextFormat == Fields /\ ShapesOK /\ JustInv /\ [Next]_vars => FormatInv'
<1> SUFFICES ASSUME Fields, ShapesOK, JustInv, [Next]_vars, NEW q \in Requests
    PROVE  /\ req'[q].stage = "new" => req'[q].format = "plain" /\ ~req'[q].retried
           /\ req'[q].stage # "new" =>
                /\ shape(q)' # None
                /\ req'[q].format = "object" \/ req'[q].retried => Lacks(shape(q).key, "schema")'
                /\ req'[q].stage = "answered" /\ req'[q].answer = "rejected" =>
                     Lacks(shape(q).key, req[q].format)'
  BY DEF FormatInv
<1>1. scenario' = scenario
  BY DEF Next, Begin, UpstreamAnswer, Handle, Finish, Deliver, Leave, Change, Tick, vars
<1>2. shape(q)' = shape(q)
  BY <1>1 DEF shape
<1>3. FormatInv /\ TimeInv /\ CacheInv
  BY DEF JustInv
<1>4. \A f : shape(q) # None /\ Lacks(shape(q).key, f) =>
              (history'.steady[shape(q).key] => f \notin supports'[shape(q).key])
  BY <1>3, MovesOn DEF ShapesOK, Lacks
<1>5. CASE req'[q] = req[q]
  BY <1>2, <1>3, <1>4, <1>5 DEF FormatInv, Lacks
<1>6. CASE Begin(q)
  <2>1. Capability(shape(q).key) = "object" => Lacks(shape(q).key, "schema")
    BY <1>3, CapabilityTrusted, Limits DEF Trusted
  <2>2. shape(q) # None /\ req[q].stage = "new"
    BY <1>6, BeginEffect
  <2>3. CASE /\ req'[q].stage = "done" /\ req'[q].format = req[q].format
             /\ req'[q].retried = req[q].retried
    BY <1>2, <1>3, <2>2, <2>3 DEF FormatInv
  <2>4. CASE /\ req'[q].stage = "sent" /\ ~req'[q].retried
             /\ req'[q].format = "object" => Capability(shape(q).key) = "object"
    BY <1>2, <1>4, <2>1, <2>2, <2>4 DEF Lacks
  <2>5. QED
    BY <1>6, <2>3, <2>4, BeginEffect
<1>7. CASE UpstreamAnswer(q)
  <2>1. PICK answer \in Answers :
          /\ req' = [req EXCEPT ![q].stage = "answered", ![q].answer = answer]
          /\ answer = "rejected" => req[q].format \notin supports[shape(q).key]
    BY <1>7 DEF UpstreamAnswer, Answers
  <2>2. /\ req'[q].stage = "answered" /\ req'[q].answer = answer
        /\ req'[q].format = req[q].format /\ req'[q].retried = req[q].retried
    BY <2>1 DEF Fields
  <2>3. shape(q) # None
    BY <1>3, <1>7 DEF UpstreamAnswer, FormatInv
  <2>4. req[q].stage # "new"
    BY <1>7 DEF UpstreamAnswer
  <2>5. answer = "rejected" => Lacks(shape(q).key, req[q].format)
    BY <2>1 DEF Lacks
  <2>6. req[q].format = "object" \/ req[q].retried => Lacks(shape(q).key, "schema")
    BY <1>3, <2>4 DEF FormatInv
  <2>7. QED
    BY <1>2, <1>4, <2>2, <2>3, <2>5, <2>6 DEF Lacks
<1>8. CASE Handle(q)
  <2>1. req[q].stage = "answered" /\ shape(q) # None
    BY <1>3, <1>8, HandleEffect DEF FormatInv
  <2>2. CASE AsksAgain(q) /\ req'[q].stage = "sent"
    <3>1. req[q].format = "schema" /\ req[q].answer = "rejected"
      BY <2>2 DEF AsksAgain
    <3>2. Lacks(shape(q).key, "schema")
      BY <1>3, <2>1, <3>1 DEF FormatInv
    <3>3. QED
      BY <1>2, <1>4, <2>1, <2>2, <3>2 DEF Lacks
  <2>3. CASE /\ req'[q].stage \in {"body", "done"} /\ req'[q].format = req[q].format
             /\ req'[q].retried = req[q].retried
    <3>1. req[q].format = "object" \/ req[q].retried => Lacks(shape(q).key, "schema")
      BY <1>3, <2>1 DEF FormatInv
    <3>2. QED
      BY <1>2, <1>4, <2>1, <2>3, <3>1 DEF Lacks
  <2>4. QED
    BY <1>8, <2>2, <2>3, HandleEffect
<1>9. CASE Concludes(q)
  <2>1. req[q].stage # "new" /\ req'[q].stage \in {"recorded", "done"}
        /\ req'[q].format = req[q].format /\ req'[q].retried = req[q].retried
    BY <1>9, ConcludesKeeps
  <2>2. /\ shape(q) # None
        /\ req[q].format = "object" \/ req[q].retried => Lacks(shape(q).key, "schema")
    BY <1>3, <2>1 DEF FormatInv
  <2>3. QED
    BY <1>2, <1>4, <2>1, <2>2 DEF Lacks
<1>10. QED
  <2>1. ASSUME NEW r \in Requests, r # q,
               Begin(r) \/ UpstreamAnswer(r) \/ Handle(r) \/ Concludes(r)
        PROVE  req'[q] = req[q]
    <3>1. CASE UpstreamAnswer(r)
      BY <2>1, <3>1 DEF UpstreamAnswer, Fields
    <3>2. QED
      BY <2>1, <3>1, BeginEffect, HandleEffect, ConcludesKeeps
  <2>2. ASSUME UNCHANGED req PROVE req'[q] = req[q]
    BY <2>2
  <2>3. QED
    BY <1>5, <1>6, <1>7, <1>8, <1>9, <2>1, <2>2 DEF Next, Concludes, Change, Tick, vars

(* A step that refuses or weakens a request has a reason to. *)
LEMMA JustifiedStep ==
  ASSUME Fields, ShapesOK, JustInv, [Next]_vars, NEW r \in Requests
  PROVE  LET k == shape(r).key IN
         /\ Refused(r) =>
              /\ history'.rejectedAt[k] # None
              /\ clock - history'.rejectedAt[k] < TTL
              /\ history.steady[k] => "object" \notin supports[k]
         /\ req'[r].format = "object" /\ history.steady[k] => "schema" \notin supports[k]
<1> DEFINE k == shape(r).key
<1>1. FormatInv /\ TimeInv /\ CacheInv
  BY DEF JustInv
<1>2. req'[r].format = "object" => shape(r) # None /\ Lacks(k, "schema")
  <2>1. CASE req'[r].format = req[r].format
    BY <1>1, <2>1 DEF FormatInv
  <2>2. CASE Begin(r)
    <3>1. shape(r) # None /\ req[r].stage = "new" /\ req[r].format = "plain"
      BY <1>1, <2>2, BeginEffect DEF FormatInv
    <3>2. req'[r].format = "object" => Capability(k) = "object"
      BY <2>2, <3>1, BeginEffect
    <3>3. QED
      BY <1>1, <3>1, <3>2, CapabilityTrusted, Limits DEF Trusted
  <2>3. CASE Handle(r)
    <3>1. CASE AsksAgain(r)
      BY <1>1, <2>3, <3>1, HandleEffect DEF AsksAgain, FormatInv
    <3>2. CASE req'[r].format = req[r].format
      BY <2>1, <3>2
    <3>3. QED
      BY <2>3, <3>1, <3>2, HandleEffect
  <2>4. ASSUME NEW q \in Requests, q # r, Begin(q) \/ Handle(q)
        PROVE  req'[r].format = req[r].format
    BY <2>4, BeginEffect, HandleEffect
  <2>5. ASSUME NEW q \in Requests, UpstreamAnswer(q) \/ Concludes(q)
        PROVE  req'[r].format = req[r].format
    <3>1. CASE UpstreamAnswer(q)
      BY <3>1 DEF UpstreamAnswer, Fields
    <3>2. CASE Concludes(q)
      BY <3>2, ConcludesKeeps
    <3>3. QED
      BY <2>5, <3>1, <3>2
  <2>6. QED
    BY <2>1, <2>2, <2>3, <2>4, <2>5 DEF Next, Concludes, Change, Tick, vars
<1>3. Refused(r) =>
        \/ Begin(r) /\ Capability(k) = "none"
        \/ Handle(r) /\ Incompatible(r)
  <2>1. ASSUME NEW q \in Requests, q # r,
               Begin(q) \/ UpstreamAnswer(q) \/ Handle(q) \/ Concludes(q)
        PROVE  req'[r] = req[r]
    <3>1. CASE UpstreamAnswer(q)
      BY <2>1, <3>1 DEF UpstreamAnswer, Fields
    <3>2. QED
      BY <2>1, <3>1, BeginEffect, HandleEffect, ConcludesKeeps
  <2>2. ~(req'[r] = req[r] /\ Refused(r))
    BY DEF Refused
  <2>3. CASE UpstreamAnswer(r)
    BY <2>3 DEF UpstreamAnswer, Fields, Refused
  <2>4. CASE Begin(r)
    BY <2>4, BeginEffect DEF Refused
  <2>5. CASE Handle(r)
    BY <2>5, HandleEffect DEF Refused
  <2>6. CASE Concludes(r)
    BY <2>6, ConcludesKeeps DEF Refused
  <2>7. QED
    BY <2>1, <2>2, <2>3, <2>4, <2>5, <2>6 DEF Next, Concludes, Change, Tick, vars
<1>4. ASSUME Begin(r), Capability(k) = "none"
      PROVE  /\ history'.rejectedAt[k] # None
             /\ clock - history'.rejectedAt[k] < TTL
             /\ Lacks(k, "object")
  <2>1. history'.rejectedAt = history.rejectedAt
    BY <1>4, BeginEffect
  <2>2. /\ cache[k].until > clock /\ cache[k].until \in Nat /\ k \in Keys
        /\ history.rejectedAt[k] # None
        /\ cache[k].until <= history.rejectedAt[k] + TTL
        /\ Lacks(k, "object")
    BY <1>1, <1>4, CapabilityTrusted, Limits DEF Trusted
  <2>3. clock \in Nat /\ history.rejectedAt[k] \in Nat
    BY <1>1, <2>2 DEF TimeInv
  <2>4. QED
    BY <2>1, <2>2, <2>3, Limits
<1>5. ASSUME Handle(r), Incompatible(r)
      PROVE  /\ history'.rejectedAt[k] # None
             /\ clock - history'.rejectedAt[k] < TTL
             /\ Lacks(k, "object")
  <2>1. /\ req[r].stage = "answered" /\ req[r].format = "object"
        /\ req[r].answer = "rejected"
    BY <1>5, HandleEffect DEF Incompatible
  <2>2. Lacks(k, "object") /\ k \in Keys
    BY <1>1, <2>1 DEF FormatInv, ShapesOK
  <2>3. history'.rejectedAt[k] = clock
    BY <1>5, <2>2, HandleEffect DEF Fields
  <2>4. QED
    BY <1>1, <2>2, <2>3, Limits DEF TimeInv
<1>6. QED
  BY <1>2, <1>3, <1>4, <1>5 DEF Lacks

(* A request is refused for its format only within TTL of a rejection by   *)
(* its upstream, and an upstream that never changed is refused or asked    *)
(* for less only if it supports no more: for concurrent requests, and      *)
(* whatever the cache (structured_output.rs) learns, loses or evicts.      *)
THEOREM RefusalsJustifiedHolds == Spec => RefusalsJustified
<1> DEFINE I == Fields /\ ShapesOK /\ JustInv
<1>1. Init => I
  BY InitFields, InitJust
<1>2. I /\ [Next]_vars => I'
  BY NextFields, NextTime, NextCache, NextFormat DEF JustInv
<1>3. I /\ [Next]_vars =>
        [\A r \in Requests :
           LET k == shape(r).key IN
           /\ Refused(r) =>
                /\ history'.rejectedAt[k] # None
                /\ clock - history'.rejectedAt[k] < TTL
                /\ history.steady[k] => "object" \notin supports[k]
           /\ req'[r].format = "object" /\ history.steady[k] => "schema" \notin supports[k]
        ]_vars
  BY JustifiedStep
<1>4. QED
  BY <1>1, <1>2, <1>3, PTL DEF Spec, RefusalsJustified
-----------------------------------------------------------------------------
\* The budget of a session counts its continuations, if it was not evicted.
BudgetInv ==
  /\ DOMAIN budgets \subseteq Sessions
  /\ \A s \in DOMAIN budgets : budgets[s] \in Nat /\ budgets[s] <= MaxFollowups
  /\ \A s \in Sessions :
       /\ history.streak[s] \in Nat
       /\ s \in history.evicted \/ history.streak[s] <= Used(budgets, s)

(* No session was continued at the start. *)
LEMMA InitBudget == Init /\ Fields => BudgetInv
BY Limits DEF Init, BudgetInv, Used, Sessions

(* from_request: the budget is reset together with the count. *)
LEMMA ProgressBudget ==
  ASSUME Fields, ShapesOK, BudgetInv, NEW r \in Requests, shape(r) # None, Progress(r)
  PROVE  BudgetInv'
<1> DEFINE s == shape(r).session
<1>1. s \in Sessions \cup {None}
  BY DEF ShapesOK
<1>2. CASE Tracked(r)
  <2>1. /\ s # None /\ budgets' = Restrict(budgets, DOMAIN budgets \ {s})
        /\ history' = [history EXCEPT !.streak[s] = 0, !.evicted = @ \ {s}]
    BY <1>2 DEF Progress, Tracked
  <2>2. /\ history'.streak = [history.streak EXCEPT ![s] = 0]
        /\ history'.evicted = history.evicted \ {s}
    BY <2>1 DEF Fields
  <2>3. /\ DOMAIN budgets' = DOMAIN budgets \ {s}
        /\ \A t \in DOMAIN budgets' : budgets'[t] = budgets[t]
    BY <2>1 DEF Restrict
  <2>4. s \in Sessions /\ DOMAIN history.streak = Sessions
    BY <1>1, <2>1 DEF Fields
  <2>5. \A t \in Sessions : Used(budgets', t) = IF t = s THEN 0 ELSE Used(budgets, t)
    BY <2>3 DEF Used
  <2>6. history'.streak[s] = 0
        /\ \A t \in Sessions : t # s => history'.streak[t] = history.streak[t]
    BY <2>2, <2>4
  <2>7. \A t \in Sessions :
          /\ history'.streak[t] \in Nat
          /\ t \in history'.evicted \/ history'.streak[t] <= Used(budgets', t)
    BY <2>2, <2>5, <2>6 DEF BudgetInv
  <2>8. DOMAIN budgets' \subseteq Sessions
        /\ \A t \in DOMAIN budgets' : budgets'[t] \in Nat /\ budgets'[t] <= MaxFollowups
    BY <2>3 DEF BudgetInv
  <2>9. QED
    BY <2>7, <2>8 DEF BudgetInv
<1>3. CASE ~Tracked(r)
  <2>1. budgets' = budgets
    BY <1>3 DEF Progress
  <2>2. \/ history' = history
        \/ s # None /\ history' = [history EXCEPT !.streak[s] = 0, !.evicted = @ \ {s}]
    BY DEF Progress
  <2>3. CASE history' = history
    BY <2>1, <2>3 DEF BudgetInv
  <2>4. CASE s # None /\ history' = [history EXCEPT !.streak[s] = 0, !.evicted = @ \ {s}]
    <3>1. /\ history'.streak = [history.streak EXCEPT ![s] = 0]
          /\ history'.evicted = history.evicted \ {s}
      BY <2>4 DEF Fields
    <3>2. QED
      BY <1>1, <2>1, <2>4, <3>1 DEF BudgetInv, Used, Fields
  <2>5. QED
    BY <2>2, <2>3, <2>4
<1>4. QED
  BY <1>2, <1>3

(* consume_followup_budget: a continuation is paid from the budget.        *)
LEMMA GuardedBudget ==
  ASSUME Fields, ShapesOK, BudgetInv, NEW r \in Requests, shape(r) # None,
         NEW midTask, NEW g, g = Guarded(r, midTask),
         budgets' = g.budgets,
         history'.streak = IF g.force
           THEN [history.streak EXCEPT ![shape(r).session] = @ + 1] ELSE history.streak,
         history'.evicted = history.evicted \cup g.gone
  PROVE  BudgetInv'
<1> DEFINE s == shape(r).session
           asks == /\ shape(r).backend = "chat" /\ Suspected(shape(r).input, midTask)
                   /\ MaxFollowups > 0 /\ s # None
           gone == IF asks THEN Evictable(budgets) ELSE {}
           kept == Restrict(budgets, DOMAIN budgets \ gone)
           force == asks /\ Used(kept, s) < MaxFollowups
           entered == Used(kept, s) + (IF force THEN 1 ELSE 0)
           to == IF asks THEN [t \in DOMAIN kept \cup {s} |-> IF t = s THEN entered ELSE kept[t]]
                 ELSE budgets
<1>1. g.force = force /\ g.gone = gone /\ g.budgets = to
  BY DEF Guarded
<1>2. s \in Sessions \cup {None}
  BY DEF ShapesOK
<1>3. /\ DOMAIN kept = DOMAIN budgets \ gone
      /\ \A t \in DOMAIN kept : kept[t] = budgets[t]
  BY DEF Restrict
<1> HIDE DEF gone, kept
<1>4. CASE ~asks
  <2>1. to = budgets /\ ~force
    BY <1>4
  <2> HIDE DEF asks, to, force
  <2>2. QED
    BY <1>1, <2>1 DEF BudgetInv
<1>5. CASE asks
  <2>1. s \in Sessions /\ s # None
    BY <1>2, <1>5
  <2>2. /\ DOMAIN to = DOMAIN kept \cup {s}
        /\ to[s] = entered /\ \A t \in DOMAIN kept : t # s => to[t] = kept[t]
    BY <1>5
  <2>3. /\ Used(kept, s) \in Nat /\ Used(kept, s) <= MaxFollowups
        /\ s \notin gone => Used(kept, s) = Used(budgets, s)
    BY <1>3, Limits DEF Used, BudgetInv
  <2>4. entered \in Nat /\ entered <= MaxFollowups
    BY <1>5, <2>3, Limits
  <2>5. \A t \in Sessions : t # s /\ t \notin gone => Used(to, t) = Used(budgets, t)
    BY <1>3, <2>2 DEF Used
  <2>6. Used(to, s) = entered
    BY <2>2 DEF Used
  <2>7. history'.streak[s] = history.streak[s] + (IF force THEN 1 ELSE 0)
        /\ \A t \in Sessions : t # s => history'.streak[t] = history.streak[t]
    <3> HIDE DEF force
    <3>1. DOMAIN history.streak = Sessions /\ history.streak[s] \in Nat
      BY <2>1 DEF Fields, BudgetInv
    <3>2. CASE force
      <4>1. history'.streak = [history.streak EXCEPT ![s] = @ + 1]
        BY <1>1, <3>2
      <4>2. QED
        BY <2>1, <3>1, <3>2, <4>1
    <3>3. CASE ~force
      <4>1. history'.streak = history.streak
        BY <1>1, <3>3
      <4>2. QED
        BY <3>1, <3>3, <4>1
    <3>4. QED
      BY <3>2, <3>3
  <2>8. DOMAIN to \subseteq Sessions
        /\ \A t \in DOMAIN to : to[t] \in Nat /\ to[t] <= MaxFollowups
    BY <1>3, <2>1, <2>2, <2>4 DEF BudgetInv
  <2>9. \A t \in Sessions :
          /\ history'.streak[t] \in Nat
          /\ t \in history'.evicted \/ history'.streak[t] <= Used(to, t)
    <3>1. ASSUME NEW t \in Sessions, t # s
          PROVE  /\ history'.streak[t] \in Nat
                 /\ t \in history'.evicted \/ history'.streak[t] <= Used(to, t)
      BY <1>1, <2>5, <2>7, <3>1 DEF BudgetInv
    <3>2. /\ history'.streak[s] \in Nat
          /\ s \in history'.evicted \/ history'.streak[s] <= Used(to, s)
      BY <1>1, <2>1, <2>3, <2>6, <2>7 DEF BudgetInv
    <3>3. QED
      BY <3>1, <3>2
  <2> HIDE DEF to
  <2>10. QED
    BY <1>1, <2>8, <2>9 DEF BudgetInv
<1>6. QED
  BY <1>4, <1>5

(* What the client gets keeps its session within its budget. *)
LEMMA DeliverBudget ==
  ASSUME Fields, ShapesOK, BudgetInv, NEW r \in Requests, shape(r) # None,
         NEW midTask, Deliver(r, midTask)
  PROVE  BudgetInv'
<1>1. PICK g : g = Guarded(r, midTask)
  OBVIOUS
<1>2. /\ budgets' = g.budgets
      /\ history'.streak = IF g.force
           THEN [history.streak EXCEPT ![shape(r).session] = @ + 1] ELSE history.streak
      /\ history'.evicted = history.evicted \cup g.gone
  BY <1>1 DEF Deliver, Fields
<1>3. QED
  BY <1>1, <1>2, GuardedBudget

(* No step lets a session outrun its budget. *)
LEMMA NextBudget ==
  Fields /\ ShapesOK /\ FormatInv /\ BudgetInv /\ [Next]_vars => BudgetInv'
<1> SUFFICES ASSUME Fields, ShapesOK, FormatInv, BudgetInv, [Next]_vars
    PROVE  BudgetInv'
  OBVIOUS
<1>1. ASSUME NEW r \in Requests, Begin(r) PROVE BudgetInv'
  BY <1>1, ProgressBudget DEF Begin
<1>2. ASSUME NEW r \in Requests, UpstreamAnswer(r) PROVE BudgetInv'
  BY <1>2 DEF UpstreamAnswer, shared, BudgetInv, Fields
<1>3. ASSUME NEW r \in Requests, Handle(r) PROVE BudgetInv'
  BY <1>3 DEF Handle, Witness, BudgetInv, Fields
<1>4. ASSUME NEW r \in Requests, Concludes(r) PROVE BudgetInv'
  <2>1. CASE Finish(r)
    <3>1. budgets' = budgets /\ history'.streak = history.streak
          /\ history'.evicted = history.evicted
      BY <2>1 DEF Finish, Record, Fields
    <3>2. QED
      BY <3>1 DEF BudgetInv
  <2>2. ASSUME NEW midTask, Deliver(r, midTask) PROVE BudgetInv'
    <3>1. shape(r) # None
      BY <2>2 DEF Deliver, FormatInv
    <3>2. QED
      BY <2>2, <3>1, DeliverBudget
  <2>3. CASE Leave(r)
    BY <2>3 DEF Leave, shared, BudgetInv
  <2>4. QED
    BY <1>4, <2>1, <2>2, <2>3 DEF Concludes
<1>5. ASSUME NEW k \in Keys, Change(k) PROVE BudgetInv'
  BY <1>5 DEF Change, shared, BudgetInv, Fields
<1>6. CASE Tick
  BY <1>6 DEF Tick, shared, BudgetInv
<1>7. CASE UNCHANGED vars
  BY <1>7 DEF vars, BudgetInv
<1>8. QED
  BY <1>1, <1>2, <1>3, <1>4, <1>5, <1>6, <1>7 DEF Next, Concludes

(* A session is continued at most max_followups times since its last tool  *)
(* work, with its requests in any order and other sessions beside it,      *)
(* unless evict_continue_guard_budgets_if_needed took its budget.          *)
THEOREM FollowUpsBoundedHolds == Spec => []FollowUpsBounded
<1> DEFINE I == Fields /\ ShapesOK /\ JustInv /\ BudgetInv
<1>1. Init => I
  BY InitFields, InitJust, InitBudget
<1>2. I /\ [Next]_vars => I'
  BY NextFields, NextTime, NextCache, NextFormat, NextBudget DEF JustInv
<1>3. I => FollowUpsBounded
  <2> SUFFICES ASSUME BudgetInv, NEW s \in Sessions, s \notin history.evicted
      PROVE  history.streak[s] <= MaxFollowups
    BY DEF FollowUpsBounded
  <2>1. history.streak[s] \in Nat /\ history.streak[s] <= Used(budgets, s)
    BY DEF BudgetInv
  <2>2. Used(budgets, s) \in Nat /\ Used(budgets, s) <= MaxFollowups
    BY Limits DEF BudgetInv, Used
  <2>3. QED
    BY <2>1, <2>2, Limits
<1>4. QED
  BY <1>1, <1>2, <1>3, PTL DEF Spec
-----------------------------------------------------------------------------
(* The rows that are newer than one are no more than the ids after its own. *)
LEMMA NewerRows ==
  ASSUME NEW table, NEW id \in Nat, NEW row \in table,
         \A n \in table : n.id \in Nat /\ n.id <= id,
         \A n, o \in table : n.id = o.id => n = o
  PROVE  LET newer == {n \in table : n.id > row.id} IN
         Cardinality(newer) \in Nat /\ Cardinality(newer) <= id - row.id
<1> DEFINE newer == {n \in table : n.id > row.id}
           ids == (row.id + 1)..id
           f == [n \in newer |-> n.id]
<1>1. row.id \in Nat /\ row.id <= id
  OBVIOUS
<1>2. IsFiniteSet(ids) /\ Cardinality(ids) = id - row.id
  <2>1. PICK m \in Int : m = row.id + 1
    BY <1>1
  <2>2. id \in Int
    OBVIOUS
  <2>3. IsFiniteSet(m..id) /\ Cardinality(m..id) = IF m > id THEN 0 ELSE id - m + 1
    BY <2>2, FS_Interval, Zenon
  <2>4. ids = m..id
    BY <2>1
  <2>5. (IF m > id THEN 0 ELSE id - m + 1) = id - row.id
    BY <1>1, <2>1
  <2>6. QED
    BY <2>3, <2>4, <2>5
<1>3. f \in Injection(newer, ids)
  <2>1. f \in [newer -> ids]
    BY <1>1
  <2>2. \A n, o \in newer : f[n] = f[o] => n = o
    OBVIOUS
  <2>3. QED
    BY <2>1, <2>2 DEF Injection, IsInjective
<1>4. IsFiniteSet(newer) /\ Cardinality(newer) <= Cardinality(ids)
  <2> HIDE DEF newer, ids, f
  <2>1. QED
    BY <1>2, <1>3, FS_Injection
<1>5. Cardinality(newer) \in Nat
  BY <1>4, FS_CardinalityType
<1>6. QED
  BY <1>2, <1>4, <1>5

(* What the retention of record_usage deletes. *)
LEMMA TrimmedRows ==
  ASSUME NEW table, NEW id \in Nat, table \subseteq [id: Nat, at: Nat, of: Requests],
         clock \in Nat, \A n \in table : n.id <= id,
         \A n, o \in table : n.id = o.id => n = o
  PROVE  /\ Trimmed(table, id) \subseteq table
         /\ \A row \in table \ Trimmed(table, id) :
              row.at < clock - Retention \/ id - row.id >= MaxEvents
<1> DEFINE young == {row \in table : row.at >= clock - Retention}
<1>1. Trimmed(table, id) \subseteq table
  BY DEF Trimmed
<1>2. ASSUME NEW row \in table, row \notin Trimmed(table, id),
             ~(row.at < clock - Retention)
      PROVE  id - row.id >= MaxEvents
  <2>1. row \in young
    BY <1>2, Limits
  <2>2. ~(Cardinality({n \in young : n.id > row.id}) < MaxEvents)
    BY <1>2, <2>1 DEF Trimmed
  <2>3. LET newer == {n \in young : n.id > row.id} IN
        Cardinality(newer) \in Nat /\ Cardinality(newer) <= id - row.id
    <3> HIDE DEF young
    <3>1. \A n \in young : n.id \in Nat /\ n.id <= id
      BY DEF young
    <3>2. \A n, o \in young : n.id = o.id => n = o
      BY DEF young
    <3>3. QED
      BY <2>1, <3>1, <3>2, NewerRows
  <2>4. id - row.id \in Int
    BY <2>1
  <2>5. QED
    BY <2>2, <2>3, <2>4, Limits
<1>3. QED
  BY <1>1, <1>2

(* No outcome yet is not that of a response handed on. *)
LEMMA NotServed == None # "served"
BY ConstantsAssumption

(* The table starts empty, and nobody was answered. *)
LEMMA InitAcc == Init /\ Fields => AccInv
<1> SUFFICES ASSUME Init, Fields PROVE AccInv
  OBVIOUS
<1>1. rows = {} /\ history.trimmed = {} /\ history.credited = {} /\ lastId = 0
  BY DEF Init
<1>2. \A r \in Requests : history.finished[r] = "no"
  BY DEF Init
<1>3. Ends({"completed", "incomplete"}) = {} /\ Delivered = {}
  BY <1>2 DEF Ends, Delivered
<1>4. \A r \in Requests : EndedAs(r)
  <2>1. ASSUME NEW r \in Requests PROVE req[r].stage = "new" /\ req[r].outcome = None
    BY DEF Init
  <2>2. QED
    BY <1>2, <2>1, NotServed DEF EndedAs
<1>5. QED
  BY <1>1, <1>3, <1>4 DEF AccInv, All

\* A step of a request that reads no end: before the end of its body, or
\* when its client leaves.
Unended(q) ==
  \/ req'[q] = req[q]
  \/ /\ req[q].stage \notin {"recorded", "done"} /\ req'[q].stage # "recorded"
     /\ req'[q].outcome = "served" => req[q].outcome = "served"
  \/ /\ req[q].stage = "recorded" /\ req'[q].stage = "done"
     /\ req'[q].outcome = "left"

(* What touches neither the table nor a request that is done. *)
LEMMA KeepsAccounts ==
  ASSUME AccInv, clock \in Nat, clock' \in Nat, clock' >= clock, scenario' = scenario,
         rows' = rows, lastId' = lastId, history'.trimmed = history.trimmed,
         history'.credited = history.credited, history'.finished = history.finished,
         \A q \in Requests : Unended(q)
  PROVE  AccInv'
<1>1. \A q \in Requests : EndedAs(q)'
  BY DEF AccInv, EndedAs, Unended, shape
<1>2. Ends({"completed", "incomplete"})' = Ends({"completed", "incomplete"})
  BY DEF Ends
<1>3. Delivered' = Delivered
  <2>1. ASSUME NEW q \in Requests, history.finished[q] = "completed"
        PROVE  req'[q].outcome = "served" <=> req[q].outcome = "served"
    BY <2>1 DEF AccInv, EndedAs, Unended
  <2>2. QED
    BY <2>1 DEF Delivered, Ends, shape
<1>4. All' = All
  BY DEF All
<1>5. \A row \in history'.trimmed :
        row.at < clock' - Retention \/ lastId' - row.id >= MaxEvents
  <2> SUFFICES ASSUME NEW row \in history.trimmed, row.at < clock - Retention
               PROVE  row.at < clock' - Retention
    BY DEF AccInv
  <2>1. row.at \in Nat
    BY DEF AccInv, All
  <2>2. QED
    BY <2>1, Limits
<1>6. QED
  BY <1>1, <1>2, <1>3, <1>4, <1>5 DEF AccInv

(* The end of a response is a new row, after which some are deleted. *)
LEMMA RecordAccounts ==
  ASSUME Fields, AccInv, clock \in Nat, UNCHANGED <<scenario, clock>>,
         NEW r \in Requests, NEW end, req[r].stage = "body", Record(r, end)
  PROVE  AccInv'
<1> DEFINE row == [id |-> lastId + 1, at |-> clock, of |-> r]
           table == rows \cup {row}
           billed == end \in {"completed", "incomplete"}
           credits == end = "completed" /\ shape(r).session # None
<1>1. lastId \in Nat /\ lastId + 1 \in Nat /\ All \subseteq [id: Nat, at: Nat, of: Requests]
  BY DEF AccInv
<1>2. history.finished[r] = "no" /\ req[r].outcome # "served"
  BY DEF AccInv, EndedAs
<1>3. \A n \in All : n.id <= lastId /\ n.of # r
  <2>1. r \notin Ends({"completed", "incomplete"})
    BY <1>2 DEF Ends
  <2>2. QED
    BY <2>1 DEF AccInv
<1>4. /\ \A q \in Requests : q # r => req'[q] = req[q]
      /\ credits => req'[r].stage = "recorded" /\ req'[r].outcome # "served"
      /\ ~credits => req'[r].stage = "done" /\ req'[r].outcome = "served"
  <2>1. CASE credits
    <3>1. req' = [req EXCEPT ![r].stage = "recorded"]
      BY <2>1 DEF Record
    <3>2. QED
      BY <1>2, <2>1, <3>1 DEF Fields
  <2>2. CASE ~credits
    <3>1. Done(r, "served")
      BY <2>2 DEF Record
    <3>2. QED
      BY <2>2, <3>1 DEF Done, Fields
  <2>3. QED
    BY <2>1, <2>2
<1>5. /\ \A q \in Requests : q # r => history'.finished[q] = history.finished[q]
      /\ history'.finished[r] = end
  BY DEF Record, Fields
<1>6. history'.credited = history.credited
  BY DEF Record, Fields
<1>7. /\ rows' = IF billed THEN Trimmed(table, lastId + 1) ELSE rows
      /\ lastId' = IF billed THEN lastId + 1 ELSE lastId
      /\ history'.trimmed = history.trimmed \cup
           (IF billed THEN table \ Trimmed(table, lastId + 1) ELSE {})
  BY DEF Record, Recorded, Fields
<1>8. /\ Ends({"completed", "incomplete"})' =
           Ends({"completed", "incomplete"}) \cup (IF billed THEN {r} ELSE {})
      /\ Delivered' = Delivered
  <2>1. shape(r)' = shape(r) /\ \A q : shape(q)' = shape(q)
    BY DEF shape
  <2>2. r \notin Delivered /\ r \notin Delivered'
    BY <1>2, <1>4, <1>5, <2>1 DEF Delivered, Ends
  <2>3. \A q \in Requests : q # r => (q \in Delivered' <=> q \in Delivered)
    BY <1>4, <1>5, <2>1 DEF Delivered, Ends
  <2>4. Delivered \subseteq Requests /\ Delivered' \subseteq Requests
    BY DEF Delivered, Ends
  <2>5. Delivered' = Delivered
    BY <2>2, <2>3, <2>4
  <2>6. QED
    BY <1>2, <1>5, <2>5 DEF Ends
<1>9. \A q \in Requests : EndedAs(q)'
  <2>1. ASSUME NEW q \in Requests, q # r PROVE EndedAs(q)'
    BY <1>4, <1>5, <2>1 DEF AccInv, EndedAs, shape
  <2>2. EndedAs(r)'
    BY <1>4, <1>5 DEF EndedAs, shape
  <2>3. QED
    BY <2>1, <2>2
<1>10. history'.credited = Delivered'
  BY <1>6, <1>8 DEF AccInv
<1>11. CASE ~billed
  <2>1. All' = All /\ lastId' = lastId /\ history'.trimmed = history.trimmed
    BY <1>7, <1>11 DEF All
  <2>2. Ends({"completed", "incomplete"})' = Ends({"completed", "incomplete"})
    BY <1>8, <1>11
  <2>3. QED
    BY <1>9, <1>10, <2>1, <2>2 DEF AccInv
<1>12. CASE billed
  <2>1. row \in [id: Nat, at: Nat, of: Requests] /\ row.id = lastId + 1 /\ row.of = r
    BY <1>1
  <2>2. table \subseteq All \cup {row}
    BY DEF All
  <2>3. \A n \in All \cup {row} : n.id \in Nat /\ n.id <= lastId + 1
    BY <1>1, <1>3, <2>1
  <2>4. \A n, o \in All \cup {row} : n.id = o.id => n = o
    BY <1>1, <1>3, <2>1 DEF AccInv
  <2>5. \A n, o \in All \cup {row} : n.of = o.of => n = o
    BY <1>3, <2>1 DEF AccInv
  <2>6. /\ Trimmed(table, lastId + 1) \subseteq table
        /\ \A n \in table \ Trimmed(table, lastId + 1) :
             n.at < clock - Retention \/ (lastId + 1) - n.id >= MaxEvents
    <3> HIDE DEF row, table
    <3>1. table \subseteq [id: Nat, at: Nat, of: Requests]
      BY <1>1, <2>1, <2>2
    <3>2. \A n \in table : n.id <= lastId + 1
      BY <2>2, <2>3
    <3>3. \A n, o \in table : n.id = o.id => n = o
      BY <2>2, <2>4
    <3>4. QED
      BY <1>1, <3>1, <3>2, <3>3, TrimmedRows
  <2>7. All' = All \cup {row}
    <3> HIDE DEF row
    <3>1. QED
      BY <1>7, <1>12, <2>6 DEF All
  <2>8. \A n \in history'.trimmed :
          n.at < clock - Retention \/ lastId' - n.id >= MaxEvents
    <3>1. ASSUME NEW n \in history.trimmed
          PROVE  n.at < clock - Retention \/ (lastId + 1) - n.id >= MaxEvents
      <4>1. n.id \in Nat /\ (n.at < clock - Retention \/ lastId - n.id >= MaxEvents)
        BY <1>1, <3>1 DEF AccInv, All
      <4>2. QED
        BY <1>1, <4>1, Limits
    <3>2. QED
      BY <1>7, <1>12, <2>6, <3>1
  <2>9. {n.of : n \in All \cup {row}} = Ends({"completed", "incomplete"})'
    BY <1>8, <1>12, <2>1 DEF AccInv
  <2>10. QED
    <3> HIDE DEF row, table
    <3>1. lastId' = lastId + 1
      BY <1>7, <1>12
    <3>2. All' \subseteq [id: Nat, at: Nat, of: Requests]
      BY <1>1, <2>1, <2>7
    <3>3. QED
      BY <1>1, <1>9, <1>10, <2>3, <2>4, <2>5, <2>7, <2>8, <2>9, <3>1, <3>2 DEF AccInv
<1>13. QED
  BY <1>11, <1>12

(* The credit is of the response that the client gets. *)
LEMMA DeliverAccounts ==
  ASSUME Fields, AccInv, NEW r \in Requests, NEW midTask, Deliver(r, midTask)
  PROVE  AccInv'
<1>1. /\ req[r].stage = "recorded" /\ UNCHANGED <<scenario, clock, rows, lastId>>
      /\ \A q \in Requests : q # r => req'[q] = req[q]
      /\ req'[r].stage = "done" /\ req'[r].outcome = "served"
  BY DEF Deliver, Fields
<1>2. /\ history'.finished = history.finished /\ history'.trimmed = history.trimmed
      /\ history'.credited = history.credited \cup {r}
  BY DEF Deliver, Fields
<1>3. history.finished[r] = "completed" /\ shape(r).session # None
  BY <1>1 DEF AccInv, EndedAs
<1>4. Delivered' = Delivered \cup {r}
  <2>1. \A q : shape(q)' = shape(q)
    BY <1>1 DEF shape
  <2>2. r \in Delivered'
    BY <1>1, <1>2, <1>3, <2>1 DEF Delivered, Ends
  <2>3. \A q \in Requests : q # r => (q \in Delivered' <=> q \in Delivered)
    BY <1>1, <1>2, <2>1 DEF Delivered, Ends
  <2>4. Delivered \subseteq Requests /\ Delivered' \subseteq Requests
    BY DEF Delivered, Ends
  <2>5. QED
    BY <2>2, <2>3, <2>4
<1>5. \A q \in Requests : EndedAs(q)'
  <2>1. ASSUME NEW q \in Requests, q # r PROVE EndedAs(q)'
    BY <1>1, <1>2, <2>1 DEF AccInv, EndedAs, shape
  <2>2. EndedAs(r)'
    BY <1>1, <1>2, <1>3 DEF EndedAs
  <2>3. QED
    BY <2>1, <2>2
<1>6. All' = All /\ Ends({"completed", "incomplete"})' = Ends({"completed", "incomplete"})
  BY <1>1, <1>2 DEF All, Ends
<1>7. QED
  BY <1>1, <1>2, <1>4, <1>5, <1>6 DEF AccInv

(* Only the end of a body touches the table. *)
LEMMA NextAcc == Fields /\ ShapesOK /\ TimeInv /\ AccInv /\ [Next]_vars => AccInv'
<1> SUFFICES ASSUME Fields, TimeInv, AccInv, [Next]_vars PROVE AccInv'
  OBVIOUS
<1>0. clock \in Nat
  BY DEF TimeInv
<1>1. ASSUME NEW r \in Requests, Begin(r) PROVE AccInv'
  <2>1. UNCHANGED <<scenario, clock, rows, lastId>>
    BY <1>1 DEF Begin
  <2>2. /\ history'.trimmed = history.trimmed /\ history'.credited = history.credited
        /\ history'.finished = history.finished
    BY <1>1 DEF Begin, Progress, Fields
  <2>3. \A q \in Requests : Unended(q)
    BY <1>1, BeginEffect DEF Unended
  <2>4. QED
    BY <1>0, <2>1, <2>2, <2>3, KeepsAccounts
<1>2. ASSUME NEW r \in Requests, UpstreamAnswer(r) PROVE AccInv'
  <2>1. /\ UNCHANGED <<scenario, clock, rows, lastId>>
        /\ req[r].stage = "sent" /\ \A q \in Requests : q # r => req'[q] = req[q]
        /\ req'[r].stage = "answered" /\ req'[r].outcome = req[r].outcome
    BY <1>2 DEF UpstreamAnswer, shared, Fields
  <2>2. /\ history'.trimmed = history.trimmed /\ history'.credited = history.credited
        /\ history'.finished = history.finished
    BY <1>2 DEF UpstreamAnswer, Fields
  <2>3. \A q \in Requests : Unended(q)
    BY <2>1 DEF Unended
  <2>4. QED
    BY <1>0, <2>1, <2>2, <2>3, KeepsAccounts
<1>3. ASSUME NEW r \in Requests, Handle(r) PROVE AccInv'
  <2>1. UNCHANGED <<scenario, clock, rows, lastId>>
    BY <1>3 DEF Handle
  <2>2. /\ history'.trimmed = history.trimmed /\ history'.credited = history.credited
        /\ history'.finished = history.finished
    BY <1>3 DEF Handle, Witness, Fields
  <2>3. \A q \in Requests : Unended(q)
    BY <1>3, HandleEffect DEF Unended
  <2>4. QED
    BY <1>0, <2>1, <2>2, <2>3, KeepsAccounts
<1>4. ASSUME NEW r \in Requests, Finish(r) PROVE AccInv'
  <2>1. req[r].stage = "body" /\ UNCHANGED <<scenario, clock>>
    BY <1>4 DEF Finish
  <2>2. ASSUME NEW end, Record(r, end) PROVE AccInv'
    BY <1>0, <2>1, <2>2, RecordAccounts
  <2>3. CASE Done(r, "bad_gateway") /\ UNCHANGED <<rows, lastId, history>>
    <3>1. /\ \A q \in Requests : q # r => req'[q] = req[q]
          /\ req'[r].stage = "done" /\ req'[r].outcome = "bad_gateway"
      BY <2>3 DEF Done, Fields
    <3>2. \A q \in Requests : Unended(q)
      BY <2>1, <3>1 DEF Unended
    <3>3. QED
      BY <1>0, <2>1, <2>3, <3>2, KeepsAccounts
  <2>4. QED
    BY <1>4, <2>2, <2>3 DEF Finish
<1>5. ASSUME NEW r \in Requests, NEW midTask, Deliver(r, midTask) PROVE AccInv'
  BY <1>5, DeliverAccounts
<1>6. ASSUME NEW r \in Requests, Leave(r) PROVE AccInv'
  <2>1. /\ UNCHANGED <<scenario, clock, rows, lastId, history>>
        /\ req[r].stage \in {"answered", "body", "recorded"}
        /\ \A q \in Requests : q # r => req'[q] = req[q]
        /\ req'[r].stage = "done" /\ req'[r].outcome = "left"
    BY <1>6 DEF Leave, Done, shared, Fields
  <2>2. \A q \in Requests : Unended(q)
    BY <2>1 DEF Unended
  <2>3. QED
    BY <1>0, <2>1, <2>2, KeepsAccounts
<1>7. ASSUME NEW k \in Keys, Change(k) PROVE AccInv'
  <2>1. UNCHANGED <<scenario, clock, rows, lastId, req>>
    BY <1>7 DEF Change, shared
  <2>2. /\ history'.trimmed = history.trimmed /\ history'.credited = history.credited
        /\ history'.finished = history.finished
    BY <1>7 DEF Change, Fields
  <2>3. QED
    BY <1>0, <2>1, <2>2, KeepsAccounts DEF Unended
<1>8. CASE Tick
  <2>1. /\ clock' = clock + 1 /\ UNCHANGED <<scenario, rows, lastId, req, history>>
    BY <1>8 DEF Tick, shared
  <2>2. QED
    BY <1>0, <2>1, KeepsAccounts DEF Unended
<1>9. CASE UNCHANGED vars
  <2>1. UNCHANGED <<scenario, clock, rows, lastId, req, history>>
    BY <1>9 DEF vars
  <2>2. QED
    BY <1>0, <2>1, KeepsAccounts DEF Unended
<1>10. QED
  BY <1>1, <1>2, <1>3, <1>4, <1>5, <1>6, <1>7, <1>8, <1>9 DEF Next

(* Each response whose end the proxy read, and no other, has its row, also *)
(* when the client leaves before it is credited; only those handed on are  *)
(* credited; and the retention of record_usage deletes only rows that are  *)
(* too old or beyond the newest MaxEvents, whatever Batch, MaxEvents and   *)
(* Retention are.                                                          *)
THEOREM AccountedHolds == Spec => []Accounted
<1> DEFINE I == Fields /\ ShapesOK /\ TimeInv /\ AccInv
<1>1. Init => I
  BY InitFields, InitJust, InitAcc DEF JustInv
<1>2. I /\ [Next]_vars => I'
  BY NextFields, NextTime, NextAcc
<1>3. I => Accounted
  <2> SUFFICES ASSUME AccInv PROVE Accounted
    OBVIOUS
  <2>1. ASSUME NEW row \in All
        PROVE  \/ req[row.of].outcome = "served"
               \/ /\ history.finished[row.of] = "completed" /\ shape(row.of).session # None
                  /\ req[row.of].stage = "recorded" \/ req[row.of].outcome = "left"
    <3>1. row.of \in Ends({"completed", "incomplete"})
      BY DEF AccInv
    <3>2. QED
      BY <3>1 DEF AccInv, Ends, EndedAs
  <2>2. QED
    BY <2>1 DEF AccInv, All, Ends, Delivered, Accounted
<1>4. QED
  BY <1>1, <1>2, <1>3, PTL DEF Spec
-----------------------------------------------------------------------------
(* What is sent is messages: every step of the pass keeps the types. *)

ChatState ==
  [messages: Seq(MessageType), reasoning: Seq(Int), pending: MessageType,
   outstanding: SUBSET Int, deferred: Seq(MessageType)]
NativeState ==
  [output: Seq(ItemType), pending: Seq(ItemType), outstanding: SUBSET Int,
   deferred: Seq(ItemType)]

LEMMA Nothing ==
  <<>> \in Seq(Int) /\ <<>> \in Seq(MessageType) /\ <<>> \in Seq(ItemType)
OBVIOUS

LEMMA NoCallsType == NoCalls \in MessageType /\ NoCalls.ids = <<>>
BY DEF NoCalls, Message, MessageType, Roles

(* A step of the chat pass keeps the types. *)
LEMMA ItemMessagesType ==
  ASSUME NEW item \in ItemType, NEW prior \in Seq(Int)
  PROVE  ItemMessages(item, prior) \in Seq(MessageType)
<1>1. item.id \in Int /\ <<item.id>> \in Seq(Int) /\ <<>> \in Seq(Int)
  BY DEF ItemType
<1>2. /\ Message("assistant", <<item.id>>, prior) \in MessageType
      /\ Message("user", <<item.id>>, <<>>) \in MessageType
      /\ Message("tool", <<item.id>>, <<>>) \in MessageType
  BY <1>1 DEF Message, MessageType, Roles
<1>3. QED
  BY <1>2 DEF ItemMessages

LEMMA WithoutReasoningType ==
  ASSUME NEW messages \in Seq(MessageType), messages # <<>>, NEW blank
  PROVE  WithoutReasoning(messages, blank) \in Seq(MessageType)
<1>1. Front(messages) \in Seq(MessageType) /\ Last(messages) \in MessageType
  BY DEF Front, Last
<1>2. [Last(messages) EXCEPT !.reasoning = <<>>] \in MessageType
  BY <1>1, Nothing DEF MessageType
<1>3. QED
  BY <1>1, <1>2 DEF WithoutReasoning

LEMMA FlushedType ==
  ASSUME NEW c \in ChatState
  PROVE  Flushed(c) \in ChatState
<1>1. /\ c.messages \in Seq(MessageType) /\ c.pending \in MessageType
      /\ c.outstanding \in SUBSET Int
  BY DEF ChatState
<1>2. ToSet(c.pending.ids) \in SUBSET Int
  BY <1>1 DEF MessageType, ToSet
<1>3. Append(c.messages, c.pending) \in Seq(MessageType)
  BY <1>1
<1>4. QED
  BY <1>1, <1>2, <1>3, NoCallsType DEF Flushed, ChatState

LEMMA ChatStepType ==
  ASSUME NEW c \in ChatState, NEW item \in ItemType, NEW preserve, NEW blank
  PROVE  ChatStep(c, item, preserve, blank) \in ChatState
<1>1. /\ c.messages \in Seq(MessageType) /\ c.reasoning \in Seq(Int)
      /\ c.pending \in MessageType /\ c.outstanding \in SUBSET Int
      /\ c.deferred \in Seq(MessageType) /\ item.id \in Int
  BY DEF ChatState, ItemType
<1>2. CallStep(c, item, preserve, blank) \in ChatState
  <2>1. PICK takes \in BOOLEAN : takes = (preserve /\ TakesReasoning(c))
    OBVIOUS
  <2>2. PICK reasoning : reasoning = IF takes THEN Last(c.messages).reasoning ELSE c.reasoning
    OBVIOUS
  <2>3. PICK messages : messages = IF takes THEN WithoutReasoning(c.messages, blank) ELSE c.messages
    OBVIOUS
  <2>4. takes => c.messages # <<>>
    BY <2>1 DEF TakesReasoning
  <2>5. reasoning \in Seq(Int)
    <3>1. CASE takes
      <4>1. Last(c.messages) \in MessageType
        BY <1>1, <2>4, <3>1 DEF Last
      <4>2. QED
        BY <2>2, <3>1, <4>1 DEF MessageType
    <3>2. CASE ~takes
      BY <1>1, <2>2, <3>2
    <3>3. QED
      BY <3>1, <3>2
  <2>6. messages \in Seq(MessageType)
    BY <1>1, <2>3, <2>4, WithoutReasoningType
  <2>7. Merged(c.pending, item.id, reasoning) \in MessageType
    <3>1. Append(c.pending.ids, item.id) \in Seq(Int) /\ c.pending.reasoning \o reasoning \in Seq(Int)
      BY <1>1, <2>5 DEF MessageType
    <3>2. QED
      BY <1>1, <3>1 DEF Merged, MessageType
  <2>8. CallStep(c, item, preserve, blank)
          = [c EXCEPT !.messages = messages, !.reasoning = <<>>,
                      !.pending = Merged(c.pending, item.id, reasoning)]
    BY <2>1, <2>2, <2>3 DEF CallStep
  <2>9. QED
    BY <2>6, <2>7, <2>8, Nothing DEF ChatState
<1>3. OtherStep(c, item) \in ChatState
  <2>1. PICK f \in ChatState : f = Flushed(c)
    BY FlushedType
  <2>2. PICK left : left = IF item.kind = "output" THEN f.outstanding \ {item.id} ELSE f.outstanding
    OBVIOUS
  <2>3. PICK due : due = IF left = {} THEN f.deferred ELSE <<>>
    OBVIOUS
  <2>4. left \in SUBSET Int /\ due \in Seq(MessageType) /\ f.messages \in Seq(MessageType)
    BY <2>1, <2>2, <2>3 DEF ChatState
  <2>5. f.messages \o ItemMessages(item, c.reasoning) \o due \in Seq(MessageType)
    BY <1>1, <2>4, ItemMessagesType
  <2>6. Retained(item, c.reasoning) \in Seq(Int)
    BY <1>1 DEF Retained
  <2>7. OtherStep(c, item)
          = [f EXCEPT !.messages = f.messages \o ItemMessages(item, c.reasoning) \o due,
                      !.reasoning = Retained(item, c.reasoning), !.outstanding = left,
                      !.deferred = IF left = {} THEN <<>> ELSE @]
    BY <2>1, <2>2, <2>3 DEF OtherStep
  <2>8. QED
    BY <2>1, <2>4, <2>5, <2>6, <2>7, Nothing DEF ChatState
<1>4. [c EXCEPT !.reasoning = Append(@, item.id)] \in ChatState
  <2>1. Append(c.reasoning, item.id) \in Seq(Int)
    BY <1>1
  <2>2. QED
    BY <2>1 DEF ChatState
<1>5. [c EXCEPT !.deferred = @ \o ItemMessages(item, <<>>), !.reasoning = <<>>] \in ChatState
  <2>1. ItemMessages(item, <<>>) \in Seq(MessageType)
    BY ItemMessagesType, Nothing
  <2>2. c.deferred \o ItemMessages(item, <<>>) \in Seq(MessageType)
    BY <1>1, <2>1
  <2>3. QED
    BY <2>2, Nothing DEF ChatState
<1>6. QED
  BY <1>2, <1>3, <1>4, <1>5 DEF ChatStep

(* The pass, item by item. *)
Started ==
  [messages |-> <<>>, reasoning |-> <<>>, pending |-> NoCalls, outstanding |-> {},
   deferred |-> <<>>]
ChatRun(g, n, input, preserve) ==
  /\ g[0] = Started
  /\ \A i \in 1..n : g[i] = ChatStep(g[i - 1], input[i], preserve, Blank(input))
  /\ ChatPass(input, preserve) = g[n]
LEMMA ChatPassUnfold ==
  ASSUME NEW input \in Seq(ItemType), NEW preserve, NEW n \in Nat, n = Len(input)
  PROVE  \E g \in [0..n -> ChatState] : ChatRun(g, n, input, preserve)
<1>1. PICK base \in ChatState : base = Started
  BY NoCallsType, Nothing DEF Started, ChatState
<1>2. \A i \in 1..n : input[i] \in ItemType
  OBVIOUS
<1>3. PICK blank : blank = Blank(input)
  OBVIOUS
<1> DEFINE F == [i \in 1..n |-> [b \in ChatState |-> ChatStep(b, input[i], preserve, blank)]]
<1>4. F \in [1..n -> [ChatState -> ChatState]]
  BY <1>2, ChatStepType
<1>5. \A i \in 1..n : \A b \in ChatState : F[i][b] = ChatStep(b, input[i], preserve, blank)
  OBVIOUS
<1> HIDE DEF F
<1>6. PICK f : Recurs(f, n, ChatState, base, F)
  BY <1>4, RecursionExists
<1>7. f \in [0..n -> ChatState] /\ f[0] = base /\ \A i \in 1..n : f[i] = F[i][f[i - 1]]
  BY <1>6 DEF Recurs
<1>8. ASSUME NEW i \in 1..n PROVE f[i] = ChatStep(f[i - 1], input[i], preserve, blank)
  <2>1. i - 1 \in 0..n /\ f[i - 1] \in ChatState
    BY <1>7
  <2>2. QED
    BY <1>5, <1>7, <2>1
<1> DEFINE B(g) == [i \in 0..n |-> IF i = 0 THEN base
                                   ELSE ChatStep(g[i - 1], input[i], preserve, blank)]
           after == CHOOSE g : g = B(g)
<1>9. f = B(f)
  <2>1. \A i \in 0..n : f[i] = IF i = 0 THEN base ELSE ChatStep(f[i - 1], input[i], preserve, blank)
    BY <1>7, <1>8
  <2>2. f = [i \in 0..n |-> f[i]]
    BY <1>7
  <2>3. QED
    BY <2>1, <2>2
<1>10. after = B(after)
  <2> HIDE DEF B
  <2>1. QED
    BY <1>9
<1>11. ChatPass(input, preserve) = after[n]
  BY <1>1, <1>3 DEF ChatPass, Started
<1> HIDE DEF after
<1>12. \A i \in 0..n : after[i] = IF i = 0 THEN base ELSE ChatStep(after[i - 1], input[i], preserve, blank)
  BY <1>10
<1> DEFINE T == {i \in 0..n : after[i] = f[i]}
<1>13. 0 \in T
  BY <1>7, <1>12
<1>14. ASSUME NEW i \in 0..n, i \in T, i < n PROVE i + 1 \in T
  <2>1. i + 1 \in 1..n /\ i + 1 \in 0..n /\ (i + 1) - 1 = i /\ i + 1 # 0
    BY <1>14
  <2>2. after[i + 1] = ChatStep(after[i], input[i + 1], preserve, blank)
    BY <1>12, <2>1
  <2>3. f[i + 1] = ChatStep(f[i], input[i + 1], preserve, blank)
    BY <1>8, <2>1
  <2>4. QED
    BY <1>14, <2>1, <2>2, <2>3
<1>15. n \in T
  <2> HIDE DEF T
  <2>1. \A i \in 0..n : i \in T
    BY <1>13, <1>14, Induction
  <2>2. QED
    BY <2>1
<1>16. ChatRun(f, n, input, preserve)
  BY <1>1, <1>3, <1>7, <1>8, <1>11, <1>15 DEF ChatRun
<1>17. QED
  BY <1>7, <1>16

LEMMA ChatMessagesType ==
  ASSUME NEW input \in Seq(ItemType), NEW preserve
  PROVE  ChatMessages(input, preserve) \in Seq(MessageType)
<1>1. PICK n \in Nat : n = Len(input)
  OBVIOUS
<1>2. PICK c \in ChatState : c = ChatPass(input, preserve)
  BY <1>1, ChatPassUnfold DEF ChatRun
<1>3. /\ c.messages \in Seq(MessageType) /\ c.deferred \in Seq(MessageType)
      /\ c.pending \in MessageType
  BY DEF ChatState
<1>4. PICK calls \in Seq(MessageType) : calls = IF c.pending = NoCalls THEN <<>> ELSE <<c.pending>>
  <2>1. <<c.pending>> \in Seq(MessageType)
    BY <1>3
  <2>2. QED
    BY <2>1, Nothing
<1>5. PICK all \in Seq(MessageType) : all = c.messages \o c.deferred \o calls
  <2>1. c.messages \o c.deferred \o calls \in Seq(MessageType)
    BY <1>3
  <2>2. QED
    BY <2>1
<1>6. <<Message("user", <<>>, <<>>)>> \in Seq(MessageType)
  BY DEF Message, MessageType, Roles
<1>7. QED
  BY <1>2, <1>4, <1>5, <1>6 DEF ChatMessages
-----------------------------------------------------------------------------
(* The limits hold: the newest rows, the entries of the cache, the budgets *)

Bounds == Batch \in Nat /\ Batch > 0 /\ MaxEvents \in Nat /\ MaxEntries \in Nat /\ MaxBudgets \in Nat

LEMMA BoundsHold == Bounds
BY ConstantsAssumption DEF Bounds

(* Rows with fewer than limit newer ones are at most limit. *)
LEMMA NewestRows ==
  ASSUME NEW young, NEW limit \in Nat, IsFiniteSet(young), \A n \in young : n.id \in Nat,
         \A n, o \in young : n.id = o.id => n = o
  PROVE  LET newest == {row \in young : Cardinality({n \in young : n.id > row.id}) < limit}
         IN IsFiniteSet(newest) /\ Cardinality(newest) <= limit
<1> DEFINE newer(row) == {n \in young : n.id > row.id}
           newest == {row \in young : Cardinality(newer(row)) < limit}
           rank == [row \in newest |-> Cardinality(newer(row))]
<1>1. \A row \in young : IsFiniteSet(newer(row)) /\ Cardinality(newer(row)) \in Nat
  <2> SUFFICES ASSUME NEW row \in young
      PROVE  IsFiniteSet(newer(row)) /\ Cardinality(newer(row)) \in Nat
    OBVIOUS
  <2>1. newer(row) \in SUBSET young
    OBVIOUS
  <2> HIDE DEF newer
  <2>2. QED
    BY <2>1, FS_Subset, FS_CardinalityType
<1>2. ASSUME NEW a \in young, NEW b \in young, a.id < b.id
      PROVE  Cardinality(newer(b)) < Cardinality(newer(a))
  <2>1. newer(b) \in SUBSET newer(a) /\ b \in newer(a) /\ b \notin newer(b)
    BY <1>2
  <2> HIDE DEF newer
  <2>2. Cardinality(newer(b)) <= Cardinality(newer(a)) /\ Cardinality(newer(b)) # Cardinality(newer(a))
    BY <1>1, <2>1, FS_Subset
  <2>3. QED
    BY <1>1, <2>2
<1>3. rank \in Injection(newest, 0..(limit - 1))
  <2>1. rank \in [newest -> 0..(limit - 1)]
    <3> HIDE DEF newer
    <3>1. QED
      BY <1>1
  <2>2. ASSUME NEW a \in newest, NEW b \in newest, rank[a] = rank[b] PROVE a = b
    <3>1. Cardinality(newer(a)) = Cardinality(newer(b)) /\ a \in young /\ b \in young
      BY <2>2
    <3> HIDE DEF newer, newest
    <3>2. ~(a.id < b.id) /\ ~(b.id < a.id)
      BY <1>1, <1>2, <3>1
    <3>3. QED
      BY <3>1, <3>2
  <2> HIDE DEF rank, newest
  <2>3. QED
    BY <2>1, <2>2 DEF Injection, IsInjective
<1>4. IsFiniteSet(0..(limit - 1)) /\ Cardinality(0..(limit - 1)) = limit
  <2>1. PICK m \in Int : m = limit - 1
    OBVIOUS
  <2>2. IsFiniteSet(0..m) /\ Cardinality(0..m) = IF 0 > m THEN 0 ELSE m - 0 + 1
    BY FS_Interval
  <2>3. QED
    BY <2>1, <2>2
<1>5. QED
  <2> HIDE DEF rank, newest
  <2>1. IsFiniteSet(newest) /\ Cardinality(newest) <= limit
    BY <1>3, <1>4, FS_Injection
  <2>2. QED
    BY <2>1 DEF newest

\* The rows since the last retention are counted by the ids since then.
RowsInv ==
  /\ IsFiniteSet(rows)
  /\ \A row \in rows : row.id \in 1..lastId /\ row.of \in Requests
  /\ \E q \in Nat, d \in 0..(Batch - 1) :
       lastId = Batch * q + d /\ Cardinality(rows) <= MaxEvents + d

LEMMA Divides ==
  ASSUME NEW id \in Nat, NEW q \in Nat, Bounds, id = Batch * q
  PROVE  id % Batch = 0
BY DEF Bounds

(* record_usage: each Batch-th row is followed by the retention. *)
LEMMA RecordedRows ==
  ASSUME AccInv, RowsInv, clock \in Nat, NEW r \in Requests,
         rows' = Recorded(r), lastId' = lastId + 1
  PROVE  RowsInv'
<1> DEFINE row == [id |-> lastId + 1, at |-> clock, of |-> r]
<1>1. PICK id \in Nat : id = lastId + 1 /\ lastId \in Nat
  BY DEF AccInv
<1>2. PICK table : table = rows \cup {row}
  OBVIOUS
<1>3. rows' = Trimmed(table, id) /\ row.id = id /\ row.of = r
  BY <1>1, <1>2 DEF Recorded
<1>4. /\ \A n \in table : n.id \in 1..id /\ n.id \in Nat /\ n.of \in Requests
      /\ \A n, o \in table : n.id = o.id => n = o
  <2>1. \A n \in rows : n.id \in 1..lastId /\ n.of \in Requests
    BY DEF RowsInv
  <2>2. \A n, o \in rows : n.id = o.id => n = o
    BY DEF AccInv, All
  <2>3. row.id = lastId + 1 /\ row.of = r
    OBVIOUS
  <2> HIDE DEF row
  <2>4. QED
    BY <1>1, <1>2, <2>1, <2>2, <2>3
<1>5. IsFiniteSet(table) /\ Cardinality(table) <= Cardinality(rows) + 1
      /\ Cardinality(rows) \in Nat
  <2> HIDE DEF row
  <2>1. IsFiniteSet(rows)
    BY DEF RowsInv
  <2>2. PICK x : table = rows \cup {x}
    BY <1>2
  <2>3. /\ IsFiniteSet(table)
        /\ Cardinality(table) = IF x \in rows THEN Cardinality(rows) ELSE Cardinality(rows) + 1
    BY <2>1, <2>2, FS_AddElement
  <2>4. QED
    BY <2>1, <2>3, FS_CardinalityType
<1>6. Trimmed(table, id) \in SUBSET table
  BY DEF Trimmed
<1>7. IsFiniteSet(rows') /\ Cardinality(rows') \in Nat /\ Cardinality(table) \in Nat
      /\ Cardinality(rows') <= Cardinality(table)
  BY <1>3, <1>5, <1>6, FS_Subset, FS_CardinalityType
<1>8. \A n \in rows' : n.id \in 1..lastId' /\ n.of \in Requests
  BY <1>1, <1>3, <1>4, <1>6
<1>9. PICK q \in Nat, d \in 0..(Batch - 1) :
        lastId = Batch * q + d /\ Cardinality(rows) <= MaxEvents + d
  BY DEF RowsInv
<1>10. id % Batch = 0 => Cardinality(rows') <= MaxEvents
  <2> SUFFICES ASSUME id % Batch = 0 PROVE Cardinality(rows') <= MaxEvents
    OBVIOUS
  <2>1. PICK young : young = {n \in table : n.at >= clock - Retention}
    OBVIOUS
  <2>2. rows' = {n \in young : Cardinality({o \in young : o.id > n.id}) < MaxEvents}
    BY <1>3, <2>1 DEF Trimmed
  <2>3. young \in SUBSET table
    BY <2>1
  <2>4. IsFiniteSet(young)
    BY <1>5, <2>3, FS_Subset
  <2>5. MaxEvents \in Nat
    BY BoundsHold DEF Bounds
  <2>6. QED
    BY <1>4, <2>2, <2>3, <2>4, <2>5, NewestRows
<1>11. CASE d = Batch - 1
  <2>1. id = Batch * (q + 1) /\ q + 1 \in Nat
    BY <1>1, <1>9, <1>11, BoundsHold DEF Bounds
  <2>2. id % Batch = 0
    BY <2>1, BoundsHold, Divides
  <2>3. lastId' = Batch * (q + 1) + 0 /\ 0 \in 0..(Batch - 1) /\ Cardinality(rows') <= MaxEvents + 0
    BY <1>1, <1>10, <2>1, <2>2, BoundsHold DEF Bounds
  <2>4. QED
    BY <1>7, <1>8, <2>1, <2>3 DEF RowsInv
<1>12. CASE d # Batch - 1
  <2>1. /\ lastId' = Batch * q + (d + 1) /\ d + 1 \in 0..(Batch - 1)
        /\ Cardinality(rows') <= MaxEvents + (d + 1)
    <3>1. Batch * q \in Int
      BY BoundsHold DEF Bounds
    <3>2. QED
      BY <1>5, <1>7, <1>9, <1>12, <3>1, BoundsHold DEF Bounds
  <2>2. QED
    BY <1>7, <1>8, <2>1 DEF RowsInv
<1>13. QED
  BY <1>11, <1>12

LEMMA RowsInvMeans ==
  ASSUME RowsInv
  PROVE  /\ Cardinality(rows) < MaxEvents + Batch
         /\ \A row \in rows : row.id \in 1..lastId /\ row.of \in Requests
<1>1. Cardinality(rows) \in Nat
  BY FS_CardinalityType DEF RowsInv
<1>2. PICK d \in 0..(Batch - 1) : Cardinality(rows) <= MaxEvents + d
  BY DEF RowsInv
<1>3. QED
  BY <1>1, <1>2, BoundsHold DEF RowsInv, Bounds

-----------------------------------------------------------------------------
CacheOK ==
  /\ DOMAIN cache \subseteq Keys /\ IsFiniteSet(DOMAIN cache)
  /\ Cardinality(DOMAIN cache) <= MaxEntries
  /\ \A k \in DOMAIN cache : cache[k].can \in {"schema", "object", "none"}

(* What is dropped makes room. *)
LEMMA LookedUpOK ==
  ASSUME CacheOK, NEW k, cache' = LookedUp(k)
  PROVE  CacheOK'
<1>1. PICK kept : kept = {j \in DOMAIN cache : cache[j].until > clock}
  OBVIOUS
<1>2. DOMAIN cache' = kept /\ \A j \in kept : cache'[j] = cache[j]
  BY <1>1 DEF LookedUp, Fresh, Restrict
<1>3. kept \in SUBSET DOMAIN cache
  BY <1>1
<1>4. IsFiniteSet(kept) /\ Cardinality(kept) <= Cardinality(DOMAIN cache)
      /\ Cardinality(kept) \in Nat /\ Cardinality(DOMAIN cache) \in Nat
  BY <1>3, FS_Subset, FS_CardinalityType DEF CacheOK
<1>5. QED
  BY <1>2, <1>3, <1>4, BoundsHold DEF CacheOK, Bounds

(* evict_if_over_cap: one entry goes, and one came. *)
LEMMA RememberedOK ==
  ASSUME CacheOK, NEW k \in Keys, NEW can \in {"schema", "object", "none"},
         cache' \in Remembered(cache, k, can)
  PROVE  CacheOK'
<1>1. PICK kept : kept = {j \in DOMAIN cache : cache[j].until > clock}
  OBVIOUS
<1>2. DOMAIN Fresh(cache) = kept
  BY <1>1 DEF Fresh, Restrict
<1>3. PICK c : c = [j \in kept \cup {k} |-> IF j = k THEN [can |-> can, until |-> clock + TTL]
                                            ELSE cache[j]]
  OBVIOUS
<1>4. cache' \in WithinCap(c)
  BY <1>2, <1>3 DEF Remembered
<1>5. kept \in SUBSET DOMAIN cache
  BY <1>1
<1>6. IsFiniteSet(kept) /\ Cardinality(kept) <= Cardinality(DOMAIN cache)
      /\ Cardinality(kept) \in Nat /\ Cardinality(DOMAIN cache) \in Nat
  BY <1>5, FS_Subset, FS_CardinalityType DEF CacheOK
<1>7. PICK keys : keys = kept \cup {k}
  OBVIOUS
<1>8. IsFiniteSet(keys) /\ Cardinality(keys) <= MaxEntries + 1 /\ Cardinality(keys) \in Nat
  <2>1. IsFiniteSet(keys)
        /\ Cardinality(keys) = IF k \in kept THEN Cardinality(kept) ELSE Cardinality(kept) + 1
    BY <1>6, <1>7, FS_AddElement
  <2>2. QED
    BY <1>6, <2>1, BoundsHold DEF CacheOK, Bounds
<1>9. keys \subseteq Keys /\ DOMAIN c = keys
      /\ \A j \in keys : c[j].can \in {"schema", "object", "none"}
  BY <1>3, <1>5, <1>7 DEF CacheOK
<1>10. CASE Cardinality(keys) <= MaxEntries
  <2>1. cache' = c
    BY <1>4, <1>9, <1>10 DEF WithinCap
  <2>2. QED
    BY <1>8, <1>9, <1>10, <2>1 DEF CacheOK
<1>11. CASE ~(Cardinality(keys) <= MaxEntries)
  <2>1. PICK j \in keys : cache' = Restrict(c, keys \ {j})
    BY <1>4, <1>9, <1>11 DEF WithinCap
  <2>2. PICK left : left = keys \ {j}
    OBVIOUS
  <2>3. DOMAIN cache' = left /\ \A i \in left : cache'[i] = c[i]
    BY <2>1, <2>2 DEF Restrict
  <2>4. IsFiniteSet(left) /\ Cardinality(left) = Cardinality(keys) - 1
    BY <1>8, <2>2, FS_RemoveElement
  <2>5. left \subseteq keys
    BY <2>2
  <2>6. QED
    BY <1>8, <1>9, <2>3, <2>4, <2>5, BoundsHold DEF CacheOK, Bounds
<1>12. QED
  BY <1>10, <1>11

-----------------------------------------------------------------------------
BudgetsOK ==
  DOMAIN budgets \subseteq Sessions /\ Cardinality(DOMAIN budgets) <= MaxBudgets + 1

LEMMA SessionsFinite ==
  ASSUME NEW S, S \subseteq Sessions
  PROVE  IsFiniteSet(S) /\ Cardinality(S) \in Nat /\ S \subseteq Nat
<1>1. PICK m \in Int : m = NumSessions
  BY Limits
<1>2. IsFiniteSet(1..m)
  BY FS_Interval
<1>3. S \in SUBSET (1..m) /\ 1..m \subseteq Nat
  BY <1>1 DEF Sessions
<1>4. IsFiniteSet(S)
  BY <1>2, <1>3, FS_Subset
<1>5. QED
  BY <1>3, <1>4, FS_CardinalityType

(* evict_continue_guard_budgets_if_needed: at least the first one goes. *)
LEMMA MakesRoom ==
  ASSUME BudgetsOK
  PROVE  Cardinality(DOMAIN budgets \ Evictable(budgets)) <= MaxBudgets
<1>1. PICK all : all = DOMAIN budgets
  OBVIOUS
<1>2. all \subseteq Sessions /\ Cardinality(all) <= MaxBudgets + 1
  BY <1>1 DEF BudgetsOK
<1>3. IsFiniteSet(all) /\ Cardinality(all) \in Nat /\ all \subseteq Nat
  BY <1>2, SessionsFinite
<1>4. PICK n \in Nat : n = Cardinality(all)
  BY <1>3
<1>5. CASE n <= MaxBudgets
  <2>1. Evictable(budgets) = {}
    BY <1>1, <1>4, <1>5 DEF Evictable
  <2>2. all \ {} = all
    OBVIOUS
  <2>3. QED
    BY <1>1, <1>4, <1>5, <2>1, <2>2
<1>6. CASE ~(n <= MaxBudgets)
  <2>1. n = MaxBudgets + 1 /\ n > 0
    BY <1>2, <1>4, <1>6, BoundsHold DEF Bounds
  <2>2. PICK gone \in Int : gone = n - (n * 9) \div 10 /\ gone > 0
    BY <2>1
  <2>3. Evictable(budgets) = {s \in all : Cardinality({t \in all : t < s}) < gone}
    BY <1>1, <1>4, <1>6, <2>2 DEF Evictable
  <2>4. all # {}
    <3>1. Cardinality({}) = 0
      BY FS_EmptySet
    <3>2. QED
      <4>1. n # 0
        BY <2>1
      <4>2. QED
        BY <1>4, <3>1, <4>1, Zenon
  <2>5. PICK s \in all : \A t \in all : ~(<<t, s>> \in OpToRel(<, Nat))
    BY <1>3, <2>4, WFMin, NatLessThanWellFounded
  <2>6. {t \in all : t < s} = {}
    BY <1>3, <2>5 DEF OpToRel
  <2>7. s \in Evictable(budgets)
    BY <2>2, <2>3, <2>6, FS_EmptySet
  <2>8. all \ Evictable(budgets) \in SUBSET (all \ {s})
    BY <2>7
  <2>9. IsFiniteSet(all \ {s}) /\ Cardinality(all \ {s}) = n - 1
    BY <1>3, <1>4, FS_RemoveElement
  <2>10. PICK left : left = all \ Evictable(budgets)
    OBVIOUS
  <2>11. Cardinality(left) <= Cardinality(all \ {s}) /\ Cardinality(left) \in Nat
    BY <2>8, <2>9, <2>10, FS_Subset, FS_CardinalityType
  <2>12. QED
    BY <1>1, <2>1, <2>9, <2>10, <2>11, BoundsHold DEF Bounds
<1>7. QED
  BY <1>5, <1>6

LEMMA GuardedOK ==
  ASSUME BudgetsOK, NEW r \in Requests, shape(r).session \in Sessions \cup {None}, NEW midTask
  PROVE  LET b == Guarded(r, midTask).budgets IN
         DOMAIN b \subseteq Sessions /\ Cardinality(DOMAIN b) <= MaxBudgets + 1
<1>1. PICK s : s = shape(r).session
  OBVIOUS
<1>2. PICK asks \in BOOLEAN :
        asks = (/\ shape(r).backend = "chat" /\ Suspected(shape(r).input, midTask)
                /\ MaxFollowups > 0 /\ s # None)
  OBVIOUS
<1>3. CASE ~asks
  <2>1. Guarded(r, midTask).budgets = budgets
    BY <1>1, <1>2, <1>3 DEF Guarded
  <2>2. QED
    BY <2>1 DEF BudgetsOK
<1>4. CASE asks
  <2>1. PICK left : left = DOMAIN budgets \ Evictable(budgets)
    OBVIOUS
  <2>2. DOMAIN Restrict(budgets, left) = left
    BY DEF Restrict
  <2>3. DOMAIN Guarded(r, midTask).budgets = left \cup {s}
    BY <1>1, <1>2, <1>4, <2>1, <2>2 DEF Guarded
  <2>4. s \in Sessions
    BY <1>1, <1>2, <1>4
  <2>5. left \subseteq Sessions /\ Cardinality(left) <= MaxBudgets
    BY <2>1, MakesRoom DEF BudgetsOK
  <2>6. IsFiniteSet(left) /\ Cardinality(left) \in Nat
    BY <2>5, SessionsFinite
  <2>7. Cardinality(left \cup {s}) <= Cardinality(left) + 1
    BY <2>6, FS_AddElement
  <2>8. Cardinality(left \cup {s}) \in Nat
    BY <2>4, <2>5, SessionsFinite
  <2>9. QED
    BY <2>3, <2>4, <2>5, <2>6, <2>7, <2>8, BoundsHold DEF Bounds
<1>5. QED
  BY <1>3, <1>4
-----------------------------------------------------------------------------
(* A request: what it is sent is what the history translates to. *)

RequestType ==
  [stage: {"new", "sent", "answered", "body", "recorded", "done"},
   format: Formats, cached: {None, "schema", "object", "none"}, retried: BOOLEAN,
   answer: Answers \cup {None}, outcome: Outcomes \cup {None},
   followUp: BOOLEAN, messages: Seq(MessageType)]
ScenarioOK ==
  /\ scenario.ticks \in Nat
  /\ \A r \in Requests : shape(r) # None => shape(r) \in Shape
Translated(r, messages) ==
  messages # <<>> => shape(r) # None /\ messages = ChatMessages(shape(r).input, shape(r).preserve)
RequestInv ==
  /\ req \in [Requests -> RequestType]
  /\ clock \in 0..scenario.ticks
  /\ \A r \in Requests : Translated(r, req[r].messages)
SizeInv == ScenarioOK /\ RequestInv /\ CacheOK /\ BudgetsOK /\ RowsInv

LEMMA OneRequest ==
  ASSUME RequestInv, NEW r \in Requests, NEW b \in RequestType, Translated(r, b.messages),
         req' = [req EXCEPT ![r] = b], UNCHANGED <<scenario, clock>>
  PROVE  RequestInv'
<1>1. \A q \in Requests : Translated(q, req'[q].messages)
  BY DEF RequestInv
<1>2. \A q \in Requests : Translated(q, req[q].messages)'
  BY <1>1 DEF Translated, shape
<1>3. QED
  BY <1>2 DEF RequestInv

LEMMA ShapeFields ==
  ASSUME ScenarioOK, NEW r \in Requests, shape(r) # None
  PROVE  /\ shape(r).key \in Keys /\ shape(r).session \in Sessions \cup {None}
         /\ shape(r).input \in Seq(ItemType) /\ shape(r).preserve \in BOOLEAN
BY DEF ScenarioOK, Shape

LEMMA BodyType ==
  ASSUME ScenarioOK, RequestInv, NEW r \in Requests, shape(r) # None, NEW format \in Formats,
         NEW cached \in {None, "schema", "object", "none"}, NEW retried \in BOOLEAN
  PROVE  Body(r, format, cached, retried) \in RequestType
           /\ Translated(r, Body(r, format, cached, retried).messages)
<1>1. PICK messages \in Seq(MessageType) :
        /\ messages = IF shape(r).backend = "native" THEN <<>>
                      ELSE ChatMessages(shape(r).input, shape(r).preserve)
        /\ Translated(r, messages)
  <2>1. ChatMessages(shape(r).input, shape(r).preserve) \in Seq(MessageType)
    BY ShapeFields, ChatMessagesType
  <2>2. QED
    BY <2>1, Nothing DEF Translated
<1>2. PICK q \in RequestType : q = req[r]
  BY DEF RequestInv
<1>3. Body(r, format, cached, retried)
        = [q EXCEPT !.stage = "sent", !.format = format, !.cached = cached,
                    !.retried = retried, !.answer = None, !.messages = messages]
  BY <1>1, <1>2 DEF Body
<1>4. QED
  BY <1>1, <1>3 DEF RequestType

LEMMA DoneType ==
  ASSUME RequestInv, NEW r \in Requests, NEW outcome \in Outcomes, NEW stage \in {"body", "recorded"},
         \/ Done(r, outcome) \/ req' = [req EXCEPT ![r].stage = stage],
         UNCHANGED <<scenario, clock>>
  PROVE  RequestInv'
<1>1. PICK q \in RequestType : q = req[r] /\ Translated(r, q.messages)
  BY DEF RequestInv
<1>2. [q EXCEPT !.stage = "done", !.outcome = outcome] \in RequestType
  BY DEF RequestType
<1>3. [q EXCEPT !.stage = stage] \in RequestType
  BY DEF RequestType
<1>4. PICK b \in RequestType : req' = [req EXCEPT ![r] = b] /\ b.messages = q.messages
  <2>1. CASE Done(r, outcome)
    <3>1. req' = [req EXCEPT ![r] = [q EXCEPT !.stage = "done", !.outcome = outcome]]
      BY <1>1, <2>1 DEF Done
    <3>2. [q EXCEPT !.stage = "done", !.outcome = outcome].messages = q.messages
      BY DEF RequestType
    <3>3. QED
      BY <1>2, <3>1, <3>2
  <2>2. CASE req' = [req EXCEPT ![r].stage = stage]
    <3>1. req' = [req EXCEPT ![r] = [q EXCEPT !.stage = stage]]
      BY <1>1, <2>2
    <3>2. [q EXCEPT !.stage = stage].messages = q.messages
      BY DEF RequestType
    <3>3. QED
      BY <1>3, <3>1, <3>2
  <2>3. QED
    BY <2>1, <2>2
<1>5. QED
  BY <1>1, <1>4, OneRequest

LEMMA CapabilityType ==
  ASSUME CacheOK, NEW k
  PROVE  Capability(k) \in {None, "schema", "object", "none"}
<1>1. \A j \in DOMAIN Fresh(cache) : j \in DOMAIN cache /\ Fresh(cache)[j] = cache[j]
  BY DEF Fresh, Restrict
<1>2. QED
  BY <1>1 DEF Capability, CacheOK

LEMMA BeginSizes ==
  ASSUME Fields, SizeInv, NEW r \in Requests, Begin(r)
  PROVE  SizeInv'
<1> USE DEF SizeInv
<1>1. shape(r) # None /\ UNCHANGED <<scenario, clock, rows, lastId>> /\ Progress(r)
  BY DEF Begin
<1>2. PICK cached \in {None, "schema", "object", "none"} :
        cached = IF Negotiates(r) THEN Capability(shape(r).key) ELSE None
  BY CapabilityType
<1>3. PICK format \in Formats :
        format = CASE ~Negotiates(r) -> "plain"
                   [] Negotiates(r) /\ cached = "object" -> "object"
                   [] OTHER -> "schema"
  BY DEF Formats
<1>4. /\ \/ Done(r, "foreign") \/ Done(r, "refused")
         \/ req' = [req EXCEPT ![r] = Body(r, format, cached, FALSE)]
      /\ cache' = cache \/ cache' = LookedUp(shape(r).key)
  BY <1>2, <1>3 DEF Begin
<1>5. RequestInv'
  <2>1. CASE Done(r, "foreign") \/ Done(r, "refused")
    <3>1. "foreign" \in Outcomes /\ "refused" \in Outcomes
      BY DEF Outcomes
    <3>2. QED
      BY <1>1, <2>1, <3>1, DoneType
  <2>2. CASE req' = [req EXCEPT ![r] = Body(r, format, cached, FALSE)]
    <3>1. PICK b \in RequestType : b = Body(r, format, cached, FALSE) /\ Translated(r, b.messages)
      BY <1>1, BodyType
    <3>2. req' = [req EXCEPT ![r] = b]
      BY <2>2, <3>1
    <3>3. QED
      BY <1>1, <3>1, <3>2, OneRequest
  <2>3. QED
    BY <1>4, <2>1, <2>2
<1>6. CacheOK'
  <2>1. CASE cache' = cache
    BY <2>1 DEF CacheOK
  <2>2. CASE cache' = LookedUp(shape(r).key)
    BY <2>2, LookedUpOK
  <2>3. QED
    BY <1>4, <2>1, <2>2
<1>7. BudgetsOK'
  <2>1. PICK left : left \subseteq DOMAIN budgets /\ DOMAIN budgets' = left
    <3>1. CASE Tracked(r)
      <4>1. budgets' = Restrict(budgets, DOMAIN budgets \ {shape(r).session})
        BY <1>1, <3>1 DEF Progress
      <4>2. QED
        BY <4>1 DEF Restrict
    <3>2. CASE ~Tracked(r)
      BY <1>1, <3>2 DEF Progress
    <3>3. QED
      BY <3>1, <3>2
  <2>2. PICK all : all = DOMAIN budgets
    OBVIOUS
  <2>3. IsFiniteSet(all) /\ Cardinality(all) \in Nat /\ Cardinality(left) \in Nat
    BY <2>1, <2>2, SessionsFinite DEF BudgetsOK
  <2>4. Cardinality(left) <= Cardinality(all)
    BY <2>1, <2>2, <2>3, FS_Subset
  <2>5. QED
    BY <2>1, <2>2, <2>3, <2>4, BoundsHold DEF BudgetsOK, Bounds
<1>8. RowsInv' /\ ScenarioOK'
  BY <1>1 DEF RowsInv, ScenarioOK, shape
<1>9. QED
  BY <1>5, <1>6, <1>7, <1>8

LEMMA HandleSizes ==
  ASSUME Fields, SizeInv, NEW r \in Requests, shape(r) # None, Handle(r)
  PROVE  SizeInv'
<1> USE DEF SizeInv
<1>1. UNCHANGED <<scenario, clock, budgets, rows, lastId>>
  BY DEF Handle
<1>2. PICK q \in RequestType : q = req[r]
  BY DEF RequestInv
<1>3. RequestInv'
  <2>1. CASE AsksAgain(r)
    <3>1. req' = [req EXCEPT ![r] = Body(r, "object", q.cached, TRUE)]
      BY <1>2, <2>1 DEF Handle
    <3>2. PICK cached \in {None, "schema", "object", "none"} : cached = q.cached
      BY DEF RequestType
    <3>3. PICK b \in RequestType : b = Body(r, "object", cached, TRUE) /\ Translated(r, b.messages)
      <4>1. "object" \in Formats
        BY DEF Formats
      <4>2. QED
        BY <4>1, BodyType
    <3>4. req' = [req EXCEPT ![r] = b]
      BY <3>1, <3>2, <3>3
    <3>5. QED
      BY <1>1, <3>3, <3>4, OneRequest
  <2>2. CASE ~AsksAgain(r)
    <3>1. \/ req' = [req EXCEPT ![r].stage = "body"]
          \/ Done(r, "refused") \/ Done(r, "bad_gateway") \/ Done(r, "passed")
      BY <2>2 DEF Handle
    <3>2. {"refused", "bad_gateway", "passed"} \subseteq Outcomes
      BY DEF Outcomes
    <3>3. QED
      BY <1>1, <3>1, <3>2, DoneType
  <2>3. QED
    BY <2>1, <2>2
<1>4. CacheOK'
  <2>1. CASE Learns(r) = None
    <3>1. cache' = cache
      BY <2>1 DEF Handle, Learn
    <3>2. QED
      BY <3>1 DEF CacheOK
  <2>2. CASE Learns(r) # None
    <3>1. cache' \in Remembered(cache, shape(r).key, Learns(r))
      BY <2>2 DEF Handle, Learn
    <3>2. PICK can \in {"schema", "object", "none"} : can = Learns(r)
      BY <2>2 DEF Learns
    <3>3. PICK k \in Keys : k = shape(r).key
      BY ShapeFields
    <3>4. QED
      BY <3>1, <3>2, <3>3, RememberedOK
  <2>3. QED
    BY <2>1, <2>2
<1>5. RowsInv' /\ ScenarioOK' /\ BudgetsOK'
  BY <1>1 DEF RowsInv, ScenarioOK, BudgetsOK, shape
<1>6. QED
  BY <1>3, <1>4, <1>5

LEMMA FinishSizes ==
  ASSUME Fields, AccInv, TimeInv, SizeInv, NEW r \in Requests, shape(r) # None, Finish(r)
  PROVE  SizeInv'
<1> USE DEF SizeInv
<1>1. UNCHANGED <<scenario, clock, cache, budgets>>
  BY DEF Finish, Record
<1>2. CASE Done(r, "bad_gateway") /\ UNCHANGED <<rows, lastId, budgets, history>>
  <2>1. "bad_gateway" \in Outcomes
    BY DEF Outcomes
  <2>2. RequestInv'
    BY <1>1, <1>2, <2>1, DoneType
  <2>3. QED
    BY <1>1, <1>2, <2>2 DEF RowsInv, ScenarioOK, BudgetsOK, CacheOK, shape
<1>3. ASSUME NEW end, Record(r, end) PROVE SizeInv'
  <2>1. /\ Done(r, "served") \/ req' = [req EXCEPT ![r].stage = "recorded"]
        /\ \/ rows' = Recorded(r) /\ lastId' = lastId + 1
           \/ rows' = rows /\ lastId' = lastId
    BY <1>3 DEF Record
  <2>2. RequestInv'
    <3>1. "served" \in Outcomes
      BY DEF Outcomes
    <3>2. QED
      BY <1>1, <2>1, <3>1, DoneType
  <2>3. RowsInv'
    <3>1. CASE rows' = Recorded(r) /\ lastId' = lastId + 1
      BY <3>1, RecordedRows DEF TimeInv
    <3>2. CASE rows' = rows /\ lastId' = lastId
      BY <3>2 DEF RowsInv
    <3>3. QED
      BY <2>1, <3>1, <3>2
  <2>4. QED
    BY <1>1, <2>2, <2>3 DEF ScenarioOK, CacheOK, BudgetsOK, shape
<1>4. QED
  BY <1>2, <1>3 DEF Finish

LEMMA DeliverSizes ==
  ASSUME SizeInv, NEW r \in Requests, shape(r) # None, NEW midTask, Deliver(r, midTask)
  PROVE  SizeInv'
<1> USE DEF SizeInv
<1>1. PICK g : g = Guarded(r, midTask)
  OBVIOUS
<1>2. /\ req' = [req EXCEPT ![r].stage = "done", ![r].outcome = "served", ![r].followUp = g.force]
      /\ budgets' = g.budgets
      /\ UNCHANGED <<scenario, clock, cache, rows, lastId>>
  BY <1>1 DEF Deliver
<1>3. g.force \in BOOLEAN
  BY <1>1 DEF Guarded
<1>4. BudgetsOK'
  <2>1. budgets' = Guarded(r, midTask).budgets
    BY <1>1, <1>2
  <2>2. shape(r).session \in Sessions \cup {None}
    BY ShapeFields
  <2>3. QED
    BY <2>1, <2>2, GuardedOK DEF BudgetsOK
<1>5. RequestInv'
  <2>1. PICK q \in RequestType : q = req[r] /\ Translated(r, q.messages)
    BY DEF RequestInv
  <2>2. PICK force \in BOOLEAN : force = g.force
    BY <1>3
  <2>3. PICK b : b = [q EXCEPT !.stage = "done", !.outcome = "served", !.followUp = force]
    OBVIOUS
  <2>4. b \in RequestType /\ b.messages = q.messages
    BY <2>3 DEF RequestType, Outcomes
  <2>5. req' = [req EXCEPT ![r] = b]
    BY <1>2, <2>1, <2>2, <2>3
  <2>6. QED
    BY <1>2, <2>1, <2>4, <2>5, OneRequest
<1>6. QED
  BY <1>2, <1>4, <1>5 DEF ScenarioOK, CacheOK, RowsInv, shape

LEMMA LeaveSizes ==
  ASSUME SizeInv, NEW r \in Requests, Leave(r)
  PROVE  SizeInv'
<1> USE DEF SizeInv
<1>1. Done(r, "left") /\ UNCHANGED <<scenario, clock, cache, budgets, rows, lastId>>
  BY DEF Leave, shared
<1>2. "left" \in Outcomes
  BY DEF Outcomes
<1>3. RequestInv'
  BY <1>1, <1>2, DoneType
<1>4. QED
  BY <1>1, <1>3 DEF RowsInv, ScenarioOK, BudgetsOK, CacheOK, shape

LEMMA NextSizes ==
  Fields /\ FormatInv /\ TimeInv /\ AccInv /\ SizeInv /\ [Next]_vars => SizeInv'
<1> SUFFICES ASSUME Fields, FormatInv, TimeInv, AccInv, SizeInv, [Next]_vars
    PROVE  SizeInv'
  OBVIOUS
<1>1. ASSUME NEW r \in Requests, Begin(r) PROVE SizeInv'
  BY <1>1, BeginSizes
<1>2. ASSUME NEW r \in Requests, UpstreamAnswer(r) PROVE SizeInv'
  <2>1. UNCHANGED <<scenario, clock, cache, budgets, rows, lastId>>
    BY <1>2 DEF UpstreamAnswer, shared
  <2>2. PICK answer \in Answers : req' = [req EXCEPT ![r].stage = "answered", ![r].answer = answer]
    <3>1. \A able : (IF able THEN Answers \ {"rejected"} ELSE Answers \ {"ok"}) \subseteq Answers
      OBVIOUS
    <3>2. QED
      BY <1>2, <3>1 DEF UpstreamAnswer
  <2>3. PICK q \in RequestType : q = req[r] /\ Translated(r, q.messages)
    BY DEF SizeInv, RequestInv
  <2>4. PICK b : b = [q EXCEPT !.stage = "answered", !.answer = answer]
    OBVIOUS
  <2>5. b \in RequestType /\ b.messages = q.messages
    BY <2>4 DEF RequestType
  <2>6. req' = [req EXCEPT ![r] = b]
    BY <2>2, <2>3, <2>4
  <2>7. RequestInv'
    BY <2>1, <2>3, <2>5, <2>6, OneRequest DEF SizeInv
  <2>8. QED
    BY <2>1, <2>7 DEF SizeInv, ScenarioOK, CacheOK, BudgetsOK, RowsInv, shape
<1>3. ASSUME NEW r \in Requests, Handle(r) \/ Concludes(r) PROVE SizeInv'
  <2>1. req[r].stage # "new"
    BY <1>3 DEF Handle, Concludes, Finish, Deliver, Leave
  <2>2. shape(r) # None
    BY <2>1 DEF FormatInv
  <2>3. QED
    BY <1>3, <2>2, HandleSizes, FinishSizes, DeliverSizes, LeaveSizes DEF Concludes
<1>4. ASSUME NEW k \in Keys, Change(k) PROVE SizeInv'
  BY <1>4 DEF Change, shared, SizeInv, ScenarioOK, RequestInv, Translated, CacheOK, BudgetsOK,
              RowsInv, shape
<1>5. CASE Tick
  <2>1. UNCHANGED <<scenario, req, cache, budgets, rows, lastId>> /\ clock' = clock + 1
        /\ clock < scenario.ticks
    BY <1>5 DEF Tick, shared
  <2>2. clock' \in 0..scenario'.ticks
    BY <2>1 DEF SizeInv, ScenarioOK, RequestInv
  <2>3. QED
    BY <2>1, <2>2 DEF SizeInv, ScenarioOK, RequestInv, Translated, CacheOK, BudgetsOK, RowsInv, shape
<1>6. CASE UNCHANGED vars
  BY <1>6 DEF vars, SizeInv, ScenarioOK, RequestInv, Translated, CacheOK, BudgetsOK, RowsInv, shape
<1>7. QED
  BY <1>1, <1>2, <1>3, <1>4, <1>5, <1>6 DEF Next, Concludes

LEMMA InitSizes == Init => SizeInv
<1> SUFFICES ASSUME Init PROVE SizeInv
  OBVIOUS
<1>1. ScenarioOK
  BY ConstantsAssumption DEF Init, ScenarioOK, shape
<1>2. RequestInv
  <2>1. PICK q : q = [stage |-> "new", format |-> "plain", cached |-> None, retried |-> FALSE,
                      answer |-> None, outcome |-> None, followUp |-> FALSE, messages |-> <<>>]
    OBVIOUS
  <2>2. q \in RequestType /\ q.messages = <<>>
    BY <2>1, Nothing DEF RequestType, Formats
  <2>3. req = [r \in Requests |-> q] /\ clock = 0
    BY <2>1 DEF Init
  <2>4. QED
    BY <1>1, <2>2, <2>3 DEF RequestInv, Translated, ScenarioOK
<1>3. DOMAIN cache = {} /\ DOMAIN budgets = {}
  BY DEF Init
<1>4. IsFiniteSet({}) /\ Cardinality({}) = 0
  BY FS_EmptySet
<1>5. CacheOK /\ BudgetsOK
  BY <1>3, <1>4, BoundsHold DEF CacheOK, BudgetsOK, Bounds
<1>6. RowsInv
  <2>1. rows = {} /\ lastId = 0
    BY DEF Init
  <2>2. 0 \in Nat /\ 0 \in 0..(Batch - 1) /\ 0 = Batch * 0 + 0 /\ 0 <= MaxEvents + 0
    BY BoundsHold DEF Bounds
  <2>3. IsFiniteSet(rows) /\ Cardinality(rows) = 0 /\ \A row \in rows : FALSE
    BY <1>4, <2>1
  <2>4. QED
    BY <2>1, <2>2, <2>3 DEF RowsInv
<1>7. QED
  BY <1>1, <1>2, <1>5, <1>6 DEF SizeInv

(* The limits hold in every behaviour: the cache, the budgets and the table *)
(* stay within theirs, and every request is well formed.                   *)
THEOREM TypeCorrect == Spec => []TypeOK
<1> DEFINE I == Fields /\ ShapesOK /\ JustInv /\ AccInv /\ SizeInv
<1>1. Init => I
  BY InitFields, InitJust, InitAcc, InitSizes
<1>2. I /\ [Next]_vars => I'
  BY NextFields, NextTime, NextCache, NextFormat, NextAcc, NextSizes DEF JustInv
<1>3. I => TypeOK
  BY RowsInvMeans DEF SizeInv, RequestInv, RequestType, CacheOK, BudgetsOK, TypeOK
<1>4. QED
  BY <1>1, <1>2, <1>3, PTL DEF Spec
-----------------------------------------------------------------------------
(* The elements of sequences. *)
LEMMA ToSetBoth ==
  ASSUME NEW S, NEW a \in Seq(S), NEW b \in Seq(S)
  PROVE  ToSet(a \o b) = ToSet(a) \cup ToSet(b)
<1>1. PICK m \in Nat, n \in Nat : m = Len(a) /\ n = Len(b)
  OBVIOUS
<1>2. PICK ab \in Seq(S) : ab = a \o b
  <2>1. a \o b \in Seq(S)
    OBVIOUS
  <2>2. QED
    BY <2>1
<1>3. DOMAIN a = 1..m /\ DOMAIN b = 1..n /\ DOMAIN ab = 1..(m + n)
  BY <1>1, <1>2
<1>4. \A i \in 1..m : i \in 1..(m + n) /\ ab[i] = a[i]
  BY <1>1, <1>2
<1>5. \A i \in 1..n : m + i \in 1..(m + n) /\ ab[m + i] = b[i]
  BY <1>1, <1>2
<1>6. \A i \in 1..(m + n) : i \in 1..m \/ (i - m \in 1..n /\ ab[i] = b[i - m])
  BY <1>1, <1>2
<1>7. ToSet(ab) \subseteq ToSet(a) \cup ToSet(b)
  BY <1>3, <1>4, <1>6, Zenon DEF ToSet
<1>8. ToSet(a) \subseteq ToSet(ab)
  BY <1>3, <1>4, Zenon DEF ToSet
<1>9. ToSet(b) \subseteq ToSet(ab)
  BY <1>3, <1>5, Zenon DEF ToSet
<1>10. QED
  BY <1>2, <1>7, <1>8, <1>9

LEMMA ToSetOne == \A x : ToSet(<<x>>) = {x} /\ ToSet(<<>>) = {}
<1>1. \A x : DOMAIN <<x>> = {1} /\ <<x>>[1] = x
  OBVIOUS
<1>2. DOMAIN <<>> = {}
  OBVIOUS
<1>3. ToSet(<<>>) = {}
  BY <1>2 DEF ToSet
<1>4. QED
  BY <1>1, <1>3 DEF ToSet

LEMMA ToSetEmpty ==
  ASSUME NEW S, NEW a \in Seq(S), ToSet(a) = {}
  PROVE  a = <<>>
<1>1. \A i \in DOMAIN a : a[i] \in ToSet(a)
  BY DEF ToSet
<1>2. PICK n \in Nat : n = Len(a) /\ DOMAIN a = 1..n
  OBVIOUS
<1>3. ~(1 \in 1..n)
  BY <1>1, <1>2
<1>4. n = 0
  BY <1>3
<1>5. QED
  BY <1>2, <1>4

(* What messages and items say, as ids. *)

Heard(messages, keep) ==
  Kept(FlattenSeq([i \in DOMAIN messages |-> messages[i].ids]), keep)
IdsOf == [m \in MessageType |-> m.ids]
Words == [e \in ItemType |-> IF Speaks(e) THEN <<e.id>> ELSE <<>>]

LEMMA IdsMap ==
  /\ Maps(IdsOf, MessageType, Int)
  /\ \A s \in Seq(MessageType) :
       FlattenSeq([i \in DOMAIN s |-> s[i].ids]) = FlatMap(IdsOf, s)
<1>1. \A m \in MessageType : IdsOf[m] = m.ids /\ m.ids \in Seq(Int)
  BY DEF IdsOf, MessageType
<1>2. Maps(IdsOf, MessageType, Int)
  BY <1>1 DEF Maps, IdsOf
<1>3. ASSUME NEW s \in Seq(MessageType)
      PROVE  [i \in DOMAIN s |-> s[i].ids] = [i \in DOMAIN s |-> IdsOf[s[i]]]
  <2>1. \A i \in DOMAIN s : s[i] \in MessageType
    OBVIOUS
  <2>2. QED
    BY <1>1, <2>1
<1>4. QED
  BY <1>2, <1>3 DEF FlatMap, Mapped

LEMMA WordsMap ==
  /\ Maps(Words, ItemType, Int)
  /\ \A s \in Seq(ItemType) : Said(s) = FlatMap(Words, s)
<1>1. ASSUME NEW e \in ItemType
      PROVE  /\ Words[e] = IF Speaks(e) THEN <<e.id>> ELSE <<>>
             /\ Words[e] \in Seq(Int)
  <2>1. <<e.id>> \in Seq(Int) /\ <<>> \in Seq(Int)
    BY DEF ItemType
  <2>2. QED
    BY <2>1 DEF Words
<1>2. Maps(Words, ItemType, Int)
  BY <1>1 DEF Maps, Words
<1>3. ASSUME NEW s \in Seq(ItemType)
      PROVE  [i \in DOMAIN s |-> IF Speaks(s[i]) THEN <<s[i].id>> ELSE <<>>]
               = [i \in DOMAIN s |-> Words[s[i]]]
  <2>1. \A i \in DOMAIN s : s[i] \in ItemType
    OBVIOUS
  <2>2. QED
    BY <1>1, <2>1
<1>4. QED
  BY <1>2, <1>3 DEF FlatMap, Mapped, Said

(* One after the other. *)
LEMMA SaidBoth ==
  ASSUME NEW s \in Seq(ItemType), NEW t \in Seq(ItemType)
  PROVE  /\ Said(s \o t) = Said(s) \o Said(t)
         /\ Said(s) \in Seq(Int) /\ Said(t) \in Seq(Int)
<1>1. PICK g : g = Words
  OBVIOUS
<1>2. s \o t \in Seq(ItemType)
  OBVIOUS
<1>3. /\ Said(s \o t) = FlatMap(g, s \o t) /\ Said(s) = FlatMap(g, s) /\ Said(t) = FlatMap(g, t)
      /\ Maps(g, ItemType, Int)
  BY <1>1, <1>2, WordsMap
<1>4. QED
  BY <1>3, FlatMapBoth, FlatMapType

LEMMA SaidNothing == Said(<<>>) = <<>>
<1>1. DOMAIN <<>> = {}
  OBVIOUS
<1>2. [i \in DOMAIN <<>> |-> IF Speaks(<<>>[i]) THEN <<<<>>[i].id>> ELSE <<>>] = <<>>
  BY <1>1
<1>3. FlattenSeq(<<>>) = <<>>
  <2>1. PICK U : U = Seq(Int)
    OBVIOUS
  <2>2. <<>> \in Seq(U) /\ Len(<<>>) = 0
    OBVIOUS
  <2>3. PICK ss \in Seq(U) : ss = <<>> /\ Len(ss) = 0
    BY <2>2
  <2>4. PICK f : f[0] = <<>> /\ FlattenSeq(ss) = f[Len(ss)]
    BY <2>1, FlattenSteps
  <2>5. QED
    BY <2>3, <2>4
<1>4. QED
  BY <1>2, <1>3 DEF Said

LEMMA SaidOne ==
  ASSUME NEW e \in ItemType
  PROVE  Said(<<e>>) = IF Speaks(e) THEN <<e.id>> ELSE <<>>
<1>1. PICK g : g = Words
  OBVIOUS
<1>2. <<e>> \in Seq(ItemType)
  OBVIOUS
<1>3. Said(<<e>>) = FlatMap(g, <<e>>) /\ Maps(g, ItemType, Int)
  BY <1>1, <1>2, WordsMap
<1>4. FlatMap(g, <<e>>) = g[e]
  BY <1>3, FlatMapOne
<1>5. g[e] = IF Speaks(e) THEN <<e.id>> ELSE <<>>
  BY <1>1 DEF Words
<1>6. QED
  BY <1>3, <1>4, <1>5

LEMMA HeardBoth ==
  ASSUME NEW s \in Seq(MessageType), NEW t \in Seq(MessageType), NEW keep
  PROVE  /\ Heard(s \o t, keep) = Heard(s, keep) \o Heard(t, keep)
         /\ Heard(s, keep) \in Seq(Int) /\ Heard(t, keep) \in Seq(Int)
<1>1. PICK g : g = IdsOf
  OBVIOUS
<1>2. s \o t \in Seq(MessageType)
  OBVIOUS
<1>3. /\ Heard(s \o t, keep) = Kept(FlatMap(g, s \o t), keep)
      /\ Heard(s, keep) = Kept(FlatMap(g, s), keep)
      /\ Heard(t, keep) = Kept(FlatMap(g, t), keep) /\ Maps(g, MessageType, Int)
  BY <1>1, <1>2, IdsMap DEF Heard
<1>4. PICK x \in Seq(Int), y \in Seq(Int) : x = FlatMap(g, s) /\ y = FlatMap(g, t)
  BY <1>3, FlatMapType
<1>5. FlatMap(g, s \o t) = FlatMap(g, s) \o FlatMap(g, t)
  BY <1>3, FlatMapBoth
<1>6. Kept(x \o y, keep) = Kept(x, keep) \o Kept(y, keep)
  BY KeptBoth
<1>7. Kept(x, keep) \in Seq(Int) /\ Kept(y, keep) \in Seq(Int)
  BY KeptType
<1>8. QED
  BY <1>3, <1>4, <1>5, <1>6, <1>7

LEMMA HeardOne ==
  ASSUME NEW m \in MessageType, NEW keep
  PROVE  /\ Heard(<<m>>, keep) = Kept(m.ids, keep)
         /\ Heard(<<>>, keep) = <<>>
<1>1. PICK g : g = IdsOf
  OBVIOUS
<1>2. <<m>> \in Seq(MessageType) /\ <<>> \in Seq(MessageType)
  BY Nothing
<1>3. /\ Heard(<<m>>, keep) = Kept(FlatMap(g, <<m>>), keep)
      /\ Heard(<<>>, keep) = Kept(FlatMap(g, <<>>), keep) /\ Maps(g, MessageType, Int)
  BY <1>1, <1>2, IdsMap DEF Heard
<1>4. FlatMap(g, <<m>>) = g[m] /\ FlatMap(g, <<>>) = <<>>
  BY <1>3, FlatMapOne
<1>5. g[m] = m.ids
  BY <1>1 DEF IdsOf
<1>6. QED
  BY <1>3, <1>4, <1>5, KeptEmpty

(* The ids that items say. *)
LEMMA SaidElements ==
  ASSUME NEW s \in Seq(ItemType), NEW x \in Int
  PROVE  x \in ToSet(Said(s)) <=> \E i \in 1..Len(s) : Speaks(s[i]) /\ s[i].id = x
<1> DEFINE says(t) == \E i \in 1..Len(t) : Speaks(t[i]) /\ t[i].id = x
           T == {t \in Seq(ItemType) : x \in ToSet(Said(t)) <=> says(t)}
<1>1. <<>> \in T
  <2>1. PICK none \in Seq(ItemType) : none = <<>> /\ Len(none) = 0
    BY Nothing
  <2>2. PICK said : said = Said(none) /\ said = <<>>
    BY <2>1, SaidNothing
  <2>3. DOMAIN said = {} /\ 1..Len(none) = {}
    BY <2>1, <2>2
  <2>4. x \notin ToSet(said)
    BY <2>3 DEF ToSet
  <2>5. ~says(none)
    BY <2>3
  <2>6. none \in T
    BY <2>2, <2>4, <2>5
  <2>7. QED
    BY <2>1, <2>6
<1>2. ASSUME NEW t \in Seq(ItemType), NEW e \in ItemType, t \in T PROVE t \o <<e>> \in T
  <2>0. PICK one \in Seq(ItemType) : one = <<e>> /\ Len(one) = 1 /\ one[1] = e
    <3> HIDE DEF T
    <3>1. <<e>> \in Seq(ItemType) /\ Len(<<e>>) = 1 /\ <<e>>[1] = e
      OBVIOUS
    <3>2. QED
      BY <3>1
  <2>1. PICK u \in Seq(ItemType) : u = t \o <<e>> /\ Len(u) = Len(t) + 1 /\ Len(t) \in Nat
                                   /\ u[Len(t) + 1] = e /\ \A i \in 1..Len(t) : u[i] = t[i]
    <3> HIDE DEF T
    <3>1. t \o one \in Seq(ItemType)
      OBVIOUS
    <3>2. /\ Len(t \o one) = Len(t) + 1 /\ Len(t) \in Nat
          /\ \A i \in 1..Len(t) : (t \o one)[i] = t[i]
          /\ (t \o one)[Len(t) + 1] = one[1]
      BY <2>0
    <3>3. QED
      BY <2>0, <3>1, <3>2
  <2>2. says(u) <=> says(t) \/ (Speaks(e) /\ e.id = x)
    <3>1. \A i \in 1..Len(u) : i \in 1..Len(t) \/ i = Len(t) + 1
      BY <2>1
    <3>2. \A i \in 1..Len(t) : i \in 1..Len(u)
      BY <2>1
    <3>3. Len(t) + 1 \in 1..Len(u)
      BY <2>1
    <3>4. QED
      BY <2>1, <3>1, <3>2, <3>3
  <2>3. PICK a \in Seq(Int), b \in Seq(Int) :
          /\ a = Said(t) /\ b = IF Speaks(e) THEN <<e.id>> ELSE <<>>
          /\ Said(u) = a \o b
    <3>1. <<e>> \in Seq(ItemType)
      OBVIOUS
    <3>2. Said(u) = Said(t) \o Said(<<e>>) /\ Said(t) \in Seq(Int) /\ Said(<<e>>) \in Seq(Int)
      BY <2>1, <3>1, SaidBoth
    <3>3. QED
      BY <3>2, SaidOne
  <2>4. x \in ToSet(b) <=> Speaks(e) /\ e.id = x
    <3>1. CASE Speaks(e)
      <4>1. b = <<e.id>> /\ DOMAIN b = {1} /\ b[1] = e.id
        BY <2>3, <3>1
      <4>2. QED
        BY <3>1, <4>1 DEF ToSet
    <3>2. CASE ~Speaks(e)
      <4>1. b = <<>> /\ DOMAIN b = {}
        BY <2>3, <3>2
      <4>2. QED
        BY <3>2, <4>1 DEF ToSet
    <3>3. QED
      BY <3>1, <3>2
  <2>5. x \in ToSet(a \o b) <=> x \in ToSet(a) \/ x \in ToSet(b)
    <3> HIDE DEF T
    <3>1. QED
      BY ToSetBoth
  <2>6. u \in T
    <3>1. x \in ToSet(Said(t)) <=> says(t)
      BY <1>2
    <3> HIDE DEF says
    <3>2. x \in ToSet(Said(u)) <=> says(u)
      BY <2>2, <2>3, <2>4, <2>5, <3>1
    <3>3. QED
      BY <3>2
  <2>7. QED
    BY <2>1, <2>6
<1>3. s \in T
  <2> HIDE DEF T
  <2>1. QED
    BY <1>1, <1>2, SequenceInduction
<1>4. QED
  BY <1>3
-----------------------------------------------------------------------------
(* What a history that Codex records is, index by index. *)

Matches(s, i, j) == s[i].kind = "call" /\ s[j].kind = "output" /\ s[i].id = s[j].id
WellRecorded(s) ==
  /\ \A i, j \in DOMAIN s : s[i].id = s[j].id =>
       i = j \/ Matches(s, i, j) \/ Matches(s, j, i)
  /\ \A i \in DOMAIN s : s[i].tool = "blank" => s[i].kind = "assistant"
  /\ \A i \in DOMAIN s : s[i].kind = "call" => \E j \in DOMAIN s : Matches(s, i, j)
  /\ \A j \in DOMAIN s : s[j].kind = "output" => \E i \in DOMAIN s : Matches(s, i, j)
  /\ \A i, j \in DOMAIN s : Matches(s, i, j) =>
       /\ i < j
       /\ \A k \in i..j : s[k].kind \notin {"user", "assistant"}
       /\ \A k, l \in i..j : s[k].kind = "output" /\ k < l => s[l].kind # "call"

LEMMA LegalMeans ==
  ASSUME NEW s \in Seq(ItemType), Legal(s)
  PROVE  WellRecorded(s)
<1> DEFINE calls == {i \in DOMAIN s : s[i].kind = "call"}
           outputs == {i \in DOMAIN s : s[i].kind = "output"}
<1>1. /\ \A i, j \in DOMAIN s : s[i].id = s[j].id =>
            i = j \/ {s[i].kind, s[j].kind} = {"call", "output"}
      /\ \A i \in DOMAIN s : s[i].tool = "blank" => s[i].kind = "assistant"
      /\ {s[i].id : i \in calls} = {s[i].id : i \in outputs}
      /\ \A j \in outputs :
           /\ CallOf(s, j) < j
           /\ \A k \in CallOf(s, j)..j : s[k].kind \notin {"user", "assistant"}
           /\ \A k, l \in CallOf(s, j)..j :
                s[k].kind = "output" /\ k < l => s[l].kind # "call"
  BY DEF Legal
<1>2. \A i, j \in DOMAIN s : s[i].id = s[j].id =>
        i = j \/ Matches(s, i, j) \/ Matches(s, j, i)
  <2> SUFFICES ASSUME NEW i \in DOMAIN s, NEW j \in DOMAIN s, s[i].id = s[j].id, i # j
      PROVE  Matches(s, i, j) \/ Matches(s, j, i)
    OBVIOUS
  <2>1. {s[i].kind, s[j].kind} = {"call", "output"}
    BY <1>1
  <2>2. QED
    BY <2>1 DEF Matches
<1>3. ASSUME NEW i \in DOMAIN s, s[i].kind = "call"
      PROVE  \E j \in DOMAIN s : Matches(s, i, j)
  <2>1. s[i].id \in {s[j].id : j \in calls}
    BY <1>3
  <2>2. s[i].id \in {s[j].id : j \in outputs}
    BY <1>1, <2>1
  <2>3. QED
    BY <1>3, <2>2 DEF Matches
<1>4. ASSUME NEW j \in DOMAIN s, s[j].kind = "output"
      PROVE  \E i \in DOMAIN s : Matches(s, i, j)
  <2>1. s[j].id \in {s[i].id : i \in outputs}
    BY <1>4
  <2>2. s[j].id \in {s[i].id : i \in calls}
    BY <1>1, <2>1
  <2>3. QED
    BY <1>4, <2>2 DEF Matches
<1>5. ASSUME NEW i \in DOMAIN s, NEW j \in DOMAIN s, Matches(s, i, j)
      PROVE  i = CallOf(s, j) /\ j \in outputs
  <2>1. j \in outputs /\ s[i].kind = "call" /\ s[i].id = s[j].id
    BY <1>5 DEF Matches
  <2>2. \A k \in DOMAIN s : s[k].kind = "call" /\ s[k].id = s[j].id => k = i
    BY <1>2, <2>1 DEF Matches
  <2>3. QED
    BY <2>1, <2>2 DEF CallOf
<1>6. QED
  BY <1>1, <1>2, <1>3, <1>4, <1>5 DEF WellRecorded

(* The ids of the calls among the first i items whose output is to come. *)
Opens(s, i, k) ==
  /\ s[k].kind = "call"
  /\ \A j \in 1..i : s[j].kind = "output" => s[j].id # s[k].id
Open(s, i) == {s[k].id : k \in {c \in 1..i : Opens(s, i, c)}}

LEMMA OpenEnds ==
  ASSUME NEW s \in Seq(ItemType), WellRecorded(s)
  PROVE  Open(s, 0) = {} /\ Open(s, Len(s)) = {}
<1>1. PICK n \in Nat : n = Len(s) /\ DOMAIN s = 1..n
  OBVIOUS
<1>2. \A k \in 1..n : ~Opens(s, n, k)
  BY <1>1 DEF WellRecorded, Opens, Matches
<1>3. 1..0 = {}
  OBVIOUS
<1>4. QED
  BY <1>1, <1>2, <1>3 DEF Open

(* A call is open until its output. *)
LEMMA OpenStep ==
  ASSUME NEW s \in Seq(ItemType), WellRecorded(s), NEW i \in 1..Len(s)
  PROVE  /\ s[i].kind = "call" => Open(s, i) = Open(s, i - 1) \cup {s[i].id}
         /\ s[i].kind = "output" => /\ Open(s, i) = Open(s, i - 1) \ {s[i].id}
                                    /\ s[i].id \in Open(s, i - 1)
         /\ s[i].kind \notin {"call", "output"} => Open(s, i) = Open(s, i - 1)
         /\ s[i].kind \in {"user", "assistant"} => Open(s, i - 1) = {}
<1>1. PICK n \in Nat : n = Len(s) /\ DOMAIN s = 1..n
  OBVIOUS
<1>2. i \in 1..n /\ i - 1 \in 0..n /\ 1..(i - 1) = (1..i) \ {i}
  BY <1>1
<1>3. \A x : x \in Open(s, i) <=> \E k \in 1..i : Opens(s, i, k) /\ x = s[k].id
  BY DEF Open
<1>4. \A x : x \in Open(s, i - 1) <=> \E k \in 1..(i - 1) : Opens(s, i - 1, k) /\ x = s[k].id
  BY DEF Open
<1>5. \A k \in 1..i : Opens(s, i, k) <=>
        Opens(s, i - 1, k) /\ ~(s[i].kind = "output" /\ s[i].id = s[k].id)
  BY <1>2 DEF Opens
<1>6. CASE s[i].kind = "call"
  <2>1. Opens(s, i - 1, i)
    <3> SUFFICES ASSUME NEW j \in 1..(i - 1), s[j].kind = "output", s[j].id = s[i].id
        PROVE  FALSE
      BY <1>6 DEF Opens
    <3>1. Matches(s, i, j) /\ j \in DOMAIN s /\ i \in DOMAIN s
      BY <1>1, <1>2, <1>6 DEF Matches
    <3>2. i < j
      BY <3>1 DEF WellRecorded
    <3>3. QED
      BY <3>2
  <2>2. \A k \in 1..i : Opens(s, i, k) <=> Opens(s, i - 1, k)
    BY <1>5, <1>6
  <2>3. Open(s, i) = Open(s, i - 1) \cup {s[i].id}
    BY <1>2, <1>3, <1>4, <2>1, <2>2
  <2>4. QED
    BY <1>6, <2>3
<1>7. CASE s[i].kind = "output"
  <2>1. ~Opens(s, i - 1, i)
    BY <1>7 DEF Opens
  <2>2. Open(s, i) = Open(s, i - 1) \ {s[i].id}
    BY <1>2, <1>3, <1>4, <1>5, <1>7, <2>1
  <2>3. PICK k \in DOMAIN s : Matches(s, k, i)
    BY <1>1, <1>2, <1>7 DEF WellRecorded
  <2>4. k < i
    BY <1>1, <1>2, <2>3 DEF WellRecorded
  <2>5. k \in 1..(i - 1)
    BY <1>1, <1>2, <2>4
  <2>6. Opens(s, i - 1, k)
    <3> SUFFICES ASSUME NEW j \in 1..(i - 1), s[j].kind = "output", s[j].id = s[k].id
        PROVE  FALSE
      BY <2>3 DEF Opens, Matches
    <3>1. j \in DOMAIN s /\ i \in DOMAIN s /\ s[j].id = s[i].id /\ j # i
      BY <1>1, <1>2, <2>3 DEF Matches
    <3>2. QED
      BY <1>7, <3>1 DEF WellRecorded, Matches
  <2>7. s[i].id \in Open(s, i - 1)
    BY <1>4, <2>3, <2>5, <2>6 DEF Matches
  <2>8. QED
    BY <1>7, <2>2, <2>7
<1>8. CASE s[i].kind \notin {"call", "output"}
  <2>1. ~Opens(s, i - 1, i)
    BY <1>8 DEF Opens
  <2>2. Open(s, i) = Open(s, i - 1)
    BY <1>2, <1>3, <1>4, <1>5, <1>8, <2>1
  <2>3. ASSUME s[i].kind \in {"user", "assistant"}, NEW k \in 1..(i - 1), Opens(s, i - 1, k)
        PROVE  FALSE
    <3>1. k \in DOMAIN s /\ s[k].kind = "call" /\ i \in DOMAIN s
      BY <1>1, <1>2, <2>3 DEF Opens
    <3>2. PICK j \in DOMAIN s : Matches(s, k, j)
      BY <3>1 DEF WellRecorded
    <3>3. j \notin 1..(i - 1) /\ j # i
      BY <1>8, <2>3, <3>2 DEF Opens, Matches
    <3>4. i \in k..j
      BY <1>1, <1>2, <2>3, <3>2, <3>3
    <3>5. QED
      BY <2>3, <3>1, <3>2, <3>4 DEF WellRecorded
  <2>4. QED
    BY <1>4, <1>8, <2>2, <2>3
<1>9. QED
  BY <1>6, <1>7, <1>8
-----------------------------------------------------------------------------
(* The native pass, item by item. *)

LEMMA AppendIs ==
  ASSUME NEW S, NEW s \in Seq(S), NEW x \in S
  PROVE  Append(s, x) = s \o <<x>> /\ s \o <<x>> \in Seq(S)
OBVIOUS

(* The calls whose outputs are to come after an item, and what becomes of  *)
(* the agent messages that wait for them.                                  *)
Unanswered(all, item) == IF item.kind = "output" THEN all \ {item.id} ELSE all
Due(left, deferred) == IF left = {} THEN deferred ELSE <<>>
StillDeferred(left, deferred) == IF left = {} THEN <<>> ELSE deferred

(* What an item does to the state: a call waits, an agent message is       *)
(* deferred or not, and any other item sends the calls that wait.          *)
NativeAll(n) == n.outstanding \cup ToSet(Ids(n.pending))
NativeSends(n, m, item) ==
  LET left == Unanswered(NativeAll(n), item) IN
  m = [output |-> n.output \o n.pending \o <<item>> \o Due(left, n.deferred), pending |-> <<>>,
       outstanding |-> left, deferred |-> StillDeferred(left, n.deferred)]

LEMMA NativeStepIs ==
  ASSUME NEW n \in NativeState, NEW item \in ItemType, NEW m, m = NativeStep(n, item)
  PROVE  /\ m \in NativeState
         /\ item.kind = "call" => m = [n EXCEPT !.pending = @ \o <<item>>]
         /\ item.kind = "agent" /\ (n.pending # <<>> \/ n.outstanding # {}) =>
              m = [n EXCEPT !.deferred = @ \o <<item>>]
         /\ item.kind = "agent" /\ n.pending = <<>> /\ n.outstanding = {} =>
              m = [n EXCEPT !.output = @ \o <<item>>]
         /\ item.kind \notin {"call", "agent"} => NativeSends(n, m, item)
<1>1. /\ n.output \in Seq(ItemType) /\ n.pending \in Seq(ItemType)
      /\ n.deferred \in Seq(ItemType) /\ n.outstanding \in SUBSET Int
  BY DEF NativeState
<1>2. PICK all : all = NativeAll(n) /\ all = n.outstanding \cup ToSet(Ids(n.pending))
  BY DEF NativeAll
<1>3. PICK left : left = Unanswered(all, item)
                  /\ left = IF item.kind = "output" THEN all \ {item.id} ELSE all
  BY DEF Unanswered
<1>4. PICK due : due = Due(left, n.deferred) /\ due = IF left = {} THEN n.deferred ELSE <<>>
  BY DEF Due
<1>5. all \in SUBSET Int /\ left \in SUBSET Int /\ due \in Seq(ItemType)
  <2>1. \A i \in DOMAIN n.pending : n.pending[i] \in ItemType
    BY <1>1
  <2>2. \A i \in DOMAIN n.pending : n.pending[i].id \in Int
    BY <2>1 DEF ItemType
  <2>3. ToSet(Ids(n.pending)) \in SUBSET Int
    BY <2>2 DEF ToSet, Ids
  <2>4. QED
    BY <1>1, <1>2, <1>3, <1>4, <2>3, Nothing
<1>6. NativeFlushed(n) = [n EXCEPT !.output = n.output \o n.pending, !.pending = <<>>,
                                   !.outstanding = all]
  BY <1>2 DEF NativeFlushed
<1>7. PICK f : f = NativeFlushed(n)
  OBVIOUS
<1>8. /\ f.output = n.output \o n.pending /\ f.pending = <<>> /\ f.outstanding = all
      /\ f.deferred = n.deferred
      /\ f = [output |-> n.output \o n.pending, pending |-> <<>>, outstanding |-> all,
              deferred |-> n.deferred]
  BY <1>6, <1>7 DEF NativeState
<1>9. m = NativeStep(n, item)
  OBVIOUS
<1>10. CASE item.kind = "call"
  <2>1. m = [n EXCEPT !.pending = Append(@, item)]
    BY <1>9, <1>10 DEF NativeStep
  <2>2. Append(n.pending, item) = n.pending \o <<item>> /\ n.pending \o <<item>> \in Seq(ItemType)
    BY <1>1, AppendIs
  <2>3. m = [n EXCEPT !.pending = @ \o <<item>>] /\ m \in NativeState
    BY <2>1, <2>2 DEF NativeState
  <2>4. QED
    BY <1>10, <2>3
<1>11. CASE item.kind = "agent" /\ (n.pending # <<>> \/ n.outstanding # {})
  <2>1. m = [n EXCEPT !.deferred = Append(@, item)]
    BY <1>9, <1>11 DEF NativeStep
  <2>2. Append(n.deferred, item) = n.deferred \o <<item>> /\ n.deferred \o <<item>> \in Seq(ItemType)
    BY <1>1, AppendIs
  <2>3. m = [n EXCEPT !.deferred = @ \o <<item>>] /\ m \in NativeState
    BY <2>1, <2>2 DEF NativeState
  <2>4. QED
    BY <1>11, <2>3
<1>12. CASE item.kind = "agent" /\ n.pending = <<>> /\ n.outstanding = {}
  <2>1. m = [n EXCEPT !.output = Append(@, item)]
    BY <1>9, <1>12 DEF NativeStep
  <2>2. Append(n.output, item) = n.output \o <<item>> /\ n.output \o <<item>> \in Seq(ItemType)
    BY <1>1, AppendIs
  <2>3. m = [n EXCEPT !.output = @ \o <<item>>] /\ m \in NativeState
    BY <2>1, <2>2 DEF NativeState
  <2>4. QED
    BY <1>12, <2>3
<1>13. CASE item.kind \notin {"call", "agent"}
  <2>1. m = [f EXCEPT !.output = Append(@, item) \o due, !.outstanding = left,
                      !.deferred = IF left = {} THEN <<>> ELSE @]
    BY <1>3, <1>4, <1>7, <1>8, <1>9, <1>13 DEF NativeStep
  <2>2. PICK o \in Seq(ItemType) : o = n.output \o n.pending
    <3>1. n.output \o n.pending \in Seq(ItemType)
      BY <1>1
    <3>2. QED
      BY <3>1
  <2>3. Append(o, item) = o \o <<item>> /\ o \o <<item>> \o due \in Seq(ItemType)
    BY <1>5
  <2>4. m = [output |-> o \o <<item>> \o due, pending |-> <<>>,
             outstanding |-> left, deferred |-> IF left = {} THEN <<>> ELSE n.deferred]
    BY <1>8, <2>1, <2>2, <2>3
  <2>5. m \in NativeState
    BY <1>1, <1>5, <2>3, <2>4, Nothing DEF NativeState
  <2>6. m = [output |-> n.output \o n.pending \o <<item>> \o due, pending |-> <<>>,
             outstanding |-> left, deferred |-> IF left = {} THEN <<>> ELSE n.deferred]
    BY <2>2, <2>4
  <2>7. QED
    BY <1>2, <1>3, <1>4, <1>13, <2>5, <2>6 DEF NativeSends, StillDeferred
<1>14. QED
  BY <1>10, <1>11, <1>12, <1>13

NativeStarted == [output |-> <<>>, pending |-> <<>>, outstanding |-> {}, deferred |-> <<>>]
LEMMA NativePassUnfold ==
  ASSUME NEW input \in Seq(ItemType), NEW n \in Nat, n = Len(input)
  PROVE  \E g \in [0..n -> NativeState] :
           /\ g[0] = NativeStarted
           /\ \A i \in 1..n : g[i] = NativeStep(g[i - 1], input[i])
           /\ NativePass(input) = g[n]
<1>1. PICK base \in NativeState : base = NativeStarted
  BY Nothing DEF NativeStarted, NativeState
<1>2. \A i \in 1..n : input[i] \in ItemType
  OBVIOUS
<1> DEFINE F == [i \in 1..n |-> [b \in NativeState |-> NativeStep(b, input[i])]]
<1>4. F \in [1..n -> [NativeState -> NativeState]]
  BY <1>2, NativeStepIs
<1>5. \A i \in 1..n : \A b \in NativeState : F[i][b] = NativeStep(b, input[i])
  OBVIOUS
<1> HIDE DEF F
<1>6. PICK f : Recurs(f, n, NativeState, base, F)
  BY <1>4, RecursionExists
<1>7. f \in [0..n -> NativeState] /\ f[0] = base /\ \A i \in 1..n : f[i] = F[i][f[i - 1]]
  BY <1>6 DEF Recurs
<1>8. ASSUME NEW i \in 1..n PROVE f[i] = NativeStep(f[i - 1], input[i])
  <2>1. i - 1 \in 0..n /\ f[i - 1] \in NativeState
    BY <1>7
  <2>2. QED
    BY <1>5, <1>7, <2>1
<1> DEFINE B(g) == [i \in 0..n |-> IF i = 0 THEN base ELSE NativeStep(g[i - 1], input[i])]
           after == CHOOSE g : g = B(g)
<1>9. f = B(f)
  <2>1. \A i \in 0..n : f[i] = IF i = 0 THEN base ELSE NativeStep(f[i - 1], input[i])
    BY <1>7, <1>8
  <2>2. f = [i \in 0..n |-> f[i]]
    BY <1>7
  <2>3. QED
    BY <2>1, <2>2
<1>10. after = B(after)
  <2> HIDE DEF B
  <2>1. QED
    BY <1>9
<1>11. NativePass(input) = after[n]
  BY <1>1 DEF NativePass, NativeStarted
<1> HIDE DEF after
<1>12. \A i \in 0..n : after[i] = IF i = 0 THEN base ELSE NativeStep(after[i - 1], input[i])
  BY <1>10
<1> DEFINE T == {i \in 0..n : after[i] = f[i]}
<1>13. 0 \in T
  BY <1>7, <1>12
<1>14. ASSUME NEW i \in 0..n, i \in T, i < n PROVE i + 1 \in T
  <2>1. i + 1 \in 1..n /\ i + 1 \in 0..n /\ (i + 1) - 1 = i /\ i + 1 # 0
    BY <1>14
  <2>2. after[i + 1] = NativeStep(after[i], input[i + 1])
    BY <1>12, <2>1
  <2>3. f[i + 1] = NativeStep(f[i], input[i + 1])
    BY <1>8, <2>1
  <2>4. QED
    BY <1>14, <2>1, <2>2, <2>3
<1>15. n \in T
  <2> HIDE DEF T
  <2>1. \A i \in 0..n : i \in T
    BY <1>13, <1>14, Induction
  <2>2. QED
    BY <2>1
<1>16. QED
  BY <1>1, <1>7, <1>8, <1>11, <1>15
-----------------------------------------------------------------------------
(* A step of the chat pass, with what it does to the parts of the state.   *)

Prior(c, item, preserve, blank) ==
  IF preserve /\ TakesReasoning(c) THEN WithoutReasoning(c.messages, blank) ELSE c.messages

(* What it is that an item does. *)
SentCalls(c) == IF c.pending = NoCalls THEN <<>> ELSE <<c.pending>>
WaitedFor(c) == IF c.pending = NoCalls THEN c.outstanding
             ELSE c.outstanding \cup ToSet(c.pending.ids)

Sends(c, item, preserve) ==
  /\ item.kind # "call" /\ ~(item.kind = "agent" /\ Awaited(c))
  /\ ~(item.kind = "reasoning" /\ preserve)
Thinks(c, d) ==
  /\ d.messages = c.messages /\ d.pending = c.pending
  /\ d.outstanding = c.outstanding /\ d.deferred = c.deferred
Calls(c, d, item, preserve, blank) ==
  /\ d.messages = Prior(c, item, preserve, blank)
  /\ d.pending.ids = c.pending.ids \o <<item.id>>
  /\ d.pending.role = c.pending.role
  /\ d.outstanding = c.outstanding /\ d.deferred = c.deferred
Defers(c, d, item) ==
  /\ d.messages = c.messages /\ d.pending = c.pending
  /\ d.outstanding = c.outstanding
  /\ d.deferred = c.deferred \o ItemMessages(item, <<>>)
SendsAll(c, d, item) ==
  LET left == Unanswered(WaitedFor(c), item) IN
  /\ d.messages = c.messages \o SentCalls(c) \o ItemMessages(item, c.reasoning)
                    \o Due(left, c.deferred)
  /\ d.pending = NoCalls /\ d.outstanding = left
  /\ d.deferred = StillDeferred(left, c.deferred)

LEMMA ChatStepIs ==
  ASSUME NEW c \in ChatState, NEW item \in ItemType, NEW preserve \in BOOLEAN, NEW blank,
         NEW d, d = ChatStep(c, item, preserve, blank)
  PROVE  /\ item.kind = "reasoning" /\ preserve => Thinks(c, d)
         /\ item.kind = "call" => Calls(c, d, item, preserve, blank)
         /\ item.kind = "agent" /\ Awaited(c) => Defers(c, d, item)
         /\ Sends(c, item, preserve) => SendsAll(c, d, item)
<1>1. /\ c.messages \in Seq(MessageType) /\ c.reasoning \in Seq(Int)
      /\ c.pending \in MessageType /\ c.outstanding \in SUBSET Int
      /\ c.deferred \in Seq(MessageType) /\ item.id \in Int /\ c.pending.ids \in Seq(Int)
      /\ DOMAIN c = {"messages", "reasoning", "pending", "outstanding", "deferred"}
      /\ DOMAIN c.pending = {"role", "ids", "reasoning"}
  BY DEF ChatState, ItemType, MessageType
<1>2. d = ChatStep(c, item, preserve, blank)
  OBVIOUS
<1>3. PICK calls \in Seq(MessageType) : calls = SentCalls(c) /\ calls = IF c.pending = NoCalls THEN <<>> ELSE <<c.pending>>
  <2>1. <<c.pending>> \in Seq(MessageType)
    BY <1>1
  <2>2. QED
    BY <2>1, Nothing DEF SentCalls
<1>4. PICK all : all = WaitedFor(c) /\ all = IF c.pending = NoCalls THEN c.outstanding
                                            ELSE c.outstanding \cup ToSet(c.pending.ids)
  BY DEF WaitedFor
<1>5. PICK left : left = Unanswered(all, item)
                  /\ left = IF item.kind = "output" THEN all \ {item.id} ELSE all
  BY DEF Unanswered
<1>6. PICK due : due = Due(left, c.deferred) /\ due = IF left = {} THEN c.deferred ELSE <<>>
  BY DEF Due
<1>7. CASE item.kind = "reasoning" /\ preserve
  <2>1. d = [c EXCEPT !.reasoning = Append(@, item.id)]
    BY <1>2, <1>7 DEF ChatStep
  <2>2. QED
    BY <1>1, <1>7, <2>1 DEF Thinks, Sends
<1>8. CASE item.kind = "call"
  <2>1. d = CallStep(c, item, preserve, blank)
    BY <1>2, <1>8 DEF ChatStep
  <2>2. PICK ids \in Seq(Int) : ids = c.pending.ids
    BY <1>1
  <2>3. Append(ids, item.id) = ids \o <<item.id>>
    BY <1>1, AppendIs
  <2>4. \A r : /\ Merged(c.pending, item.id, r).ids = ids \o <<item.id>>
               /\ Merged(c.pending, item.id, r).role = c.pending.role
    BY <1>1, <2>2, <2>3 DEF Merged
  <2>5. /\ d.messages = Prior(c, item, preserve, blank)
        /\ d.outstanding = c.outstanding /\ d.deferred = c.deferred
        /\ \E r : d.pending = Merged(c.pending, item.id, r)
    BY <1>1, <2>1 DEF CallStep, Prior
  <2>6. QED
    BY <1>8, <2>2, <2>4, <2>5 DEF Calls, Sends
<1>9. CASE item.kind = "agent" /\ Awaited(c)
  <2>1. d = [c EXCEPT !.deferred = @ \o ItemMessages(item, <<>>), !.reasoning = <<>>]
    BY <1>2, <1>9 DEF ChatStep
  <2>2. QED
    BY <1>1, <1>9, <2>1 DEF Defers, Sends
<1>10. CASE Sends(c, item, preserve)
  <2>1. d = OtherStep(c, item)
    BY <1>2, <1>10 DEF ChatStep, Sends
  <2>2. PICK f : f = Flushed(c)
    OBVIOUS
  <2>3. /\ f.messages = c.messages \o calls /\ f.pending = NoCalls /\ f.outstanding = all
        /\ f.deferred = c.deferred
        /\ DOMAIN f = {"messages", "reasoning", "pending", "outstanding", "deferred"}
    <3>1. CASE c.pending = NoCalls
      <4>1. f = c /\ calls = <<>>
        BY <1>3, <2>2, <3>1 DEF Flushed
      <4>2. PICK m \in Seq(MessageType) : m = c.messages
        BY <1>1
      <4>3. m \o <<>> = m
        OBVIOUS
      <4>4. QED
        BY <1>1, <1>4, <3>1, <4>1, <4>2, <4>3
    <3>2. CASE c.pending # NoCalls
      <4>1. PICK m \in Seq(MessageType) : m = c.messages
        BY <1>1
      <4>2. Append(m, c.pending) = m \o <<c.pending>>
        BY <1>1, AppendIs
      <4>3. f = [c EXCEPT !.messages = Append(@, c.pending), !.pending = NoCalls,
                          !.outstanding = @ \cup ToSet(c.pending.ids)]
        BY <2>2, <3>2 DEF Flushed
      <4>4. QED
        BY <1>1, <1>3, <1>4, <3>2, <4>1, <4>2, <4>3
    <3>3. QED
      BY <3>1, <3>2
  <2>4. d = [f EXCEPT !.messages = @ \o ItemMessages(item, c.reasoning) \o due,
                      !.reasoning = Retained(item, c.reasoning), !.outstanding = left,
                      !.deferred = IF left = {} THEN <<>> ELSE @]
    BY <1>5, <1>6, <2>1, <2>2, <2>3 DEF OtherStep
  <2>5. /\ d.messages = c.messages \o calls \o ItemMessages(item, c.reasoning) \o due
        /\ d.pending = NoCalls /\ d.outstanding = left
        /\ d.deferred = IF left = {} THEN <<>> ELSE c.deferred
    BY <2>3, <2>4
  <2>6. QED
    BY <1>3, <1>4, <1>5, <1>6, <1>10, <2>5 DEF SendsAll, StillDeferred, Sends
<1>11. QED
  BY <1>7, <1>8, <1>9, <1>10 DEF Sends
-----------------------------------------------------------------------------
(* What an item says is what its messages are heard to say. *)

Associative(a, b, c) == (a \o b) \o c = a \o (b \o c)
LEMMA Associates ==
  ASSUME NEW S, NEW a \in Seq(S), NEW b \in Seq(S), NEW c \in Seq(S)
  PROVE  Associative(a, b, c)
BY DEF Associative

LEMMA WithNothing ==
  ASSUME NEW S, NEW a \in Seq(S)
  PROVE  a \o <<>> = a /\ <<>> \o a = a
OBVIOUS

LEMMA KeepIs ==
  ASSUME NEW s \in Seq(ItemType), WellRecorded(s), NEW i \in 1..Len(s)
  PROVE  s[i].id \in ToSet(Said(s)) <=> Speaks(s[i])
<1>1. PICK n \in Nat : n = Len(s) /\ DOMAIN s = 1..n
  OBVIOUS
<1>2. \A k \in 1..n : s[k] \in ItemType
  BY <1>1
<1>3. s[i].id \in Int
  BY <1>1, <1>2 DEF ItemType
<1>4. s[i].id \in ToSet(Said(s)) <=> \E k \in 1..n : Speaks(s[k]) /\ s[k].id = s[i].id
  BY <1>1, <1>3, SaidElements
<1>5. ASSUME NEW k \in 1..n, Speaks(s[k]), s[k].id = s[i].id
      PROVE  Speaks(s[i])
  <2>1. CASE k = i
    BY <1>5, <2>1
  <2>2. CASE k # i
    <3>1. Matches(s, k, i) \/ Matches(s, i, k)
      BY <1>1, <1>5, <2>2 DEF WellRecorded
    <3>2. s[i].kind \in {"call", "output"}
      BY <3>1 DEF Matches
    <3>3. s[i].tool # "blank"
      BY <1>1, <3>2 DEF WellRecorded
    <3>4. QED
      BY <3>2, <3>3 DEF Speaks
  <2>3. QED
    BY <2>1, <2>2
<1>6. QED
  BY <1>1, <1>4, <1>5

LEMMA BlankSilent ==
  ASSUME NEW s \in Seq(ItemType), WellRecorded(s), NEW x \in Blank(s)
  PROVE  x \notin ToSet(Said(s))
<1>1. PICK n \in Nat : n = Len(s) /\ DOMAIN s = 1..n
  OBVIOUS
<1>2. PICK i \in 1..n : s[i].tool = "blank" /\ s[i].id = x
  BY <1>1 DEF Blank
<1>3. ~Speaks(s[i])
  BY <1>2 DEF Speaks
<1>4. QED
  BY <1>1, <1>2, <1>3, KeepIs

LEMMA ItemHeard ==
  ASSUME NEW s \in Seq(ItemType), WellRecorded(s), NEW i \in 1..Len(s)
  PROVE  /\ Kept(<<s[i].id>>, ToSet(Said(s))) = Said(<<s[i]>>)
         /\ s[i].kind # "call" => \A prior \in Seq(Int) :
              Heard(ItemMessages(s[i], prior), ToSet(Said(s))) = Said(<<s[i]>>)
<1>1. PICK e \in ItemType : e = s[i]
  OBVIOUS
<1>2. PICK keep : keep = ToSet(Said(s))
  OBVIOUS
<1>3. e.id \in Int /\ e.kind \in Kinds
  BY DEF ItemType
<1>4. e.id \in keep <=> Speaks(e)
  BY <1>1, <1>2, KeepIs
<1>5. Said(<<e>>) = IF Speaks(e) THEN <<e.id>> ELSE <<>>
  BY SaidOne
<1>6. Kept(<<e.id>>, keep) = Said(<<e>>)
  BY <1>4, <1>5, KeptOne
<1>7. ASSUME e.kind # "call", NEW prior \in Seq(Int)
      PROVE  Heard(ItemMessages(e, prior), keep) = Said(<<e>>)
  <2>1. <<e.id>> \in Seq(Int)
    BY <1>3
  <2>2. CASE e.kind \in {"assistant", "user", "agent", "output"}
    <3>1. PICK m \in MessageType : m.ids = <<e.id>> /\ ItemMessages(e, prior) = <<m>>
      <4>1. CASE e.kind = "assistant"
        <5>1. Message("assistant", <<e.id>>, prior) \in MessageType
          BY <2>1 DEF Message, MessageType, Roles
        <5>2. Message("assistant", <<e.id>>, prior).ids = <<e.id>>
          BY DEF Message
        <5>3. QED
          BY <4>1, <5>1, <5>2 DEF ItemMessages
      <4>2. CASE e.kind \in {"user", "agent"}
        <5>1. Message("user", <<e.id>>, <<>>) \in MessageType
          BY <2>1, Nothing DEF Message, MessageType, Roles
        <5>2. Message("user", <<e.id>>, <<>>).ids = <<e.id>>
          BY DEF Message
        <5>3. QED
          BY <4>2, <5>1, <5>2 DEF ItemMessages
      <4>3. CASE e.kind = "output"
        <5>1. Message("tool", <<e.id>>, <<>>) \in MessageType
          BY <2>1, Nothing DEF Message, MessageType, Roles
        <5>2. Message("tool", <<e.id>>, <<>>).ids = <<e.id>>
          BY DEF Message
        <5>3. QED
          BY <4>3, <5>1, <5>2 DEF ItemMessages
      <4>4. QED
        BY <2>2, <4>1, <4>2, <4>3
    <3>2. Heard(<<m>>, keep) = Kept(<<e.id>>, keep)
      BY <3>1, HeardOne
    <3>3. QED
      BY <1>6, <3>1, <3>2
  <2>3. CASE e.kind \in {"reasoning", "other"}
    <3>1. ItemMessages(e, prior) = <<>>
      BY <2>3 DEF ItemMessages
    <3>2. ~Speaks(e)
      BY <2>3 DEF Speaks
    <3>3. Heard(<<>>, keep) = <<>>
      BY NoCallsType, HeardOne
    <3>4. QED
      BY <1>5, <3>1, <3>2, <3>3
  <2>4. QED
    BY <1>3, <1>7, <2>2, <2>3 DEF Kinds
<1>8. QED
  BY <1>1, <1>2, <1>6, <1>7

(* A sequence is its front and its last element. *)
LEMMA FrontLast ==
  ASSUME NEW S, NEW a \in Seq(S), a # <<>>
  PROVE  /\ Front(a) \in Seq(S) /\ Last(a) \in S /\ a = Front(a) \o <<Last(a)>>
         /\ Len(Front(a)) = Len(a) - 1 /\ Len(a) \in Nat /\ Last(a) = a[Len(a)] /\ Len(a) > 0
         /\ \A i \in 1..Len(Front(a)) : Front(a)[i] = a[i]
<1>1. PICK n \in Nat : n = Len(a) /\ n > 0 /\ DOMAIN a = 1..n
  <2>1. Len(a) \in Nat /\ Len(a) > 0 /\ DOMAIN a = 1..Len(a)
    OBVIOUS
  <2>2. QED
    BY <2>1
<1>2. PICK f \in Seq(S) : /\ f = Front(a) /\ Len(f) = n - 1
                          /\ \A i \in 1..(n - 1) : f[i] = a[i]
  <2>1. /\ SubSeq(a, 1, n - 1) \in Seq(S) /\ Len(SubSeq(a, 1, n - 1)) = n - 1
        /\ \A i \in 1..(n - 1) : SubSeq(a, 1, n - 1)[i] = a[i]
    BY <1>1
  <2>2. QED
    BY <1>1, <2>1 DEF Front
<1>3. PICK last \in S : last = Last(a) /\ last = a[n]
  <2>1. a[n] \in S /\ Last(a) = a[n]
    BY <1>1 DEF Last
  <2>2. QED
    BY <2>1
<1>4. PICK t \in Seq(S) : t = f \o <<last>>
  <2>1. f \o <<last>> \in Seq(S)
    BY AppendIs
  <2>2. QED
    BY <2>1
<1>5. Len(t) = n /\ \A i \in 1..n : t[i] = a[i]
  BY <1>1, <1>2, <1>3, <1>4
<1>6. a = t
  BY <1>1, <1>5, SameSequence
<1>7. QED
  BY <1>1, <1>2, <1>3, <1>4, <1>6

(* Taking the reasoning of the text before a call silences nothing. *)
LEMMA WithoutReasoningHeard ==
  ASSUME NEW messages \in Seq(MessageType), messages # <<>>, Len(Last(messages).ids) = 1,
         NEW blank, NEW keep, \A x \in blank : x \notin keep
  PROVE  Heard(WithoutReasoning(messages, blank), keep) = Heard(messages, keep)
<1>1. PICK front \in Seq(MessageType), m \in MessageType :
        front = Front(messages) /\ m = Last(messages) /\ messages = front \o <<m>>
  <2>1. /\ Front(messages) \in Seq(MessageType) /\ Last(messages) \in MessageType
        /\ messages = Front(messages) \o <<Last(messages)>>
    BY FrontLast
  <2>2. QED
    BY <2>1, Zenon
<1>2. <<m>> \in Seq(MessageType) /\ m.ids \in Seq(Int)
  BY DEF MessageType
<1>3. Heard(messages, keep) = Heard(front, keep) \o Kept(m.ids, keep)
  <2>1. Heard(front \o <<m>>, keep) = Heard(front, keep) \o Heard(<<m>>, keep)
    BY <1>2, HeardBoth
  <2>2. Heard(<<m>>, keep) = Kept(m.ids, keep)
    BY HeardOne
  <2>3. QED
    BY <1>1, <2>1, <2>2
<1>4. Heard(front, keep) \in Seq(Int)
  BY <1>2, HeardBoth
<1>5. CASE IsShell(m, blank)
  <2>1. PICK x \in Int : m.ids = <<x>>
    <3>1. PICK ids \in Seq(Int) : ids = m.ids
      BY <1>2
    <3>2. Len(ids) = 1
      BY <1>1, <3>1
    <3>3. PICK x \in Int : x = ids[1]
      <4>1. \A i \in 1..Len(ids) : ids[i] \in Int
        OBVIOUS
      <4>2. QED
        BY <3>2, <4>1
    <3>4. PICK one \in Seq(Int) : one = <<x>> /\ Len(one) = 1 /\ one[1] = x
      <4>1. <<x>> \in Seq(Int) /\ Len(<<x>>) = 1 /\ <<x>>[1] = x
        OBVIOUS
      <4>2. QED
        BY <4>1
    <3>5. \A i \in 1..Len(ids) : ids[i] = one[i]
      BY <3>2, <3>3, <3>4
    <3>6. ids = one
      BY <3>2, <3>4, <3>5, SameSequence
    <3>7. QED
      BY <3>1, <3>4, <3>6
  <2>2. x \notin keep
    BY <1>5, <2>1 DEF IsShell
  <2>3. Kept(m.ids, keep) = <<>>
    BY <2>1, <2>2, KeptOne
  <2>4. WithoutReasoning(messages, blank) = front \o <<>>
    BY <1>1, <1>5 DEF WithoutReasoning
  <2>5. front \o <<>> = front
    BY WithNothing
  <2>6. Heard(front, keep) \o <<>> = Heard(front, keep)
    BY <1>4, WithNothing
  <2>7. QED
    BY <1>3, <2>3, <2>4, <2>5, <2>6
<1>6. CASE ~IsShell(m, blank)
  <2>1. PICK q \in MessageType : q = [m EXCEPT !.reasoning = <<>>] /\ q.ids = m.ids
    <3>1. [m EXCEPT !.reasoning = <<>>] \in MessageType /\ [m EXCEPT !.reasoning = <<>>].ids = m.ids
      BY Nothing DEF MessageType
    <3>2. QED
      BY <3>1
  <2>2. WithoutReasoning(messages, blank) = front \o <<q>>
    BY <1>1, <1>6, <2>1 DEF WithoutReasoning
  <2>3. PICK last \in Seq(MessageType) : last = <<q>>
    <3>1. <<q>> \in Seq(MessageType)
      OBVIOUS
    <3>2. QED
      BY <3>1
  <2>4. Heard(front \o <<q>>, keep) = Heard(front, keep) \o Kept(q.ids, keep)
    <3>1. Heard(front \o last, keep) = Heard(front, keep) \o Heard(last, keep)
      BY HeardBoth
    <3>2. Heard(<<q>>, keep) = Kept(q.ids, keep)
      BY HeardOne
    <3>3. QED
      BY <2>3, <3>1, <3>2
  <2>5. QED
    BY <1>3, <2>1, <2>2, <2>4
<1>7. QED
  BY <1>5, <1>6
-----------------------------------------------------------------------------
(* The two passes, side by side. *)

LEMMA IdsSet ==
  ASSUME NEW a \in Seq(ItemType)
  PROVE  /\ ToSet(Ids(a)) = {} <=> a = <<>>
         /\ \A e \in ItemType : ToSet(Ids(a \o <<e>>)) = ToSet(Ids(a)) \cup {e.id}
<1>1. PICK n \in Nat : n = Len(a) /\ DOMAIN a = 1..n
  OBVIOUS
<1>2. ToSet(Ids(a)) = {a[k].id : k \in 1..n}
  BY <1>1 DEF ToSet, Ids
<1>3. ToSet(Ids(a)) = {} <=> a = <<>>
  <2>1. n = 0 <=> a = <<>>
    BY <1>1
  <2>2. n # 0 => 1 \in 1..n
    OBVIOUS
  <2>3. n = 0 => 1..n = {}
    OBVIOUS
  <2>4. QED
    BY <1>2, <2>1, <2>2, <2>3
<1>4. ASSUME NEW e \in ItemType
      PROVE  ToSet(Ids(a \o <<e>>)) = ToSet(Ids(a)) \cup {e.id}
  <2>1. PICK b \in Seq(ItemType) : b = a \o <<e>>
    BY AppendIs
  <2>2. /\ DOMAIN b = 1..(n + 1) /\ b[n + 1] = e
        /\ \A k \in 1..n : b[k] = a[k]
    BY <1>1, <2>1
  <2>3. ToSet(Ids(b)) = {b[k].id : k \in 1..(n + 1)}
    BY <2>2 DEF ToSet, Ids
  <2>4. \A k \in 1..(n + 1) : k \in 1..n \/ k = n + 1
    OBVIOUS
  <2>5. n + 1 \in 1..(n + 1) /\ \A k \in 1..n : k \in 1..(n + 1)
    OBVIOUS
  <2>6. QED
    BY <1>2, <2>1, <2>2, <2>3, <2>4, <2>5
<1>5. QED
  BY <1>3, <1>4

Keep(s) == ToSet(Said(s))
Singles(messages) ==
  \A k \in DOMAIN messages : messages[k].role = "assistant" => Len(messages[k].ids) = 1

(* After i items both passes said the same, in the same order, and wait    *)
(* for the outputs of the same calls.                                      *)
Alike(s, c, n) ==
  /\ Heard(c.messages, Keep(s)) \o Kept(c.pending.ids, Keep(s)) = Said(n.output) \o Said(n.pending)
  /\ Heard(c.deferred, Keep(s)) = Said(n.deferred)
Waiting(s, i, c, n) ==
  /\ ToSet(c.pending.ids) \cup c.outstanding = Open(s, i)
  /\ n.outstanding \cup ToSet(Ids(n.pending)) = Open(s, i)
  /\ Open(s, i) = {} => c.deferred = <<>> /\ n.deferred = <<>>
Formed(c) ==
  /\ Singles(c.messages)
  /\ \A k \in DOMAIN c.deferred : c.deferred[k].role = "user"
  /\ c.pending.ids = <<>> => c.pending = NoCalls
  /\ c.pending.role = "calls"

LEMMA SinglesBoth ==
  ASSUME NEW a \in Seq(MessageType), NEW b \in Seq(MessageType), Singles(a), Singles(b)
  PROVE  Singles(a \o b)
<1>1. PICK m \in Nat, n \in Nat : m = Len(a) /\ n = Len(b) /\ DOMAIN a = 1..m /\ DOMAIN b = 1..n
  OBVIOUS
<1>2. PICK t : t = a \o b
  OBVIOUS
<1>3. DOMAIN t = 1..(m + n)
  BY <1>1, <1>2
<1>4. \A k \in 1..(m + n) : (k \in 1..m /\ t[k] = a[k]) \/ (k - m \in 1..n /\ t[k] = b[k - m])
  BY <1>1, <1>2
<1>5. QED
  BY <1>1, <1>2, <1>3, <1>4 DEF Singles

LEMMA ItemFormed ==
  ASSUME NEW e \in ItemType, NEW prior \in Seq(Int)
  PROVE  /\ Singles(ItemMessages(e, prior))
         /\ e.kind = "agent" => ItemMessages(e, prior) = <<Message("user", <<e.id>>, <<>>)>>
         /\ Singles(<<>>)
<1>1. \A role, r : /\ DOMAIN <<Message(role, <<e.id>>, r)>> = {1}
                   /\ Len(Message(role, <<e.id>>, r).ids) = 1
                   /\ <<Message(role, <<e.id>>, r)>>[1] = Message(role, <<e.id>>, r)
  BY DEF Message
<1>2. \A role, r : Singles(<<Message(role, <<e.id>>, r)>>)
  BY <1>1 DEF Singles
<1>3. Singles(<<>>)
  <2>1. DOMAIN <<>> = {}
    OBVIOUS
  <2>2. QED
    BY <2>1 DEF Singles
<1>4. e.kind = "agent" => ItemMessages(e, prior) = <<Message("user", <<e.id>>, <<>>)>>
  BY DEF ItemMessages
<1>5. QED
  BY <1>2, <1>3, <1>4 DEF ItemMessages

(* The first messages stay, and the last one keeps its ids. *)
LEMMA WithoutReasoningFormed ==
  ASSUME NEW a \in Seq(MessageType), a # <<>>, NEW blank, Singles(a)
  PROVE  Singles(WithoutReasoning(a, blank))
<1>1. PICK front \in Seq(MessageType), m \in MessageType :
        /\ front = Front(a) /\ m = Last(a) /\ m = a[Len(a)] /\ Len(a) \in DOMAIN a
        /\ DOMAIN front = 1..Len(front) /\ \A k \in DOMAIN front : k \in DOMAIN a /\ front[k] = a[k]
  <2>1. /\ Front(a) \in Seq(MessageType) /\ Last(a) \in MessageType
        /\ Len(Front(a)) = Len(a) - 1 /\ Len(a) \in Nat /\ Last(a) = a[Len(a)] /\ Len(a) > 0
        /\ \A i \in 1..Len(Front(a)) : Front(a)[i] = a[i]
    BY FrontLast
  <2>2. DOMAIN a = 1..Len(a) /\ DOMAIN Front(a) = 1..Len(Front(a))
    BY <2>1
  <2>3. Len(a) \in DOMAIN a /\ \A k \in DOMAIN Front(a) : k \in DOMAIN a
    BY <2>1, <2>2
  <2>4. QED
    BY <2>1, <2>2, <2>3, Zenon
<1>2. Singles(front)
  BY <1>1 DEF Singles
<1>3. m.role = "assistant" => Len(m.ids) = 1
  BY <1>1 DEF Singles
<1>4. PICK q \in MessageType : q = [m EXCEPT !.reasoning = <<>>] /\ q.ids = m.ids /\ q.role = m.role
  <2>1. /\ [m EXCEPT !.reasoning = <<>>] \in MessageType /\ [m EXCEPT !.reasoning = <<>>].ids = m.ids
        /\ [m EXCEPT !.reasoning = <<>>].role = m.role
    BY Nothing DEF MessageType
  <2>2. QED
    BY <2>1
<1>5. PICK one \in Seq(MessageType) : one = <<q>> /\ DOMAIN one = {1} /\ one[1] = q
  <2>1. <<q>> \in Seq(MessageType) /\ DOMAIN <<q>> = {1} /\ <<q>>[1] = q
    OBVIOUS
  <2>2. QED
    BY <2>1
<1>6. Singles(one)
  BY <1>3, <1>4, <1>5 DEF Singles
<1>7. Singles(front \o one)
  BY <1>2, <1>6, SinglesBoth
<1>8. front \o <<>> = front
  BY WithNothing
<1>9. QED
  BY <1>1, <1>2, <1>4, <1>5, <1>7, <1>8 DEF WithoutReasoning
-----------------------------------------------------------------------------

LEMMA NextFormed ==
  ASSUME NEW c \in ChatState, NEW item \in ItemType, NEW preserve \in BOOLEAN, NEW blank, Formed(c)
  PROVE  Formed(ChatStep(c, item, preserve, blank))
<1>1. PICK d : d = ChatStep(c, item, preserve, blank)
  OBVIOUS
<1>2. /\ c.messages \in Seq(MessageType) /\ c.deferred \in Seq(MessageType)
      /\ c.pending \in MessageType /\ c.reasoning \in Seq(Int) /\ c.pending.ids \in Seq(Int)
      /\ item.id \in Int
  BY DEF ChatState, MessageType, ItemType
<1>3. /\ Singles(c.messages) /\ \A k \in DOMAIN c.deferred : c.deferred[k].role = "user"
      /\ c.pending.ids = <<>> => c.pending = NoCalls
      /\ c.pending.role = "calls"
  BY DEF Formed
<1>4. CASE item.kind = "reasoning" /\ preserve
  <2>1. d.messages = c.messages /\ d.pending = c.pending /\ d.deferred = c.deferred
    <3>1. Thinks(c, d)
      BY <1>1, <1>4, ChatStepIs
    <3>2. QED
      BY <3>1 DEF Thinks
  <2>2. QED
    BY <1>1, <1>3, <2>1 DEF Formed
<1>5. CASE item.kind = "call"
  <2>1. /\ d.messages = Prior(c, item, preserve, blank)
        /\ d.pending.ids = c.pending.ids \o <<item.id>> /\ d.pending.role = c.pending.role
        /\ d.deferred = c.deferred
    <3>1. Calls(c, d, item, preserve, blank)
      BY <1>1, <1>5, ChatStepIs
    <3>2. QED
      BY <3>1 DEF Calls
  <2>2. Singles(d.messages)
    <3>1. CASE preserve /\ TakesReasoning(c)
      <4>1. c.messages # <<>>
        BY <3>1 DEF TakesReasoning
      <4>2. QED
        BY <1>2, <1>3, <2>1, <3>1, <4>1, WithoutReasoningFormed DEF Prior
    <3>2. CASE ~(preserve /\ TakesReasoning(c))
      BY <1>3, <2>1, <3>2 DEF Prior
    <3>3. QED
      BY <3>1, <3>2
  <2>3. c.pending.ids \o <<item.id>> # <<>>
    BY <1>2
  <2>4. QED
    BY <1>1, <1>3, <2>1, <2>2, <2>3 DEF Formed
<1>6. CASE item.kind = "agent" /\ Awaited(c)
  <2>1. /\ d.messages = c.messages /\ d.pending = c.pending
        /\ d.deferred = c.deferred \o ItemMessages(item, <<>>)
    <3>1. Defers(c, d, item)
      BY <1>1, <1>6, ChatStepIs
    <3>2. QED
      BY <3>1 DEF Defers
  <2>2. PICK m \in MessageType : m = Message("user", <<item.id>>, <<>>) /\ m.role = "user"
    <3>1. Message("user", <<item.id>>, <<>>) \in MessageType
      BY <1>2, Nothing DEF Message, MessageType, Roles
    <3>2. Message("user", <<item.id>>, <<>>).role = "user"
      BY DEF Message
    <3>3. QED
      BY <3>1, <3>2
  <2>3. d.deferred = c.deferred \o <<m>>
    BY <1>6, <2>1, <2>2, Nothing, ItemFormed
  <2>4. PICK a \in Seq(MessageType) : a = c.deferred
    BY <1>2
  <2>5. \A k \in DOMAIN (a \o <<m>>) : (k \in DOMAIN a /\ (a \o <<m>>)[k] = a[k]) \/ (a \o <<m>>)[k] = m
    OBVIOUS
  <2>6. \A k \in DOMAIN d.deferred : d.deferred[k].role = "user"
    BY <1>3, <2>2, <2>3, <2>4, <2>5
  <2>7. QED
    BY <1>1, <1>3, <2>1, <2>6 DEF Formed
<1>7. CASE Sends(c, item, preserve)
  <2>1. PICK calls, due :
          /\ calls = IF c.pending = NoCalls THEN <<>> ELSE <<c.pending>>
          /\ due = c.deferred \/ due = <<>>
          /\ d.messages = c.messages \o calls \o ItemMessages(item, c.reasoning) \o due
          /\ d.pending = NoCalls /\ (d.deferred = <<>> \/ d.deferred = c.deferred)
    <3>1. SendsAll(c, d, item)
      BY <1>1, <1>7, ChatStepIs
    <3>2. PICK left : left = Unanswered(WaitedFor(c), item)
      OBVIOUS
    <3>3. /\ d.messages = c.messages \o SentCalls(c) \o ItemMessages(item, c.reasoning)
                            \o Due(left, c.deferred)
          /\ d.pending = NoCalls /\ d.deferred = StillDeferred(left, c.deferred)
      BY <3>1, <3>2 DEF SendsAll
    <3>4. QED
      BY <3>3 DEF SentCalls, Due, StillDeferred
  <2>2. calls \in Seq(MessageType) /\ Singles(calls)
    <3>1. CASE c.pending = NoCalls
      BY <2>1, <3>1, Nothing, ItemFormed
    <3>2. CASE c.pending # NoCalls
      <4>1. calls = <<c.pending>>
        BY <2>1, <3>2
      <4>2. <<c.pending>> \in Seq(MessageType) /\ DOMAIN <<c.pending>> = {1} /\ <<c.pending>>[1] = c.pending
        BY <1>2
      <4>3. QED
        BY <1>3, <4>1, <4>2 DEF Singles
    <3>3. QED
      BY <3>1, <3>2
  <2>3. due \in Seq(MessageType) /\ Singles(due)
    BY <1>2, <1>3, <2>1, Nothing, ItemFormed DEF Singles
  <2>4. PICK own \in Seq(MessageType) : own = ItemMessages(item, c.reasoning) /\ Singles(own)
    BY <1>2, ItemMessagesType, ItemFormed
  <2>5. PICK x \in Seq(MessageType) : x = c.messages \o calls /\ Singles(x)
    <3>1. c.messages \o calls \in Seq(MessageType)
      BY <1>2, <2>2
    <3>2. Singles(c.messages \o calls)
      BY <1>2, <1>3, <2>2, SinglesBoth
    <3>3. QED
      BY <3>1, <3>2
  <2>6. PICK y \in Seq(MessageType) : y = x \o own /\ Singles(y)
    <3>1. x \o own \in Seq(MessageType)
      OBVIOUS
    <3>2. Singles(x \o own)
      BY <2>4, <2>5, SinglesBoth
    <3>3. QED
      BY <3>1, <3>2
  <2>7. Singles(y \o due)
    BY <2>3, <2>6, SinglesBoth
  <2>8. Singles(d.messages)
    BY <2>1, <2>4, <2>5, <2>6, <2>7
  <2>9. NoCalls.role = "calls"
    BY DEF NoCalls, Message
  <2>10. DOMAIN <<>> = {}
    OBVIOUS
  <2>11. QED
    BY <1>1, <1>3, <2>1, <2>8, <2>9, <2>10 DEF Formed
<1>8. QED
  BY <1>4, <1>5, <1>6, <1>7 DEF Sends

(* Who waits, as the state of each pass tells it. *)
LEMMA WaitingMeans ==
  ASSUME NEW c \in ChatState, NEW n \in NativeState, NEW s, NEW i, Waiting(s, i, c, n), Formed(c)
  PROVE  /\ Awaited(c) <=> Open(s, i) # {}
         /\ n.pending # <<>> \/ n.outstanding # {} <=> Open(s, i) # {}
         /\ WaitedFor(c) = Open(s, i) /\ NativeAll(n) = Open(s, i)
<1>1. c.pending.ids \in Seq(Int) /\ n.pending \in Seq(ItemType)
  BY DEF ChatState, MessageType, NativeState
<1>2. ToSet(c.pending.ids) \cup c.outstanding = Open(s, i)
  BY DEF Waiting
<1>3. c.pending = NoCalls => ToSet(c.pending.ids) = {}
  BY NoCallsType, ToSetOne
<1>4. c.pending # NoCalls => ToSet(c.pending.ids) # {}
  BY <1>1, ToSetEmpty DEF Formed
<1>5. ToSet(Ids(n.pending)) = {} <=> n.pending = <<>>
  BY <1>1, IdsSet
<1>6. QED
  BY <1>2, <1>3, <1>4, <1>5 DEF Waiting, Awaited, WaitedFor, NativeAll

LEMMA NextWaiting ==
  ASSUME NEW s \in Seq(ItemType), WellRecorded(s), NEW i \in 1..Len(s), NEW c \in ChatState,
         NEW n \in NativeState, NEW preserve \in BOOLEAN, NEW blank, Formed(c), Waiting(s, i - 1, c, n)
  PROVE  Waiting(s, i, ChatStep(c, s[i], preserve, blank), NativeStep(n, s[i]))
<1>1. PICK e \in ItemType : e = s[i]
  OBVIOUS
<1>2. PICK d, m : d = ChatStep(c, e, preserve, blank) /\ m = NativeStep(n, e)
  OBVIOUS
<1>3. /\ c.pending.ids \in Seq(Int) /\ n.pending \in Seq(ItemType) /\ e.id \in Int
      /\ e.kind \in Kinds
  BY DEF ChatState, MessageType, NativeState, ItemType
<1>4. PICK open, next, k : open = Open(s, k) /\ next = Open(s, i) /\ k = i - 1
  OBVIOUS
<1>5. /\ e.kind = "call" => next = open \cup {e.id}
      /\ e.kind = "output" => next = open \ {e.id}
      /\ e.kind \notin {"call", "output"} => next = open
  BY <1>1, <1>4, OpenStep
<1>6. /\ Awaited(c) <=> open # {}
      /\ n.pending # <<>> \/ n.outstanding # {} <=> open # {}
      /\ WaitedFor(c) = open /\ NativeAll(n) = open
      /\ ToSet(c.pending.ids) \cup c.outstanding = open
      /\ n.outstanding \cup ToSet(Ids(n.pending)) = open
      /\ open = {} => c.deferred = <<>> /\ n.deferred = <<>>
  BY <1>4, WaitingMeans DEF Waiting
<1>7. ToSet(NoCalls.ids) = {} /\ ToSet(Ids(<<>>)) = {}
  BY NoCallsType, ToSetOne, IdsSet, Nothing
<1>8. SUFFICES /\ ToSet(d.pending.ids) \cup d.outstanding = next
               /\ m.outstanding \cup ToSet(Ids(m.pending)) = next
               /\ next = {} => d.deferred = <<>> /\ m.deferred = <<>>
  BY <1>1, <1>2, <1>4 DEF Waiting
<1>9. CASE e.kind = "call"
  <2>1. /\ d.pending.ids = c.pending.ids \o <<e.id>> /\ d.outstanding = c.outstanding
    <3>1. Calls(c, d, e, preserve, blank)
      BY <1>2, <1>9, ChatStepIs
    <3>2. QED
      BY <3>1 DEF Calls
  <2>2. ToSet(c.pending.ids \o <<e.id>>) = ToSet(c.pending.ids) \cup {e.id}
    <3>1. <<e.id>> \in Seq(Int)
      BY <1>3
    <3>2. ToSet(c.pending.ids \o <<e.id>>) = ToSet(c.pending.ids) \cup ToSet(<<e.id>>)
      BY <1>3, <3>1, ToSetBoth
    <3>3. QED
      BY <3>2, ToSetOne
  <2>3. m = [n EXCEPT !.pending = @ \o <<e>>]
    BY <1>2, <1>9, NativeStepIs
  <2>4. m.pending = n.pending \o <<e>> /\ m.outstanding = n.outstanding
    BY <2>3 DEF NativeState
  <2>5. ToSet(Ids(n.pending \o <<e>>)) = ToSet(Ids(n.pending)) \cup {e.id}
    BY <1>3, IdsSet
  <2>6. QED
    BY <1>5, <1>6, <1>9, <2>1, <2>2, <2>4, <2>5
<1>10. CASE e.kind = "agent" /\ open # {}
  <2>1. d.pending = c.pending /\ d.outstanding = c.outstanding
    <3>1. Defers(c, d, e)
      BY <1>2, <1>6, <1>10, ChatStepIs
    <3>2. QED
      BY <3>1 DEF Defers
  <2>2. m = [n EXCEPT !.deferred = @ \o <<e>>]
    BY <1>2, <1>6, <1>10, NativeStepIs
  <2>3. m.pending = n.pending /\ m.outstanding = n.outstanding
    BY <2>2 DEF NativeState
  <2>4. QED
    BY <1>5, <1>6, <1>10, <2>1, <2>3
<1>11. CASE e.kind # "call" /\ ~(e.kind = "agent" /\ open # {})
  <2>1. PICK left : left = IF e.kind = "output" THEN open \ {e.id} ELSE open
    OBVIOUS
  <2>2. left = next
    BY <1>5, <1>11, <2>1
  <2>3. /\ ToSet(d.pending.ids) \cup d.outstanding = next
        /\ next = {} => d.deferred = <<>>
    <3>1. CASE e.kind = "reasoning" /\ preserve
      <4>1. d.pending = c.pending /\ d.outstanding = c.outstanding /\ d.deferred = c.deferred
        <5>1. Thinks(c, d)
          BY <1>2, <3>1, ChatStepIs
        <5>2. QED
          BY <5>1 DEF Thinks
      <4>2. QED
        BY <1>5, <1>6, <3>1, <4>1
    <3>2. CASE ~(e.kind = "reasoning" /\ preserve)
      <4>1. /\ d.pending = NoCalls /\ d.outstanding = left
            /\ d.deferred = IF left = {} THEN <<>> ELSE c.deferred
        <5>1. Sends(c, e, preserve)
          BY <1>6, <1>11, <3>2 DEF Sends
        <5>2. SendsAll(c, d, e)
          BY <1>2, <5>1, ChatStepIs
        <5>3. Unanswered(WaitedFor(c), e) = left
          BY <1>6, <2>1 DEF Unanswered
        <5>4. QED
          BY <5>2, <5>3 DEF SendsAll, StillDeferred
      <4>2. QED
        BY <1>7, <2>2, <4>1
    <3>3. QED
      BY <3>1, <3>2
  <2>4. /\ m.outstanding \cup ToSet(Ids(m.pending)) = next
        /\ next = {} => m.deferred = <<>>
    <3>1. CASE e.kind = "agent"
      <4>1. m = [n EXCEPT !.output = @ \o <<e>>]
        BY <1>2, <1>6, <1>11, <3>1, NativeStepIs
      <4>2. m.pending = n.pending /\ m.outstanding = n.outstanding /\ m.deferred = n.deferred
        BY <4>1 DEF NativeState
      <4>3. QED
        BY <1>5, <1>6, <1>11, <3>1, <4>2
    <3>2. CASE e.kind # "agent"
      <4>1. /\ m.pending = <<>> /\ m.outstanding = left
            /\ m.deferred = IF left = {} THEN <<>> ELSE n.deferred
        <5>1. NativeSends(n, m, e)
          BY <1>2, <1>11, <3>2, NativeStepIs
        <5>2. Unanswered(NativeAll(n), e) = left
          BY <1>6, <2>1 DEF Unanswered
        <5>3. QED
          BY <5>1, <5>2 DEF NativeSends, StillDeferred
      <4>2. QED
        BY <1>7, <2>2, <4>1
    <3>3. QED
      BY <3>1, <3>2
  <2>5. QED
    BY <2>3, <2>4
<1>12. QED
  BY <1>9, <1>10, <1>11
-----------------------------------------------------------------------------

(* Equations about concatenation, as predicates of their own: provers then *)
(* do not rewrite with them without end.                                   *)
HeardJoin(a, b, keep) == Heard(a \o b, keep) = Heard(a, keep) \o Heard(b, keep)
KeptJoin(a, b, keep) == Kept(a \o b, keep) = Kept(a, keep) \o Kept(b, keep)
SaidJoin(a, b) == Said(a \o b) = Said(a) \o Said(b)
LEMMA HeardJoins ==
  ASSUME NEW a \in Seq(MessageType), NEW b \in Seq(MessageType), NEW keep
  PROVE  HeardJoin(a, b, keep)
BY HeardBoth DEF HeardJoin

LEMMA KeptJoins ==
  ASSUME NEW a \in Seq(Int), NEW b \in Seq(Int), NEW keep
  PROVE  KeptJoin(a, b, keep)
BY KeptBoth DEF KeptJoin

LEMMA SaidJoins ==
  ASSUME NEW a \in Seq(ItemType), NEW b \in Seq(ItemType)
  PROVE  SaidJoin(a, b)
BY SaidBoth DEF SaidJoin

HeardAll(a, b, o, due, keep) ==
  Heard(((a \o b) \o o) \o due, keep)
    = ((Heard(a, keep) \o Heard(b, keep)) \o Heard(o, keep)) \o Heard(due, keep)
LEMMA HeardFour ==
  ASSUME NEW a \in Seq(MessageType), NEW b \in Seq(MessageType), NEW o \in Seq(MessageType),
         NEW due \in Seq(MessageType), NEW keep
  PROVE  HeardAll(a, b, o, due, keep)
<1>1. PICK ab \in Seq(MessageType) : ab = a \o b
  <2>1. a \o b \in Seq(MessageType)
    OBVIOUS
  <2>2. QED
    BY <2>1
<1>2. PICK abo \in Seq(MessageType) : abo = ab \o o
  <2>1. ab \o o \in Seq(MessageType)
    OBVIOUS
  <2>2. QED
    BY <2>1
<1>3. HeardJoin(a, b, keep) /\ HeardJoin(ab, o, keep) /\ HeardJoin(abo, due, keep)
  BY HeardJoins
<1>4. QED
  BY <1>1, <1>2, <1>3 DEF HeardJoin, HeardAll

SaidAll(a, b, o, due) ==
  Said(((a \o b) \o o) \o due) = ((Said(a) \o Said(b)) \o Said(o)) \o Said(due)
LEMMA SaidFour ==
  ASSUME NEW a \in Seq(ItemType), NEW b \in Seq(ItemType), NEW o \in Seq(ItemType),
         NEW due \in Seq(ItemType)
  PROVE  SaidAll(a, b, o, due)
<1>1. PICK ab \in Seq(ItemType) : ab = a \o b
  <2>1. a \o b \in Seq(ItemType)
    OBVIOUS
  <2>2. QED
    BY <2>1
<1>2. PICK abo \in Seq(ItemType) : abo = ab \o o
  <2>1. ab \o o \in Seq(ItemType)
    OBVIOUS
  <2>2. QED
    BY <2>1
<1>3. SaidJoin(a, b) /\ SaidJoin(ab, o) /\ SaidJoin(abo, due)
  BY SaidJoins
<1>4. QED
  BY <1>1, <1>2, <1>3 DEF SaidJoin, SaidAll

SameBoth(A, P, O, Q) == A \o P = O \o Q
LEMMA AddedToBoth ==
  ASSUME NEW A \in Seq(Int), NEW P \in Seq(Int), NEW O \in Seq(Int), NEW Q \in Seq(Int),
         NEW w \in Seq(Int), SameBoth(A, P, O, Q)
  PROVE  SameBoth(A, P \o w, O, Q \o w)
<1>1. Associative(A, P, w) /\ Associative(O, Q, w)
  BY Associates
<1>2. QED
  BY <1>1 DEF Associative, SameBoth

(* What both passes have said after an item that sends what waits. *)
HeardSent(s, c, d, e, left) ==
  /\ Heard(d.messages, Keep(s)) = ((Heard(c.messages, Keep(s)) \o Kept(c.pending.ids, Keep(s)))
                                    \o Said(<<e>>)) \o Heard(Due(left, c.deferred), Keep(s))
  /\ Kept(d.pending.ids, Keep(s)) = <<>>
  /\ d.deferred = StillDeferred(left, c.deferred)
LEMMA SendsHeard ==
  ASSUME NEW s \in Seq(ItemType), WellRecorded(s), NEW i \in 1..Len(s), NEW c \in ChatState,
         NEW d, SendsAll(c, d, s[i]), s[i].kind # "call", NEW left,
         left = Unanswered(WaitedFor(c), s[i])
  PROVE  HeardSent(s, c, d, s[i], left)
<1>1. PICK e \in ItemType : e = s[i]
  OBVIOUS
<1>2. /\ c.messages \in Seq(MessageType) /\ c.deferred \in Seq(MessageType)
      /\ c.pending \in MessageType /\ c.reasoning \in Seq(Int)
  BY DEF ChatState
<1>3. PICK keep : keep = Keep(s)
  OBVIOUS
<1>4. PICK a \in Seq(MessageType) : a = c.messages
  BY <1>2
<1>5. PICK b \in Seq(MessageType) : b = SentCalls(c) /\ Heard(b, keep) = Kept(c.pending.ids, keep)
  <2>1. CASE c.pending = NoCalls
    <3>1. SentCalls(c) = <<>> /\ c.pending.ids = <<>>
      BY <2>1, NoCallsType DEF SentCalls
    <3>2. Heard(<<>>, keep) = <<>> /\ Kept(<<>>, keep) = <<>>
      BY NoCallsType, HeardOne, KeptEmpty
    <3>3. QED
      BY <3>1, <3>2, Nothing
  <2>2. CASE c.pending # NoCalls
    <3>1. SentCalls(c) = <<c.pending>> /\ <<c.pending>> \in Seq(MessageType)
      BY <1>2, <2>2 DEF SentCalls
    <3>2. Heard(<<c.pending>>, keep) = Kept(c.pending.ids, keep)
      BY <1>2, HeardOne
    <3>3. QED
      BY <3>1, <3>2
  <2>3. QED
    BY <2>1, <2>2
<1>6. PICK o \in Seq(MessageType) : o = ItemMessages(e, c.reasoning) /\ Heard(o, keep) = Said(<<e>>)
  <2>1. ItemMessages(e, c.reasoning) \in Seq(MessageType)
    BY <1>2, ItemMessagesType
  <2>2. Heard(ItemMessages(e, c.reasoning), keep) = Said(<<e>>)
    BY <1>1, <1>2, <1>3, ItemHeard DEF Keep
  <2>3. QED
    BY <2>1, <2>2
<1>7. PICK due \in Seq(MessageType) : due = Due(left, c.deferred)
  BY <1>2, Nothing DEF Due
<1>11. /\ d.messages = ((a \o b) \o o) \o due
       /\ d.pending = NoCalls /\ d.deferred = StillDeferred(left, c.deferred)
  BY <1>1, <1>4, <1>5, <1>6, <1>7 DEF SendsAll
<1>12. Heard(d.messages, keep) = ((Heard(a, keep) \o Heard(b, keep)) \o Said(<<e>>)) \o Heard(due, keep)
  <2>1. HeardAll(a, b, o, due, keep)
    BY HeardFour
  <2>2. QED
    BY <1>6, <1>11, <2>1 DEF HeardAll
<1>13. Kept(d.pending.ids, keep) = <<>>
  BY <1>11, NoCallsType, KeptEmpty
<1>14. QED
  BY <1>1, <1>3, <1>4, <1>5, <1>7, <1>11, <1>12, <1>13 DEF HeardSent

SaidSent(n, m, e, left) ==
  /\ Said(m.output) = ((Said(n.output) \o Said(n.pending)) \o Said(<<e>>))
                         \o Said(Due(left, n.deferred))
  /\ Said(m.pending) = <<>>
  /\ m.deferred = StillDeferred(left, n.deferred)
LEMMA SendsSaid ==
  ASSUME NEW n \in NativeState, NEW m, NEW e \in ItemType, NativeSends(n, m, e), NEW left,
         left = Unanswered(NativeAll(n), e)
  PROVE  SaidSent(n, m, e, left)
<1>1. /\ n.output \in Seq(ItemType) /\ n.pending \in Seq(ItemType) /\ n.deferred \in Seq(ItemType)
  BY DEF NativeState
<1>2. PICK a \in Seq(ItemType), b \in Seq(ItemType) : a = n.output /\ b = n.pending
  BY <1>1
<1>3. PICK o \in Seq(ItemType) : o = <<e>>
  <2>1. <<e>> \in Seq(ItemType)
    OBVIOUS
  <2>2. QED
    BY <2>1
<1>4. PICK due \in Seq(ItemType) : due = Due(left, n.deferred)
  BY <1>1, Nothing DEF Due
<1>5. SaidAll(a, b, o, due)
  BY SaidFour
<1>6. m.output = ((a \o b) \o o) \o due /\ m.pending = <<>> /\ m.deferred = StillDeferred(left, n.deferred)
  BY <1>2, <1>3, <1>4 DEF NativeSends
<1>7. QED
  BY <1>2, <1>3, <1>4, <1>5, <1>6, SaidNothing DEF SaidAll, SaidSent

LEMMA NextAlike ==
  ASSUME NEW s \in Seq(ItemType), WellRecorded(s), NEW i \in 1..Len(s), NEW c \in ChatState,
         NEW n \in NativeState, NEW preserve \in BOOLEAN, Formed(c), Waiting(s, i - 1, c, n),
         Alike(s, c, n)
  PROVE  Alike(s, ChatStep(c, s[i], preserve, Blank(s)), NativeStep(n, s[i]))
<1>1. PICK e \in ItemType : e = s[i]
  OBVIOUS
<1>2. PICK d, m, blank, k : /\ d = ChatStep(c, e, preserve, blank) /\ m = NativeStep(n, e)
                            /\ blank = Blank(s) /\ k = i - 1
  OBVIOUS
<1>3. /\ c.messages \in Seq(MessageType) /\ c.deferred \in Seq(MessageType)
      /\ c.pending.ids \in Seq(Int) /\ n.output \in Seq(ItemType) /\ n.pending \in Seq(ItemType)
      /\ n.deferred \in Seq(ItemType) /\ e.id \in Int /\ e.kind \in Kinds
  BY DEF ChatState, MessageType, NativeState, ItemType
<1>4. PICK keep, open : keep = Keep(s) /\ open = Open(s, k)
  OBVIOUS
<1>5. PICK A \in Seq(Int), P \in Seq(Int), O \in Seq(Int), Q \in Seq(Int), w \in Seq(Int) :
        /\ A = Heard(c.messages, keep) /\ P = Kept(c.pending.ids, keep)
        /\ O = Said(n.output) /\ Q = Said(n.pending) /\ w = Said(<<e>>)
  <2>1. Heard(c.messages, keep) \in Seq(Int)
    BY <1>3, HeardBoth
  <2>2. Kept(c.pending.ids, keep) \in Seq(Int)
    BY <1>3, KeptType
  <2>3. Said(n.output) \in Seq(Int) /\ Said(n.pending) \in Seq(Int)
    BY <1>3, SaidBoth
  <2>4. <<e>> \in Seq(ItemType)
    OBVIOUS
  <2>5. Said(<<e>>) \in Seq(Int)
    BY <2>4, SaidBoth
  <2>6. QED
    BY <2>1, <2>2, <2>3, <2>5
<1>6. A \o P = O \o Q /\ Heard(c.deferred, keep) = Said(n.deferred)
  BY <1>4, <1>5 DEF Alike
<1>7. /\ Awaited(c) <=> open # {}
      /\ n.pending # <<>> \/ n.outstanding # {} <=> open # {}
      /\ WaitedFor(c) = open /\ NativeAll(n) = open
      /\ open = {} => c.deferred = <<>> /\ n.deferred = <<>>
  BY <1>2, <1>4, WaitingMeans DEF Waiting
<1>8. Heard(<<>>, keep) = <<>> /\ Said(<<>>) = <<>>
  BY NoCallsType, HeardOne, SaidNothing
<1>9. SUFFICES /\ Heard(d.messages, keep) \o Kept(d.pending.ids, keep) = Said(m.output) \o Said(m.pending)
               /\ Heard(d.deferred, keep) = Said(m.deferred)
  BY <1>1, <1>2, <1>4 DEF Alike
<1>10. CASE e.kind = "call"
  <2>1. Calls(c, d, e, preserve, blank)
    BY <1>2, <1>10, ChatStepIs
  <2>2. /\ d.messages = Prior(c, e, preserve, blank)
        /\ d.pending.ids = c.pending.ids \o <<e.id>> /\ d.deferred = c.deferred
    BY <2>1 DEF Calls
  <2>3. Heard(d.messages, keep) = A
    <3>1. CASE preserve /\ TakesReasoning(c)
      <4>1. c.messages # <<>> /\ Last(c.messages).role = "assistant"
        BY <3>1 DEF TakesReasoning
      <4>2. Last(c.messages) = c.messages[Len(c.messages)] /\ Len(c.messages) \in DOMAIN c.messages
        <5>1. PICK a \in Seq(MessageType) : a = c.messages /\ a # <<>>
          BY <1>3, <4>1
        <5>2. Last(a) = a[Len(a)] /\ Len(a) \in DOMAIN a
          BY <5>1 DEF Last
        <5>3. QED
          BY <5>1, <5>2
      <4>3. Len(Last(c.messages).ids) = 1
        BY <4>1, <4>2 DEF Formed, Singles
      <4>4. \A x \in blank : x \notin keep
        BY <1>2, <1>4, BlankSilent DEF Keep
      <4>5. Heard(WithoutReasoning(c.messages, blank), keep) = Heard(c.messages, keep)
        BY <1>3, <4>1, <4>3, <4>4, WithoutReasoningHeard
      <4>6. QED
        BY <1>5, <2>2, <3>1, <4>5 DEF Prior
    <3>2. CASE ~(preserve /\ TakesReasoning(c))
      BY <1>5, <2>2, <3>2 DEF Prior
    <3>3. QED
      BY <3>1, <3>2
  <2>4. Kept(d.pending.ids, keep) = P \o w
    <3>1. <<e.id>> \in Seq(Int)
      BY <1>3
    <3>2. KeptJoin(c.pending.ids, <<e.id>>, keep)
      BY <1>3, <3>1, KeptJoins
    <3>3. Kept(<<e.id>>, keep) = w
      BY <1>1, <1>4, <1>5, ItemHeard DEF Keep
    <3>4. QED
      BY <1>5, <2>2, <3>2, <3>3 DEF KeptJoin
  <2>5. m = [n EXCEPT !.pending = @ \o <<e>>]
    BY <1>2, <1>10, NativeStepIs
  <2>6. m.output = n.output /\ m.pending = n.pending \o <<e>> /\ m.deferred = n.deferred
    BY <2>5 DEF NativeState
  <2>7. Said(m.pending) = Q \o w
    <3>1. <<e>> \in Seq(ItemType)
      OBVIOUS
    <3>2. SaidJoin(n.pending, <<e>>)
      BY <1>3, <3>1, SaidJoins
    <3>3. QED
      BY <1>5, <2>6, <3>2 DEF SaidJoin
  <2>8. A \o (P \o w) = O \o (Q \o w)
    <3>1. SameBoth(A, P, O, Q)
      BY <1>6 DEF SameBoth
    <3>2. SameBoth(A, P \o w, O, Q \o w)
      BY <3>1, AddedToBoth
    <3>3. QED
      BY <3>2 DEF SameBoth
  <2>9. QED
    BY <1>5, <1>6, <2>2, <2>3, <2>4, <2>6, <2>7, <2>8
<1>11. CASE e.kind = "agent" /\ open # {}
  <2>1. Defers(c, d, e)
    BY <1>2, <1>7, <1>11, ChatStepIs
  <2>2. /\ d.messages = c.messages /\ d.pending = c.pending
        /\ d.deferred = c.deferred \o ItemMessages(e, <<>>)
    BY <2>1 DEF Defers
  <2>3. m = [n EXCEPT !.deferred = @ \o <<e>>]
    BY <1>2, <1>7, <1>11, NativeStepIs
  <2>4. m.output = n.output /\ m.pending = n.pending /\ m.deferred = n.deferred \o <<e>>
    BY <2>3 DEF NativeState
  <2>5. Heard(ItemMessages(e, <<>>), keep) = w
    BY <1>1, <1>4, <1>5, <1>11, Nothing, ItemHeard DEF Keep
  <2>6. ItemMessages(e, <<>>) \in Seq(MessageType)
    BY Nothing, ItemMessagesType
  <2>7. Heard(d.deferred, keep) = Heard(c.deferred, keep) \o w
    <3>1. HeardJoin(c.deferred, ItemMessages(e, <<>>), keep)
      BY <1>3, <2>6, HeardJoins
    <3>2. QED
      BY <2>2, <2>5, <3>1 DEF HeardJoin
  <2>8. Said(m.deferred) = Said(n.deferred) \o w
    <3>1. <<e>> \in Seq(ItemType)
      OBVIOUS
    <3>2. SaidJoin(n.deferred, <<e>>)
      BY <1>3, <3>1, SaidJoins
    <3>3. QED
      BY <1>5, <2>4, <3>2 DEF SaidJoin
  <2>9. QED
    BY <1>5, <1>6, <2>2, <2>4, <2>7, <2>8
<1>12. CASE e.kind = "reasoning" /\ preserve
  <2>1. Thinks(c, d)
    BY <1>2, <1>12, ChatStepIs
  <2>2. PICK left : left = Unanswered(NativeAll(n), e) /\ left = open
    BY <1>7, <1>12 DEF Unanswered
  <2>3. NativeSends(n, m, e)
    BY <1>2, <1>12, NativeStepIs
  <2>4. /\ Said(m.output) = ((O \o Q) \o w) \o Said(Due(left, n.deferred))
        /\ Said(m.pending) = <<>> /\ m.deferred = StillDeferred(left, n.deferred)
    <3>1. SaidSent(n, m, e, left)
      BY <2>2, <2>3, SendsSaid
    <3>2. QED
      BY <1>5, <3>1 DEF SaidSent
  <2>5. Said(Due(left, n.deferred)) = <<>> /\ m.deferred = n.deferred
    BY <1>7, <1>8, <2>2, <2>4 DEF Due, StillDeferred
  <2>6. w = <<>>
    BY <1>5, <1>12, SaidOne DEF Speaks
  <2>7. O \o Q \in Seq(Int)
    OBVIOUS
  <2>8. (O \o Q) \o <<>> = O \o Q
    BY <2>7, WithNothing
  <2>9. QED
    BY <1>5, <1>6, <2>1, <2>4, <2>5, <2>6, <2>8 DEF Thinks
<1>13. CASE e.kind # "call" /\ ~(e.kind = "agent" /\ open # {}) /\ ~(e.kind = "reasoning" /\ preserve)
  <2>1. Sends(c, e, preserve)
    BY <1>7, <1>13 DEF Sends
  <2>2. SendsAll(c, d, e)
    BY <1>2, <2>1, ChatStepIs
  <2>3. PICK left : left = Unanswered(open, e)
    OBVIOUS
  <2>4. /\ Heard(d.messages, keep) = ((A \o P) \o w) \o Heard(Due(left, c.deferred), keep)
        /\ Kept(d.pending.ids, keep) = <<>> /\ d.deferred = StillDeferred(left, c.deferred)
    <3>1. /\ s[i] = e /\ s[i].kind # "call" /\ left = Unanswered(WaitedFor(c), s[i])
          /\ SendsAll(c, d, s[i])
      BY <1>1, <1>7, <1>13, <2>2, <2>3
    <3>2. HeardSent(s, c, d, s[i], left)
      BY <3>1, SendsHeard
    <3>3. QED
      BY <1>1, <1>4, <1>5, <3>2 DEF HeardSent
  <2>5. PICK u \in Seq(Int) : u = (A \o P) \o w
    <3>1. (A \o P) \o w \in Seq(Int)
      OBVIOUS
    <3>2. QED
      BY <3>1
  <2>6. Heard(Due(left, c.deferred), keep) = Said(Due(left, n.deferred))
    BY <1>6, <1>8 DEF Due
  <2>7. Heard(StillDeferred(left, c.deferred), keep) = Said(StillDeferred(left, n.deferred))
    BY <1>6, <1>8 DEF StillDeferred
  <2>8. CASE e.kind = "agent"
    <3>1. open = {} /\ n.pending = <<>> /\ n.outstanding = {} /\ c.deferred = <<>> /\ n.deferred = <<>>
      BY <1>7, <1>13, <2>8
    <3>2. m = [n EXCEPT !.output = @ \o <<e>>]
      BY <1>2, <2>8, <3>1, NativeStepIs
    <3>3. m.output = n.output \o <<e>> /\ m.pending = <<>> /\ m.deferred = <<>>
      BY <3>1, <3>2 DEF NativeState
    <3>4. Said(m.output) = O \o w
      <4>1. <<e>> \in Seq(ItemType)
        OBVIOUS
      <4>2. SaidJoin(n.output, <<e>>)
        BY <1>3, <4>1, SaidJoins
      <4>3. QED
        BY <1>5, <3>3, <4>2 DEF SaidJoin
    <3>5. Q = <<>>
      BY <1>5, <1>8, <3>1
    <3>6. O \o <<>> = O
      BY WithNothing
    <3>7. Heard(d.messages, keep) = u \o <<>> /\ d.deferred = <<>>
      BY <1>8, <2>4, <2>5, <3>1 DEF Due, StillDeferred
    <3>8. u = O \o w
      BY <1>6, <2>5, <3>5, <3>6
    <3>9. u \o <<>> = u
      BY WithNothing
    <3>10. QED
      BY <1>8, <2>4, <3>3, <3>4, <3>7, <3>8, <3>9
  <2>9. CASE e.kind # "agent"
    <3>1. NativeSends(n, m, e)
      BY <1>2, <1>13, <2>9, NativeStepIs
    <3>2. /\ Said(m.output) = ((O \o Q) \o w) \o Said(Due(left, n.deferred))
          /\ Said(m.pending) = <<>> /\ m.deferred = StillDeferred(left, n.deferred)
      <4>1. SaidSent(n, m, e, left)
        BY <1>7, <2>3, <3>1, SendsSaid
      <4>2. QED
        BY <1>5, <4>1 DEF SaidSent
    <3>3. QED
      BY <1>6, <2>4, <2>6, <2>7, <3>2
  <2>10. QED
    BY <2>8, <2>9
<1>14. QED
  BY <1>10, <1>11, <1>12, <1>13
-----------------------------------------------------------------------------

(* The native pass keeps every item. *)
Held(n) == ToSet(n.output) \cup ToSet(n.pending) \cup ToSet(n.deferred)

ToSetJoin(a, b) == ToSet(a \o b) = ToSet(a) \cup ToSet(b)
LEMMA ToSetJoins ==
  ASSUME NEW a \in Seq(ItemType), NEW b \in Seq(ItemType)
  PROVE  ToSetJoin(a, b)
BY ToSetBoth DEF ToSetJoin

LEMMA NextHeld ==
  ASSUME NEW n \in NativeState, NEW e \in ItemType
  PROVE  Held(NativeStep(n, e)) = Held(n) \cup {e}
<1>1. PICK m : m = NativeStep(n, e)
  OBVIOUS
<1>2. PICK o \in Seq(ItemType), p \in Seq(ItemType), d \in Seq(ItemType) :
        o = n.output /\ p = n.pending /\ d = n.deferred
  BY DEF NativeState
<1>3. PICK one \in Seq(ItemType) : one = <<e>> /\ ToSet(one) = {e}
  <2>1. <<e>> \in Seq(ItemType) /\ ToSet(<<e>>) = {e}
    BY ToSetOne
  <2>2. QED
    BY <2>1
<1>4. ToSet(<<>>) = {}
  BY ToSetOne
<1>5. CASE e.kind = "call"
  <2>1. m = [n EXCEPT !.pending = @ \o <<e>>]
    BY <1>1, <1>5, NativeStepIs
  <2>2. m.output = o /\ m.pending = p \o one /\ m.deferred = d
    BY <1>2, <1>3, <2>1 DEF NativeState
  <2>3. ToSetJoin(p, one)
    BY ToSetJoins
  <2>4. QED
    BY <1>1, <1>2, <1>3, <2>2, <2>3 DEF Held, ToSetJoin
<1>6. CASE e.kind = "agent" /\ (n.pending # <<>> \/ n.outstanding # {})
  <2>1. m = [n EXCEPT !.deferred = @ \o <<e>>]
    BY <1>1, <1>6, NativeStepIs
  <2>2. m.output = o /\ m.pending = p /\ m.deferred = d \o one
    BY <1>2, <1>3, <2>1 DEF NativeState
  <2>3. ToSetJoin(d, one)
    BY ToSetJoins
  <2>4. QED
    BY <1>1, <1>2, <1>3, <2>2, <2>3 DEF Held, ToSetJoin
<1>7. CASE e.kind = "agent" /\ n.pending = <<>> /\ n.outstanding = {}
  <2>1. m = [n EXCEPT !.output = @ \o <<e>>]
    BY <1>1, <1>7, NativeStepIs
  <2>2. m.output = o \o one /\ m.pending = p /\ m.deferred = d
    BY <1>2, <1>3, <2>1 DEF NativeState
  <2>3. ToSetJoin(o, one)
    BY ToSetJoins
  <2>4. QED
    BY <1>1, <1>2, <1>3, <2>2, <2>3 DEF Held, ToSetJoin
<1>8. CASE e.kind \notin {"call", "agent"}
  <2>1. NativeSends(n, m, e)
    BY <1>1, <1>8, NativeStepIs
  <2>2. PICK left : left = Unanswered(NativeAll(n), e)
    OBVIOUS
  <2>3. PICK due \in Seq(ItemType) : due = Due(left, d)
    BY Nothing DEF Due
  <2>4. /\ m.output = ((o \o p) \o one) \o due /\ m.pending = <<>>
        /\ m.deferred = StillDeferred(left, d)
    BY <1>2, <1>3, <2>1, <2>2, <2>3 DEF NativeSends
  <2>5. PICK op \in Seq(ItemType) : op = o \o p
    <3>1. o \o p \in Seq(ItemType)
      OBVIOUS
    <3>2. QED
      BY <3>1
  <2>6. PICK opo \in Seq(ItemType) : opo = op \o one
    <3>1. op \o one \in Seq(ItemType)
      OBVIOUS
    <3>2. QED
      BY <3>1
  <2>7. ToSetJoin(o, p) /\ ToSetJoin(op, one) /\ ToSetJoin(opo, due)
    BY ToSetJoins
  <2>8. ToSet(m.output) = ToSet(o) \cup ToSet(p) \cup {e} \cup ToSet(due)
    BY <1>3, <2>4, <2>5, <2>6, <2>7 DEF ToSetJoin
  <2>9. ToSet(due) \cup ToSet(m.deferred) = ToSet(d)
    BY <1>4, <2>3, <2>4 DEF Due, StillDeferred
  <2>10. QED
    BY <1>1, <1>2, <1>4, <2>4, <2>8, <2>9 DEF Held
<1>9. QED
  BY <1>5, <1>6, <1>7, <1>8

(* The state of both passes after i items. *)
Together(s, i, c, n) ==
  /\ Formed(c) /\ Waiting(s, i, c, n) /\ Alike(s, c, n)
  /\ Held(n) = {s[k] : k \in 1..i}

LEMMA StartTogether ==
  ASSUME NEW s \in Seq(ItemType), WellRecorded(s)
  PROVE  Together(s, 0, Started, NativeStarted)
<1>1. PICK c, n : c = Started /\ n = NativeStarted
  OBVIOUS
<1>2. /\ c.messages = <<>> /\ c.pending = NoCalls /\ c.outstanding = {} /\ c.deferred = <<>>
      /\ n.output = <<>> /\ n.pending = <<>> /\ n.outstanding = {} /\ n.deferred = <<>>
  BY <1>1 DEF Started, NativeStarted
<1>3. DOMAIN <<>> = {} /\ 1..0 = {}
  OBVIOUS
<1>4. Formed(c)
  BY <1>2, <1>3 DEF Formed, Singles, NoCalls, Message
<1>5. ToSet(<<>>) = {} /\ ToSet(Ids(<<>>)) = {} /\ NoCalls.ids = <<>>
  BY ToSetOne, IdsSet, Nothing, NoCallsType
<1>6. Waiting(s, 0, c, n)
  BY <1>2, <1>5, OpenEnds DEF Waiting
<1>7. PICK keep : keep = Keep(s)
  OBVIOUS
<1>8. Heard(<<>>, keep) = <<>> /\ Kept(<<>>, keep) = <<>> /\ Said(<<>>) = <<>>
  BY NoCallsType, HeardOne, KeptEmpty, SaidNothing
<1>9. Alike(s, c, n)
  BY <1>2, <1>5, <1>7, <1>8 DEF Alike
<1>10. Held(n) = {s[k] : k \in 1..0}
  BY <1>2, <1>3, <1>5 DEF Held
<1>11. QED
  BY <1>1, <1>4, <1>6, <1>9, <1>10 DEF Together

LEMMA NextTogether ==
  ASSUME NEW s \in Seq(ItemType), WellRecorded(s), NEW j \in 1..Len(s), NEW c \in ChatState,
         NEW m \in NativeState, NEW preserve \in BOOLEAN, Together(s, j - 1, c, m)
  PROVE  Together(s, j, ChatStep(c, s[j], preserve, Blank(s)), NativeStep(m, s[j]))
<1>1. s[j] \in ItemType
  OBVIOUS
<1>2. PICK d, o : d = ChatStep(c, s[j], preserve, Blank(s)) /\ o = NativeStep(m, s[j])
  OBVIOUS
<1>3. Formed(d)
  BY <1>1, <1>2, NextFormed DEF Together
<1>4. Waiting(s, j, d, o)
  BY <1>2, NextWaiting DEF Together
<1>5. Alike(s, d, o)
  BY <1>2, NextAlike DEF Together
<1>6. Held(o) = {s[k] : k \in 1..j}
  <2>1. Held(o) = {s[k] : k \in 1..(j - 1)} \cup {s[j]}
    BY <1>1, <1>2, NextHeld DEF Together
  <2>2. \A k : k \in 1..j <=> k \in 1..(j - 1) \/ k = j
    OBVIOUS
  <2>3. QED
    BY <2>1, <2>2
<1>7. QED
  BY <1>2, <1>3, <1>4, <1>5, <1>6 DEF Together

RunTogether(s, n, preserve, g, h) ==
  /\ ChatRun(g, n, s, preserve) /\ NativePass(s) = h[n]
  /\ \A i \in 0..n : Together(s, i, g[i], h[i])

LEMMA BothPasses ==
  ASSUME NEW s \in Seq(ItemType), WellRecorded(s), NEW preserve \in BOOLEAN,
         NEW n \in Nat, n = Len(s)
  PROVE  \E g \in [0..n -> ChatState], h \in [0..n -> NativeState] :
           RunTogether(s, n, preserve, g, h)
<1>1. PICK blank : blank = Blank(s)
  OBVIOUS
<1>2. PICK g \in [0..n -> ChatState] : ChatRun(g, n, s, preserve)
  BY ChatPassUnfold
<1>3. g[0] = Started /\ \A i \in 1..n : g[i] = ChatStep(g[i - 1], s[i], preserve, blank)
  BY <1>1, <1>2 DEF ChatRun
<1>4. PICK h \in [0..n -> NativeState] :
        /\ h[0] = NativeStarted
        /\ \A i \in 1..n : h[i] = NativeStep(h[i - 1], s[i])
        /\ NativePass(s) = h[n]
  BY NativePassUnfold
<1> DEFINE T == {i \in 0..n : Together(s, i, g[i], h[i])}
<1>5. 0 \in T
  BY <1>3, <1>4, StartTogether
<1>6. ASSUME NEW i \in 0..n, i \in T, i < n PROVE i + 1 \in T
  <2>1. PICK j \in 1..n : j = i + 1 /\ j - 1 = i /\ j \in 0..n
    BY <1>6
  <2>2. PICK c \in ChatState, m \in NativeState : c = g[i] /\ m = h[i]
    BY <1>4
  <2>3. g[j] = ChatStep(c, s[j], preserve, blank) /\ h[j] = NativeStep(m, s[j])
    BY <1>3, <1>4, <2>1, <2>2
  <2>4. Together(s, j - 1, c, m)
    BY <1>6, <2>1, <2>2
  <2> HIDE DEF T
  <2>5. Together(s, j, ChatStep(c, s[j], preserve, Blank(s)), NativeStep(m, s[j]))
    BY <2>1, <2>4, NextTogether
  <2>6. Together(s, j, g[j], h[j])
    BY <1>1, <2>3, <2>5
  <2>7. QED
    BY <2>1, <2>6 DEF T
<1>7. \A i \in 0..n : Together(s, i, g[i], h[i])
  <2> HIDE DEF T
  <2>1. \A i \in 0..n : i \in T
    BY <1>5, <1>6, Induction
  <2>2. QED
    BY <2>1 DEF T
<1>8. RunTogether(s, n, preserve, g, h)
  BY <1>2, <1>4, <1>7 DEF RunTogether
<1>9. QED
  BY <1>8
-----------------------------------------------------------------------------
(* Outputs come after their calls. *)

(* Messages other than outputs may follow anything. *)
LEMMA PairedBoth ==
  ASSUME NEW a \in Seq(MessageType), NEW b \in Seq(MessageType), Paired(a),
         \A i \in DOMAIN b : b[i].role # "tool"
  PROVE  Paired(a \o b)
<1>1. PICK m \in Nat, n \in Nat : m = Len(a) /\ n = Len(b) /\ DOMAIN a = 1..m /\ DOMAIN b = 1..n
  OBVIOUS
<1>2. PICK t : t = a \o b
  OBVIOUS
<1>3. DOMAIN t = 1..(m + n) /\ \A i \in 1..m : t[i] = a[i]
  BY <1>1, <1>2
<1>4. \A i \in 1..(m + n) : i \in 1..m \/ (i - m \in 1..n /\ t[i] = b[i - m])
  BY <1>1, <1>2
<1>5. ASSUME NEW i \in 1..(m + n), t[i].role = "tool"
      PROVE  \E k \in 1..(i - 1) :
               /\ t[k].role = "calls" /\ t[i].ids[1] \in ToSet(t[k].ids)
               /\ \A j \in (k + 1)..(i - 1) : t[j].role = "tool"
  <2>1. i \in 1..m
    BY <1>1, <1>4, <1>5
  <2>2. PICK k \in 1..(i - 1) :
          /\ a[k].role = "calls" /\ a[i].ids[1] \in ToSet(a[k].ids)
          /\ \A j \in (k + 1)..(i - 1) : a[j].role = "tool"
    BY <1>1, <1>3, <1>5, <2>1 DEF Paired
  <2>3. k \in 1..m /\ \A j \in (k + 1)..(i - 1) : j \in 1..m
    BY <2>1, <2>2
  <2>4. t[k] = a[k] /\ t[i] = a[i] /\ \A j \in (k + 1)..(i - 1) : t[j] = a[j]
    BY <1>3, <2>1, <2>3
  <2>5. QED
    BY <2>2, <2>4
<1>6. Paired(t)
  BY <1>3, <1>5 DEF Paired
<1>7. QED
  BY <1>2, <1>6

LEMMA PairedFront ==
  ASSUME NEW a \in Seq(MessageType), a # <<>>, Paired(a)
  PROVE  Paired(Front(a))
<1>1. PICK f \in Seq(MessageType), n \in Nat :
        f = Front(a) /\ n = Len(a) /\ DOMAIN a = 1..n /\ n > 0 /\ DOMAIN f = 1..(n - 1)
        /\ \A i \in 1..(n - 1) : f[i] = a[i]
  <2>1. /\ Front(a) \in Seq(MessageType) /\ Len(Front(a)) = Len(a) - 1 /\ Len(a) \in Nat
        /\ Len(a) > 0 /\ \A i \in 1..Len(Front(a)) : Front(a)[i] = a[i]
    BY FrontLast
  <2>2. DOMAIN a = 1..Len(a) /\ DOMAIN Front(a) = 1..Len(Front(a))
    BY <2>1
  <2>3. QED
    BY <2>1, <2>2, Zenon
<1>2. ASSUME NEW i \in 1..(n - 1), f[i].role = "tool"
      PROVE  \E k \in 1..(i - 1) :
               /\ f[k].role = "calls" /\ f[i].ids[1] \in ToSet(f[k].ids)
               /\ \A j \in (k + 1)..(i - 1) : f[j].role = "tool"
  <2>1. i \in 1..n /\ f[i] = a[i]
    BY <1>1
  <2>2. PICK k \in 1..(i - 1) :
          /\ a[k].role = "calls" /\ a[i].ids[1] \in ToSet(a[k].ids)
          /\ \A j \in (k + 1)..(i - 1) : a[j].role = "tool"
    BY <1>1, <1>2, <2>1 DEF Paired
  <2>3. k \in 1..(n - 1) /\ \A j \in (k + 1)..(i - 1) : j \in 1..(n - 1)
    BY <1>1, <2>1, <2>2
  <2>4. f[k] = a[k] /\ \A j \in (k + 1)..(i - 1) : f[j] = a[j]
    BY <1>1, <2>3
  <2>5. QED
    BY <2>1, <2>2, <2>4
<1>3. QED
  BY <1>1, <1>2 DEF Paired

(* The calls that wait are all in one message, with only outputs after it. *)
Covered(messages, waiting) ==
  waiting # {} => \E k \in DOMAIN messages :
    /\ messages[k].role = "calls" /\ waiting \subseteq ToSet(messages[k].ids)
    /\ \A j \in DOMAIN messages : j > k => messages[j].role = "tool"

LEMMA CoveredCalls ==
  ASSUME NEW a \in Seq(MessageType), NEW m \in MessageType, m.role = "calls"
  PROVE  Covered(a \o <<m>>, ToSet(m.ids))
<1>1. PICK n \in Nat : n = Len(a) /\ DOMAIN a = 1..n
  OBVIOUS
<1>2. PICK t : t = a \o <<m>>
  OBVIOUS
<1>3. DOMAIN t = 1..(n + 1) /\ t[n + 1] = m
  BY <1>1, <1>2
<1>4. n + 1 \in DOMAIN t /\ \A j \in DOMAIN t : ~(j > n + 1)
  BY <1>3
<1>5. QED
  BY <1>2, <1>3, <1>4 DEF Covered

(* One more output, of a call that waits. *)
LEMMA CoveredOutput ==
  ASSUME NEW a \in Seq(MessageType), NEW m \in MessageType, m.role = "tool",
         NEW waiting, NEW left, Covered(a, waiting), left \subseteq waiting
  PROVE  /\ Covered(a \o <<m>>, left)
         /\ Paired(a) /\ m.ids[1] \in waiting => Paired(a \o <<m>>)
<1>1. PICK n \in Nat : n = Len(a) /\ DOMAIN a = 1..n
  OBVIOUS
<1>2. PICK t : t = a \o <<m>>
  OBVIOUS
<1>3. DOMAIN t = 1..(n + 1) /\ t[n + 1] = m /\ \A i \in 1..n : t[i] = a[i]
  BY <1>1, <1>2
<1>4. \A i \in 1..(n + 1) : i \in 1..n \/ i = n + 1
  OBVIOUS
<1>5. CASE waiting = {}
  BY <1>5 DEF Covered
<1>6. CASE waiting # {}
  <2>1. PICK k \in 1..n :
          /\ a[k].role = "calls" /\ waiting \subseteq ToSet(a[k].ids)
          /\ \A j \in 1..n : j > k => a[j].role = "tool"
    BY <1>1, <1>6 DEF Covered
  <2>2. k \in DOMAIN t /\ t[k] = a[k]
    BY <1>3, <2>1
  <2>3. \A j \in DOMAIN t : j > k => t[j].role = "tool"
    BY <1>3, <1>4, <2>1
  <2>4. Covered(t, left)
    BY <2>1, <2>2, <2>3 DEF Covered
  <2>5. ASSUME Paired(a), m.ids[1] \in waiting, NEW i \in 1..(n + 1), t[i].role = "tool"
        PROVE  \E l \in 1..(i - 1) :
                 /\ t[l].role = "calls" /\ t[i].ids[1] \in ToSet(t[l].ids)
                 /\ \A j \in (l + 1)..(i - 1) : t[j].role = "tool"
    <3>1. CASE i = n + 1
      <4>1. k \in 1..(i - 1) /\ t[i].ids[1] \in ToSet(t[k].ids)
        BY <1>3, <2>1, <2>2, <2>5, <3>1
      <4>2. \A j \in (k + 1)..(i - 1) : j \in DOMAIN t /\ j > k
        BY <1>3, <3>1
      <4>3. QED
        BY <2>1, <2>2, <2>3, <4>1, <4>2
    <3>2. CASE i \in 1..n
      <4>1. PICK l \in 1..(i - 1) :
              /\ a[l].role = "calls" /\ a[i].ids[1] \in ToSet(a[l].ids)
              /\ \A j \in (l + 1)..(i - 1) : a[j].role = "tool"
        BY <1>1, <1>3, <2>5, <3>2 DEF Paired
      <4>2. l \in 1..n /\ \A j \in (l + 1)..(i - 1) : j \in 1..n
        BY <3>2, <4>1
      <4>3. t[l] = a[l] /\ t[i] = a[i] /\ \A j \in (l + 1)..(i - 1) : t[j] = a[j]
        BY <1>3, <3>2, <4>2
      <4>4. QED
        BY <4>1, <4>3
    <3>3. QED
      BY <1>4, <3>1, <3>2
  <2>6. Paired(a) /\ m.ids[1] \in waiting => Paired(t)
    BY <1>3, <2>5 DEF Paired
  <2>7. QED
    BY <1>2, <2>4, <2>6
<1>7. QED
  BY <1>5, <1>6

(* What sends the calls before it. *)
Sender(item, preserve) ==
  \/ item.kind \in {"output", "other", "user", "assistant"}
  \/ item.kind = "reasoning" /\ ~preserve
SentSince(s, preserve, i, x) ==
  \E k, m \in 1..i :
    k < m /\ s[k].kind = "call" /\ s[k].id = x /\ Sender(s[m], preserve)

(* When a call comes, the outputs of the calls that were sent are there:   *)
(* else it would be interrupted.                                           *)
LEMMA NothingOutstanding ==
  ASSUME NEW s \in Seq(ItemType), WellRecorded(s), NEW preserve \in BOOLEAN,
         ~Interrupted(s, preserve), NEW i \in 1..Len(s), s[i].kind = "call",
         NEW x \in Open(s, i - 1), SentSince(s, preserve, i - 1, x)
  PROVE  FALSE
<1>1. PICK n \in Nat : n = Len(s) /\ DOMAIN s = 1..n
  OBVIOUS
<1>2. PICK k \in 1..(i - 1), m \in 1..(i - 1) :
        k < m /\ s[k].kind = "call" /\ s[k].id = x /\ Sender(s[m], preserve)
  BY DEF SentSince
<1>3. k \in 1..n /\ m \in 1..n /\ i \in 1..n
  BY <1>1, <1>2
<1>4. \A j \in 1..(i - 1) : s[j].kind = "output" => s[j].id # x
  BY DEF Open, Opens
<1>5. PICK j \in 1..n : Matches(s, k, j)
  BY <1>1, <1>2, <1>3 DEF WellRecorded
<1>6. j > i
  <2>1. j \notin 1..(i - 1) /\ j # i
    BY <1>2, <1>4, <1>5 DEF Matches
  <2>2. QED
    BY <1>1, <2>1
<1>7. /\ \A l \in k..j : s[l].kind \notin {"user", "assistant"}
      /\ \A l, o \in k..j : s[l].kind = "output" /\ l < o => s[o].kind # "call"
  BY <1>1, <1>3, <1>5 DEF WellRecorded
<1>8. i \in k..j /\ m \in k..j /\ m \in k..i
  BY <1>1, <1>2, <1>6
<1>9. \A l \in k..i : l \in k..j /\ (l < i \/ l = i)
  BY <1>1, <1>3, <1>6
<1>10. \A l \in k..i : s[l].kind # "output"
  BY <1>7, <1>8, <1>9
<1>11. s[m].kind = "other" \/ (s[m].kind = "reasoning" /\ ~preserve)
  BY <1>2, <1>7, <1>8, <1>10 DEF Sender
<1>12. Interrupted(s, preserve)
  BY <1>1, <1>2, <1>3, <1>8, <1>10, <1>11 DEF Interrupted
<1>13. QED
  BY <1>12
-----------------------------------------------------------------------------

(* The chat pass after i items, when no turn is interrupted. *)
Chained(s, preserve, i, c) ==
  /\ c.pending # NoCalls => c.outstanding = {}
  /\ \A x \in c.outstanding : SentSince(s, preserve, i, x)
  /\ Paired(c.messages)
  /\ Covered(c.messages, c.outstanding)

LEMMA PairedPrior ==
  ASSUME NEW c \in ChatState, NEW item, NEW preserve, NEW blank, Paired(c.messages), Formed(c)
  PROVE  Paired(Prior(c, item, preserve, blank))
<1>1. PICK a \in Seq(MessageType) : a = c.messages
  BY DEF ChatState
<1>2. CASE ~(preserve /\ TakesReasoning(c))
  BY <1>2 DEF Prior
<1>3. CASE preserve /\ TakesReasoning(c)
  <2>1. a # <<>> /\ Last(a).role = "assistant"
    BY <1>1, <1>3 DEF TakesReasoning
  <2>2. PICK front \in Seq(MessageType), last \in MessageType : front = Front(a) /\ last = Last(a)
    BY <2>1, FrontLast
  <2>3. Paired(front)
    BY <1>1, <2>1, <2>2, PairedFront
  <2>4. PICK q \in MessageType : q = [last EXCEPT !.reasoning = <<>>] /\ q.role = "assistant"
    <3>1. /\ [last EXCEPT !.reasoning = <<>>] \in MessageType
          /\ [last EXCEPT !.reasoning = <<>>].role = last.role
      BY Nothing DEF MessageType
    <3>2. QED
      BY <2>1, <2>2, <3>1
  <2>5. PICK one \in Seq(MessageType) : one = <<q>> /\ \A i \in DOMAIN one : one[i] = q
    <3>1. <<q>> \in Seq(MessageType) /\ DOMAIN <<q>> = {1} /\ <<q>>[1] = q
      OBVIOUS
    <3>2. QED
      BY <3>1
  <2>6. Paired(front \o one)
    BY <2>3, <2>4, <2>5, PairedBoth
  <2>7. front \o <<>> = front
    BY WithNothing
  <2>8. WithoutReasoning(a, blank) = front \o one \/ WithoutReasoning(a, blank) = front
    BY <2>2, <2>4, <2>5, <2>7 DEF WithoutReasoning
  <2>9. QED
    BY <1>1, <1>3, <2>3, <2>6, <2>8 DEF Prior
<1>4. QED
  BY <1>2, <1>3

(* After the calls that waited are sent. *)
LEMMA SentChained ==
  ASSUME NEW c \in ChatState, Formed(c), Paired(c.messages), Covered(c.messages, c.outstanding),
         c.pending # NoCalls => c.outstanding = {}
  PROVE  /\ c.messages \o SentCalls(c) \in Seq(MessageType)
         /\ Paired(c.messages \o SentCalls(c))
         /\ Covered(c.messages \o SentCalls(c), WaitedFor(c))
<1>1. PICK a \in Seq(MessageType), m \in MessageType : a = c.messages /\ m = c.pending /\ m.role = "calls"
  BY DEF ChatState, Formed
<1>2. CASE m = NoCalls
  <2>1. SentCalls(c) = <<>> /\ WaitedFor(c) = c.outstanding
    BY <1>1, <1>2 DEF SentCalls, WaitedFor
  <2>2. a \o <<>> = a
    BY WithNothing
  <2>3. QED
    BY <1>1, <2>1, <2>2
<1>3. CASE m # NoCalls
  <2>1. SentCalls(c) = <<m>> /\ WaitedFor(c) = ToSet(m.ids)
    BY <1>1, <1>3 DEF SentCalls, WaitedFor
  <2>2. PICK one \in Seq(MessageType) : one = <<m>> /\ \A i \in DOMAIN one : one[i] = m
    <3>1. <<m>> \in Seq(MessageType) /\ DOMAIN <<m>> = {1} /\ <<m>>[1] = m
      OBVIOUS
    <3>2. QED
      BY <3>1
  <2>3. Paired(a \o one)
    BY <1>1, <2>2, PairedBoth
  <2>4. Covered(a \o <<m>>, ToSet(m.ids))
    BY <1>1, CoveredCalls
  <2>5. a \o one \in Seq(MessageType)
    OBVIOUS
  <2>6. QED
    BY <1>1, <2>1, <2>2, <2>3, <2>4, <2>5
<1>4. QED
  BY <1>2, <1>3

LEMMA NextChained ==
  ASSUME NEW s \in Seq(ItemType), WellRecorded(s), NEW preserve \in BOOLEAN,
         ~Interrupted(s, preserve), NEW i \in 1..Len(s), NEW c \in ChatState, NEW n \in NativeState,
         Together(s, i - 1, c, n), Chained(s, preserve, i - 1, c), NEW blank
  PROVE  Chained(s, preserve, i, ChatStep(c, s[i], preserve, blank))
<1>1. PICK e \in ItemType : e = s[i]
  OBVIOUS
<1>2. PICK d, k : d = ChatStep(c, e, preserve, blank) /\ k = i - 1
  OBVIOUS
<1>3. /\ Formed(c) /\ Waiting(s, k, c, n)
      /\ c.pending # NoCalls => c.outstanding = {}
      /\ \A x \in c.outstanding : SentSince(s, preserve, k, x)
      /\ Paired(c.messages) /\ Covered(c.messages, c.outstanding)
  BY <1>2 DEF Together, Chained
<1>4. /\ Awaited(c) <=> Open(s, k) # {}
      /\ WaitedFor(c) = Open(s, k) /\ c.outstanding \subseteq Open(s, k)
  BY <1>3, WaitingMeans DEF Waiting
<1>5. \A x : SentSince(s, preserve, k, x) => SentSince(s, preserve, i, x)
  <2>1. \A j \in 1..k : j \in 1..i
    BY <1>2
  <2>2. QED
    BY <2>1 DEF SentSince
<1>6. /\ c.messages \in Seq(MessageType) /\ c.deferred \in Seq(MessageType) /\ c.reasoning \in Seq(Int)
      /\ e.id \in Int /\ e.kind \in Kinds
  BY DEF ChatState, ItemType
<1>7. SUFFICES Chained(s, preserve, i, d)
  BY <1>1, <1>2
<1>8. CASE e.kind = "reasoning" /\ preserve
  <2>1. Thinks(c, d)
    BY <1>2, <1>8, ChatStepIs
  <2>2. QED
    BY <1>3, <1>5, <2>1 DEF Thinks, Chained
<1>9. CASE e.kind = "call"
  <2>1. Calls(c, d, e, preserve, blank)
    BY <1>2, <1>9, ChatStepIs
  <2>2. d.messages = Prior(c, e, preserve, blank) /\ d.outstanding = c.outstanding
    BY <2>1 DEF Calls
  <2>3. c.outstanding = {}
    <3>1. ASSUME NEW x \in c.outstanding PROVE FALSE
      <4>1. x \in Open(s, i - 1) /\ SentSince(s, preserve, i - 1, x)
        BY <1>2, <1>3, <1>4
      <4>2. QED
        BY <1>1, <1>9, <4>1, NothingOutstanding
    <3>2. QED
      BY <3>1
  <2>4. Paired(d.messages)
    BY <1>3, <2>2, PairedPrior
  <2>5. QED
    BY <2>2, <2>3, <2>4 DEF Chained, Covered
<1>10. CASE e.kind = "agent" /\ Awaited(c)
  <2>1. Defers(c, d, e)
    BY <1>2, <1>10, ChatStepIs
  <2>2. QED
    BY <1>3, <1>5, <2>1 DEF Defers, Chained
<1>11. CASE Sends(c, e, preserve)
  <2>1. SendsAll(c, d, e)
    BY <1>2, <1>11, ChatStepIs
  <2>2. PICK left : left = Unanswered(WaitedFor(c), e)
    OBVIOUS
  <2>3. PICK a \in Seq(MessageType) :
          a = c.messages \o SentCalls(c) /\ Paired(a) /\ Covered(a, Open(s, k))
    BY <1>3, <1>4, SentChained
  <2>4. PICK own \in Seq(MessageType) : own = ItemMessages(e, c.reasoning)
    BY <1>6, ItemMessagesType
  <2>5. PICK due \in Seq(MessageType) : due = Due(left, c.deferred)
    BY <1>6, Nothing DEF Due
  <2>6. /\ d.messages = (a \o own) \o due /\ d.pending = NoCalls /\ d.outstanding = left
    BY <2>1, <2>2, <2>3, <2>4, <2>5 DEF SendsAll
  <2>7. PICK b \in Seq(MessageType) : b = a \o own
    <3>1. a \o own \in Seq(MessageType)
      OBVIOUS
    <3>2. QED
      BY <3>1
  <2>8. Paired(b) /\ Covered(b, left)
    <3>1. CASE e.kind = "output"
      <4>1. e.id \in Open(s, k) /\ left = Open(s, k) \ {e.id}
        BY <1>1, <1>2, <1>4, <2>2, <3>1, OpenStep DEF Unanswered
      <4>2. PICK m \in MessageType : own = <<m>> /\ m.role = "tool" /\ m.ids[1] = e.id
        <5>1. <<e.id>> \in Seq(Int) /\ <<e.id>>[1] = e.id
          BY <1>6
        <5>2. Message("tool", <<e.id>>, <<>>) \in MessageType
          BY <5>1, Nothing DEF Message, MessageType, Roles
        <5>3. /\ Message("tool", <<e.id>>, <<>>).role = "tool"
              /\ Message("tool", <<e.id>>, <<>>).ids = <<e.id>>
          BY DEF Message
        <5>4. own = <<Message("tool", <<e.id>>, <<>>)>>
          BY <2>4, <3>1 DEF ItemMessages
        <5>5. QED
          BY <5>1, <5>2, <5>3, <5>4
      <4>3. QED
        BY <2>3, <2>7, <4>1, <4>2, CoveredOutput
    <3>2. CASE e.kind \in {"user", "assistant", "agent"}
      <4>1. Open(s, k) = {}
        <5>1. CASE e.kind = "agent"
          BY <1>4, <1>11, <5>1 DEF Sends
        <5>2. CASE e.kind \in {"user", "assistant"}
          BY <1>1, <1>2, <5>2, OpenStep
        <5>3. QED
          BY <3>2, <5>1, <5>2
      <4>2. left = {}
        BY <1>4, <2>2, <3>2, <4>1 DEF Unanswered
      <4>3. \A j \in DOMAIN own : own[j].role # "tool"
        <5>1. \A role, r : /\ DOMAIN <<Message(role, <<e.id>>, r)>> = {1}
                           /\ <<Message(role, <<e.id>>, r)>>[1].role = role
          BY DEF Message
        <5>2. CASE e.kind = "assistant"
          <6>1. own = <<Message("assistant", <<e.id>>, c.reasoning)>>
            BY <2>4, <5>2 DEF ItemMessages
          <6>2. QED
            BY <5>1, <6>1
        <5>3. CASE e.kind \in {"user", "agent"}
          <6>1. own = <<Message("user", <<e.id>>, <<>>)>>
            BY <2>4, <5>3 DEF ItemMessages
          <6>2. QED
            BY <5>1, <6>1
        <5>4. QED
          BY <3>2, <5>2, <5>3
      <4>4. Paired(b)
        BY <2>3, <2>7, <4>3, PairedBoth
      <4>5. QED
        BY <4>2, <4>4 DEF Covered
    <3>3. CASE e.kind \in {"reasoning", "other"}
      <4>1. own = <<>> /\ left = Open(s, k)
        BY <1>4, <2>2, <2>4, <3>3 DEF ItemMessages, Unanswered
      <4>2. a \o <<>> = a
        BY WithNothing
      <4>3. QED
        BY <2>3, <2>7, <4>1, <4>2
    <3>4. QED
      BY <1>6, <1>11, <3>1, <3>2, <3>3 DEF Kinds, Sends
  <2>9. Paired(d.messages)
    <3>1. \A j \in DOMAIN due : due[j].role # "tool"
      <4>1. DOMAIN <<>> = {}
        OBVIOUS
      <4>2. QED
        BY <1>3, <2>5, <4>1 DEF Due, Formed
    <3>2. Paired(b \o due)
      BY <2>8, <3>1, PairedBoth
    <3>3. QED
      BY <2>6, <2>7, <3>2
  <2>10. Covered(d.messages, left)
    <3>1. CASE left = {}
      BY <3>1 DEF Covered
    <3>2. CASE left # {}
      <4>1. due = <<>>
        BY <2>5, <3>2 DEF Due
      <4>2. b \o <<>> = b
        BY WithNothing
      <4>3. QED
        BY <2>6, <2>7, <2>8, <4>1, <4>2
    <3>3. QED
      BY <3>1, <3>2
  <2>11. \A x \in left : SentSince(s, preserve, i, x)
    <3>1. CASE Sender(e, preserve)
      <4>1. ASSUME NEW x \in left PROVE SentSince(s, preserve, i, x)
        <5>1. x \in Open(s, k)
          BY <1>4, <2>2 DEF Unanswered
        <5>2. PICK j \in 1..k : s[j].kind = "call" /\ s[j].id = x
          BY <5>1 DEF Open, Opens
        <5>3. j \in 1..i /\ i \in 1..i /\ j < i
          BY <1>2
        <5>4. QED
          BY <1>1, <3>1, <5>2, <5>3 DEF SentSince
      <4>2. QED
        BY <4>1
    <3>2. CASE ~Sender(e, preserve)
      <4>1. e.kind = "agent"
        BY <1>6, <1>11, <3>2 DEF Sends, Sender, Kinds
      <4>2. left = {}
        BY <1>4, <1>11, <2>2, <4>1 DEF Sends, Unanswered
      <4>3. QED
        BY <4>2
    <3>3. QED
      BY <3>1, <3>2
  <2>12. QED
    BY <2>6, <2>9, <2>10, <2>11 DEF Chained
<1>12. QED
  BY <1>8, <1>9, <1>10, <1>11 DEF Sends
-----------------------------------------------------------------------------

LEMMA ChainedPass ==
  ASSUME NEW s \in Seq(ItemType), WellRecorded(s), NEW preserve \in BOOLEAN,
         ~Interrupted(s, preserve)
  PROVE  Paired(ChatPass(s, preserve).messages)
<1>1. PICK n \in Nat : n = Len(s) /\ DOMAIN s = 1..n
  OBVIOUS
<1>2. PICK blank : blank = Blank(s)
  OBVIOUS
<1>3. PICK g \in [0..n -> ChatState], h \in [0..n -> NativeState] :
        RunTogether(s, n, preserve, g, h)
  BY <1>1, BothPasses
<1>4. /\ g[0] = Started
      /\ \A i \in 1..n : g[i] = ChatStep(g[i - 1], s[i], preserve, blank)
      /\ ChatPass(s, preserve) = g[n]
  BY <1>2, <1>3 DEF RunTogether, ChatRun
<1>5. \A i \in 0..n : Together(s, i, g[i], h[i])
  BY <1>3 DEF RunTogether
<1> DEFINE C == {i \in 0..n : Chained(s, preserve, i, g[i])}
<1>6. 0 \in C
  <2>1. Started.pending = NoCalls /\ Started.outstanding = {} /\ Started.messages = <<>>
    BY DEF Started
  <2>2. DOMAIN <<>> = {}
    OBVIOUS
  <2>3. Paired(<<>>) /\ Covered(<<>>, {})
    BY <2>2 DEF Paired, Covered
  <2>4. Chained(s, preserve, 0, Started)
    BY <2>1, <2>3 DEF Chained
  <2>5. QED
    BY <1>4, <2>4
<1>7. ASSUME NEW i \in 0..n, i \in C, i < n PROVE i + 1 \in C
  <2>1. PICK j \in 1..n : j = i + 1 /\ j - 1 = i /\ j \in 0..n
    BY <1>7
  <2>2. PICK c \in ChatState, m \in NativeState : c = g[i] /\ m = h[i]
    OBVIOUS
  <2>3. g[j] = ChatStep(c, s[j], preserve, blank)
    BY <1>4, <2>1, <2>2
  <2>4. Together(s, j - 1, c, m) /\ Chained(s, preserve, j - 1, c)
    BY <1>5, <1>7, <2>1, <2>2
  <2> HIDE DEF C
  <2>5. Chained(s, preserve, j, ChatStep(c, s[j], preserve, blank))
    BY <1>1, <2>1, <2>4, NextChained
  <2>6. QED
    BY <2>1, <2>3, <2>5 DEF C
<1>8. n \in C
  <2> HIDE DEF C
  <2>1. \A i \in 0..n : i \in C
    BY <1>6, <1>7, Induction
  <2>2. QED
    BY <2>1
<1>9. QED
  BY <1>4, <1>8 DEF Chained

(* Both translations of a history that Codex records are intact. *)
LEMMA ChatIntact ==
  ASSUME NEW s \in Seq(ItemType), NEW preserve \in BOOLEAN
  PROVE  Intact(s, preserve, ChatMessages(s, preserve))
<1>1. SUFFICES ASSUME Legal(s)
               PROVE  /\ Interrupted(s, preserve) \/ Paired(ChatMessages(s, preserve))
                      /\ SaidBy(ChatMessages(s, preserve), s) = Said(NativeItems(s))
                      /\ ToSet(SaidBy(ChatMessages(s, preserve), s)) = ToSet(Said(s))
  BY DEF Intact
<1>2. WellRecorded(s)
  BY <1>1, LegalMeans
<1>3. PICK c \in ChatState, m \in NativeState, n \in Nat :
        /\ c = ChatPass(s, preserve) /\ m = NativePass(s) /\ n = Len(s) /\ DOMAIN s = 1..n
        /\ Formed(c) /\ Waiting(s, n, c, m) /\ Alike(s, c, m) /\ Held(m) = {s[k] : k \in 1..n}
  <2>1. PICK n \in Nat : n = Len(s) /\ DOMAIN s = 1..n
    OBVIOUS
  <2>2. PICK g \in [0..n -> ChatState], h \in [0..n -> NativeState] :
          RunTogether(s, n, preserve, g, h)
    BY <1>2, <2>1, BothPasses
  <2>3. PICK c \in ChatState, m \in NativeState :
          c = ChatPass(s, preserve) /\ m = NativePass(s) /\ Together(s, n, c, m)
    BY <2>2 DEF RunTogether, ChatRun
  <2>4. QED
    BY <2>1, <2>3 DEF Together
<1>4. PICK a \in Seq(MessageType), o \in Seq(ItemType) : a = c.messages /\ o = m.output
  BY DEF ChatState, NativeState
<1>5. /\ c.pending = NoCalls /\ c.deferred = <<>>
      /\ m.pending = <<>> /\ m.deferred = <<>>
  <2>1. Open(s, n) = {}
    BY <1>2, <1>3, OpenEnds
  <2>2. ~Awaited(c) /\ m.pending = <<>>
    BY <1>3, <2>1, WaitingMeans
  <2>3. QED
    BY <1>3, <2>1, <2>2 DEF Awaited, Waiting
<1>6. a \o <<>> = a /\ o \o <<>> = o
  BY WithNothing
<1>7. PICK empty \in MessageType : empty = Message("user", <<>>, <<>>)
                                   /\ empty.ids = <<>> /\ empty.role = "user"
  <2>1. Message("user", <<>>, <<>>) \in MessageType
    BY Nothing DEF Message, MessageType, Roles
  <2>2. QED
    BY <2>1 DEF Message
<1>8. PICK sent : sent = ChatMessages(s, preserve) /\ sent = IF a = <<>> THEN <<empty>> ELSE a
  BY <1>3, <1>4, <1>5, <1>6, <1>7 DEF ChatMessages
<1>9. NativeItems(s) = o
  BY <1>3, <1>4, <1>5, <1>6 DEF NativeItems
<1>10. PICK keep : keep = Keep(s)
  OBVIOUS
<1>11. Heard(sent, keep) = Heard(a, keep) /\ Heard(a, keep) \in Seq(Int)
  <2>1. Heard(<<empty>>, keep) = <<>> /\ Heard(<<>>, keep) = <<>>
    BY <1>7, HeardOne, KeptEmpty
  <2>2. Heard(a, keep) \in Seq(Int)
    BY HeardBoth
  <2>3. QED
    BY <1>8, <2>1, <2>2
<1>12. SaidBy(sent, s) = Heard(sent, keep)
  BY <1>10 DEF SaidBy, Heard, Keep
<1>13. Heard(a, keep) = Said(o)
  <2>1. Heard(a, keep) \o Kept(<<>>, keep) = Said(o) \o Said(<<>>)
    BY <1>3, <1>4, <1>5, <1>10, NoCallsType DEF Alike
  <2>2. Kept(<<>>, keep) = <<>> /\ Said(<<>>) = <<>>
    BY KeptEmpty, SaidNothing
  <2>3. Said(o) \in Seq(Int)
    BY SaidBoth
  <2>4. Said(o) \o <<>> = Said(o) /\ Heard(a, keep) \o <<>> = Heard(a, keep)
    BY <1>11, <2>3, WithNothing
  <2>5. QED
    BY <2>1, <2>2, <2>4
<1>14. ToSet(Said(o)) = ToSet(Said(s))
  <2>1. ToSet(o) = {s[k] : k \in 1..n}
    <3>1. ToSet(<<>>) = {}
      BY ToSetOne
    <3>2. QED
      BY <1>3, <1>4, <1>5, <3>1 DEF Held
  <2>2. PICK l \in Nat : l = Len(o) /\ DOMAIN o = 1..l
    OBVIOUS
  <2>3. ToSet(o) = {o[k] : k \in 1..l}
    BY <2>2 DEF ToSet
  <2>4. \A x \in Int : (\E k \in 1..l : Speaks(o[k]) /\ o[k].id = x)
                         <=> (\E k \in 1..n : Speaks(s[k]) /\ s[k].id = x)
    <3>1. \A k \in 1..l : \E j \in 1..n : o[k] = s[j]
      BY <2>1, <2>3
    <3>2. \A k \in 1..n : \E j \in 1..l : s[k] = o[j]
      BY <2>1, <2>3
    <3>3. QED
      BY <3>1, <3>2
  <2>5. \A x \in Int : x \in ToSet(Said(o)) <=> x \in ToSet(Said(s))
    BY <1>3, <2>2, <2>4, SaidElements
  <2>6. ToSet(Said(o)) \subseteq Int /\ ToSet(Said(s)) \subseteq Int
    <3>1. Said(o) \in Seq(Int) /\ Said(s) \in Seq(Int)
      BY SaidBoth
    <3>2. \A u \in Seq(Int) : \A k \in DOMAIN u : u[k] \in Int
      OBVIOUS
    <3>3. QED
      BY <3>1, <3>2 DEF ToSet
  <2>7. QED
    BY <2>5, <2>6
<1>15. Interrupted(s, preserve) \/ Paired(sent)
  <2>1. SUFFICES ASSUME ~Interrupted(s, preserve) PROVE Paired(sent)
    OBVIOUS
  <2>2. Paired(a)
    BY <1>2, <1>3, <1>4, <2>1, ChainedPass
  <2>3. DOMAIN <<empty>> = {1} /\ <<empty>>[1] = empty
    OBVIOUS
  <2>4. Paired(<<empty>>)
    BY <1>7, <2>3 DEF Paired
  <2>5. QED
    BY <1>8, <2>2, <2>4
<1>16. QED
  BY <1>8, <1>9, <1>11, <1>12, <1>13, <1>14, <1>15

(* Whatever a chat provider is sent for a history that Codex records says  *)
(* what the history says, in the order that a Responses provider would be  *)
(* told it, and gives each output right after its call unless the turn was *)
(* interrupted: for histories of every length.                             *)
THEOREM HistoryIntactHolds == Spec => []HistoryIntact
<1> DEFINE I == Fields /\ ShapesOK /\ JustInv /\ AccInv /\ SizeInv
<1>1. Init => I
  BY InitFields, InitJust, InitAcc, InitSizes
<1>2. I /\ [Next]_vars => I'
  BY NextFields, NextTime, NextCache, NextFormat, NextAcc, NextSizes DEF JustInv
<1>3. I => HistoryIntact
  <2>1. SUFFICES ASSUME SizeInv, NEW r \in Requests, req[r].messages # <<>>
                 PROVE  Intact(shape(r).input, shape(r).preserve, req[r].messages)
    BY DEF HistoryIntact
  <2>2. /\ shape(r) \in Shape
        /\ req[r].messages = ChatMessages(shape(r).input, shape(r).preserve)
    BY <2>1 DEF SizeInv, ScenarioOK, RequestInv, Translated
  <2>3. shape(r).input \in Seq(ItemType) /\ shape(r).preserve \in BOOLEAN
    BY <2>2 DEF Shape
  <2>4. QED
    BY <2>2, <2>3, ChatIntact
<1>4. QED
  BY <1>1, <1>2, <1>3, PTL DEF Spec
=============================================================================
