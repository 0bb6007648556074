--------------------------- MODULE SessionPromise ---------------------------
(***************************************************************************)
(* What the session-model cache promises, without its maps, weak           *)
(* references and order objects: requests of a session are numbered in     *)
(* dispatch order, the newest success of a session is remembered until it  *)
(* is forgotten for lack of room, an older success never replaces a newer  *)
(* one even after it was forgotten, and a request that is dropped leaves   *)
(* no trace.                                                               *)
(***************************************************************************)
EXTENDS Naturals

CONSTANTS Keys, Models, None, MaxUse

VARIABLES
  clock,     \* numbers requests
  inflight,  \* requests dispatched and neither succeeded nor dropped
  settled,   \* sessions whose newest success is remembered
  newest     \* key -> [request, model] of its newest success ever

pvars == <<clock, inflight, settled, newest>>

InFlight == [key: Keys, model: Models, request: 1..MaxUse]

PInit ==
  /\ clock = 0
  /\ inflight = {}
  /\ settled = {}
  /\ newest = [k \in Keys |-> [request |-> 0, model |-> None]]

Tick == clock < MaxUse /\ clock' = clock + 1

Dispatch(k, m) ==
  /\ Tick
  /\ inflight' = inflight \cup
                   {[key |-> k, model |-> m, request |-> clock + 1]}
  /\ UNCHANGED <<settled, newest>>

(* A request no older than the newest success of its session succeeds; one *)
(* other session may be forgotten for it.                                  *)
Succeed(p) ==
  /\ Tick
  /\ p.request > newest[p.key].request
  /\ inflight' = inflight \ {p}
  /\ newest' = [newest EXCEPT ![p.key] =
                  [request |-> p.request, model |-> p.model]]
  /\ \E forgotten \in SUBSET (settled \ {p.key}) :
       /\ \A j, k \in forgotten : j = k
       /\ settled' = (settled \ forgotten) \cup {p.key}

(* A request that a newer success of its session has overtaken succeeds. *)
SucceedLate(p) ==
  /\ Tick
  /\ p.request < newest[p.key].request
  /\ inflight' = inflight \ {p}
  /\ UNCHANGED <<settled, newest>>

Abandon(p) ==
  /\ inflight' = inflight \ {p}
  /\ UNCHANGED <<clock, settled, newest>>

(* A lookup, or a request that is not tracked. *)
Consult == Tick /\ UNCHANGED <<inflight, settled, newest>>

PNext ==
  \/ \E k \in Keys, m \in Models : Dispatch(k, m)
  \/ \E p \in inflight : Succeed(p) \/ SucceedLate(p) \/ Abandon(p)
  \/ Consult

PSpec == PInit /\ [][PNext]_pvars

(* What a lookup answers: the newest request in flight, unless a           *)
(* remembered success is newer still.                                      *)
Answer(k) ==
  LET flying == {p \in inflight : p.key = k}
      newer == {p \in flying : k \in settled => p.request > newest[k].request}
  IN CASE newer # {} ->
            (CHOOSE p \in newer : \A q \in newer : q.request <= p.request).model
       [] newer = {} /\ k \in settled -> newest[k].model
       [] OTHER -> None
============================================================================
