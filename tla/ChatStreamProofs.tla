--------------------------- MODULE ChatStreamProofs ---------------------------
(***************************************************************************)
(* Proofs about ChatStream, for every set of chunks an upstream may send,  *)
(* every length of a stream and every number of tool calls.                *)
(***************************************************************************)
EXTENDS ChatStream, Recursion

Parts == Positions \cup Slots
Running == [acc: Accum, events: Seq(Event)]

At(type, events) == {k \in DOMAIN events : events[k].type = type}

\* An item is begun, once and before its deltas, when it holds something.
Begun(added, delta, open, events) ==
  /\ At(added, events) # {} <=> open
  /\ \A k, j \in At(added, events) : k = j
  /\ \A j \in At(delta, events) : \E k \in At(added, events) : k < j

\* What the events say, and the accumulator c that computed them.
Agrees(c, events) ==
  /\ Begun("rsn_added", "rsn_delta", c.rtext # <<>>, events)
  /\ Begun("msg_added", "msg_delta", c.text # <<>>, events)
  /\ Told("msg_delta", events) = c.text
  /\ Told("rsn_delta", events) \o c.rpending = c.rtext

Opened == {"created", "rsn_added", "rsn_delta", "msg_added", "msg_delta"}
AllOf(types, events) == \A k \in DOMAIN events : events[k].type \in types

\* An accumulator with its new events, which come after those of base.
Tells(a, base) ==
  a \in Running /\ AllOf(Opened, a.events) /\ Agrees(a.acc, base \o a.events)

LEMMA Appended ==
  ASSUME NEW S, NEW s \in Seq(S), NEW x \in S
  PROVE  Append(s, x) \in Seq(S) /\ Append(s, x) # <<>>
<1>1. Append(s, x) \in Seq(S)
  OBVIOUS
<1>2. Append(s, x) # <<>>
  <2>1. Len(Append(s, x)) = Len(s) + 1 /\ Len(s) \in Nat
    OBVIOUS
  <2>2. Len(<<>>) = 0
    OBVIOUS
  <2>3. QED
    BY <2>1, <2>2
<1>3. QED
  BY <1>1, <1>2

-----------------------------------------------------------------------------
(* What the assumption says of the constants. *)
LEMMA Constants ==
  /\ NumSlots \in Nat /\ MaxChunks \in Nat /\ FlushAt \in Nat /\ FlushAt > 0
  /\ None \notin Nat /\ Shapes \subseteq Chunk
  /\ Positions \subseteq Nat /\ Slots \subseteq Nat /\ Parts \subseteq Nat
BY ChatAssumption DEF Positions, Slots, Parts

(* What one chunk is. *)
LEMMA ChunkType ==
  ASSUME NEW c \in Shapes
  PROVE  /\ c.reasoning \in {"none", "small", "block", "repeat"}
         /\ c.content \in {"none", "plain", "element", "unclosed", "prefix"}
         /\ c.call \in {"none", "unnamed", "named"} /\ c.slot \in Slots \cup {None}
         /\ c.call # "none" => c.slot \in Slots
         /\ c.finish \in {"none", "terminal", "other"}
         /\ c.usage \in BOOLEAN /\ c.observed \in BOOLEAN
         /\ c.finish # "none" => c.observed
<1>1. c \in Chunk
  BY ChatAssumption
<1>2. (c.call = "none" <=> c.slot = None) /\ (c.finish # "none" => c.observed)
  BY ChatAssumption
<1>3. QED
  BY <1>1, <1>2 DEF Chunk

(* One event. *)
LEMMA EventType ==
  ASSUME NEW e \in Event
  PROVE  e.parts \in Seq(Parts)
BY DEF Event, Parts

(* What is said as an event is one. *)
LEMMA SaidEvent ==
  ASSUME NEW type \in Opened \cup {"rsn_done", "msg_done", "call_done", "completed",
                                   "done", "failed"},
         NEW parts \in Seq(Parts)
  PROVE  [type |-> type, parts |-> parts] \in Event
BY DEF Event, Parts, Opened

(* A sequence of some things is one of more. *)
LEMMA Widened ==
  ASSUME NEW S, NEW T, S \subseteq T, NEW s \in Seq(S)
  PROVE  s \in Seq(T)
OBVIOUS

Telling(type) == [e \in Event |-> IF e.type = type THEN e.parts ELSE <<>>]

(* What the events tell is what they stand for, one after the other. *)
LEMMA ToldIs ==
  ASSUME NEW type, NEW events \in Seq(Event)
  PROVE  /\ Maps(Telling(type), Event, Parts)
         /\ Told(type, events) = FlatMap(Telling(type), events)
<1>1. Maps(Telling(type), Event, Parts)
  <2>1. \A e \in Event : (IF e.type = type THEN e.parts ELSE <<>>) \in Seq(Parts)
    <3>1. <<>> \in Seq(Parts)
      OBVIOUS
    <3>2. QED
      BY <3>1, EventType
  <2>2. QED
    BY <2>1 DEF Maps, Telling
<1>2. \A k \in DOMAIN events : events[k] \in Event
  OBVIOUS
<1>3. Mapped(Telling(type), events)
        = [k \in DOMAIN events |-> IF events[k].type = type THEN events[k].parts ELSE <<>>]
  BY <1>2 DEF Mapped, Telling
<1>4. QED
  BY <1>1, <1>3 DEF Told, FlatMap

(* Event after event. *)
LEMMA ToldBoth ==
  ASSUME NEW type, NEW a \in Seq(Event), NEW b \in Seq(Event)
  PROVE  /\ Told(type, a) \in Seq(Parts) /\ Told(type, b) \in Seq(Parts)
         /\ Told(type, a \o b) = Told(type, a) \o Told(type, b)
<1> DEFINE g == Telling(type)
<1>1. Maps(g, Event, Parts)
  BY ToldIs
<1>2. Told(type, a) = FlatMap(g, a) /\ Told(type, b) = FlatMap(g, b)
  BY ToldIs
<1>3. Told(type, a \o b) = FlatMap(g, a \o b)
  <2>1. a \o b \in Seq(Event)
    OBVIOUS
  <2>2. PICK c \in Seq(Event) : c = a \o b
    BY <2>1
  <2>3. QED
    BY <2>2, ToldIs
<1> HIDE DEF g
<1>4. FlatMap(g, a) \in Seq(Parts) /\ FlatMap(g, b) \in Seq(Parts)
  BY <1>1, FlatMapType
<1>5. FlatMap(g, a \o b) = FlatMap(g, a) \o FlatMap(g, b)
  BY <1>1, FlatMapBoth
<1>6. QED
  BY <1>2, <1>3, <1>4, <1>5

(* What one event tells, and none. *)
LEMMA ToldOne ==
  ASSUME NEW type, NEW e \in Event
  PROVE  /\ Told(type, <<e>>) = IF e.type = type THEN e.parts ELSE <<>>
         /\ Told(type, <<>>) = <<>>
<1> DEFINE g == Telling(type)
<1>1. Maps(g, Event, Parts) /\ Told(type, <<e>>) = FlatMap(g, <<e>>)
  <2>1. <<e>> \in Seq(Event)
    OBVIOUS
  <2>2. PICK c \in Seq(Event) : c = <<e>>
    BY <2>1
  <2>3. QED
    BY <2>2, ToldIs
<1>2. Told(type, <<>>) = FlatMap(g, <<>>)
  <2>1. <<>> \in Seq(Event)
    OBVIOUS
  <2>2. PICK c \in Seq(Event) : c = <<>>
    BY <2>1
  <2>3. QED
    BY <2>2, ToldIs
<1>3. g[e] = IF e.type = type THEN e.parts ELSE <<>>
  BY DEF Telling
<1> HIDE DEF g
<1>4. FlatMap(g, <<e>>) = g[e] /\ FlatMap(g, <<>>) = <<>>
  BY <1>1, FlatMapOne
<1>5. QED
  BY <1>1, <1>2, <1>3, <1>4

(* Events of other types tell nothing. *)
LEMMA ToldNothing ==
  ASSUME NEW type, NEW events \in Seq(Event), At(type, events) = {}
  PROVE  Told(type, events) = <<>>
<1> DEFINE g == Telling(type)
<1>1. Maps(g, Event, Parts) /\ Told(type, events) = FlatMap(g, events)
  BY ToldIs
<1>2. \A k \in 1..Len(events) : g[events[k]] = <<>>
  BY DEF At, Telling
<1> HIDE DEF g
<1>3. FlatMap(g, events) = <<>>
  BY <1>1, <1>2, FlatMapNothing
<1>4. QED
  BY <1>1, <1>3

(* Where the events of two sequences are. *)
LEMMA AtBoth ==
  ASSUME NEW type, NEW a \in Seq(Event), NEW b \in Seq(Event)
  PROVE  /\ a \o b \in Seq(Event) /\ Len(a \o b) = Len(a) + Len(b)
         /\ Len(a) \in Nat /\ Len(b) \in Nat
         /\ At(type, a \o b) = At(type, a) \cup {Len(a) + k : k \in At(type, b)}
         /\ At(type, a) \subseteq 1..Len(a) /\ At(type, b) \subseteq 1..Len(b)
<1>1. /\ a \o b \in Seq(Event) /\ Len(a \o b) = Len(a) + Len(b)
      /\ Len(a) \in Nat /\ Len(b) \in Nat
      /\ DOMAIN (a \o b) = 1..(Len(a) + Len(b))
      /\ DOMAIN a = 1..Len(a) /\ DOMAIN b = 1..Len(b)
  OBVIOUS
<1>2. \A k \in 1..Len(a) : (a \o b)[k] = a[k]
  OBVIOUS
<1>3. \A k \in 1..Len(b) : (a \o b)[Len(a) + k] = b[k]
  OBVIOUS
<1>4. ASSUME NEW k \in At(type, a \o b)
      PROVE  k \in At(type, a) \cup {Len(a) + j : j \in At(type, b)}
  <2>1. k \in 1..(Len(a) + Len(b)) /\ (a \o b)[k].type = type
    BY <1>1 DEF At
  <2>2. CASE k <= Len(a)
    BY <1>1, <1>2, <2>1, <2>2 DEF At
  <2>3. CASE ~(k <= Len(a))
    <3>1. PICK j \in 1..Len(b) : k = Len(a) + j
      <4>1. k - Len(a) \in 1..Len(b) /\ k = Len(a) + (k - Len(a))
        BY <1>1, <2>1, <2>3
      <4>2. QED
        BY <4>1
    <3>2. b[j].type = type
      BY <1>3, <2>1, <3>1
    <3>3. j \in At(type, b)
      BY <1>1, <3>2 DEF At
    <3>4. QED
      BY <3>1, <3>3
  <2>4. QED
    BY <2>2, <2>3
<1>5. ASSUME NEW k \in At(type, a) PROVE k \in At(type, a \o b)
  BY <1>1, <1>2 DEF At
<1>6. ASSUME NEW k \in At(type, b) PROVE Len(a) + k \in At(type, a \o b)
  <2>1. k \in 1..Len(b) /\ b[k].type = type /\ Len(a) + k \in 1..(Len(a) + Len(b))
    BY <1>1 DEF At
  <2>2. QED
    BY <1>1, <1>3, <2>1 DEF At
<1>7. QED
  BY <1>1, <1>4, <1>5, <1>6 DEF At

(* One more event. *)
LEMMA OneMore ==
  ASSUME NEW type, NEW events \in Seq(Event), NEW e \in Event
  PROVE  /\ Append(events, e) \in Seq(Event) /\ Append(events, e) = events \o <<e>>
         /\ Len(events) \in Nat /\ Len(Append(events, e)) = Len(events) + 1
         /\ Told(type, Append(events, e)) =
              Told(type, events) \o (IF e.type = type THEN e.parts ELSE <<>>)
         /\ At(type, Append(events, e)) =
              At(type, events) \cup (IF e.type = type THEN {Len(events) + 1} ELSE {})
         /\ At(type, events) \subseteq 1..Len(events)
<1>1. /\ Append(events, e) \in Seq(Event) /\ Append(events, e) = events \o <<e>>
      /\ Len(events) \in Nat /\ Len(Append(events, e)) = Len(events) + 1
  OBVIOUS
<1>2. PICK one \in Seq(Event) : one = <<e>>
  <2>1. <<e>> \in Seq(Event)
    OBVIOUS
  <2>2. QED
    BY <2>1
<1>3. Told(type, Append(events, e)) =
        Told(type, events) \o (IF e.type = type THEN e.parts ELSE <<>>)
  <2>1. Told(type, events \o one) = Told(type, events) \o Told(type, one)
    BY ToldBoth
  <2>2. Told(type, one) = IF e.type = type THEN e.parts ELSE <<>>
    BY <1>2, ToldOne
  <2>3. QED
    BY <1>1, <1>2, <2>1, <2>2
<1>4. /\ At(type, Append(events, e)) =
           At(type, events) \cup (IF e.type = type THEN {Len(events) + 1} ELSE {})
      /\ At(type, events) \subseteq 1..Len(events)
  <2>1. /\ DOMAIN Append(events, e) = 1..(Len(events) + 1)
        /\ DOMAIN events = 1..Len(events)
        /\ Append(events, e)[Len(events) + 1] = e
        /\ \A k \in 1..Len(events) : Append(events, e)[k] = events[k]
    OBVIOUS
  <2>2. QED
    BY <1>1, <2>1 DEF At
<1>5. QED
  BY <1>1, <1>3, <1>4

(* An event that does not begin the item. *)
LEMMA BegunStill ==
  ASSUME NEW added, NEW delta, NEW open \in BOOLEAN, NEW events \in Seq(Event), NEW e \in Event,
         Begun(added, delta, open, events), e.type # added, e.type = delta => open
  PROVE  Begun(added, delta, open, Append(events, e))
<1>1. /\ At(added, Append(events, e)) = At(added, events)
      /\ At(added, events) \subseteq 1..Len(events) /\ Len(events) \in Nat
  <2>1. /\ At(added, Append(events, e)) =
             At(added, events) \cup (IF e.type = added THEN {Len(events) + 1} ELSE {})
        /\ At(added, events) \subseteq 1..Len(events) /\ Len(events) \in Nat
    BY OneMore
  <2>2. QED
    BY <2>1
<1>0. At(delta, Append(events, e)) =
        At(delta, events) \cup (IF e.type = delta THEN {Len(events) + 1} ELSE {})
  BY OneMore
<1>2. ASSUME NEW j \in At(delta, Append(events, e)) PROVE \E k \in At(added, events) : k < j
  <2>1. CASE j \in At(delta, events)
    BY <2>1 DEF Begun
  <2>2. CASE e.type = delta /\ j = Len(events) + 1
    BY <1>1, <2>2 DEF Begun
  <2>3. QED
    BY <1>0, <1>2, <2>1, <2>2
<1>3. QED
  BY <1>1, <1>2 DEF Begun

(* The event that begins it. *)
LEMMA BegunStarts ==
  ASSUME NEW added, NEW delta, NEW events \in Seq(Event), NEW e \in Event,
         Begun(added, delta, FALSE, events), e.type = added, added # delta
  PROVE  Begun(added, delta, TRUE, Append(events, e))
<1>1. /\ At(added, Append(events, e)) = At(added, events) \cup {Len(events) + 1}
      /\ At(delta, Append(events, e)) = At(delta, events)
  <2>1. At(added, Append(events, e)) =
          At(added, events) \cup (IF e.type = added THEN {Len(events) + 1} ELSE {})
    BY OneMore
  <2>2. At(delta, Append(events, e)) =
          At(delta, events) \cup (IF e.type = delta THEN {Len(events) + 1} ELSE {})
    BY OneMore
  <2>3. QED
    BY <2>1, <2>2
<1>2. At(added, events) = {} /\ At(delta, events) = {}
  BY DEF Begun
<1>3. QED
  BY <1>1, <1>2 DEF Begun

(* What is appended to a sequence of events. *)
LEMMA MoreEvents ==
  ASSUME NEW base \in Seq(Event), NEW events \in Seq(Event), NEW e \in Event
  PROVE  /\ base \o events \in Seq(Event)
         /\ base \o Append(events, e) = Append(base \o events, e)
         /\ Append(events, e) \in Seq(Event)
OBVIOUS

(* The fields of an accumulator. *)
LEMMA AccumType ==
  ASSUME NEW c \in Accum
  PROVE  /\ c.rtext \in Seq(Positions) /\ c.rpending \in Seq(Positions)
         /\ c.text \in Seq(Positions) /\ c.deferred \in Seq(Positions)
         /\ c.edge \in Seq(Positions) /\ c.inside \in BOOLEAN /\ c.native \in BOOLEAN
         /\ c.calls \in [Slots -> {"absent", "unnamed", "named"}]
         /\ c.finish \in {"none", "terminal", "other"} /\ c.usage \in Positions \cup {None}
         /\ c = [rtext |-> c.rtext, rpending |-> c.rpending, text |-> c.text,
                 deferred |-> c.deferred, edge |-> c.edge, inside |-> c.inside,
                 calls |-> c.calls, native |-> c.native, finish |-> c.finish,
                 usage |-> c.usage]
BY DEF Accum

(* Say adds an event and leaves the accumulator as it is. *)
LEMMA SayAdds ==
  ASSUME NEW a \in Running, NEW type, NEW parts, NEW e \in Event,
         e = [type |-> type, parts |-> parts]
  PROVE  /\ Say(a, type, parts) \in Running
         /\ Say(a, type, parts).acc = a.acc
         /\ Say(a, type, parts).events = Append(a.events, e)
BY DEF Say, Running

(* A change of the accumulator leaves the events as they are. *)
LEMMA AccSet ==
  ASSUME NEW a \in Running, NEW c \in Accum
  PROVE  /\ [a EXCEPT !.acc = c] \in Running
         /\ [a EXCEPT !.acc = c].acc = c /\ [a EXCEPT !.acc = c].events = a.events
BY DEF Running

(* What is pending in a sequence makes it one that is not empty. *)
LEMMA NotEmpty ==
  ASSUME NEW S, NEW s \in Seq(S), NEW t \in Seq(S)
  PROVE  (t # <<>> => s \o t # <<>>) /\ (s # <<>> => s \o t # <<>>)
<1>1. Len(s \o t) = Len(s) + Len(t) /\ Len(s) \in Nat /\ Len(t) \in Nat
  OBVIOUS
<1>2. (t # <<>> => Len(t) > 0) /\ (s # <<>> => Len(s) > 0) /\ Len(<<>>) = 0
  OBVIOUS
<1>3. QED
  BY <1>1, <1>2

(* All events are of some types. *)
LEMMA AllOfMore ==
  ASSUME NEW types, NEW events \in Seq(Event), NEW e \in Event,
         AllOf(types, events), e.type \in types
  PROVE  AllOf(types, Append(events, e))
BY DEF AllOf

(* The pending reasoning goes out in one event. *)
LEMMA FlushTells ==
  ASSUME NEW a, NEW base \in Seq(Event), Tells(a, base)
  PROVE  /\ Tells(FlushReasoning(a), base)
         /\ FlushReasoning(a).acc = [a.acc EXCEPT !.rpending = <<>>]
<1>0. a \in Running /\ a.acc \in Accum /\ a.events \in Seq(Event)
  BY DEF Tells, Running
<1>1. CASE a.acc.rpending = <<>>
  <2>1. [a.acc EXCEPT !.rpending = <<>>] = a.acc
    BY <1>0, <1>1, AccumType
  <2>2. QED
    BY <1>1, <2>1 DEF FlushReasoning
<1>2. CASE a.acc.rpending # <<>>
  <2> DEFINE e == [type |-> "rsn_delta", parts |-> a.acc.rpending]
             c == [a.acc EXCEPT !.rpending = <<>>]
             E == base \o a.events
  <2>1. a.acc.rpending \in Seq(Positions) /\ a.acc.rpending \in Seq(Parts)
        /\ a.acc.rtext \in Seq(Positions)
    BY <1>0, AccumType, Widened DEF Parts
  <2>2. /\ e \in Event /\ e.type = "rsn_delta" /\ e.parts = a.acc.rpending
        /\ e = [type |-> "rsn_delta", parts |-> a.acc.rpending]
    BY <2>1, SaidEvent DEF Opened
  <2> HIDE DEF e, E
  <2>3. c \in Accum
    <3>1. <<>> \in Seq(Positions)
      OBVIOUS
    <3>2. QED
      BY <1>0, <3>1 DEF Accum
  <2>4. c.rpending = <<>> /\ c.rtext = a.acc.rtext /\ c.text = a.acc.text
    BY <1>0 DEF Accum
  <2>a. /\ FlushReasoning(a) \in Running /\ FlushReasoning(a).acc = c
        /\ FlushReasoning(a).events = Append(a.events, e)
    <3> DEFINE b == Say(a, "rsn_delta", a.acc.rpending)
    <3>1. b \in Running /\ b.acc = a.acc /\ b.events = Append(a.events, e)
      BY <1>0, <2>2, SayAdds
    <3>2. FlushReasoning(a) = [b EXCEPT !.acc = c]
      <4>1. FlushReasoning(a) = [b EXCEPT !.acc.rpending = <<>>]
        BY <1>2 DEF FlushReasoning
      <4> HIDE DEF b
      <4>2. QED
        BY <3>1, <4>1
    <3> HIDE DEF b, c
    <3>3. QED
      BY <2>3, <3>1, <3>2, AccSet
  <2>5. E \in Seq(Event) /\ base \o Append(a.events, e) = Append(E, e)
        /\ Append(a.events, e) \in Seq(Event)
    BY <1>0, <2>2, MoreEvents DEF E
  <2>6. AllOf(Opened, Append(a.events, e))
    BY <1>0, <2>2, AllOfMore DEF Tells, Opened
  <2>7. Agrees(a.acc, E)
    BY DEF Tells, E
  <2> HIDE DEF c
  <2>8. /\ Told("msg_delta", Append(E, e)) = Told("msg_delta", E)
        /\ Told("rsn_delta", Append(E, e)) = Told("rsn_delta", E) \o a.acc.rpending
        /\ Told("rsn_delta", E) \in Seq(Parts) /\ Told("msg_delta", E) \in Seq(Parts)
    <3>1. Told("rsn_delta", E) \in Seq(Parts) /\ Told("msg_delta", E) \in Seq(Parts)
      BY <2>5, ToldBoth
    <3>0. E \in Seq(Event) /\ e \in Event
      BY <2>2, <2>5
    <3>2. Told("msg_delta", Append(E, e)) =
            Told("msg_delta", E) \o (IF e.type = "msg_delta" THEN e.parts ELSE <<>>)
      BY <3>0, OneMore
    <3>3. Told("rsn_delta", Append(E, e)) =
            Told("rsn_delta", E) \o (IF e.type = "rsn_delta" THEN e.parts ELSE <<>>)
      BY <3>0, OneMore
    <3>4. Told("msg_delta", Append(E, e)) = Told("msg_delta", E) \o <<>>
      BY <2>2, <3>2
    <3>5. QED
      BY <2>2, <3>1, <3>3, <3>4
  <2>9. a.acc.rtext # <<>>
    <3>1. Told("rsn_delta", E) \o a.acc.rpending = a.acc.rtext
      BY <2>7 DEF Agrees
    <3>2. QED
      BY <1>2, <2>1, <2>8, <3>1, NotEmpty
  <2>10. Agrees(c, Append(E, e))
    <3>1. Begun("rsn_added", "rsn_delta", c.rtext # <<>>, Append(E, e))
      BY <2>2, <2>4, <2>5, <2>7, <2>9, BegunStill DEF Agrees
    <3>2. Begun("msg_added", "msg_delta", c.text # <<>>, Append(E, e))
      BY <2>2, <2>4, <2>5, <2>7, BegunStill DEF Agrees
    <3>3. Told("msg_delta", Append(E, e)) = c.text
      BY <2>4, <2>7, <2>8 DEF Agrees
    <3>4. Told("rsn_delta", Append(E, e)) \o c.rpending = c.rtext
      <4>1. PICK s \in Seq(Positions) : s = a.acc.rtext
        BY <2>1
      <4>2. s \o <<>> = s
        OBVIOUS
      <4>3. QED
        BY <2>4, <2>7, <2>8, <4>1, <4>2 DEF Agrees
    <3>5. QED
      BY <3>1, <3>2, <3>3, <3>4 DEF Agrees
  <2>11. QED
    BY <2>a, <2>5, <2>6, <2>10 DEF Tells, c, E
<1>3. QED
  BY <1>1, <1>2

(* The message begins before its first text. *)
LEMMA BegunMsg ==
  ASSUME NEW a, NEW base \in Seq(Event), Tells(a, base), NEW b,
         b = IF a.acc.text = <<>> THEN Say(a, "msg_added", <<>>) ELSE a
  PROVE  /\ b \in Running /\ b.acc = a.acc /\ AllOf(Opened, b.events)
         /\ b.events \in Seq(Event) /\ base \o b.events \in Seq(Event)
         /\ Begun("msg_added", "msg_delta", TRUE, base \o b.events)
         /\ Begun("rsn_added", "rsn_delta", a.acc.rtext # <<>>, base \o b.events)
         /\ Told("msg_delta", base \o b.events) = a.acc.text
         /\ Told("rsn_delta", base \o b.events) \o a.acc.rpending = a.acc.rtext
<1> DEFINE first == [type |-> "msg_added", parts |-> <<>>]
           E == base \o b.events
<1>0. a \in Running /\ a.acc \in Accum /\ a.events \in Seq(Event)
  BY DEF Tells, Running
<1>1. <<>> \in Seq(Parts)
  OBVIOUS
<1>2. /\ first \in Event /\ first.type = "msg_added" /\ first.parts = <<>>
      /\ first = [type |-> "msg_added", parts |-> <<>>]
  BY <1>1, SaidEvent DEF Opened
<1> HIDE DEF first
<1>3. /\ AllOf(Opened, a.events) /\ base \o a.events \in Seq(Event)
      /\ Begun("msg_added", "msg_delta", a.acc.text # <<>>, base \o a.events)
      /\ Begun("rsn_added", "rsn_delta", a.acc.rtext # <<>>, base \o a.events)
      /\ Told("msg_delta", base \o a.events) = a.acc.text
      /\ Told("rsn_delta", base \o a.events) \o a.acc.rpending = a.acc.rtext
  <2>1. base \o a.events \in Seq(Event)
    BY <1>0
  <2>2. AllOf(Opened, a.events) /\ Agrees(a.acc, base \o a.events)
    BY DEF Tells
  <2>3. QED
    BY <2>1, <2>2 DEF Agrees
<1>4. CASE a.acc.text # <<>>
  BY <1>0, <1>3, <1>4
<1>5. CASE a.acc.text = <<>>
  <2>1. b \in Running /\ b.acc = a.acc /\ b.events = Append(a.events, first)
    BY <1>0, <1>2, <1>5, SayAdds
  <2>2. PICK D \in Seq(Event) : D = base \o a.events
    BY <1>3
  <2>3. E = Append(D, first) /\ E \in Seq(Event) /\ b.events \in Seq(Event)
    <3>1. /\ base \o Append(a.events, first) = Append(base \o a.events, first)
          /\ Append(a.events, first) \in Seq(Event)
      BY <1>0, <1>2, MoreEvents
    <3>2. Append(D, first) \in Seq(Event)
      BY <1>2, <2>2
    <3>3. QED
      BY <2>1, <2>2, <3>1, <3>2
  <2>4. AllOf(Opened, b.events)
    BY <1>0, <1>2, <1>3, <2>1, AllOfMore DEF Opened
  <2>5. Begun("msg_added", "msg_delta", TRUE, Append(D, first))
    <3>1. Begun("msg_added", "msg_delta", FALSE, D)
      BY <1>3, <1>5, <2>2
    <3>2. QED
      BY <1>2, <3>1, BegunStarts
  <2>6. Begun("rsn_added", "rsn_delta", a.acc.rtext # <<>>, Append(D, first))
    <3>1. PICK open \in BOOLEAN : open = (a.acc.rtext # <<>>)
      OBVIOUS
    <3>2. Begun("rsn_added", "rsn_delta", open, D)
      BY <1>3, <2>2, <3>1
    <3>3. Begun("rsn_added", "rsn_delta", open, Append(D, first))
      BY <1>2, <3>2, BegunStill
    <3>4. QED
      BY <3>1, <3>3
  <2>7. /\ Told("msg_delta", Append(D, first)) = Told("msg_delta", D)
        /\ Told("rsn_delta", Append(D, first)) = Told("rsn_delta", D)
    <3>1. Told("msg_delta", D) \in Seq(Parts) /\ Told("rsn_delta", D) \in Seq(Parts)
      BY ToldBoth
    <3>0. first \in Event
      BY <1>2
    <3>2. Told("msg_delta", Append(D, first)) =
            Told("msg_delta", D) \o (IF first.type = "msg_delta" THEN first.parts ELSE <<>>)
      BY <3>0, OneMore
    <3>3. Told("rsn_delta", Append(D, first)) =
            Told("rsn_delta", D) \o (IF first.type = "rsn_delta" THEN first.parts ELSE <<>>)
      BY <3>0, OneMore
    <3>4. QED
      BY <1>2, <3>1, <3>2, <3>3
  <2>8. QED
    BY <1>3, <2>1, <2>2, <2>3, <2>4, <2>5, <2>6, <2>7
<1>6. QED
  BY <1>4, <1>5

(* Text goes out in one event, after the event that begins the message. *)
LEMMA EmitTells ==
  ASSUME NEW a, NEW base \in Seq(Event), Tells(a, base), NEW text \in Seq(Positions)
  PROVE  /\ Tells(Emit(a, text), base)
         /\ Emit(a, text).acc = [a.acc EXCEPT !.text = a.acc.text \o text]
<1>0. a \in Running /\ a.acc \in Accum /\ a.events \in Seq(Event)
  BY DEF Tells, Running
<1>t. a.acc.text \in Seq(Positions) /\ a.acc.text \o text \in Seq(Positions)
  <2>1. a.acc.text \in Seq(Positions)
    BY <1>0, AccumType
  <2>2. QED
    BY <2>1
<1>1. CASE text = <<>>
  <2>1. a.acc.text \o text = a.acc.text
    BY <1>1, <1>t
  <2>2. [a.acc EXCEPT !.text = a.acc.text] = a.acc
    BY <1>0 DEF Accum
  <2>3. Emit(a, text) = a
    BY <1>1 DEF Emit
  <2>4. QED
    BY <2>1, <2>2, <2>3
<1>2. CASE text # <<>>
  <2> DEFINE e == [type |-> "msg_delta", parts |-> text]
             b == IF a.acc.text = <<>> THEN Say(a, "msg_added", <<>>) ELSE a
             more == a.acc.text \o text
             c == [a.acc EXCEPT !.text = more]
             E == base \o b.events
  <2>1. text \in Seq(Parts)
    BY Widened DEF Parts
  <2>2. /\ e \in Event /\ e.type = "msg_delta" /\ e.parts = text
        /\ e = [type |-> "msg_delta", parts |-> text]
    BY <2>1, SaidEvent DEF Opened
  <2>3. c \in Accum /\ c.text = more /\ c.rtext = a.acc.rtext /\ c.rpending = a.acc.rpending
    <3>1. c \in Accum
      BY <1>0, <1>t DEF Accum
    <3>2. c.text = more /\ c.rtext = a.acc.rtext /\ c.rpending = a.acc.rpending
      BY <1>0 DEF Accum
    <3>3. QED
      BY <3>1, <3>2
  <2> HIDE DEF e, c, more
  <2>4. /\ b \in Running /\ b.acc = a.acc /\ AllOf(Opened, b.events) /\ b.events \in Seq(Event)
        /\ E \in Seq(Event)
        /\ Begun("msg_added", "msg_delta", TRUE, E)
        /\ Begun("rsn_added", "rsn_delta", a.acc.rtext # <<>>, E)
        /\ Told("msg_delta", E) = a.acc.text
        /\ Told("rsn_delta", E) \o a.acc.rpending = a.acc.rtext
    BY BegunMsg DEF E
  <2> HIDE DEF b, E
  <2>5. /\ Emit(a, text) \in Running /\ Emit(a, text).acc = c
        /\ Emit(a, text).events = Append(b.events, e)
    <3> DEFINE d == Say(b, "msg_delta", text)
    <3>1. d \in Running /\ d.acc = a.acc /\ d.events = Append(b.events, e)
      BY <2>2, <2>4, SayAdds
    <3>2. Emit(a, text) = [d EXCEPT !.acc = c]
      <4>1. Emit(a, text) = [d EXCEPT !.acc.text = @ \o text]
        BY <1>2 DEF Emit, b
      <4> HIDE DEF d
      <4>2. QED
        BY <3>1, <4>1 DEF c, more
    <3> HIDE DEF d
    <3>3. QED
      BY <2>3, <3>1, <3>2, AccSet
  <2>6. E \in Seq(Event) /\ base \o Append(b.events, e) = Append(E, e)
        /\ Append(b.events, e) \in Seq(Event)
    BY <2>2, <2>4, MoreEvents DEF E
  <2>7. AllOf(Opened, Append(b.events, e))
    BY <2>2, <2>4, AllOfMore DEF Opened
  <2>8. Agrees(c, Append(E, e))
    <3>0. E \in Seq(Event) /\ e \in Event
      BY <2>2, <2>6
    <3>1. c.text # <<>>
      BY <1>2, <1>t, <2>3, NotEmpty, AccumType, <1>0 DEF more
    <3>2. Begun("msg_added", "msg_delta", TRUE, Append(E, e))
      BY <2>2, <2>4, <3>0, BegunStill
    <3>3. Begun("rsn_added", "rsn_delta", c.rtext # <<>>, Append(E, e))
      <4>1. PICK open \in BOOLEAN : open = (c.rtext # <<>>)
        OBVIOUS
      <4>2. Begun("rsn_added", "rsn_delta", open, E)
        BY <2>3, <2>4, <4>1
      <4>3. Begun("rsn_added", "rsn_delta", open, Append(E, e))
        BY <2>2, <3>0, <4>2, BegunStill
      <4>4. QED
        BY <4>1, <4>3
    <3>4. Told("msg_delta", Append(E, e)) =
            Told("msg_delta", E) \o (IF e.type = "msg_delta" THEN e.parts ELSE <<>>)
      BY <3>0, OneMore
    <3>5. Told("rsn_delta", Append(E, e)) = Told("rsn_delta", E)
      <4>1. Told("rsn_delta", Append(E, e)) =
              Told("rsn_delta", E) \o (IF e.type = "rsn_delta" THEN e.parts ELSE <<>>)
        BY <3>0, OneMore
      <4>2. Told("rsn_delta", E) \in Seq(Parts)
        BY <3>0, ToldBoth
      <4>3. QED
        BY <2>2, <4>1, <4>2
    <3>6. Told("msg_delta", Append(E, e)) = c.text
      BY <2>2, <2>3, <2>4, <3>4 DEF more
    <3>7. QED
      BY <2>3, <2>4, <3>1, <3>2, <3>3, <3>5, <3>6 DEF Agrees
  <2>9. QED
    BY <2>5, <2>6, <2>7, <2>8 DEF Tells, c, E, more
<1>3. QED
  BY <1>1, <1>2

-----------------------------------------------------------------------------
(* The sanitizer: what it lets out and what it holds back.                 *)
LetOut(c, i, chunks) ==
  IF c.inside THEN <<>>
  ELSE c.edge \o (IF chunks[i].content = "plain" THEN <<i>> ELSE <<>>)
HeldBack(c, i, chunks) ==
  IF chunks[i].content = "prefix" /\ ~c.inside THEN <<i>> ELSE <<>>

\* What the sanitizer leaves alone.
Untouched(c, d) ==
  /\ d.rtext = c.rtext /\ d.rpending = c.rpending /\ d.deferred = c.deferred
  /\ d.calls = c.calls /\ d.native = c.native
  /\ d.finish = c.finish /\ d.usage = c.usage

\* The chunks of a stream.
Stream(chunks) == chunks \in Seq(Shapes) /\ Len(chunks) <= MaxChunks

(* The positions in a stream. *)
LEMMA StreamPositions ==
  ASSUME NEW chunks, Stream(chunks), NEW i \in DOMAIN chunks
  PROVE  i \in Positions /\ chunks[i] \in Shapes
BY Constants DEF Stream, Positions

\* d is what the sanitizer makes of c by the fragment at position i.
Pushed(c, d, i, chunks) ==
  /\ c \in Accum /\ d \in Accum
  /\ d.text = c.text \o LetOut(c, i, chunks) /\ d.edge = HeldBack(c, i, chunks)
  /\ d.inside = (c.inside \/ chunks[i].content = "unclosed")

(* One fragment goes through the sanitizer. *)
LEMMA PushTells ==
  ASSUME NEW a, NEW base \in Seq(Event), Tells(a, base),
         NEW chunks, Stream(chunks), NEW i \in DOMAIN chunks
  PROVE  /\ Tells(Push(a, i, chunks), base)
         /\ Untouched(a.acc, Push(a, i, chunks).acc)
         /\ Pushed(a.acc, Push(a, i, chunks).acc, i, chunks)
<1> DEFINE text == LetOut(a.acc, i, chunks)
           held == HeldBack(a.acc, i, chunks)
           in == a.acc.inside \/ chunks[i].content = "unclosed"
           b == Emit(a, text)
           more == a.acc.text \o text
           c == [b.acc EXCEPT !.edge = held, !.inside = in]
<1>0. a \in Running /\ a.acc \in Accum /\ i \in Positions
  BY StreamPositions DEF Tells, Running
<1>1. /\ a.acc.edge \in Seq(Positions) /\ a.acc.text \in Seq(Positions)
      /\ a.acc.inside \in BOOLEAN
  BY <1>0, AccumType
<1>2. <<i>> \in Seq(Positions) /\ <<>> \in Seq(Positions)
  BY <1>0
<1>3. text \in Seq(Positions) /\ held \in Seq(Positions) /\ in \in BOOLEAN
  <2>1. \A x \in Seq(Positions) : \A y \in Seq(Positions) : x \o y \in Seq(Positions)
    OBVIOUS
  <2>2. text \in Seq(Positions)
    BY <1>1, <1>2, <2>1 DEF LetOut
  <2>3. QED
    BY <1>2, <2>2 DEF HeldBack
<1>4. Tells(b, base) /\ b.acc = [a.acc EXCEPT !.text = more]
  <2> HIDE DEF text
  <2>1. QED
    BY <1>3, EmitTells
<1>5. Push(a, i, chunks) = [b EXCEPT !.acc.edge = held, !.acc.inside = @ \/ chunks[i].content = "unclosed"]
  BY DEF Push, LetOut, HeldBack
<1>6. b \in Running /\ b.acc \in Accum /\ b.acc.inside = a.acc.inside /\ b.acc.text = more
      /\ Untouched(a.acc, b.acc)
  <2>1. b \in Running /\ b.acc \in Accum
    BY <1>4 DEF Tells, Running
  <2> HIDE DEF b, more
  <2>2. QED
    BY <1>0, <1>4, <2>1 DEF Accum, Untouched
<1> HIDE DEF text, held, b, more
<1>7. c \in Accum /\ c.text = more /\ c.edge = held /\ c.inside = in /\ Untouched(b.acc, c)
  <2> HIDE DEF in
  <2>1. c \in Accum
    BY <1>3, <1>6 DEF Accum
  <2>2. c.text = more /\ c.edge = held /\ c.inside = in
    BY <1>6 DEF Accum
  <2>3. Untouched(b.acc, c)
    BY <1>6 DEF Accum, Untouched
  <2>4. QED
    BY <2>1, <2>2, <2>3
<1>8. Push(a, i, chunks) = [b EXCEPT !.acc = c]
  BY <1>5, <1>6 DEF Running
<1> HIDE DEF c
<1>9. /\ Push(a, i, chunks) \in Running /\ Push(a, i, chunks).acc = c
      /\ Push(a, i, chunks).events = b.events
  BY <1>6, <1>7, <1>8, AccSet
<1>10. Agrees(c, base \o b.events)
  <2>1. Agrees(b.acc, base \o b.events)
    BY <1>4 DEF Tells
  <2>2. QED
    BY <1>6, <1>7, <2>1 DEF Agrees, Untouched
<1>11. Tells(Push(a, i, chunks), base)
  BY <1>4, <1>9, <1>10 DEF Tells
<1>12. Untouched(a.acc, c)
  BY <1>6, <1>7 DEF Untouched
<1>13. Pushed(a.acc, c, i, chunks)
  BY <1>0, <1>7 DEF Pushed, text, held, more
<1>14. QED
  BY <1>9, <1>11, <1>12, <1>13

\* How the fragments at some positions go through it.
PushSteps(f, a, base, parts, n, chunks) ==
  /\ f[0] = a
  /\ \A k \in 0..n : Tells(f[k], base) /\ Untouched(a.acc, f[k].acc)
  /\ \A k \in 1..n : Pushed(f[k - 1].acc, f[k].acc, parts[k], chunks)
  /\ PushAll(a, parts, chunks) = f[n]

(* One after the other. *)
LEMMA PushAllSteps ==
  ASSUME NEW a, NEW base \in Seq(Event), Tells(a, base),
         NEW chunks, Stream(chunks), NEW n \in Nat, NEW parts, Len(parts) = n,
         \A k \in 1..n : parts[k] \in DOMAIN chunks
  PROVE  \E f : PushSteps(f, a, base, parts, n, chunks)
<1> DEFINE S == {b \in Running : Tells(b, base) /\ Untouched(a.acc, b.acc)}
<1>1. a \in S
  BY DEF Tells, Untouched
<1>2. ASSUME NEW b \in S, NEW k \in 1..n PROVE Push(b, parts[k], chunks) \in S
  <2>1. PICK i \in DOMAIN chunks : i = parts[k]
    OBVIOUS
  <2>2. Tells(b, base)
    OBVIOUS
  <2>3. /\ Tells(Push(b, i, chunks), base)
        /\ Untouched(b.acc, Push(b, i, chunks).acc)
    BY <2>2, PushTells
  <2>4. Push(b, i, chunks) \in Running
    BY <2>3 DEF Tells
  <2>5. QED
    BY <2>1, <2>3, <2>4 DEF Untouched
<1> DEFINE F == [k \in 1..n |-> [b \in S |-> Push(b, parts[k], chunks)]]
<1>3. F \in [1..n -> [S -> S]]
  <2> HIDE DEF S
  <2>1. QED
    BY <1>2
<1>4. \A k \in 1..n : \A b \in S : F[k][b] = Push(b, parts[k], chunks)
  OBVIOUS
<1> HIDE DEF S, F
<1>5. PICK f : Recurs(f, n, S, a, F)
  BY <1>1, <1>3, RecursionExists
<1>6. f \in [0..n -> S] /\ f[0] = a /\ \A k \in 1..n : f[k] = F[k][f[k - 1]]
  BY <1>5 DEF Recurs
<1>7. ASSUME NEW k \in 1..n PROVE f[k] = Push(f[k - 1], parts[k], chunks)
  <2>1. k - 1 \in 0..n /\ f[k - 1] \in S
    BY <1>6
  <2>2. QED
    BY <1>4, <1>6, <2>1
<1> DEFINE Body(g) == [k \in 0..n |-> IF k = 0 THEN a ELSE Push(g[k - 1], parts[k], chunks)]
           pushed == CHOOSE g : g = Body(g)
<1>8. f = Body(f)
  <2>1. \A k \in 0..n : f[k] = IF k = 0 THEN a ELSE Push(f[k - 1], parts[k], chunks)
    BY <1>6, <1>7
  <2>2. f = [k \in 0..n |-> f[k]]
    BY <1>6
  <2>3. QED
    BY <2>1, <2>2
<1>9. pushed = Body(pushed)
  <2> HIDE DEF Body
  <2>1. QED
    BY <1>8
<1>10. PushAll(a, parts, chunks) = pushed[n]
  BY DEF PushAll
<1> HIDE DEF pushed
<1>11. \A k \in 0..n : pushed[k] = IF k = 0 THEN a ELSE Push(pushed[k - 1], parts[k], chunks)
  BY <1>9
<1> DEFINE T == {k \in 0..n : pushed[k] = f[k]}
<1>12. 0 \in T
  BY <1>6, <1>11
<1>13. ASSUME NEW k \in 0..n, k \in T, k < n PROVE k + 1 \in T
  <2>1. k + 1 \in 0..n /\ k + 1 \in 1..n /\ (k + 1) - 1 = k /\ k + 1 # 0
    BY <1>13
  <2>2. pushed[k + 1] = Push(pushed[k], parts[k + 1], chunks)
    BY <1>11, <2>1
  <2>3. f[k + 1] = Push(f[k], parts[k + 1], chunks)
    BY <1>7, <2>1
  <2>4. QED
    BY <1>13, <2>1, <2>2, <2>3
<1>14. \A k \in 0..n : k \in T
  <2> HIDE DEF T
  <2>1. QED
    BY <1>12, <1>13, Induction
<1>15. PushAll(a, parts, chunks) = f[n]
  BY <1>10, <1>14
<1>16. \A k \in 0..n : Tells(f[k], base) /\ Untouched(a.acc, f[k].acc)
  <2>1. \A k \in 0..n : f[k] \in S
    BY <1>6
  <2>2. QED
    BY <2>1 DEF S
<1>17. ASSUME NEW k \in 1..n PROVE Pushed(f[k - 1].acc, f[k].acc, parts[k], chunks)
  <2>1. PICK i \in DOMAIN chunks : i = parts[k]
    OBVIOUS
  <2>2. PICK b : b = f[k - 1]
    OBVIOUS
  <2>3. k - 1 \in 0..n
    OBVIOUS
  <2>4. Tells(b, base)
    BY <1>16, <2>2, <2>3
  <2>5. Pushed(b.acc, Push(b, i, chunks).acc, i, chunks)
    BY <2>4, PushTells
  <2>6. QED
    BY <1>7, <2>1, <2>2, <2>5
<1>18. QED
  BY <1>6, <1>15, <1>16, <1>17 DEF PushSteps

-----------------------------------------------------------------------------
(* A sequence without some of its elements. *)
Leaving(X) == [p \in Nat |-> IF p \in X THEN <<>> ELSE <<p>>]
Less(s, X) == FlatMap(Leaving(X), s)

(* What is left of a sequence of two parts is what is left of each. *)
LEMMA LessBoth ==
  ASSUME NEW X, NEW s \in Seq(Nat), NEW t \in Seq(Nat)
  PROVE  /\ Less(s, X) \in Seq(Nat) /\ Less(t, X) \in Seq(Nat)
         /\ Less(s \o t, X) = Less(s, X) \o Less(t, X)
<1> DEFINE g == Leaving(X)
<1>1. Maps(g, Nat, Nat)
  <2>1. \A p \in Nat : (IF p \in X THEN <<>> ELSE <<p>>) \in Seq(Nat)
    <3>1. ASSUME NEW p \in Nat PROVE <<>> \in Seq(Nat) /\ <<p>> \in Seq(Nat)
      OBVIOUS
    <3>2. QED
      BY <3>1
  <2>2. QED
    BY <2>1 DEF Maps, Leaving
<1> HIDE DEF g
<1>2. FlatMap(g, s) \in Seq(Nat) /\ FlatMap(g, t) \in Seq(Nat)
  BY <1>1, FlatMapType
<1>3. FlatMap(g, s \o t) = FlatMap(g, s) \o FlatMap(g, t)
  BY <1>1, FlatMapBoth
<1>4. QED
  BY <1>2, <1>3 DEF Less, g

(* One element, and none. *)
LEMMA LessOne ==
  ASSUME NEW X, NEW p \in Nat
  PROVE  /\ Less(<<p>>, X) = IF p \in X THEN <<>> ELSE <<p>>
         /\ Less(<<>>, X) = <<>>
<1> DEFINE g == Leaving(X)
<1>1. Maps(g, Nat, Nat)
  <2>1. \A q \in Nat : (IF q \in X THEN <<>> ELSE <<q>>) \in Seq(Nat)
    <3>1. ASSUME NEW q \in Nat PROVE <<>> \in Seq(Nat) /\ <<q>> \in Seq(Nat)
      OBVIOUS
    <3>2. QED
      BY <3>1
  <2>2. QED
    BY <2>1 DEF Maps, Leaving
<1>2. g[p] = IF p \in X THEN <<>> ELSE <<p>>
  BY DEF Leaving
<1> HIDE DEF g
<1>3. FlatMap(g, <<p>>) = g[p] /\ FlatMap(g, <<>>) = <<>>
  BY <1>1, FlatMapOne
<1>4. QED
  BY <1>2, <1>3 DEF Less, g

(* A sequence of elements that all go. *)
LEMMA LessGone ==
  ASSUME NEW X, NEW s \in Seq(Nat), ToSet(s) \subseteq X
  PROVE  Less(s, X) = <<>>
<1> DEFINE g == Leaving(X)
<1>1. Maps(g, Nat, Nat)
  <2>1. \A q \in Nat : (IF q \in X THEN <<>> ELSE <<q>>) \in Seq(Nat)
    <3>1. ASSUME NEW q \in Nat PROVE <<>> \in Seq(Nat) /\ <<q>> \in Seq(Nat)
      OBVIOUS
    <3>2. QED
      BY <3>1
  <2>2. QED
    BY <2>1 DEF Maps, Leaving
<1>2. \A k \in 1..Len(s) : g[s[k]] = <<>>
  <2>1. \A k \in 1..Len(s) : s[k] \in Nat /\ s[k] \in ToSet(s)
    BY DEF ToSet
  <2>2. QED
    BY <2>1 DEF Leaving
<1> HIDE DEF g
<1>3. FlatMap(g, s) = <<>>
  BY <1>1, <1>2, FlatMapNothing
<1>4. QED
  BY <1>3 DEF Less, g

(* Nothing goes. *)
LEMMA LessNothing ==
  ASSUME NEW s \in Seq(Nat)
  PROVE  Less(s, {}) = s
<1>1. \A k \in DOMAIN s : s[k] \in Nat
  OBVIOUS
<1>2. Mapped(Leaving({}), s) = [k \in DOMAIN s |-> <<s[k]>>]
  BY <1>1 DEF Mapped, Leaving
<1>3. FlattenSeq([k \in DOMAIN s |-> <<s[k]>>]) = s
  BY FlattenSingles
<1>4. QED
  BY <1>2, <1>3 DEF Less, FlatMap

-----------------------------------------------------------------------------
(* The text of the first m chunks. *)
TextsTo(m, chunks) ==
  FlattenSeq([i \in 1..m |-> IF chunks[i].content # "none" THEN <<i>> ELSE <<>>])

(* It is a sequence of positions, and one more chunk adds its own. *)
LEMMA TextsMore ==
  ASSUME NEW m \in Nat, NEW chunks
  PROVE  /\ TextsTo(m, chunks) \in Seq(Nat)
         /\ TextsTo(m + 1, chunks) = TextsTo(m, chunks) \o
              (IF chunks[m + 1].content # "none" THEN <<m + 1>> ELSE <<>>)
         /\ TextsTo(0, chunks) = <<>>
<1> DEFINE U == Seq(Nat)
           t(i) == IF chunks[i].content # "none" THEN <<i>> ELSE <<>>
           w(n) == [i \in 1..n |-> t(i)]
<1>1. \A i \in Nat : t(i) \in U
  <2>1. \A i \in Nat : <<i>> \in U
    OBVIOUS
  <2>2. <<>> \in U
    OBVIOUS
  <2>3. QED
    BY <2>1, <2>2
<1> HIDE DEF U, t
<1>2. ASSUME NEW n \in Nat PROVE w(n) \in Seq(U) /\ Len(w(n)) = n
  <2>1. w(n) = [k \in 1..n |-> w(n)[k]] /\ \A k \in 1..n : w(n)[k] \in U
    BY <1>1
  <2> HIDE DEF w
  <2>2. QED
    BY <2>1, SequenceOf
<1>3. PICK x \in Seq(U), y \in Seq(U), z \in Seq(U), s \in U :
        /\ x = w(m) /\ Len(x) = m /\ z = w(m + 1) /\ Len(z) = m + 1
        /\ s = t(m + 1) /\ y = <<s>>
  <2>1. w(m) \in Seq(U) /\ Len(w(m)) = m
    BY <1>2
  <2>2. w(m + 1) \in Seq(U) /\ Len(w(m + 1)) = m + 1
    BY <1>2
  <2>3. t(m + 1) \in U /\ <<t(m + 1)>> \in Seq(U)
    BY <1>1
  <2> HIDE DEF w
  <2>4. QED
    BY <2>1, <2>2, <2>3
<1>4. z = x \o y
  <2>1. /\ x \o y \in Seq(U) /\ Len(x \o y) = m + 1
        /\ \A k \in 1..m : (x \o y)[k] = x[k]
        /\ (x \o y)[m + 1] = s
    BY <1>3
  <2>2. PICK v \in Seq(U) : v = x \o y
    BY <2>1
  <2>3. \A k \in 1..m : z[k] = t(k) /\ x[k] = t(k)
    BY <1>3
  <2>4. z[m + 1] = s
    BY <1>3
  <2>5. \A k \in 1..Len(z) : z[k] = v[k]
    BY <1>3, <2>1, <2>2, <2>3, <2>4
  <2>6. QED
    BY <1>3, <2>1, <2>2, <2>5, SameSequence
<1>5. FlattenSeq(x \o y) = FlattenSeq(x) \o FlattenSeq(y) /\ FlattenSeq(x) \in U
  <2>1. x \in Seq(Seq(Nat)) /\ y \in Seq(Seq(Nat))
    BY DEF U
  <2>2. QED
    BY <2>1, FlattenConcat DEF U
<1>6. FlattenSeq(y) = s
  <2>1. s \in Seq(Nat)
    BY DEF U
  <2>2. FlattenSeq(<<s>>) = s
    BY <2>1, FlattenOne
  <2>3. QED
    BY <1>3, <2>2
<1>7. /\ TextsTo(m, chunks) = FlattenSeq(x) /\ TextsTo(m + 1, chunks) = FlattenSeq(z)
  BY <1>3 DEF TextsTo, w, t
<1>8. TextsTo(0, chunks) = <<>>
  <2>1. w(0) = <<>>
    OBVIOUS
  <2>2. FlattenSeq(<<>>) = <<>>
    BY DEF FlattenSeq
  <2>3. TextsTo(0, chunks) = FlattenSeq(w(0))
    BY DEF TextsTo, w, t
  <2>4. QED
    BY <2>1, <2>2, <2>3
<1>9. QED
  BY <1>3, <1>4, <1>5, <1>6, <1>7, <1>8 DEF U, t

-----------------------------------------------------------------------------
(* What becomes of the text.                                               *)
OfKind(kinds, m, chunks) == {p \in 1..m : chunks[p].content \in kinds}

\* What the sanitizer may have left out of the first m chunks is in X.
Covers(X, m, chunks) ==
  \A i \in 1..m :
    \/ chunks[i].content = "none"
    \/ chunks[i].content = "plain" /\ OfKind({"unclosed"}, i - 1, chunks) = {}
    \/ i \in X

\* All of it was let out, is held back or waits, except for what X excuses.
TextKept(c, m, chunks) ==
  \A X : (suppress /\ c.native => Covers(X, m, chunks)) =>
           Less(c.text \o (c.edge \o c.deferred), X) = Less(TextsTo(m, chunks), X)

\* Why the sanitizer is inside markup and what it holds back.
Sane(c, m, chunks) ==
  /\ c.inside => c.edge = <<>> /\ OfKind({"unclosed"}, m, chunks) # {}
  /\ ToSet(c.edge) \subseteq OfKind({"prefix"}, m, chunks)

\* The text that is deferred, in order.
InTurn(parts, m, chunks) ==
  /\ ToSet(parts) \subseteq OfKind({"plain", "element", "unclosed", "prefix"}, m, chunks)
  /\ \A k, l \in DOMAIN parts : k < l => parts[k] < parts[l]

Waits(c, m, chunks) == InTurn(c.deferred, m, chunks)

\* The text of a stream that goes on.
TextShape(c, m, chunks) ==
  /\ Sane(c, m, chunks) /\ Waits(c, m, chunks)
  /\ ~(suppress /\ c.native) => c.edge = <<>> /\ ~c.inside
  /\ c.deferred # <<>> => suppress /\ ~c.native
  /\ suppress => ToSet(c.text) \subseteq OfKind({"plain", "prefix"}, m, chunks)

Associates(s, t, u) == s \o (t \o u) = (s \o t) \o u

(* Concatenation associates. *)
LEMMA Chained ==
  ASSUME NEW S, NEW s \in Seq(S), NEW t \in Seq(S), NEW u \in Seq(S)
  PROVE  Associates(s, t, u)
BY DEF Associates

(* The elements of two sequences, of one and of none. *)
LEMMA ElementsBoth ==
  ASSUME NEW S, NEW s \in Seq(S), NEW t \in Seq(S)
  PROVE  ToSet(s \o t) \subseteq ToSet(s) \cup ToSet(t)
<1>1. SUFFICES ASSUME NEW k \in DOMAIN (s \o t)
               PROVE  (s \o t)[k] \in ToSet(s) \cup ToSet(t)
  BY DEF ToSet
<1>2. k \in 1..(Len(s) + Len(t)) /\ Len(s) \in Nat /\ Len(t) \in Nat
  OBVIOUS
<1>3. CASE k <= Len(s)
  <2>1. k \in DOMAIN s /\ (s \o t)[k] = s[k]
    BY <1>2, <1>3
  <2>2. QED
    BY <2>1 DEF ToSet
<1>4. CASE ~(k <= Len(s))
  <2>1. k - Len(s) \in DOMAIN t /\ (s \o t)[k] = t[k - Len(s)]
    BY <1>2, <1>4
  <2>2. QED
    BY <2>1 DEF ToSet
<1>5. QED
  BY <1>3, <1>4

(* The elements of short sequences. *)
LEMMA ElementsOne ==
  ASSUME NEW x
  PROVE  ToSet(<<x>>) = {x} /\ ToSet(<<>>) = {}
BY DEF ToSet

(* What the sanitizer makes of one more fragment is as sane as before. *)
LEMMA PushSane ==
  ASSUME NEW c \in Accum, NEW d \in Accum, NEW chunks, NEW m \in Nat, NEW M \in Nat,
         NEW i \in Nat, m < i, i <= M,
         d.text = c.text \o LetOut(c, i, chunks), d.edge = HeldBack(c, i, chunks),
         d.inside = (c.inside \/ chunks[i].content = "unclosed"),
         Sane(c, m, chunks),
         ToSet(c.text) \subseteq OfKind({"plain", "prefix"}, M, chunks)
  PROVE  /\ Sane(d, i, chunks)
         /\ ToSet(d.text) \subseteq OfKind({"plain", "prefix"}, M, chunks)
<1>1. /\ c.text \in Seq(Positions) /\ c.edge \in Seq(Positions) /\ d.edge \in Seq(Positions)
      /\ c.inside \in BOOLEAN
  BY AccumType
<1>2. ToSet(c.edge) \subseteq OfKind({"plain", "prefix"}, M, chunks)
  BY DEF Sane, OfKind
<1>3. Sane(d, i, chunks)
  <2>1. d.inside => d.edge = <<>> /\ OfKind({"unclosed"}, i, chunks) # {}
    <3>1. CASE c.inside
      <4>1. PICK j \in 1..m : chunks[j].content = "unclosed"
        BY <3>1 DEF Sane, OfKind
      <4>2. j \in OfKind({"unclosed"}, i, chunks)
        BY <4>1 DEF OfKind
      <4>3. QED
        BY <3>1, <4>2 DEF HeldBack
    <3>2. CASE chunks[i].content = "unclosed"
      <4>1. i \in OfKind({"unclosed"}, i, chunks)
        BY <3>2 DEF OfKind
      <4>2. QED
        BY <3>2, <4>1 DEF HeldBack
    <3>3. QED
      BY <3>1, <3>2
  <2>2. ToSet(d.edge) \subseteq OfKind({"prefix"}, i, chunks)
    <3>1. CASE chunks[i].content = "prefix" /\ ~c.inside
      <4>1. i \in OfKind({"prefix"}, i, chunks) /\ d.edge = <<i>>
        BY <3>1 DEF OfKind, HeldBack
      <4>2. QED
        BY <4>1, ElementsOne
    <3>2. CASE ~(chunks[i].content = "prefix" /\ ~c.inside)
      BY <3>2, ElementsOne DEF HeldBack
    <3>3. QED
      BY <3>1, <3>2
  <2>3. QED
    BY <2>1, <2>2 DEF Sane
<1>4. LetOut(c, i, chunks) \in Seq(Nat)
      /\ ToSet(LetOut(c, i, chunks)) \subseteq OfKind({"plain", "prefix"}, M, chunks)
  <2>0. c.edge \in Seq(Nat) /\ <<i>> \in Seq(Nat) /\ <<>> \in Seq(Nat)
    <3>1. c.edge \in Seq(Nat)
      BY <1>1, Constants, Widened
    <3>2. QED
      BY <3>1
  <2>1. CASE c.inside
    <3>1. LetOut(c, i, chunks) = <<>>
      BY <2>1 DEF LetOut
    <3>2. QED
      BY <2>0, <3>1, ElementsOne
  <2>2. CASE ~c.inside /\ chunks[i].content = "plain"
    <3>1. LetOut(c, i, chunks) = c.edge \o <<i>>
      BY <2>2 DEF LetOut
    <3>2. i \in OfKind({"plain", "prefix"}, M, chunks)
      BY <2>2 DEF OfKind
    <3>3. ToSet(c.edge \o <<i>>) \subseteq ToSet(c.edge) \cup {i}
      <4>1. PICK s \in Seq(Nat), t \in Seq(Nat) : s = c.edge /\ t = <<i>>
        BY <2>0
      <4>2. ToSet(s \o t) \subseteq ToSet(s) \cup ToSet(t)
        BY ElementsBoth
      <4>3. ToSet(t) = {i}
        BY <4>1, ElementsOne
      <4>4. QED
        BY <4>1, <4>2, <4>3
    <3>4. c.edge \o <<i>> \in Seq(Nat)
      BY <2>0
    <3>5. QED
      BY <1>2, <3>1, <3>2, <3>3, <3>4
  <2>3. CASE ~c.inside /\ chunks[i].content # "plain"
    <3>1. LetOut(c, i, chunks) = c.edge \o <<>>
      BY <2>3 DEF LetOut
    <3>2. c.edge \o <<>> = c.edge
      BY <1>1
    <3>3. QED
      BY <1>2, <2>0, <3>1, <3>2
  <2>4. QED
    BY <2>1, <2>2, <2>3
<1>5. ToSet(d.text) \subseteq OfKind({"plain", "prefix"}, M, chunks)
  <2>1. c.text \in Seq(Nat)
    BY <1>1, Constants, Widened
  <2>2. PICK t \in Seq(Nat) : t = LetOut(c, i, chunks)
    BY <1>4
  <2>3. ToSet(c.text \o t) \subseteq ToSet(c.text) \cup ToSet(t)
    BY <2>1, ElementsBoth
  <2>4. QED
    BY <1>4, <2>2, <2>3
<1>6. QED
  BY <1>3, <1>5

\* X excuses the fragment at position i if the sanitizer leaves it out.
Allowed(c, i, chunks, X) ==
  /\ chunks[i].content \in {"plain", "element", "unclosed", "prefix"}
  /\ c.inside => c.edge = <<>> /\ i \in X
  /\ chunks[i].content \in {"element", "unclosed"} => i \in X

(* Except for what may be left out, a fragment stays in its place. *)
LEMMA PushLess ==
  ASSUME NEW c, NEW d, NEW chunks, NEW X, NEW i \in Nat,
         Pushed(c, d, i, chunks), Allowed(c, i, chunks, X)
  PROVE  Less(d.text \o d.edge, X) = Less((c.text \o c.edge) \o <<i>>, X)
<1>0. /\ c \in Accum /\ d \in Accum
      /\ chunks[i].content \in {"plain", "element", "unclosed", "prefix"}
      /\ d.text = c.text \o LetOut(c, i, chunks) /\ d.edge = HeldBack(c, i, chunks)
      /\ (c.inside => c.edge = <<>> /\ i \in X)
      /\ (chunks[i].content \in {"element", "unclosed"} => i \in X)
  BY DEF Pushed, Allowed
<1>1. PICK x \in Seq(Nat), y \in Seq(Nat) : x = c.text /\ y = c.edge
  BY <1>0, AccumType, Constants, Widened
<1>2. <<i>> \in Seq(Nat) /\ <<>> \in Seq(Nat)
  OBVIOUS
<1>3. x \o y \in Seq(Nat)
  OBVIOUS
<1>4. Less((x \o y) \o <<i>>, X) = Less(x \o y, X) \o Less(<<i>>, X) /\ Less(x \o y, X) \in Seq(Nat)
  BY <1>2, <1>3, LessBoth
<1>5. i \in X => Less((x \o y) \o <<i>>, X) = Less(x \o y, X)
  <2>1. i \in X => Less(<<i>>, X) = <<>>
    BY LessOne
  <2>2. PICK z \in Seq(Nat) : z = Less(x \o y, X)
    BY <1>4
  <2>3. z \o <<>> = z
    OBVIOUS
  <2>4. QED
    BY <1>4, <2>1, <2>2, <2>3
<1>6. CASE c.inside
  <2>1. d.text = x \o <<>> /\ d.edge = <<>> /\ y = <<>> /\ i \in X
    BY <1>0, <1>1, <1>6 DEF LetOut, HeldBack
  <2>2. d.text \o d.edge = x \o y
    BY <2>1
  <2>3. QED
    BY <1>1, <1>5, <2>1, <2>2
<1>7. CASE ~c.inside /\ chunks[i].content = "plain"
  <2>1. d.text = x \o (y \o <<i>>) /\ d.edge = <<>>
    BY <1>0, <1>1, <1>7 DEF LetOut, HeldBack
  <2>2. d.text \o d.edge = (x \o y) \o <<i>>
    BY <2>1
  <2>3. QED
    BY <1>1, <2>2
<1>8. CASE ~c.inside /\ chunks[i].content = "prefix"
  <2>1. d.text = x \o (y \o <<>>) /\ d.edge = <<i>>
    BY <1>0, <1>1, <1>8 DEF LetOut, HeldBack
  <2>2. d.text \o d.edge = (x \o y) \o <<i>>
    BY <2>1
  <2>3. QED
    BY <1>1, <2>2
<1>9. CASE ~c.inside /\ chunks[i].content \in {"element", "unclosed"}
  <2>1. d.text = x \o (y \o <<>>) /\ d.edge = <<>> /\ i \in X
    BY <1>0, <1>1, <1>9 DEF LetOut, HeldBack
  <2>2. d.text \o d.edge = x \o y
    BY <2>1
  <2>3. QED
    BY <1>1, <1>5, <2>1, <2>2
<1>10. QED
  BY <1>0, <1>6, <1>7, <1>8, <1>9

(* A sequence grows element by element. *)
LEMMA GrowsByOne ==
  ASSUME NEW S, NEW d \in Seq(S), NEW k \in 0..Len(d), k < Len(d)
  PROVE  /\ SubSeq(d, 1, k + 1) = SubSeq(d, 1, k) \o <<d[k + 1]>>
         /\ SubSeq(d, 1, k) \in Seq(S) /\ d[k + 1] \in S
<1>1. k \in Nat /\ k + 1 \in 1..Len(d) /\ Len(d) \in Nat
  OBVIOUS
<1>2. d[k + 1] \in S
  BY <1>1
<1>3. PICK x \in Seq(S) : x = SubSeq(d, 1, k) /\ Len(x) = k /\ \A j \in 1..k : x[j] = d[j]
  <2>1. SubSeq(d, 1, k) \in Seq(S) /\ Len(SubSeq(d, 1, k)) = k
        /\ \A j \in 1..k : SubSeq(d, 1, k)[j] = d[j]
    BY <1>1
  <2>2. QED
    BY <2>1
<1>4. PICK y \in Seq(S) : /\ y = SubSeq(d, 1, k + 1) /\ Len(y) = k + 1
                          /\ \A j \in 1..k + 1 : y[j] = d[j]
  <2>1. SubSeq(d, 1, k + 1) \in Seq(S) /\ Len(SubSeq(d, 1, k + 1)) = k + 1
        /\ \A j \in 1..k + 1 : SubSeq(d, 1, k + 1)[j] = d[j]
    BY <1>1
  <2>2. QED
    BY <2>1
<1>5. PICK z \in Seq(S) : /\ z = x \o <<d[k + 1]>> /\ Len(z) = k + 1
                          /\ \A j \in 1..k : z[j] = x[j]
                          /\ z[k + 1] = d[k + 1]
  <2>1. <<d[k + 1]>> \in Seq(S)
    BY <1>2
  <2>2. PICK o \in Seq(S) : o = <<d[k + 1]>>
    BY <2>1
  <2>3. /\ x \o o \in Seq(S) /\ Len(x \o o) = k + 1 /\ \A j \in 1..k : (x \o o)[j] = x[j]
        /\ (x \o o)[k + 1] = d[k + 1]
    BY <1>1, <1>3, <2>2
  <2>4. QED
    BY <2>2, <2>3
<1>6. y = z
  <2>1. \A j \in 1..Len(y) : y[j] = z[j]
    BY <1>1, <1>3, <1>4, <1>5
  <2>2. QED
    BY <1>4, <1>5, <2>1, SameSequence
<1>7. QED
  BY <1>2, <1>3, <1>4, <1>5, <1>6

(* One more element of what is kept. *)
LEMMA LessMore ==
  ASSUME NEW X, NEW x \in Seq(Nat), NEW z \in Seq(Nat), NEW w \in Seq(Nat), NEW o \in Seq(Nat)
  PROVE  Less(x, X) = Less(z \o w, X) => Less(x \o o, X) = Less(z \o (w \o o), X)
<1>1. z \o (w \o o) = (z \o w) \o o /\ z \o w \in Seq(Nat)
  OBVIOUS
<1>2. PICK v \in Seq(Nat) : v = z \o w
  BY <1>1
<1>3. Less(x \o o, X) = Less(x, X) \o Less(o, X) /\ Less(v \o o, X) = Less(v, X) \o Less(o, X)
  BY LessBoth
<1>4. QED
  BY <1>1, <1>2, <1>3

PushedAll(g, parts, n, chunks) == \A k \in 1..n : Pushed(g[k - 1], g[k], parts[k], chunks)

\* Two texts that differ in what may be left out.
SameBut(x, y, m, chunks) == \A X : Covers(X, m, chunks) => Less(x, X) = Less(y, X)

(* Deferred text that goes through the sanitizer keeps its place too. *)
LEMMA ReleaseLess ==
  ASSUME NEW g, NEW parts \in Seq(Nat), NEW n \in Nat, n = Len(parts), NEW M \in Nat, NEW chunks,
         g[0] \in Accum, g[0].edge = <<>>, ~g[0].inside,
         ToSet(g[0].text) \subseteq OfKind({"plain", "prefix"}, M, chunks),
         InTurn(parts, M, chunks), PushedAll(g, parts, n, chunks)
  PROVE  /\ Sane(g[n], M, chunks)
         /\ ToSet(g[n].text) \subseteq OfKind({"plain", "prefix"}, M, chunks)
         /\ SameBut(g[n].text \o g[n].edge, g[0].text \o parts, M, chunks)
<1> USE DEF InTurn, PushedAll
<1> DEFINE Bound(k) == IF k = 0 THEN 0 ELSE parts[k]
           Same(k) == \A X : Covers(X, M, chunks) =>
                        Less(g[k].text \o g[k].edge, X) = Less(g[0].text \o SubSeq(parts, 1, k), X)
           T == {k \in 0..n : /\ Sane(g[k], Bound(k), chunks)
                              /\ ToSet(g[k].text) \subseteq OfKind({"plain", "prefix"}, M, chunks)
                              /\ Same(k)}
<1>1. \A k \in 0..n : g[k] \in Accum
  <2>1. ASSUME NEW k \in 0..n, k # 0 PROVE g[k] \in Accum
    <3>1. k \in 1..n
      BY <2>1
    <3>2. QED
      BY <3>1 DEF Pushed
  <2>2. QED
    BY <2>1
<1>2. \A k \in 1..n : /\ parts[k] \in 1..M /\ parts[k] \in Nat
                      /\ chunks[parts[k]].content \in {"plain", "element", "unclosed", "prefix"}
  <2>1. ASSUME NEW k \in 1..n PROVE parts[k] \in ToSet(parts)
    BY DEF ToSet
  <2>2. QED
    BY <2>1 DEF OfKind
<1>3. \A k \in 0..n : Bound(k) \in Nat /\ Bound(k) <= M
  <2>1. ASSUME NEW k \in 0..n, k # 0 PROVE k \in 1..n
    BY <2>1
  <2>2. QED
    BY <1>2, <2>1
<1>4. 0 \in T
  <2>1. Sane(g[0], Bound(0), chunks)
    <3>1. ToSet(<<>>) = {}
      BY ElementsOne
    <3>2. QED
      BY <3>1 DEF Sane
  <2>2. Same(0)
    <3>1. SubSeq(parts, 1, 0) = <<>>
      OBVIOUS
    <3>2. QED
      BY <3>1
  <2>3. 0 \in 0..n
    OBVIOUS
  <2> HIDE DEF Bound, Same
  <2>4. QED
    BY <2>1, <2>2, <2>3
<1>5. ASSUME NEW k \in 0..n, k \in T, k < n PROVE k + 1 \in T
  <2> DEFINE i == parts[k + 1]
  <2>1. k + 1 \in 1..n /\ k + 1 \in 0..n /\ k + 1 # 0 /\ (k + 1) - 1 = k /\ k \in Nat
    <3>1. k \in 0..n /\ k < n
      BY <1>5
    <3> HIDE DEF T, Same, Bound, i
    <3>2. QED
      BY <3>1
  <2>2. /\ i \in Nat /\ i \in 1..M /\ Bound(k + 1) = i
        /\ chunks[i].content \in {"plain", "element", "unclosed", "prefix"}
    BY <1>2, <2>1
  <2>3. Bound(k) < i /\ Bound(k) \in Nat
    <3>1. CASE k = 0
      BY <2>2, <3>1
    <3>2. CASE k # 0
      <4>1. k \in DOMAIN parts /\ k + 1 \in DOMAIN parts /\ k < k + 1
        BY <1>5, <2>1, <3>2
      <4>2. QED
        BY <1>3, <3>2, <4>1
    <3>3. QED
      BY <3>1, <3>2
  <2>4. Pushed(g[k], g[k + 1], i, chunks)
    BY <2>1
  <2>5. /\ Sane(g[k], Bound(k), chunks)
        /\ ToSet(g[k].text) \subseteq OfKind({"plain", "prefix"}, M, chunks)
    BY <1>5
  <2> DEFINE c == g[k]
             d == g[k + 1]
             m == Bound(k)
  <2>6. /\ c \in Accum /\ d \in Accum /\ m \in Nat /\ m < i /\ i <= M /\ i \in Nat
        /\ d.text = c.text \o LetOut(c, i, chunks) /\ d.edge = HeldBack(c, i, chunks)
        /\ d.inside = (c.inside \/ chunks[i].content = "unclosed")
        /\ Sane(c, m, chunks) /\ ToSet(c.text) \subseteq OfKind({"plain", "prefix"}, M, chunks)
    BY <2>2, <2>3, <2>4, <2>5 DEF Pushed
  <2>7. Sane(d, i, chunks) /\ ToSet(d.text) \subseteq OfKind({"plain", "prefix"}, M, chunks)
    <3> HIDE DEF c, d, m, i
    <3>1. QED
      BY <2>6, PushSane
  <2>8. ASSUME NEW X, Covers(X, M, chunks)
        PROVE  Less(d.text \o d.edge, X) = Less(g[0].text \o SubSeq(parts, 1, k + 1), X)
    <3>1. c.inside => c.edge = <<>> /\ i \in X
      <4>1. SUFFICES ASSUME c.inside PROVE c.edge = <<>> /\ i \in X
        OBVIOUS
      <4>2. PICK j \in 1..m : chunks[j].content = "unclosed" /\ c.edge = <<>>
        BY <2>6, <4>1 DEF Sane, OfKind
      <4>3. j \in OfKind({"unclosed"}, i - 1, chunks)
        BY <2>6, <4>2 DEF OfKind
      <4>4. QED
        BY <2>2, <2>8, <4>2, <4>3 DEF Covers
    <3>2. chunks[i].content \in {"element", "unclosed"} => i \in X
      BY <2>2, <2>8 DEF Covers
    <3>3. Less(d.text \o d.edge, X) = Less((c.text \o c.edge) \o <<i>>, X)
      <4>1. Pushed(c, d, i, chunks) /\ Allowed(c, i, chunks, X) /\ i \in Nat
        BY <2>2, <2>4, <3>1, <3>2 DEF Allowed
      <4> HIDE DEF c, d, m, i
      <4>2. QED
        BY <4>1, PushLess
    <3>4. Less(c.text \o c.edge, X) = Less(g[0].text \o SubSeq(parts, 1, k), X)
      BY <1>5, <2>8
    <3>5. SubSeq(parts, 1, k + 1) = SubSeq(parts, 1, k) \o <<i>> /\ SubSeq(parts, 1, k) \in Seq(Nat)
      BY <1>5, GrowsByOne
    <3>6. /\ c.text \in Seq(Nat) /\ c.edge \in Seq(Nat) /\ g[0].text \in Seq(Nat)
          /\ <<i>> \in Seq(Nat)
      <4>1. c.text \in Seq(Positions) /\ c.edge \in Seq(Positions) /\ g[0].text \in Seq(Positions)
        BY <2>6, AccumType
      <4>2. c.text \in Seq(Nat)
        BY <4>1, Constants, Widened
      <4>3. c.edge \in Seq(Nat)
        BY <4>1, Constants, Widened
      <4>4. g[0].text \in Seq(Nat)
        BY <4>1, Constants, Widened
      <4>5. <<i>> \in Seq(Nat)
        BY <2>2
      <4>6. QED
        BY <4>2, <4>3, <4>4, <4>5
    <3>7. PICK x \in Seq(Nat), y \in Seq(Nat), z \in Seq(Nat), w \in Seq(Nat), o \in Seq(Nat) :
            /\ x = c.text /\ y = c.edge /\ z = g[0].text /\ w = SubSeq(parts, 1, k) /\ o = <<i>>
      BY <3>5, <3>6
    <3>8. Less(x \o y, X) = Less(z \o w, X)
      BY <3>4, <3>7
    <3>9. Less((x \o y) \o o, X) = Less(z \o (w \o o), X)
      <4>1. x \o y \in Seq(Nat)
        OBVIOUS
      <4>2. PICK v \in Seq(Nat) : v = x \o y
        BY <4>1
      <4>3. Less(v, X) = Less(z \o w, X)
        BY <3>8, <4>2
      <4>4. Less(v \o o, X) = Less(z \o (w \o o), X)
        <5> HIDE DEF c, d, m, i, T, Same, Bound
        <5>1. Less(v, X) = Less(z \o w, X) => Less(v \o o, X) = Less(z \o (w \o o), X)
          BY LessMore
        <5>2. QED
          BY <4>3, <5>1
      <4>5. QED
        BY <4>2, <4>4
    <3>10. QED
      BY <3>3, <3>5, <3>7, <3>9
  <2>9. QED
    BY <2>1, <2>2, <2>7, <2>8
<1>6. \A k \in 0..n : k \in T
  <2> HIDE DEF T
  <2>1. QED
    BY <1>4, <1>5, Induction
<1>7. n \in T
  BY <1>6
<1>8. SubSeq(parts, 1, n) = parts
  <2>1. SubSeq(parts, 1, n) \in Seq(Nat) /\ Len(SubSeq(parts, 1, n)) = n
        /\ \A k \in 1..n : SubSeq(parts, 1, n)[k] = parts[k]
    OBVIOUS
  <2>2. QED
    BY <2>1, SameSequence
<1>9. Sane(g[n], M, chunks)
  <2>1. Sane(g[n], Bound(n), chunks) /\ Bound(n) <= M /\ Bound(n) \in Nat
    BY <1>3, <1>7
  <2>2. QED
    BY <2>1 DEF Sane, OfKind
<1>10. QED
  BY <1>7, <1>8, <1>9 DEF SameBut

-----------------------------------------------------------------------------
(* The chunks.                                                             *)
SameText(c, d) ==
  /\ d.text = c.text /\ d.edge = c.edge /\ d.deferred = c.deferred
  /\ d.inside = c.inside /\ d.native = c.native

SameCalls(c, d) == d.calls = c.calls /\ d.finish = c.finish /\ d.usage = c.usage
SameRest(c, d) == SameCalls(c, d) /\ d.rtext = c.rtext

\* At most the position i is new.
Grows(s, t, i) == t = s \/ t = Append(s, i)

(* What does not touch the text keeps what is known of it. *)
LEMMA SameTextKept ==
  ASSUME NEW c, NEW d, SameText(c, d), NEW m, NEW chunks
  PROVE  /\ TextKept(c, m, chunks) => TextKept(d, m, chunks)
         /\ TextShape(c, m, chunks) => TextShape(d, m, chunks)
<1>1. TextKept(c, m, chunks) => TextKept(d, m, chunks)
  BY DEF SameText, TextKept
<1>2. TextShape(c, m, chunks) => TextShape(d, m, chunks)
  BY DEF SameText, TextShape, Sane, Waits, InTurn
<1>3. QED
  BY <1>1, <1>2

(* Flushing the reasoning leaves the rest as it is. *)
LEMMA FlushSame ==
  ASSUME NEW a, NEW base \in Seq(Event), Tells(a, base)
  PROVE  /\ SameText(a.acc, FlushReasoning(a).acc) /\ SameRest(a.acc, FlushReasoning(a).acc)
         /\ FlushReasoning(a).acc.rtext = a.acc.rtext
         /\ FlushReasoning(a).acc.rpending = <<>>
<1>1. FlushReasoning(a).acc = [a.acc EXCEPT !.rpending = <<>>]
  BY FlushTells
<1>2. a.acc \in Accum
  BY DEF Tells, Running
<1>3. QED
  BY <1>1, <1>2 DEF Accum, SameText, SameRest, SameCalls

(* The reasoning item is begun. *)
LEMMA BegunRsn ==
  ASSUME NEW a, NEW base \in Seq(Event), Tells(a, base), NEW b,
         b = IF a.acc.rtext = <<>> THEN Say(a, "rsn_added", <<>>) ELSE a
  PROVE  /\ b \in Running /\ b.acc = a.acc /\ AllOf(Opened, b.events)
         /\ base \o b.events \in Seq(Event)
         /\ Begun("rsn_added", "rsn_delta", TRUE, base \o b.events)
         /\ Begun("msg_added", "msg_delta", a.acc.text # <<>>, base \o b.events)
         /\ Told("msg_delta", base \o b.events) = a.acc.text
         /\ Told("rsn_delta", base \o b.events) \o a.acc.rpending = a.acc.rtext
<1>0. /\ AllOf(Opened, a.events) /\ base \o a.events \in Seq(Event)
      /\ Begun("msg_added", "msg_delta", a.acc.text # <<>>, base \o a.events)
      /\ Begun("rsn_added", "rsn_delta", a.acc.rtext # <<>>, base \o a.events)
      /\ Told("msg_delta", base \o a.events) = a.acc.text
      /\ Told("rsn_delta", base \o a.events) \o a.acc.rpending = a.acc.rtext
      /\ a \in Running /\ a.acc \in Accum /\ a.events \in Seq(Event)
  <2>1. a \in Running /\ a.acc \in Accum /\ a.events \in Seq(Event)
    BY DEF Tells, Running
  <2>2. base \o a.events \in Seq(Event)
    BY <2>1
  <2>3. AllOf(Opened, a.events) /\ Agrees(a.acc, base \o a.events)
    BY DEF Tells
  <2>4. QED
    BY <2>1, <2>2, <2>3 DEF Agrees
<1>1. CASE a.acc.rtext # <<>>
  BY <1>0, <1>1
<1>2. CASE a.acc.rtext = <<>>
  <2> DEFINE first == [type |-> "rsn_added", parts |-> <<>>]
  <2>1. <<>> \in Seq(Parts)
    OBVIOUS
  <2>2. /\ first \in Event /\ first.type = "rsn_added" /\ first.parts = <<>>
        /\ first = [type |-> "rsn_added", parts |-> <<>>]
    BY <2>1, SaidEvent DEF Opened
  <2> HIDE DEF first
  <2>3. b \in Running /\ b.acc = a.acc /\ b.events = Append(a.events, first)
    BY <1>0, <1>2, <2>2, SayAdds
  <2>4. PICK D \in Seq(Event) : D = base \o a.events
    BY <1>0
  <2>5. base \o b.events = Append(D, first) /\ base \o b.events \in Seq(Event)
        /\ b.events \in Seq(Event)
    <3>1. /\ base \o Append(a.events, first) = Append(base \o a.events, first)
          /\ Append(a.events, first) \in Seq(Event)
      BY <1>0, <2>2, MoreEvents
    <3>2. Append(D, first) \in Seq(Event)
      BY <2>2, <2>4
    <3>3. QED
      BY <2>3, <2>4, <3>1, <3>2
  <2>6. AllOf(Opened, b.events)
    BY <1>0, <2>2, <2>3, AllOfMore DEF Opened
  <2>7. Begun("rsn_added", "rsn_delta", TRUE, Append(D, first))
    <3>1. Begun("rsn_added", "rsn_delta", FALSE, D)
      BY <1>0, <1>2, <2>4
    <3>2. QED
      BY <2>2, <3>1, BegunStarts
  <2>8. Begun("msg_added", "msg_delta", a.acc.text # <<>>, Append(D, first))
    <3>1. PICK open \in BOOLEAN : open = (a.acc.text # <<>>)
      OBVIOUS
    <3>2. Begun("msg_added", "msg_delta", open, D)
      BY <1>0, <2>4, <3>1
    <3>3. Begun("msg_added", "msg_delta", open, Append(D, first))
      BY <2>2, <3>2, BegunStill
    <3>4. QED
      BY <3>1, <3>3
  <2>9. /\ Told("msg_delta", Append(D, first)) = Told("msg_delta", D)
        /\ Told("rsn_delta", Append(D, first)) = Told("rsn_delta", D)
    <3>1. Told("msg_delta", D) \in Seq(Parts) /\ Told("rsn_delta", D) \in Seq(Parts)
      BY ToldBoth
    <3>0. first \in Event
      BY <2>2
    <3>2. Told("msg_delta", Append(D, first)) =
            Told("msg_delta", D) \o (IF first.type = "msg_delta" THEN first.parts ELSE <<>>)
      BY <3>0, OneMore
    <3>3. Told("rsn_delta", Append(D, first)) =
            Told("rsn_delta", D) \o (IF first.type = "rsn_delta" THEN first.parts ELSE <<>>)
      BY <3>0, OneMore
    <3>4. QED
      BY <2>2, <3>1, <3>2, <3>3
  <2>10. QED
    BY <1>0, <2>3, <2>4, <2>5, <2>6, <2>7, <2>8, <2>9
<1>3. QED
  BY <1>1, <1>2

(* The reasoning of a chunk. *)
LEMMA ReasoningTells ==
  ASSUME NEW a, NEW base \in Seq(Event), Tells(a, base),
         NEW chunks, Stream(chunks), NEW i \in DOMAIN chunks
  PROVE  /\ Tells(Reasoning(a, i, chunks), base)
         /\ SameText(a.acc, Reasoning(a, i, chunks).acc)
         /\ SameCalls(a.acc, Reasoning(a, i, chunks).acc)
         /\ Grows(a.acc.rtext, Reasoning(a, i, chunks).acc.rtext, i)
<1> DEFINE b == IF a.acc.rtext = <<>> THEN Say(a, "rsn_added", <<>>) ELSE a
           grown == [b EXCEPT !.acc.rtext = Append(@, i), !.acc.rpending = Append(@, i)]
           r == Append(a.acc.rtext, i)
           p == Append(a.acc.rpending, i)
           c == [a.acc EXCEPT !.rtext = r, !.rpending = p]
           E == base \o b.events
<1>0. i \in Positions /\ a \in Running /\ a.acc \in Accum
  BY StreamPositions DEF Tells, Running
<1>1. /\ b \in Running /\ b.acc = a.acc /\ AllOf(Opened, b.events)
      /\ E \in Seq(Event)
      /\ Begun("rsn_added", "rsn_delta", TRUE, E)
      /\ Begun("msg_added", "msg_delta", a.acc.text # <<>>, E)
      /\ Told("msg_delta", E) = a.acc.text
      /\ Told("rsn_delta", E) \o a.acc.rpending = a.acc.rtext
  BY BegunRsn
<1>2. r \in Seq(Positions) /\ p \in Seq(Positions) /\ r # <<>>
  <2>1. PICK x \in Seq(Positions), y \in Seq(Positions) : x = a.acc.rtext /\ y = a.acc.rpending
    BY <1>0, AccumType
  <2>2. Append(x, i) \in Seq(Positions) /\ Append(y, i) \in Seq(Positions) /\ Append(x, i) # <<>>
    BY <1>0, Appended
  <2>3. QED
    BY <2>1, <2>2
<1>3. Told("rsn_delta", E) \o p = r
  <2>1. PICK x \in Seq(Positions), y \in Seq(Positions) : x = a.acc.rtext /\ y = a.acc.rpending
    BY <1>0, AccumType
  <2>2. Told("rsn_delta", E) \in Seq(Parts)
    BY <1>1, ToldBoth
  <2>3. PICK t \in Seq(Parts), z \in Seq(Parts) : t = Told("rsn_delta", E) /\ z = y
    BY <2>1, <2>2, Widened DEF Parts
  <2>4. i \in Parts
    BY <1>0 DEF Parts
  <2>5. t \o Append(z, i) = Append(t \o z, i)
    BY <2>4
  <2>6. QED
    BY <1>1, <2>1, <2>3, <2>5
<1> HIDE DEF b, r, p
<1>4. c \in Accum /\ c.rtext = r /\ c.rpending = p /\ c.text = a.acc.text
      /\ SameText(a.acc, c) /\ SameCalls(a.acc, c)
  <2>1. c \in Accum
    BY <1>0, <1>2 DEF Accum
  <2>2. c.rtext = r /\ c.rpending = p /\ c.text = a.acc.text
        /\ SameText(a.acc, c) /\ SameCalls(a.acc, c)
    BY <1>0 DEF Accum, SameText, SameCalls
  <2>3. QED
    BY <2>1, <2>2
<1>5. grown = [b EXCEPT !.acc = c]
  <2>1. grown = [b EXCEPT !.acc = [b.acc EXCEPT !.rtext = r, !.rpending = p]]
    BY <1>1 DEF Running, Accum, r, p
  <2>2. QED
    BY <1>1, <2>1
<1> HIDE DEF c, E
<1>6. grown \in Running /\ grown.acc = c /\ grown.events = b.events
  BY <1>1, <1>4, <1>5, AccSet
<1>7. Agrees(c, E)
  BY <1>1, <1>2, <1>3, <1>4 DEF Agrees
<1>8. Tells(grown, base)
  BY <1>1, <1>6, <1>7 DEF Tells, E
<1>9. PICK g : g = grown
  OBVIOUS
<1>10. Reasoning(a, i, chunks) = a \/ Reasoning(a, i, chunks) = FlushReasoning(g)
         \/ Reasoning(a, i, chunks) = g
  BY <1>9 DEF Reasoning, b
<1> HIDE DEF grown
<1>11. CASE Reasoning(a, i, chunks) = a
  BY <1>11 DEF SameText, SameCalls, Grows
<1>12. CASE Reasoning(a, i, chunks) = g
  BY <1>4, <1>6, <1>8, <1>9, <1>12 DEF Grows, r
<1>13. CASE Reasoning(a, i, chunks) = FlushReasoning(g)
  <2>1. Tells(g, base)
    BY <1>8, <1>9
  <2>2. /\ Tells(FlushReasoning(g), base)
        /\ SameText(g.acc, FlushReasoning(g).acc) /\ SameRest(g.acc, FlushReasoning(g).acc)
    BY <2>1, FlushTells, FlushSame
  <2>3. QED
    BY <1>4, <1>6, <1>9, <1>13, <2>2 DEF SameText, SameRest, SameCalls, Grows, r
<1>14. QED
  BY <1>10, <1>11, <1>12, <1>13

(* A text that has no deferred part. *)
LEMMA NoneWaits ==
  ASSUME NEW c \in Accum
  PROVE  /\ c.deferred = <<>> => c.edge \o c.deferred = c.edge
         /\ c.edge = <<>> => c.edge \o c.deferred = c.deferred
         /\ c.text \in Seq(Nat) /\ c.edge \in Seq(Nat) /\ c.deferred \in Seq(Nat)
         /\ c.edge \o c.deferred \in Seq(Nat)
         /\ c.text \o c.edge \in Seq(Nat)
         /\ c.text \o (c.edge \o c.deferred) = (c.text \o c.edge) \o c.deferred
<1>1. c.text \in Seq(Positions) /\ c.edge \in Seq(Positions) /\ c.deferred \in Seq(Positions)
  BY AccumType
<1>2. c.text \in Seq(Nat)
  BY <1>1, Constants, Widened
<1>3. c.edge \in Seq(Nat)
  BY <1>1, Constants, Widened
<1>4. c.deferred \in Seq(Nat)
  BY <1>1, Constants, Widened
<1>5. PICK x \in Seq(Nat), y \in Seq(Nat), z \in Seq(Nat) :
        x = c.text /\ y = c.edge /\ z = c.deferred
  BY <1>2, <1>3, <1>4
<1>6. y \o <<>> = y /\ <<>> \o z = z /\ y \o z \in Seq(Nat) /\ x \o y \in Seq(Nat)
  OBVIOUS
<1>7. x \o (y \o z) = (x \o y) \o z
  OBVIOUS
<1>8. QED
  BY <1>5, <1>6, <1>7

(* The text of one more chunk. *)
LEMMA OneMoreText ==
  ASSUME NEW m \in Nat, NEW chunks, NEW x \in Seq(Nat), NEW X,
         Less(x, X) = Less(TextsTo(m, chunks), X)
  PROVE  /\ chunks[m + 1].content = "none" => Less(x, X) = Less(TextsTo(m + 1, chunks), X)
         /\ chunks[m + 1].content # "none" =>
              Less(x \o <<m + 1>>, X) = Less(TextsTo(m + 1, chunks), X)
<1>1. /\ TextsTo(m, chunks) \in Seq(Nat)
      /\ TextsTo(m + 1, chunks) = TextsTo(m, chunks) \o
           (IF chunks[m + 1].content # "none" THEN <<m + 1>> ELSE <<>>)
  BY TextsMore
<1>2. <<m + 1>> \in Seq(Nat)
  OBVIOUS
<1>3. PICK t \in Seq(Nat), o \in Seq(Nat) : t = TextsTo(m, chunks) /\ o = <<m + 1>>
  BY <1>1, <1>2
<1>4. t \o <<>> = t
  OBVIOUS
<1>5. Less(x \o o, X) = Less(x, X) \o Less(o, X) /\ Less(t \o o, X) = Less(t, X) \o Less(o, X)
  BY LessBoth
<1>6. QED
  BY <1>1, <1>3, <1>4, <1>5

(* What may be left out of more chunks may be left out of fewer. *)
LEMMA CoversLess ==
  ASSUME NEW X, NEW m \in Nat, NEW chunks, Covers(X, m + 1, chunks)
  PROVE  Covers(X, m, chunks)
BY DEF Covers

(* A shape for more chunks. *)
LEMMA ShapeMore ==
  ASSUME NEW c, NEW m \in Nat, NEW chunks, TextShape(c, m, chunks)
  PROVE  TextShape(c, m + 1, chunks)
<1>1. \A kinds : OfKind(kinds, m, chunks) \subseteq OfKind(kinds, m + 1, chunks)
  BY DEF OfKind
<1>2. Sane(c, m + 1, chunks)
  BY <1>1 DEF TextShape, Sane
<1>3. Waits(c, m + 1, chunks)
  BY <1>1 DEF TextShape, Waits, InTurn
<1>4. suppress => ToSet(c.text) \subseteq OfKind({"plain", "prefix"}, m + 1, chunks)
  BY <1>1 DEF TextShape
<1>5. QED
  BY <1>2, <1>3, <1>4 DEF TextShape

(* A chunk whose text is deferred. *)
LEMMA DeferKeeps ==
  ASSUME NEW c \in Accum, NEW d \in Accum, NEW m \in Nat, NEW chunks,
         TextKept(c, m, chunks), TextShape(c, m, chunks), suppress, ~c.native,
         chunks[m + 1].content \in {"plain", "element", "unclosed", "prefix"},
         d.text = c.text, d.edge = c.edge, d.inside = c.inside, d.native = c.native,
         d.deferred = Append(c.deferred, m + 1)
  PROVE  TextKept(d, m + 1, chunks) /\ TextShape(d, m + 1, chunks)
<1>1. /\ c.edge = <<>> /\ c.edge \o c.deferred = c.deferred
      /\ c.text \in Seq(Nat) /\ c.deferred \in Seq(Nat)
  BY NoneWaits DEF TextShape
<1>2. PICK x \in Seq(Nat), y \in Seq(Nat), z \in Seq(Nat) :
        /\ x = c.text /\ y = c.deferred /\ z = x \o y
  <2>1. \A x, y \in Seq(Nat) : x \o y \in Seq(Nat)
    OBVIOUS
  <2>2. QED
    BY <1>1, <2>1
<1>3. d.deferred = y \o <<m + 1>> /\ x \o (y \o <<m + 1>>) = z \o <<m + 1>>
      /\ d.edge \o d.deferred = y \o <<m + 1>>
  <2>1. PICK o \in Seq(Nat) : o = <<m + 1>>
    <3>1. <<m + 1>> \in Seq(Nat)
      OBVIOUS
    <3>2. QED
      BY <3>1
  <2>2. Append(y, m + 1) = y \o o
    BY <2>1
  <2>3. x \o (y \o o) = (x \o y) \o o /\ <<>> \o (y \o o) = y \o o
    <3>1. x \o (y \o o) = (x \o y) \o o
      <4>1. Associates(x, y, o)
        BY Chained
      <4>2. QED
        BY <4>1 DEF Associates
    <3>2. y \o o \in Seq(Nat)
      OBVIOUS
    <3>3. PICK v \in Seq(Nat) : v = y \o o
      BY <3>2
    <3>4. <<>> \o v = v
      OBVIOUS
    <3>5. QED
      BY <3>1, <3>3, <3>4
  <2>4. QED
    BY <1>1, <1>2, <2>1, <2>2, <2>3
<1>4. TextKept(d, m + 1, chunks)
  <2>1. SUFFICES ASSUME NEW X
                 PROVE  Less(x \o (y \o <<m + 1>>), X) = Less(TextsTo(m + 1, chunks), X)
    BY <1>2, <1>3 DEF TextKept
  <2>2. Less(z, X) = Less(TextsTo(m, chunks), X)
    BY <1>1, <1>2 DEF TextKept
  <2>3. Less(z \o <<m + 1>>, X) = Less(TextsTo(m + 1, chunks), X)
    BY <2>2, OneMoreText
  <2>4. QED
    BY <1>3, <2>3
<1>5. TextShape(c, m + 1, chunks)
  BY ShapeMore
<1>6. Waits(d, m + 1, chunks)
  <2>1. /\ Len(y) \in Nat /\ Len(d.deferred) = Len(y) + 1
        /\ DOMAIN d.deferred = 1..(Len(y) + 1) /\ DOMAIN y = 1..Len(y)
        /\ d.deferred[Len(y) + 1] = m + 1
        /\ \A k \in 1..Len(y) : d.deferred[k] = y[k]
    BY <1>2
  <2>2. \A k \in 1..Len(y) : y[k] \in 1..m
    <3>1. \A k \in 1..Len(y) : y[k] \in ToSet(y)
      BY DEF ToSet
    <3>2. ToSet(y) \subseteq 1..m
      BY <1>2 DEF TextShape, Waits, InTurn, OfKind
    <3>3. QED
      BY <3>1, <3>2
  <2>3. ASSUME NEW k \in DOMAIN d.deferred, NEW l \in DOMAIN d.deferred, k < l
        PROVE  d.deferred[k] < d.deferred[l]
    <3>1. k \in 1..Len(y)
      BY <2>1, <2>3
    <3>2. CASE l = Len(y) + 1
      BY <2>1, <2>2, <3>1, <3>2
    <3>3. CASE l \in 1..Len(y)
      BY <1>2, <2>1, <2>3, <3>1, <3>3 DEF TextShape, Waits, InTurn
    <3>4. QED
      BY <2>1, <3>2, <3>3
  <2>4. ToSet(d.deferred) \subseteq ToSet(y) \cup {m + 1}
    <3>1. ASSUME NEW k \in 1..(Len(y) + 1) PROVE d.deferred[k] \in ToSet(y) \cup {m + 1}
      <4>1. CASE k = Len(y) + 1
        BY <2>1, <4>1
      <4>2. CASE k # Len(y) + 1
        <5>1. k \in DOMAIN y
          BY <2>1, <3>1, <4>2
        <5>2. QED
          BY <2>1, <5>1 DEF ToSet
      <4>3. QED
        BY <4>1, <4>2
    <3>2. QED
      BY <2>1, <3>1 DEF ToSet
  <2>5. m + 1 \in OfKind({"plain", "element", "unclosed", "prefix"}, m + 1, chunks)
    BY DEF OfKind
  <2>6. ToSet(y) \subseteq OfKind({"plain", "element", "unclosed", "prefix"}, m + 1, chunks)
    BY <1>2, <1>5 DEF TextShape, Waits, InTurn
  <2>7. QED
    BY <2>3, <2>4, <2>5, <2>6 DEF Waits, InTurn
<1>7. QED
  BY <1>4, <1>5, <1>6 DEF TextShape, Sane

(* A chunk whose text goes through the sanitizer. *)
LEMMA PushKeeps ==
  ASSUME NEW c, NEW d, NEW m \in Nat, NEW i \in Nat, i = m + 1, NEW chunks,
         TextKept(c, m, chunks), TextShape(c, m, chunks), suppress,
         Pushed(c, d, i, chunks), Untouched(c, d), c.deferred = <<>>,
         chunks[i].content \in {"plain", "element", "unclosed", "prefix"},
         c.native \/ chunks[i].content = "plain"
  PROVE  TextKept(d, i, chunks) /\ TextShape(d, i, chunks)
<1>0. c \in Accum /\ d \in Accum /\ d.deferred = <<>> /\ d.native = c.native
  BY DEF Pushed, Untouched
<1>1. TextKept(d, i, chunks)
  <2>1. SUFFICES ASSUME NEW X, suppress /\ c.native => Covers(X, i, chunks)
                 PROVE  Less(d.text \o d.edge, X) = Less(TextsTo(i, chunks), X)
    <3>1. d.edge \o d.deferred = d.edge
      BY <1>0, NoneWaits
    <3>2. QED
      BY <1>0, <3>1 DEF TextKept
  <2>2. Allowed(c, i, chunks, X)
    <3>1. CASE c.native
      <4>1. Covers(X, i, chunks) /\ i \in 1..i
        BY <2>1, <3>1
      <4>2. c.inside => c.edge = <<>> /\ i \in X
        <5>1. c.inside => c.edge = <<>> /\ OfKind({"unclosed"}, i - 1, chunks) # {}
          BY DEF TextShape, Sane
        <5>2. QED
          BY <4>1, <5>1 DEF Covers
      <4>3. chunks[i].content \in {"element", "unclosed"} => i \in X
        BY <4>1 DEF Covers
      <4>4. QED
        BY <4>2, <4>3 DEF Allowed
    <3>2. CASE ~c.native
      BY <3>2 DEF Allowed, TextShape
    <3>3. QED
      BY <3>1, <3>2
  <2>3. Less(d.text \o d.edge, X) = Less((c.text \o c.edge) \o <<i>>, X)
    BY <2>2, PushLess
  <2>4. Less(c.text \o c.edge, X) = Less(TextsTo(m, chunks), X)
    <3>1. c.edge \o c.deferred = c.edge
      BY <1>0, NoneWaits
    <3>2. c.native => Covers(X, m, chunks)
      <4>1. SUFFICES ASSUME c.native PROVE Covers(X, m, chunks)
        OBVIOUS
      <4>2. Covers(X, m + 1, chunks)
        BY <2>1, <4>1
      <4>3. QED
        BY <4>2, CoversLess
    <3>3. QED
      BY <3>1, <3>2 DEF TextKept
  <2>5. PICK x \in Seq(Nat) : x = c.text \o c.edge
    BY <1>0, NoneWaits
  <2>6. Less(x \o <<m + 1>>, X) = Less(TextsTo(m + 1, chunks), X)
    <3>1. Less(x, X) = Less(TextsTo(m, chunks), X)
      BY <2>4, <2>5
    <3>2. chunks[m + 1].content # "none" =>
            Less(x \o <<m + 1>>, X) = Less(TextsTo(m + 1, chunks), X)
      BY <3>1, OneMoreText
    <3>3. QED
      BY <3>2
  <2>7. QED
    BY <2>3, <2>5, <2>6
<1>2. TextShape(d, i, chunks)
  <2>1. ToSet(c.text) \subseteq OfKind({"plain", "prefix"}, i, chunks)
    BY DEF TextShape, OfKind
  <2>2. Sane(d, i, chunks) /\ ToSet(d.text) \subseteq OfKind({"plain", "prefix"}, i, chunks)
    <3>1. /\ d.text = c.text \o LetOut(c, i, chunks) /\ d.edge = HeldBack(c, i, chunks)
          /\ d.inside = (c.inside \/ chunks[i].content = "unclosed")
          /\ Sane(c, m, chunks) /\ m < i /\ i <= i
      BY DEF Pushed, TextShape
    <3>2. QED
      BY <1>0, <2>1, <3>1, PushSane
  <2>3. Waits(d, i, chunks)
    <3>1. TextShape(c, m + 1, chunks) /\ d.deferred = c.deferred
      BY <1>0, ShapeMore
    <3>2. QED
      BY <3>1 DEF TextShape, Waits, InTurn
  <2>4. ~d.native => d.edge = <<>> /\ ~d.inside
    <3>1. SUFFICES ASSUME ~d.native PROVE d.edge = <<>> /\ ~d.inside
      OBVIOUS
    <3>2. ~c.inside /\ chunks[i].content = "plain"
      BY <1>0, <3>1 DEF TextShape
    <3>3. QED
      BY <3>2 DEF Pushed, HeldBack
  <2>5. QED
    BY <1>0, <2>2, <2>3, <2>4 DEF TextShape
<1>3. QED
  BY <1>1, <1>2

(* A chunk whose text is not looked at. *)
LEMMA PlainKeeps ==
  ASSUME NEW c \in Accum, NEW d \in Accum, NEW m \in Nat, NEW i \in Nat, i = m + 1, NEW chunks,
         TextKept(c, m, chunks), TextShape(c, m, chunks), ~suppress,
         chunks[i].content # "none",
         d.text = c.text \o <<i>>, d.edge = c.edge, d.inside = c.inside,
         d.deferred = c.deferred, d.native = c.native
  PROVE  TextKept(d, i, chunks) /\ TextShape(d, i, chunks)
<1>0. c.edge = <<>> /\ ~c.inside /\ c.deferred = <<>>
  BY DEF TextShape
<1>1. PICK x \in Seq(Nat), t \in Seq(Nat) : x = c.text /\ t = x \o <<i>>
  <2>1. c.text \in Seq(Nat) /\ <<i>> \in Seq(Nat)
    <3>1. c.text \in Seq(Nat)
      BY NoneWaits
    <3>2. QED
      BY <3>1
  <2>2. c.text \o <<i>> \in Seq(Nat)
    BY <2>1
  <2>3. QED
    BY <2>1, <2>2
<1>2. <<>> \o <<>> = <<>> /\ x \o <<>> = x /\ t \o <<>> = t
  OBVIOUS
<1>3. TextKept(d, i, chunks)
  <2>1. SUFFICES ASSUME NEW X PROVE Less(t, X) = Less(TextsTo(i, chunks), X)
    BY <1>0, <1>1, <1>2 DEF TextKept
  <2>2. Less(x, X) = Less(TextsTo(m, chunks), X)
    BY <1>0, <1>1, <1>2 DEF TextKept
  <2>3. chunks[m + 1].content # "none" =>
          Less(x \o <<m + 1>>, X) = Less(TextsTo(m + 1, chunks), X)
    BY <2>2, OneMoreText
  <2>4. QED
    BY <1>1, <2>3
<1>4. TextShape(d, i, chunks)
  BY <1>0, ElementsOne DEF TextShape, Sane, Waits, InTurn
<1>5. QED
  BY <1>3, <1>4

\* How far the accumulator has got with the stream.
Holds(c, m, chunks) == TextKept(c, m, chunks) /\ TextShape(c, m, chunks)

(* The text of a chunk. *)
LEMMA ContentTells ==
  ASSUME NEW a, NEW base \in Seq(Event), Tells(a, base),
         NEW chunks, Stream(chunks), NEW i \in DOMAIN chunks, NEW m \in Nat, i = m + 1,
         Holds(a.acc, m, chunks)
  PROVE  /\ Tells(Content(a, i, chunks), base)
         /\ Holds(Content(a, i, chunks).acc, i, chunks)
         /\ SameRest(a.acc, Content(a, i, chunks).acc)
         /\ Content(a, i, chunks).acc.native = a.acc.native
<1> DEFINE b == Content(a, i, chunks)
           c == a.acc
           f == FlushReasoning(a)
<1>0. /\ i \in Positions /\ i \in Nat /\ a \in Running /\ c \in Accum /\ a.events \in Seq(Event)
      /\ c.native \in BOOLEAN
      /\ chunks[i].content \in {"none", "plain", "element", "unclosed", "prefix"}
  <2>1. i \in Positions /\ chunks[i] \in Shapes
    BY StreamPositions
  <2>2. a \in Running /\ c \in Accum /\ a.events \in Seq(Event)
    BY DEF Tells, Running
  <2>3. QED
    BY <2>1, <2>2, ChunkType, AccumType
<1>1. Tells(f, base) /\ SameText(c, f.acc) /\ SameRest(c, f.acc)
      /\ f \in Running /\ f.acc \in Accum
  <2>1. Tells(f, base) /\ SameText(c, f.acc) /\ SameRest(c, f.acc)
    BY FlushTells, FlushSame
  <2>2. QED
    BY <2>1 DEF Tells, Running
<1>2. Holds(f.acc, m, chunks)
  BY <1>1, SameTextKept DEF Holds
<1> HIDE DEF b, c, f
<1>3. CASE chunks[i].content = "none"
  <2>1. b = a
    BY <1>3 DEF Content, b
  <2>2. TextKept(c, m, chunks) /\ TextShape(c, m, chunks)
    BY DEF Holds, c
  <2>3. TextKept(c, i, chunks)
    <3>1. PICK x \in Seq(Nat) : x = c.text \o (c.edge \o c.deferred)
      <4>1. \A y, z \in Seq(Nat) : y \o z \in Seq(Nat)
        OBVIOUS
      <4>2. c.text \in Seq(Nat) /\ c.edge \o c.deferred \in Seq(Nat)
        BY <1>0, NoneWaits
      <4>3. QED
        BY <4>1, <4>2
    <3>2. SUFFICES ASSUME NEW X, suppress /\ c.native => Covers(X, i, chunks)
                   PROVE  Less(x, X) = Less(TextsTo(i, chunks), X)
      BY <3>1 DEF TextKept
    <3>3. suppress /\ c.native => Covers(X, m, chunks)
      <4>1. SUFFICES ASSUME suppress, c.native PROVE Covers(X, m, chunks)
        OBVIOUS
      <4>2. Covers(X, m + 1, chunks)
        BY <3>2, <4>1
      <4>3. QED
        BY <4>2, CoversLess
    <3>4. Less(x, X) = Less(TextsTo(m, chunks), X)
      BY <2>2, <3>1, <3>3 DEF TextKept
    <3>5. chunks[m + 1].content = "none" => Less(x, X) = Less(TextsTo(m + 1, chunks), X)
      BY <3>4, OneMoreText
    <3>6. QED
      BY <1>3, <3>5
  <2>4. TextShape(c, m + 1, chunks)
    BY <2>2, ShapeMore
  <2>5. QED
    BY <2>1, <2>3, <2>4 DEF Holds, SameRest, SameCalls, b, c
<1>4. CASE chunks[i].content # "none" /\ Defers(a, i, chunks)
  <2> DEFINE more == Append(c.deferred, i)
             d == [c EXCEPT !.deferred = more]
  <2>1. b = [a EXCEPT !.acc.deferred = Append(@, i)]
    BY <1>4 DEF Content, b
  <2>2. b = [a EXCEPT !.acc = d]
    BY <1>0, <2>1 DEF Running, Accum, c
  <2>3. more \in Seq(Positions)
    <3>1. PICK y \in Seq(Positions) : y = c.deferred
      BY <1>0, AccumType
    <3>2. Append(y, i) \in Seq(Positions)
      BY <1>0
    <3>3. QED
      BY <3>1, <3>2
  <2> HIDE DEF more
  <2>4. d \in Accum /\ d.deferred = more /\ d.text = c.text /\ d.edge = c.edge
        /\ d.inside = c.inside /\ d.native = c.native /\ SameRest(c, d)
        /\ d.rtext = c.rtext /\ d.rpending = c.rpending
    <3>1. d \in Accum
      BY <1>0, <2>3 DEF Accum
    <3>2. /\ d.deferred = more /\ d.text = c.text /\ d.edge = c.edge
          /\ d.inside = c.inside /\ d.native = c.native /\ SameRest(c, d)
          /\ d.rtext = c.rtext /\ d.rpending = c.rpending
      BY <1>0 DEF Accum, SameRest, SameCalls
    <3>3. QED
      BY <3>1, <3>2
  <2> HIDE DEF d
  <2>5. b \in Running /\ b.acc = d /\ b.events = a.events
    BY <1>0, <2>2, <2>4, AccSet
  <2>6. Agrees(d, base \o a.events) /\ AllOf(Opened, a.events)
    BY <2>4 DEF Tells, Agrees, c
  <2>7. Tells(b, base)
    BY <2>5, <2>6 DEF Tells
  <2>8. suppress /\ ~c.native
    BY <1>4 DEF Defers, c
  <2>9. Holds(d, i, chunks)
    <3>1. /\ TextKept(c, m, chunks) /\ TextShape(c, m, chunks)
          /\ chunks[m + 1].content \in {"plain", "element", "unclosed", "prefix"}
          /\ d.deferred = Append(c.deferred, m + 1)
      BY <1>0, <1>4, <2>4 DEF Holds, c, more
    <3>2. QED
      BY <1>0, <2>4, <2>8, <3>1, DeferKeeps DEF Holds
  <2>10. QED
    BY <2>4, <2>5, <2>7, <2>9 DEF b, c
<1>5. CASE chunks[i].content # "none" /\ ~Defers(a, i, chunks) /\ suppress
  <2>1. b = Push(f, i, chunks)
    BY <1>5 DEF Content, b, f
  <2> DEFINE d == b.acc
             e == f.acc
  <2>2. Tells(b, base) /\ Untouched(e, d) /\ Pushed(e, d, i, chunks)
    <3>1. PICK g : g = f
      OBVIOUS
    <3>2. Tells(g, base)
      BY <1>1, <3>1
    <3>3. /\ Tells(Push(g, i, chunks), base)
          /\ Untouched(g.acc, Push(g, i, chunks).acc)
          /\ Pushed(g.acc, Push(g, i, chunks).acc, i, chunks)
      BY <3>2, PushTells
    <3>4. QED
      BY <2>1, <3>1, <3>3
  <2>3. Pushed(e, d, i, chunks)
    BY <2>2
  <2>4. e.deferred = <<>> /\ (e.native \/ chunks[i].content = "plain")
    <3>1. CASE e.native
      BY <1>2, <1>5, <3>1 DEF Holds, TextShape
    <3>2. CASE ~e.native
      BY <1>1, <1>5, <3>2 DEF Defers, MayContainMarkup, SameText, c
    <3>3. QED
      BY <3>1, <3>2
  <2>5. TextKept(e, m, chunks) /\ TextShape(e, m, chunks)
    BY <1>2 DEF Holds
  <2>6. chunks[i].content \in {"plain", "element", "unclosed", "prefix"}
    BY <1>0, <1>5
  <2>7. Holds(d, i, chunks)
    <3>1. Untouched(e, d)
      BY <2>2
    <3> HIDE DEF d, e
    <3>2. QED
      BY <1>0, <1>5, <2>3, <2>4, <2>5, <2>6, <3>1, PushKeeps DEF Holds
  <2>8. QED
    BY <1>1, <2>2, <2>7 DEF SameRest, SameCalls, SameText, Untouched, b, c
<1>6. CASE chunks[i].content # "none" /\ ~Defers(a, i, chunks) /\ ~suppress
  <2>1. b = Emit(f, <<i>>)
    BY <1>6 DEF Content, b, f
  <2> DEFINE d == b.acc
             e == f.acc
  <2>2. <<i>> \in Seq(Positions)
    BY <1>0
  <2>3. Tells(b, base) /\ d = [e EXCEPT !.text = e.text \o <<i>>]
    BY <1>1, <2>1, <2>2, EmitTells
  <2>4. d \in Accum
    BY <2>3 DEF Tells, Running
  <2>5. /\ d.text = e.text \o <<i>> /\ d.edge = e.edge /\ d.inside = e.inside
        /\ d.deferred = e.deferred /\ d.native = e.native /\ SameRest(e, d)
    BY <1>1, <2>3 DEF Accum, SameRest, SameCalls
  <2>6. TextKept(e, m, chunks) /\ TextShape(e, m, chunks)
    BY <1>2 DEF Holds
  <2>7. Holds(d, i, chunks)
    <3> HIDE DEF d, e
    <3>1. QED
      BY <1>0, <1>1, <1>6, <2>4, <2>5, <2>6, PlainKeeps DEF Holds, e
  <2>8. QED
    BY <1>1, <2>3, <2>5, <2>7 DEF SameRest, SameCalls, SameText, b, c
<1>7. QED
  BY <1>3, <1>4, <1>5, <1>6 DEF b, c

\* A native call has a name.
NativeNamed(c) == c.native => \E s \in Slots : c.calls[s] = "named"

(* The first native call: what was deferred goes through the sanitizer. *)
LEMMA ReleaseTells ==
  ASSUME NEW b, NEW base \in Seq(Event), Tells(b, base),
         NEW chunks, Stream(chunks), NEW i \in DOMAIN chunks,
         Holds(b.acc, i, chunks), ~b.acc.native, NEW a \in Running,
         a.acc = [b.acc EXCEPT !.native = TRUE], a.events = b.events
  PROVE  /\ Tells(Release(a, chunks), base)
         /\ Holds(Release(a, chunks).acc, i, chunks)
         /\ SameRest(b.acc, Release(a, chunks).acc)
         /\ Release(a, chunks).acc.native
<1> DEFINE d == b.acc
           e == [d EXCEPT !.native = TRUE, !.deferred = <<>>]
           y == [a EXCEPT !.acc.deferred = <<>>]
           parts == d.deferred
           n == Len(parts)
<1>0. /\ d \in Accum /\ parts \in Seq(Nat) /\ n \in Nat /\ i \in Nat
      /\ TextKept(d, i, chunks) /\ TextShape(d, i, chunks) /\ ~d.native
      /\ b.events \in Seq(Event) /\ a \in Running
  <2>1. d \in Accum /\ b.events \in Seq(Event)
    BY DEF Tells, Running
  <2>2. parts \in Seq(Nat)
    BY <2>1, NoneWaits
  <2>3. i \in Nat
    BY StreamPositions, Constants
  <2>4. TextKept(d, i, chunks) /\ TextShape(d, i, chunks)
    BY DEF Holds
  <2>5. QED
    BY <2>1, <2>2, <2>3, <2>4
<1>1. /\ e \in Accum /\ e.text = d.text /\ e.edge = d.edge /\ e.inside = d.inside
      /\ e.deferred = <<>> /\ e.native = TRUE /\ SameRest(d, e)
      /\ e.rtext = d.rtext /\ e.rpending = d.rpending
  <2>1. <<>> \in Seq(Positions)
    OBVIOUS
  <2>2. e \in Accum
    BY <1>0, <2>1 DEF Accum
  <2>3. /\ e.text = d.text /\ e.edge = d.edge /\ e.inside = d.inside
        /\ e.deferred = <<>> /\ e.native = TRUE /\ SameRest(d, e)
        /\ e.rtext = d.rtext /\ e.rpending = d.rpending
    BY <1>0 DEF Accum, SameRest, SameCalls
  <2>4. QED
    BY <2>2, <2>3
<1>2. a.acc.deferred = parts /\ Release(a, chunks) = PushAll(y, parts, chunks)
  <2>1. a.acc.deferred = parts
    BY <1>0 DEF Accum
  <2>2. QED
    BY <2>1 DEF Release
<1>3. y = [a EXCEPT !.acc = e]
  BY <1>0 DEF Running, Accum
<1> HIDE DEF e, y
<1>4. y \in Running /\ y.acc = e /\ y.events = b.events
  BY <1>0, <1>1, <1>3, AccSet
<1>5. Tells(y, base)
  <2>1. Agrees(e, base \o b.events) /\ AllOf(Opened, b.events)
    BY <1>1 DEF Tells, Agrees
  <2>2. QED
    BY <1>4, <2>1 DEF Tells
<1>6. \A k \in 1..n : parts[k] \in DOMAIN chunks
  <2>1. ASSUME NEW k \in 1..n PROVE parts[k] \in DOMAIN chunks
    <3>1. parts[k] \in ToSet(parts)
      BY <1>0 DEF ToSet
    <3>2. parts[k] \in 1..i
      BY <1>0, <3>1 DEF TextShape, Waits, InTurn, OfKind
    <3>3. DOMAIN chunks = 1..Len(chunks) /\ Len(chunks) \in Nat
      BY DEF Stream
    <3>4. QED
      BY <1>0, <3>2, <3>3
  <2>2. QED
    BY <2>1
<1>7. PICK f :
        /\ f[0] = y
        /\ \A k \in 0..n : Tells(f[k], base) /\ Untouched(y.acc, f[k].acc)
        /\ \A k \in 1..n : Pushed(f[k - 1].acc, f[k].acc, parts[k], chunks)
        /\ PushAll(y, parts, chunks) = f[n]
  <2>1. PICK p \in Seq(Nat), l \in Nat : p = parts /\ l = n
    BY <1>0
  <2>2. Len(p) = l /\ \A k \in 1..l : p[k] \in DOMAIN chunks
    BY <1>6, <2>1
  <2>3. \E f : PushSteps(f, y, base, p, l, chunks)
    BY <1>5, <2>2, PushAllSteps
  <2>4. QED
    BY <2>1, <2>3 DEF PushSteps
<1> DEFINE h == f[n].acc
<1>8. /\ Tells(f[n], base) /\ Untouched(e, h) /\ h \in Accum
  <2>1. n \in 0..n
    BY <1>0
  <2>2. Tells(f[n], base) /\ Untouched(e, h)
    BY <1>4, <1>7, <2>1
  <2>3. QED
    BY <2>2 DEF Tells, Running
<1>9. h.deferred = <<>> /\ h.native = TRUE /\ SameRest(d, h)
  BY <1>1, <1>8 DEF Untouched, SameRest, SameCalls
<1>10. Holds(h, i, chunks)
  <2>1. CASE ~suppress
    <3>1. parts = <<>> /\ n = 0
      BY <1>0, <2>1 DEF TextShape
    <3>2. h = e
      BY <1>4, <1>7, <3>1
    <3>3. TextKept(e, i, chunks)
      BY <1>0, <1>1, <2>1, <3>1 DEF TextKept
    <3>4. TextShape(e, i, chunks)
      BY <1>0, <1>1, <2>1, <3>1 DEF TextShape, Sane, Waits, InTurn
    <3>5. QED
      BY <3>2, <3>3, <3>4 DEF Holds
  <2>2. CASE suppress
    <3> DEFINE g == [k \in 0..n |-> f[k].acc]
    <3>1. /\ g[0] = e /\ g[n] = h /\ \A k \in 1..n : Pushed(g[k - 1], g[k], parts[k], chunks)
      <4>1. \A k \in 0..n : g[k] = f[k].acc
        OBVIOUS
      <4>2. 0 \in 0..n /\ n \in 0..n /\ \A k \in 1..n : k \in 0..n /\ k - 1 \in 0..n
        BY <1>0
      <4>3. g[0] = e
        BY <1>4, <1>7, <4>1, <4>2
      <4> HIDE DEF g
      <4>4. QED
        BY <1>7, <4>1, <4>2, <4>3
    <3>2. /\ g[0] \in Accum /\ g[0].edge = <<>> /\ ~g[0].inside
          /\ ToSet(g[0].text) \subseteq OfKind({"plain", "prefix"}, i, chunks)
      <4>1. d.edge = <<>> /\ ~d.inside /\ ToSet(d.text) \subseteq OfKind({"plain", "prefix"}, i, chunks)
        BY <1>0, <2>2 DEF TextShape
      <4> HIDE DEF g
      <4>2. QED
        BY <1>1, <3>1, <4>1
    <3>3. InTurn(parts, i, chunks)
      BY <1>0 DEF TextShape, Waits
    <3>4. PICK p \in Seq(Nat), l \in Nat, M \in Nat, q \in {g} :
            p = parts /\ l = n /\ M = i /\ q = g
      BY <1>0
    <3> HIDE DEF g, h
    <3>5. /\ Sane(q[l], M, chunks)
          /\ ToSet(q[l].text) \subseteq OfKind({"plain", "prefix"}, M, chunks)
          /\ SameBut(q[l].text \o q[l].edge, q[0].text \o p, M, chunks)
      <4>1. /\ l = Len(p) /\ q[0] \in Accum /\ q[0].edge = <<>> /\ ~q[0].inside
            /\ ToSet(q[0].text) \subseteq OfKind({"plain", "prefix"}, M, chunks)
            /\ InTurn(p, M, chunks) /\ PushedAll(q, p, l, chunks)
        BY <3>1, <3>2, <3>3, <3>4 DEF PushedAll
      <4>2. QED
        BY <4>1, ReleaseLess
    <3>6. TextShape(h, i, chunks)
      <4>1. Sane(h, i, chunks) /\ ToSet(h.text) \subseteq OfKind({"plain", "prefix"}, i, chunks)
        BY <3>1, <3>4, <3>5
      <4>2. Waits(h, i, chunks)
        <5>1. DOMAIN <<>> = {}
          OBVIOUS
        <5>2. ToSet(<<>>) = {}
          BY ElementsOne
        <5>3. QED
          BY <1>9, <5>1, <5>2 DEF Waits, InTurn
      <4>3. QED
        BY <1>9, <2>2, <4>1, <4>2 DEF TextShape
    <3>7. TextKept(h, i, chunks)
      <4>1. SUFFICES ASSUME NEW X, Covers(X, i, chunks)
                     PROVE  Less(h.text \o h.edge, X) = Less(TextsTo(i, chunks), X)
        <5>1. h.edge \o h.deferred = h.edge
          BY <1>8, <1>9, NoneWaits
        <5>2. QED
          BY <1>9, <2>2, <5>1 DEF TextKept
      <4>2. Less(h.text \o h.edge, X) = Less(e.text \o parts, X)
        BY <3>1, <3>4, <3>5, <4>1 DEF SameBut
      <4>3. d.edge = <<>> /\ d.edge \o d.deferred = d.deferred
        BY <1>0, NoneWaits DEF TextShape
      <4>4. Less(d.text \o parts, X) = Less(TextsTo(i, chunks), X)
        BY <1>0, <4>3 DEF TextKept
      <4>5. QED
        BY <1>1, <4>2, <4>4
    <3>8. QED
      BY <3>6, <3>7 DEF Holds
  <2>3. QED
    BY <2>1, <2>2
<1>11. QED
  BY <1>2, <1>7, <1>8, <1>9, <1>10

(* The tool call of a chunk. *)
LEMMA ToolCallTells ==
  ASSUME NEW a, NEW base \in Seq(Event), Tells(a, base),
         NEW chunks, Stream(chunks), NEW i \in DOMAIN chunks,
         Holds(a.acc, i, chunks), NativeNamed(a.acc)
  PROVE  /\ Tells(ToolCall(a, i, chunks), base)
         /\ Holds(ToolCall(a, i, chunks).acc, i, chunks)
         /\ NativeNamed(ToolCall(a, i, chunks).acc)
         /\ ToolCall(a, i, chunks).acc.finish = a.acc.finish
         /\ ToolCall(a, i, chunks).acc.usage = a.acc.usage
         /\ ToolCall(a, i, chunks).acc.rtext = a.acc.rtext
         /\ a.acc.native => ToolCall(a, i, chunks).acc.native
<1> DEFINE r == ToolCall(a, i, chunks)
           call == chunks[i].call
           slot == chunks[i].slot
           f == FlushReasoning(a)
           to == IF call = "named" THEN "named"
                 ELSE IF f.acc.calls[slot] = "absent" THEN "unnamed" ELSE f.acc.calls[slot]
           calls == [f.acc.calls EXCEPT ![slot] = to]
           d == [f.acc EXCEPT !.calls = calls]
           b == [f EXCEPT !.acc = d]
           e == [d EXCEPT !.native = TRUE]
           g == [b EXCEPT !.acc.native = TRUE]
<1>0. call \in {"none", "unnamed", "named"} /\ (call # "none" => slot \in Slots)
  BY StreamPositions, ChunkType
<1>1. CASE call = "none"
  <2>1. r = a
    BY <1>1 DEF ToolCall
  <2>2. QED
    BY <2>1
<1>2. CASE call # "none"
  <2>1. Tells(f, base) /\ SameText(a.acc, f.acc) /\ SameRest(a.acc, f.acc)
        /\ f \in Running /\ f.acc \in Accum /\ f.events \in Seq(Event)
    <3>1. Tells(f, base) /\ SameText(a.acc, f.acc) /\ SameRest(a.acc, f.acc)
      BY FlushTells, FlushSame
    <3>2. QED
      BY <3>1 DEF Tells, Running
  <2>2. calls \in [Slots -> {"absent", "unnamed", "named"}]
        /\ (\A s \in Slots : f.acc.calls[s] = "named" => calls[s] = "named")
        /\ (call = "named" => calls[slot] = "named") /\ slot \in Slots
    <3>1. f.acc.calls \in [Slots -> {"absent", "unnamed", "named"}]
      BY <2>1, AccumType
    <3> HIDE DEF f, call, slot
    <3>2. slot \in Slots
      BY <1>0, <1>2
    <3>3. to \in {"absent", "unnamed", "named"}
      BY <3>1, <3>2
    <3>4. \A s \in Slots : calls[s] = IF s = slot THEN to ELSE f.acc.calls[s]
      BY <3>1, <3>2
    <3>5. QED
      BY <3>1, <3>2, <3>3, <3>4
  <2> HIDE DEF calls, f
  <2>3. d \in Accum /\ d.calls = calls /\ SameText(f.acc, d)
        /\ d.finish = f.acc.finish /\ d.usage = f.acc.usage
        /\ d.rtext = f.acc.rtext /\ d.rpending = f.acc.rpending /\ d.native \in BOOLEAN
    <3>1. d \in Accum
      BY <2>1, <2>2 DEF Accum
    <3>2. /\ d.calls = calls /\ SameText(f.acc, d)
          /\ d.finish = f.acc.finish /\ d.usage = f.acc.usage
          /\ d.rtext = f.acc.rtext /\ d.rpending = f.acc.rpending
      BY <2>1 DEF Accum, SameText
    <3>3. QED
      BY <3>1, <3>2, AccumType
  <2>4. e \in Accum /\ e.native /\ e.calls = calls /\ e.finish = d.finish /\ e.usage = d.usage
    <3> HIDE DEF d
    <3>1. QED
      BY <2>3 DEF Accum
  <2>5. b \in Running /\ b.acc = d /\ b.events = f.events
    <3> HIDE DEF d
    <3>1. QED
      BY <2>1, <2>3, AccSet
  <2>6. b = [f EXCEPT !.acc.calls[slot] =
               IF call = "named" THEN "named" ELSE IF @ = "absent" THEN "unnamed" ELSE @]
    BY <2>1 DEF Running, Accum, calls
  <2>7. g = [b EXCEPT !.acc = e]
    <3> HIDE DEF b, d
    <3>1. QED
      BY <2>5
  <2> HIDE DEF b, d, e
  <2>8. g \in Running /\ g.acc = e /\ g.events = b.events
    BY <2>4, <2>5, <2>7, AccSet
  <2>9. Tells(b, base)
    <3>1. Agrees(d, base \o b.events) /\ AllOf(Opened, b.events)
      BY <2>1, <2>3, <2>5 DEF Tells, Agrees, SameText
    <3>2. QED
      BY <2>5, <3>1 DEF Tells
  <2>10. Holds(d, i, chunks) /\ SameText(a.acc, d)
    <3>1. SameText(a.acc, d)
      BY <2>1, <2>3 DEF SameText
    <3>2. QED
      BY <3>1, SameTextKept DEF Holds
  <2>11. d.finish = a.acc.finish /\ d.usage = a.acc.usage /\ d.rtext = a.acc.rtext
         /\ d.native = a.acc.native
    BY <2>1, <2>3 DEF SameRest, SameCalls, SameText
  <2>12. NativeNamed(d)
    BY <2>1, <2>2, <2>3 DEF NativeNamed, SameText, SameRest, SameCalls
  <2>13. r = IF ~a.acc.native /\ call = "named" THEN Release(g, chunks) ELSE b
    <3>1. r = IF ~a.acc.native /\ call = "named"
              THEN Release([[f EXCEPT !.acc.calls[slot] =
               IF call = "named" THEN "named" ELSE IF @ = "absent" THEN "unnamed" ELSE @] EXCEPT !.acc.native = TRUE], chunks)
              ELSE [f EXCEPT !.acc.calls[slot] =
               IF call = "named" THEN "named" ELSE IF @ = "absent" THEN "unnamed" ELSE @]
      BY <1>2 DEF ToolCall, f
    <3>2. QED
      BY <2>6, <3>1
  <2>14. CASE ~(~a.acc.native /\ call = "named")
    BY <2>5, <2>9, <2>10, <2>11, <2>12, <2>13, <2>14
  <2>15. CASE ~a.acc.native /\ call = "named"
    <3>1. r = Release(g, chunks)
      BY <2>13, <2>15
    <3>2. ~d.native
      BY <2>10, <2>15 DEF SameText
    <3>3. PICK x \in Running : x = g
      BY <2>8
    <3>4. x.acc = [b.acc EXCEPT !.native = TRUE] /\ x.events = b.events
          /\ Holds(b.acc, i, chunks) /\ ~b.acc.native
      BY <2>5, <2>8, <2>10, <3>2, <3>3 DEF e
    <3> HIDE DEF g, call, slot
    <3>5. /\ Tells(Release(x, chunks), base)
          /\ Holds(Release(x, chunks).acc, i, chunks)
          /\ SameRest(b.acc, Release(x, chunks).acc)
          /\ Release(x, chunks).acc.native
      BY <2>9, <3>4, ReleaseTells
    <3>6. NativeNamed(Release(x, chunks).acc)
      BY <2>2, <2>3, <2>5, <2>15, <3>5 DEF NativeNamed, SameRest, SameCalls
    <3>7. QED
      BY <2>5, <2>11, <3>1, <3>3, <3>5, <3>6 DEF SameRest, SameCalls
  <2>16. QED
    BY <2>14, <2>15
<1>3. QED
  BY <1>1, <1>2

\* What apply_chat_chunk notes of a chunk first.
Noted(c, i, chunks) ==
  [c EXCEPT !.usage = IF chunks[i].usage THEN i ELSE @,
            !.finish = IF chunks[i].finish = "none" THEN @ ELSE chunks[i].finish]

(* A chunk. *)
LEMMA ApplyTells ==
  ASSUME acc \in Accum, NEW base \in Seq(Event), Agrees(acc, base),
         NEW chunks, Stream(chunks), NEW i \in DOMAIN chunks, NEW m \in Nat, i = m + 1,
         Holds(acc, m, chunks), NativeNamed(acc)
  PROVE  /\ Tells(Apply(i, chunks), base)
         /\ Holds(Apply(i, chunks).acc, i, chunks)
         /\ NativeNamed(Apply(i, chunks).acc)
         /\ Apply(i, chunks).acc.finish =
              IF chunks[i].finish = "none" THEN acc.finish ELSE chunks[i].finish
         /\ Apply(i, chunks).acc.usage = (IF chunks[i].usage THEN i ELSE acc.usage)
         /\ Grows(acc.rtext, Apply(i, chunks).acc.rtext, i)
         /\ acc.native => Apply(i, chunks).acc.native
<1> DEFINE d == Noted(acc, i, chunks)
           a == [acc |-> d, events |-> <<>>]
           b == Reasoning(a, i, chunks)
           c == Content(b, i, chunks)
<1>0. /\ i \in Positions /\ chunks[i].finish \in {"none", "terminal", "other"}
      /\ chunks[i].usage \in BOOLEAN
  BY StreamPositions, ChunkType
<1>1. /\ d \in Accum /\ SameText(acc, d) /\ d.calls = acc.calls
      /\ d.rtext = acc.rtext /\ d.rpending = acc.rpending
      /\ d.finish = (IF chunks[i].finish = "none" THEN acc.finish ELSE chunks[i].finish)
      /\ d.usage = IF chunks[i].usage THEN i ELSE acc.usage
  <2>1. d \in Accum
    BY <1>0 DEF Accum, Noted
  <2>2. /\ SameText(acc, d) /\ d.calls = acc.calls
        /\ d.rtext = acc.rtext /\ d.rpending = acc.rpending
    BY DEF Accum, Noted, SameText
  <2>3. /\ d.finish = (IF chunks[i].finish = "none" THEN acc.finish ELSE chunks[i].finish)
        /\ d.usage = IF chunks[i].usage THEN i ELSE acc.usage
    BY DEF Accum, Noted
  <2>4. QED
    BY <2>1, <2>2, <2>3
<1>2. Apply(i, chunks) = ToolCall(c, i, chunks)
  BY DEF Apply, Noted
<1> HIDE DEF d
<1>3. Tells(a, base) /\ a.acc = d
  <2>1. <<>> \in Seq(Event) /\ base \o <<>> = base
    OBVIOUS
  <2>2. a \in Running
    BY <1>1, <2>1 DEF Running
  <2>3. AllOf(Opened, <<>>)
    BY DEF AllOf
  <2>4. Agrees(d, base)
    BY <1>1 DEF Agrees, SameText
  <2>5. QED
    BY <2>1, <2>2, <2>3, <2>4 DEF Tells
<1>4. Holds(d, m, chunks) /\ NativeNamed(d)
  <2>1. Holds(d, m, chunks)
    BY <1>1, SameTextKept DEF Holds
  <2>2. QED
    BY <1>1, <2>1 DEF NativeNamed, SameText
<1> HIDE DEF a
<1>5. Tells(b, base) /\ SameText(a.acc, b.acc) /\ SameCalls(a.acc, b.acc)
      /\ Grows(a.acc.rtext, b.acc.rtext, i)
  BY <1>3, ReasoningTells
<1>6. Holds(b.acc, m, chunks) /\ NativeNamed(b.acc)
  <2>1. Holds(b.acc, m, chunks)
    BY <1>3, <1>4, <1>5, SameTextKept DEF Holds
  <2>2. QED
    BY <1>3, <1>4, <1>5, <2>1 DEF NativeNamed, SameText, SameRest, SameCalls
<1> HIDE DEF b
<1>7. /\ Tells(c, base) /\ Holds(c.acc, i, chunks) /\ SameRest(b.acc, c.acc)
      /\ c.acc.native = b.acc.native
  BY <1>5, <1>6, ContentTells
<1>8. NativeNamed(c.acc)
  BY <1>6, <1>7 DEF NativeNamed, SameRest, SameCalls
<1> HIDE DEF c
<1>9. /\ Tells(ToolCall(c, i, chunks), base)
      /\ Holds(ToolCall(c, i, chunks).acc, i, chunks)
      /\ NativeNamed(ToolCall(c, i, chunks).acc)
      /\ ToolCall(c, i, chunks).acc.finish = c.acc.finish
      /\ ToolCall(c, i, chunks).acc.usage = c.acc.usage
      /\ ToolCall(c, i, chunks).acc.rtext = c.acc.rtext
      /\ c.acc.native => ToolCall(c, i, chunks).acc.native
  BY <1>7, <1>8, ToolCallTells
<1>10. c.acc.finish = d.finish /\ c.acc.usage = d.usage
       /\ Grows(acc.rtext, c.acc.rtext, i) /\ c.acc.native = acc.native
  BY <1>1, <1>3, <1>5, <1>7 DEF SameRest, SameCalls, SameText
<1>11. QED
  BY <1>1, <1>2, <1>9, <1>10

(* One event for each of some parts. *)
LEMMA EachTells ==
  ASSUME NEW type \in Opened \cup {"call_done"}, NEW parts \in Seq(Parts)
  PROVE  /\ Each(type, parts) \in Seq(Event) /\ Len(Each(type, parts)) = Len(parts)
         /\ \A k \in 1..Len(parts) : Each(type, parts)[k].type = type
         /\ Told(type, Each(type, parts)) = parts
<1> DEFINE s == Each(type, parts)
<1>1. DOMAIN parts = 1..Len(parts) /\ Len(parts) \in Nat
  OBVIOUS
<1>2. ASSUME NEW k \in 1..Len(parts)
      PROVE  s[k] \in Event /\ s[k].type = type /\ s[k].parts = <<parts[k]>>
  <2>1. s[k] = [type |-> type, parts |-> <<parts[k]>>]
    BY <1>1 DEF Each
  <2>2. parts[k] \in Parts
    OBVIOUS
  <2>3. <<parts[k]>> \in Seq(Parts)
    BY <2>2
  <2>4. PICK p \in Seq(Parts) : p = <<parts[k]>>
    BY <2>3
  <2>5. [type |-> type, parts |-> p] \in Event
    BY SaidEvent
  <2>6. QED
    BY <2>1, <2>4, <2>5
<1>3. s = [k \in 1..Len(parts) |-> s[k]]
  BY <1>1 DEF Each
<1> HIDE DEF s
<1>4. s \in Seq(Event) /\ Len(s) = Len(parts) /\ DOMAIN s = 1..Len(parts)
  BY <1>1, <1>2, <1>3, SequenceOf
<1>5. [k \in DOMAIN s |-> IF s[k].type = type THEN s[k].parts ELSE <<>>]
        = [k \in DOMAIN parts |-> <<parts[k]>>]
  BY <1>1, <1>2, <1>4
<1>6. FlattenSeq([k \in DOMAIN parts |-> <<parts[k]>>]) = parts
  BY FlattenSingles
<1>7. Told(type, s) = parts
  BY <1>5, <1>6 DEF Told
<1>8. QED
  BY <1>2, <1>4, <1>7 DEF s

(* Events that do not begin the item again. *)
LEMMA BegunAfter ==
  ASSUME NEW added, NEW delta, NEW open \in BOOLEAN,
         NEW events \in Seq(Event), NEW more \in Seq(Event),
         Begun(added, delta, open, events), At(added, more) = {},
         At(delta, more) # {} => open
  PROVE  Begun(added, delta, open, events \o more)
<1>1. /\ Len(events) \in Nat
      /\ At(added, events \o more) = At(added, events)
      /\ At(added, events) \subseteq 1..Len(events)
  <2>1. /\ At(added, events \o more)
             = At(added, events) \cup {Len(events) + k : k \in At(added, more)}
        /\ Len(events) \in Nat /\ At(added, events) \subseteq 1..Len(events)
    BY AtBoth
  <2>2. QED
    BY <2>1
<1>2. ASSUME NEW j \in At(delta, events \o more) PROVE \E k \in At(added, events) : k < j
  <2>1. /\ At(delta, events \o more)
             = At(delta, events) \cup {Len(events) + k : k \in At(delta, more)}
        /\ At(delta, more) \subseteq 1..Len(more) /\ Len(more) \in Nat
    BY AtBoth
  <2>2. CASE j \in At(delta, events)
    BY <2>2 DEF Begun
  <2>3. CASE j \notin At(delta, events)
    <3>1. PICK l \in At(delta, more) : j = Len(events) + l
      BY <1>2, <2>1, <2>3
    <3>2. PICK k \in At(added, events) : TRUE
      BY <3>1 DEF Begun
    <3>3. k \in 1..Len(events) /\ l \in 1..Len(more)
      BY <1>1, <2>1, <3>1, <3>2
    <3>4. k < j
      BY <1>1, <2>1, <3>1, <3>3
    <3>5. QED
      BY <3>2, <3>4
  <2>4. QED
    BY <2>2, <2>3
<1>3. QED
  BY <1>1, <1>2 DEF Begun

(* All events of two sequences are of some types. *)
LEMMA AllOfBoth ==
  ASSUME NEW types, NEW a \in Seq(Event), NEW b \in Seq(Event),
         AllOf(types, a), AllOf(types, b)
  PROVE  AllOf(types, a \o b)
<1>1. SUFFICES ASSUME NEW k \in DOMAIN (a \o b) PROVE (a \o b)[k].type \in types
  BY DEF AllOf
<1>2. Len(a) \in Nat /\ Len(b) \in Nat /\ k \in 1..(Len(a) + Len(b))
  OBVIOUS
<1>3. CASE k <= Len(a)
  <2>1. k \in DOMAIN a /\ (a \o b)[k] = a[k]
    BY <1>2, <1>3
  <2>2. QED
    BY <2>1 DEF AllOf
<1>4. CASE ~(k <= Len(a))
  <2>1. k - Len(a) \in DOMAIN b /\ (a \o b)[k] = b[k - Len(a)]
    BY <1>2, <1>4
  <2>2. QED
    BY <2>1 DEF AllOf
<1>5. QED
  BY <1>3, <1>4

(* Deferred text that is restored goes out fragment by fragment. *)
LEMMA RestoreTells ==
  ASSUME NEW a, NEW base \in Seq(Event), Tells(a, base)
  PROVE  /\ Tells(Restore(a), base)
         /\ Restore(a).acc = [a.acc EXCEPT !.text = a.acc.text \o a.acc.deferred,
                                           !.deferred = <<>>]
<1> DEFINE parts == a.acc.deferred
           more == a.acc.text \o parts
           c == [a.acc EXCEPT !.text = more, !.deferred = <<>>]
<1>0. /\ a \in Running /\ a.acc \in Accum /\ a.events \in Seq(Event)
      /\ a.acc.text \in Seq(Positions) /\ parts \in Seq(Positions) /\ more \in Seq(Positions)
  <2>1. a \in Running /\ a.acc \in Accum /\ a.events \in Seq(Event)
    BY DEF Tells, Running
  <2>2. a.acc.text \in Seq(Positions) /\ parts \in Seq(Positions)
    BY <2>1, AccumType
  <2> HIDE DEF parts
  <2>3. QED
    BY <2>1, <2>2
<1>1. CASE parts = <<>>
  <2>1. more = a.acc.text
    BY <1>0, <1>1
  <2>2. c = a.acc
    <3> HIDE DEF more
    <3>1. QED
      BY <1>0, <1>1, <2>1, AccumType DEF Accum
  <2>3. Restore(a) = a
    BY <1>1 DEF Restore
  <2>4. QED
    BY <2>2, <2>3
<1>2. CASE parts # <<>>
  <2> DEFINE b == IF a.acc.text = <<>> THEN Say(a, "msg_added", <<>>) ELSE a
             told == Each("msg_delta", parts)
             E == base \o b.events
             d == [b EXCEPT !.events = b.events \o told]
  <2>1. /\ b \in Running /\ b.acc = a.acc /\ AllOf(Opened, b.events) /\ b.events \in Seq(Event)
        /\ E \in Seq(Event)
        /\ Begun("msg_added", "msg_delta", TRUE, E)
        /\ Begun("rsn_added", "rsn_delta", a.acc.rtext # <<>>, E)
        /\ Told("msg_delta", E) = a.acc.text
        /\ Told("rsn_delta", E) \o a.acc.rpending = a.acc.rtext
    BY BegunMsg DEF E
  <2>2. /\ told \in Seq(Event) /\ Told("msg_delta", told) = parts
        /\ Len(told) = Len(parts) /\ \A k \in 1..Len(parts) : told[k].type = "msg_delta"
    <3>1. PICK p \in Seq(Parts) : p = parts
      <4>1. parts \in Seq(Parts)
        BY <1>0, Widened DEF Parts
      <4>2. QED
        BY <4>1
    <3>2. PICK type \in Opened \cup {"call_done"} : type = "msg_delta"
      BY DEF Opened
    <3>3. /\ Each(type, p) \in Seq(Event) /\ Len(Each(type, p)) = Len(p)
          /\ \A k \in 1..Len(p) : Each(type, p)[k].type = type
          /\ Told(type, Each(type, p)) = p
      BY EachTells
    <3>4. QED
      BY <3>1, <3>2, <3>3
  <2>3. /\ c \in Accum /\ c.text = more /\ c.rtext = a.acc.rtext
        /\ c.rpending = a.acc.rpending
    <3>1. <<>> \in Seq(Positions)
      OBVIOUS
    <3> HIDE DEF more
    <3>2. c \in Accum
      BY <1>0, <3>1 DEF Accum
    <3>3. c.text = more /\ c.rtext = a.acc.rtext /\ c.rpending = a.acc.rpending
      BY <1>0 DEF Accum
    <3>4. QED
      BY <3>2, <3>3
  <2>4. Restore(a) = [d EXCEPT !.acc = c]
    <3>1. Restore(a) = [b EXCEPT !.events = @ \o Each("msg_delta", parts),
                                 !.acc.text = @ \o parts, !.acc.deferred = <<>>]
      BY <1>2 DEF Restore
    <3> HIDE DEF b, parts
    <3>2. b = [acc |-> a.acc, events |-> b.events]
      BY <2>1 DEF Running
    <3>3. QED
      BY <1>0, <2>1, <3>1, <3>2 DEF Accum
  <2> HIDE DEF b, E, told, c, more
  <2>5. /\ At("msg_added", told) = {} /\ At("rsn_added", told) = {} /\ At("rsn_delta", told) = {}
        /\ AllOf(Opened, told)
    <3>1. DOMAIN told = 1..Len(parts)
      BY <2>2
    <3>2. QED
      BY <2>2, <3>1 DEF At, AllOf, Opened
  <2>6. /\ b.events \o told \in Seq(Event) /\ base \o (b.events \o told) = E \o told
        /\ E \o told \in Seq(Event)
    <3>1. PICK u \in Seq(Event), w \in Seq(Event) : u = b.events /\ w = told
      BY <2>1, <2>2
    <3>2. u \o w \in Seq(Event)
      OBVIOUS
    <3>3. Associates(base, u, w)
      BY Chained
    <3>4. E = base \o u /\ E \o w \in Seq(Event)
      BY <2>1, <3>1 DEF E
    <3>5. QED
      BY <3>1, <3>2, <3>3, <3>4 DEF Associates
  <2>7. d \in Running /\ d.acc = a.acc /\ d.events = b.events \o told
    BY <2>1, <2>6 DEF Running
  <2> HIDE DEF d
  <2>8. Restore(a) \in Running /\ Restore(a).acc = c /\ Restore(a).events = b.events \o told
    BY <2>3, <2>4, <2>7, AccSet
  <2>9. AllOf(Opened, b.events \o told)
    BY <2>1, <2>2, <2>5, AllOfBoth
  <2>10. Agrees(c, E \o told)
    <3>0. PICK u \in Seq(Event), w \in Seq(Event) : u = E /\ w = told
      BY <2>1, <2>2
    <3>1. more # <<>>
      BY <1>0, <1>2, NotEmpty DEF more
    <3>2. Begun("msg_added", "msg_delta", TRUE, u \o w)
      <4>1. Begun("msg_added", "msg_delta", TRUE, u) /\ At("msg_added", w) = {}
        BY <2>1, <2>5, <3>0
      <4>2. QED
        BY <4>1, BegunAfter
    <3>3. Begun("rsn_added", "rsn_delta", a.acc.rtext # <<>>, u \o w)
      <4>1. PICK open \in BOOLEAN : open = (a.acc.rtext # <<>>)
        OBVIOUS
      <4>2. /\ Begun("rsn_added", "rsn_delta", open, u)
            /\ At("rsn_added", w) = {} /\ At("rsn_delta", w) = {}
        BY <2>1, <2>5, <3>0, <4>1
      <4>3. Begun("rsn_added", "rsn_delta", open, u \o w)
        BY <4>2, BegunAfter
      <4>4. QED
        BY <4>1, <4>3
    <3>4. Told("msg_delta", u \o w) = Told("msg_delta", u) \o Told("msg_delta", w)
      BY ToldBoth
    <3>5. Told("rsn_delta", u \o w) = Told("rsn_delta", u)
      <4>1. /\ Told("rsn_delta", u \o w) = Told("rsn_delta", u) \o Told("rsn_delta", w)
            /\ Told("rsn_delta", u) \in Seq(Parts)
        BY ToldBoth
      <4>2. Told("rsn_delta", w) = <<>>
        BY <2>5, <3>0, ToldNothing
      <4>3. PICK s \in Seq(Parts) : s = Told("rsn_delta", u)
        BY <4>1
      <4>4. s \o <<>> = s
        OBVIOUS
      <4>5. QED
        BY <4>1, <4>2, <4>3, <4>4
    <3>6. Told("msg_delta", u \o w) = more
      BY <2>1, <2>2, <3>0, <3>4 DEF more
    <3>7. QED
      BY <2>1, <2>3, <3>0, <3>1, <3>2, <3>3, <3>5, <3>6 DEF Agrees
  <2>11. QED
    BY <2>6, <2>8, <2>9, <2>10 DEF Tells, c, more
<1>3. QED
  BY <1>1, <1>2

\* Nothing is held back of the text of a stream that has ended.
TextDone(c) == c.edge = <<>> /\ c.deferred = <<>>

\* What is shown of the text once a native call was made.
NoDuplicates(c, m, chunks) ==
  suppress /\ c.native => ToSet(c.text) \subseteq OfKind({"plain", "prefix"}, m, chunks)

(* The tail of the sanitizer holds back but what may be left out. *)
LEMMA EdgeGone ==
  ASSUME NEW c \in Accum, NEW d, NEW m \in Nat, NEW chunks, Holds(c, m, chunks),
         suppress, c.native, d.native = c.native,
         d.text = c.text, d.edge = <<>>, d.deferred = c.deferred
  PROVE  TextKept(d, m, chunks) /\ d.deferred = <<>>
<1>1. /\ c.deferred = <<>> /\ ToSet(c.edge) \subseteq OfKind({"prefix"}, m, chunks)
      /\ TextKept(c, m, chunks)
  BY DEF Holds, TextShape, Sane
<1>2. c.text \in Seq(Nat) /\ c.edge \in Seq(Nat) /\ c.edge \o c.deferred = c.edge
  BY <1>1, NoneWaits
<1>3. SUFFICES ASSUME NEW X, Covers(X, m, chunks)
               PROVE  Less(d.text \o (d.edge \o d.deferred), X) = Less(TextsTo(m, chunks), X)
  BY <1>1 DEF TextKept
<1>4. Less(c.text \o c.edge, X) = Less(TextsTo(m, chunks), X)
  BY <1>1, <1>2, <1>3 DEF TextKept
<1>5. PICK x \in Seq(Nat), y \in Seq(Nat) : x = c.text /\ y = c.edge
  BY <1>2
<1>6. ToSet(y) \subseteq X
  <2>1. OfKind({"prefix"}, m, chunks) \subseteq X
    BY <1>3 DEF Covers, OfKind
  <2>2. QED
    BY <1>1, <1>5, <2>1
<1>7. Less(y, X) = <<>>
  BY <1>6, LessGone
<1>8. Less(x \o y, X) = Less(x, X) \o Less(y, X) /\ Less(x, X) \in Seq(Nat)
  BY LessBoth
<1>9. PICK l \in Seq(Nat) : l = Less(x, X)
  BY <1>8
<1>10. l \o <<>> = l /\ x \o <<>> = x /\ <<>> \o <<>> = <<>>
  OBVIOUS
<1>11. QED
  BY <1>1, <1>4, <1>5, <1>7, <1>8, <1>9, <1>10

(* finalize_tool_markup_content *)
LEMMA FinalizeTells ==
  ASSUME NEW a, NEW base \in Seq(Event), Tells(a, base), NEW m \in Nat, NEW chunks,
         Holds(a.acc, m, chunks)
  PROVE  /\ Tells(Finalize(a), base)
         /\ TextKept(Finalize(a).acc, m, chunks) /\ TextDone(Finalize(a).acc)
         /\ NoDuplicates(Finalize(a).acc, m, chunks)
         /\ SameRest(a.acc, Finalize(a).acc) /\ Finalize(a).acc.native = a.acc.native
         /\ Finalize(a).acc.rtext = a.acc.rtext /\ Finalize(a).acc.rpending = a.acc.rpending
<1> DEFINE c == a.acc
<1>0. a \in Running /\ c \in Accum /\ a.events \in Seq(Event) /\ c.native \in BOOLEAN
  <2>1. a \in Running /\ c \in Accum /\ a.events \in Seq(Event)
    BY DEF Tells, Running
  <2>2. QED
    BY <2>1, AccumType
<1>1. CASE ~suppress
  <2>1. Finalize(a) = a
    BY <1>1 DEF Finalize
  <2>2. TextDone(c)
    BY <1>1 DEF TextDone, Holds, TextShape
  <2>3. QED
    BY <1>1, <2>1, <2>2 DEF Holds, NoDuplicates, SameRest, SameCalls
<1>2. CASE suppress /\ c.native
  <2> DEFINE d == [c EXCEPT !.edge = <<>>, !.inside = FALSE]
  <2>1. /\ d \in Accum /\ d.edge = <<>> /\ d.text = c.text /\ d.deferred = c.deferred
        /\ d.native = c.native /\ SameRest(c, d) /\ d.rtext = c.rtext /\ d.rpending = c.rpending
    <3>1. <<>> \in Seq(Positions)
      OBVIOUS
    <3>2. d \in Accum
      BY <1>0, <3>1 DEF Accum
    <3>3. /\ d.edge = <<>> /\ d.text = c.text /\ d.deferred = c.deferred
          /\ d.native = c.native /\ SameRest(c, d) /\ d.rtext = c.rtext /\ d.rpending = c.rpending
      BY <1>0 DEF Accum, SameRest, SameCalls
    <3>4. QED
      BY <3>2, <3>3
  <2>2. Finalize(a) = [a EXCEPT !.acc = d]
    <3>1. Finalize(a) = [a EXCEPT !.acc.edge = <<>>, !.acc.inside = FALSE]
      BY <1>2 DEF Finalize
    <3>2. QED
      BY <1>0, <3>1 DEF Running, Accum
  <2> HIDE DEF d
  <2>3. Finalize(a) \in Running /\ Finalize(a).acc = d /\ Finalize(a).events = a.events
    BY <1>0, <2>1, <2>2, AccSet
  <2>4. TextKept(d, m, chunks) /\ d.deferred = <<>>
    BY <1>0, <1>2, <2>1, EdgeGone
  <2>5. NoDuplicates(d, m, chunks)
    BY <2>1 DEF NoDuplicates, Holds, TextShape
  <2>6. Agrees(d, base \o a.events)
    BY <2>1 DEF Tells, Agrees
  <2>7. QED
    BY <2>1, <2>3, <2>4, <2>5, <2>6 DEF Tells, TextDone
<1>3. CASE suppress /\ ~c.native
  <2> DEFINE d == [c EXCEPT !.text = c.text \o c.deferred, !.deferred = <<>>]
  <2>1. Finalize(a) = Restore(a)
    BY <1>3 DEF Finalize
  <2>2. Tells(Restore(a), base) /\ Restore(a).acc = d
    BY RestoreTells
  <2>3. /\ d.text = c.text \o c.deferred /\ d.deferred = <<>> /\ d.edge = c.edge
        /\ d.native = c.native /\ SameRest(c, d) /\ d.rtext = c.rtext /\ d.rpending = c.rpending
    BY <1>0 DEF Accum, SameRest, SameCalls
  <2> HIDE DEF d
  <2>4. c.edge = <<>>
    BY <1>3 DEF Holds, TextShape
  <2>5. d.text \o (d.edge \o d.deferred) = c.text \o (c.edge \o c.deferred)
    <3>1. c.text \in Seq(Nat) /\ c.deferred \in Seq(Nat) /\ c.edge \o c.deferred = c.deferred
      BY <1>0, <2>4, NoneWaits
    <3>2. PICK x \in Seq(Nat), y \in Seq(Nat) : x = c.text /\ y = c.deferred
      BY <3>1
    <3>3. (x \o y) \o (<<>> \o <<>>) = x \o y
      OBVIOUS
    <3>4. QED
      BY <2>3, <2>4, <3>1, <3>2, <3>3
  <2>6. TextKept(d, m, chunks)
    BY <2>3, <2>5 DEF Holds, TextKept
  <2>7. QED
    BY <1>3, <2>1, <2>2, <2>3, <2>4, <2>6 DEF TextDone, NoDuplicates
<1>4. QED
  BY <1>0, <1>1, <1>2, <1>3

(* The named calls, in order. *)
LEMMA NamedType ==
  ASSUME acc \in Accum
  PROVE  NamedSlots \in Seq(Slots)
<1> DEFINE ss == [s \in Slots |-> IF acc.calls[s] = "named" THEN <<s>> ELSE <<>>]
<1>1. NumSlots \in Nat /\ Slots = 1..NumSlots
  BY Constants DEF Slots
<1>2. ASSUME NEW s \in Slots PROVE ss[s] \in Seq(Slots)
  <2>1. <<>> \in Seq(Slots) /\ <<s>> \in Seq(Slots)
    OBVIOUS
  <2>2. QED
    BY <2>1
<1>3. ss = [s \in 1..NumSlots |-> ss[s]]
  BY <1>1
<1>4. NamedSlots = FlattenSeq(ss)
  BY DEF NamedSlots
<1> HIDE DEF ss
<1>5. ss \in Seq(Seq(Slots))
  BY <1>1, <1>2, <1>3, SequenceOf
<1>6. FlattenSeq(ss) \in Seq(Slots)
  <2>1. PICK S : S = Slots
    OBVIOUS
  <2>2. PICK tt \in Seq(Seq(S)) : tt = ss
    BY <1>5, <2>1
  <2>3. FlattenSeq(tt) \in Seq(S)
    BY FlattenConcat
  <2>4. QED
    BY <2>1, <2>2, <2>3
<1>7. QED
  BY <1>4, <1>6

Silent(c) == [c EXCEPT !.rpending = <<>>]

Failed == <<[type |-> "failed", parts |-> <<>>]>>

\* An item that holds something is done at the end.
DoneEvents(type, held) == IF held = <<>> THEN <<>> ELSE <<[type |-> type, parts |-> held]>>
RsnDone(c) == DoneEvents("rsn_done", c.rtext)
MsgDone(c) == DoneEvents("msg_done", c.text)

\* What is told at the end of a response, after all of its deltas.
Finished(c, slots) ==
  Append(Append((RsnDone(c) \o MsgDone(c)) \o Each("call_done", slots),
                [type |-> "completed", parts |-> <<>>]), [type |-> "done", parts |-> <<>>])

\* The last events of a stream are what was still to be told, and then tail.
Ended(a, base, told, tail) ==
  /\ told \in Seq(Event) /\ tail \in Seq(Event) /\ a.events = told \o tail /\ a.acc \in Accum
  /\ AllOf(Opened, told) /\ Agrees(Silent(a.acc), base \o told)

\* What is left in the accumulator then.
Settled(c, d, m, chunks) ==
  /\ TextKept(d, m, chunks) /\ TextDone(d) /\ NoDuplicates(d, m, chunks)
  /\ SameRest(c, d) /\ d.native = c.native /\ d.rtext = c.rtext
  /\ d.rpending \in {c.rpending, <<>>}

(* What Agrees looks at. *)
LEMMA SilentAgrees ==
  ASSUME NEW c \in Accum, NEW d \in Accum, d.text = c.text, d.rtext = c.rtext,
         d.rpending = <<>>, NEW events, Agrees(d, events)
  PROVE  Agrees(Silent(c), events)
<1>1. Silent(c).text = c.text /\ Silent(c).rtext = c.rtext /\ Silent(c).rpending = <<>>
  BY DEF Accum, Silent
<1>2. QED
  BY <1>1 DEF Agrees

(* failure_events, and response.failed *)
LEMMA FailureTells ==
  ASSUME acc \in Accum, NEW base \in Seq(Event), Agrees(acc, base),
         NEW m \in Nat, NEW chunks, Holds(acc, m, chunks)
  PROVE  /\ \E told : Ended(Failure, base, told, Failed)
         /\ Settled(acc, Failure.acc, m, chunks)
<1> DEFINE a == [acc |-> acc, events |-> <<>>]
           f == FlushReasoning(a)
           g == Finalize(f)
<1>1. Tells(a, base) /\ a.acc = acc
  <2>1. <<>> \in Seq(Event) /\ base \o <<>> = base
    OBVIOUS
  <2>2. a \in Running
    BY <2>1 DEF Running
  <2>3. AllOf(Opened, <<>>)
    BY DEF AllOf
  <2>4. QED
    BY <2>1, <2>2, <2>3 DEF Tells
<1>2. Failure = Say(g, "failed", <<>>)
  BY DEF Failure
<1> HIDE DEF a
<1>3. /\ Tells(f, base) /\ SameText(acc, f.acc) /\ SameRest(acc, f.acc)
      /\ f.acc.rtext = acc.rtext /\ f.acc.rpending = <<>>
  <2>1. Tells(f, base)
    BY <1>1, FlushTells
  <2>2. /\ SameText(a.acc, f.acc) /\ SameRest(a.acc, f.acc)
        /\ f.acc.rtext = a.acc.rtext /\ f.acc.rpending = <<>>
    BY <1>1, FlushSame
  <2>3. QED
    BY <1>1, <2>1, <2>2
<1> HIDE DEF f
<1>4. Holds(f.acc, m, chunks)
  BY <1>3, SameTextKept DEF Holds
<1>5. /\ Tells(g, base)
      /\ TextKept(g.acc, m, chunks) /\ TextDone(g.acc)
      /\ NoDuplicates(g.acc, m, chunks)
      /\ SameRest(f.acc, g.acc) /\ g.acc.native = f.acc.native
      /\ g.acc.rtext = f.acc.rtext /\ g.acc.rpending = f.acc.rpending
  BY <1>3, <1>4, FinalizeTells
<1> HIDE DEF g
<1>6. g \in Running /\ g.acc \in Accum /\ g.events \in Seq(Event)
      /\ AllOf(Opened, g.events) /\ Agrees(g.acc, base \o g.events)
  BY <1>5 DEF Tells, Running
<1>7. Settled(acc, g.acc, m, chunks)
  BY <1>3, <1>5 DEF Settled, SameRest, SameCalls, SameText
<1>8. PICK e \in Event : e = [type |-> "failed", parts |-> <<>>]
  <2>1. <<>> \in Seq(Parts)
    OBVIOUS
  <2>2. QED
    BY <2>1, SaidEvent
<1>9. /\ Failure.acc = g.acc /\ Failure.events = Append(g.events, e)
  BY <1>2, <1>6, <1>8, SayAdds
<1>10. Append(g.events, e) = g.events \o <<e>> /\ <<e>> \in Seq(Event)
  BY <1>6
<1>11. Agrees(Silent(g.acc), base \o g.events)
  BY <1>3, <1>5, <1>6, SilentAgrees
<1>12. Ended(Failure, base, g.events, Failed)
  BY <1>6, <1>8, <1>9, <1>10, <1>11 DEF Ended, Failed
<1>13. QED
  BY <1>7, <1>9, <1>12

DoneItem(a, type, held) == IF held = <<>> THEN a ELSE Say(a, type, held)

(* What is done at the end of an item, if it holds anything. *)
LEMMA DoneTold ==
  ASSUME NEW a \in Running, NEW type \in {"rsn_done", "msg_done"},
         NEW held \in Seq(Positions)
  PROVE  /\ DoneItem(a, type, held) \in Running /\ DoneItem(a, type, held).acc = a.acc
         /\ DoneEvents(type, held) \in Seq(Event)
         /\ DoneItem(a, type, held).events = a.events \o DoneEvents(type, held)
<1> USE DEF DoneItem, DoneEvents
<1>0. a.events \in Seq(Event) /\ a.acc \in Accum
  BY DEF Running
<1>1. CASE held = <<>>
  <2>1. <<>> \in Seq(Event) /\ a.events \o <<>> = a.events
    BY <1>0
  <2>2. QED
    BY <1>1, <2>1
<1>2. CASE held # <<>>
  <2>1. held \in Seq(Parts)
    BY Widened DEF Parts
  <2>2. PICK e \in Event : e = [type |-> type, parts |-> held]
    BY <2>1, SaidEvent
  <2>3. Say(a, type, held) \in Running /\ Say(a, type, held).acc = a.acc
        /\ Say(a, type, held).events = Append(a.events, e)
    BY <1>2, <2>2, SayAdds
  <2>4. Append(a.events, e) = a.events \o <<e>> /\ <<e>> \in Seq(Event)
    BY <1>0
  <2>5. QED
    BY <1>2, <2>2, <2>3, <2>4
<1>3. QED
  BY <1>1, <1>2

\* Told one after the other, or t and then all the rest.
Regrouped(t, r, s, c, x, y) ==
  /\ Append(Append(((t \o r) \o s) \o c, x), y) = t \o Append(Append((r \o s) \o c, x), y)
  /\ Append(Append((r \o s) \o c, x), y) \in Seq(Event)

(* The five parts of what finish tells. *)
LEMMA ToldInTurn ==
  ASSUME NEW t \in Seq(Event), NEW r \in Seq(Event), NEW s \in Seq(Event), NEW c \in Seq(Event),
         NEW x \in Event, NEW y \in Event
  PROVE  Regrouped(t, r, s, c, x, y)
<1>1. r \o s \in Seq(Event) /\ t \o r \in Seq(Event)
  OBVIOUS
<1>2. PICK rs \in Seq(Event) : rs = r \o s
  BY <1>1
<1>3. (t \o r) \o s = t \o rs
  <2>1. Associates(t, r, s)
    BY Chained
  <2>2. QED
    BY <1>2, <2>1 DEF Associates
<1>4. rs \o c \in Seq(Event)
  OBVIOUS
<1>5. PICK rsc \in Seq(Event) : rsc = rs \o c
  BY <1>4
<1>6. (t \o rs) \o c = t \o rsc
  <2>1. Associates(t, rs, c)
    BY Chained
  <2>2. QED
    BY <1>5, <2>1 DEF Associates
<1>7. Append(rsc, x) \in Seq(Event) /\ t \o Append(rsc, x) = Append(t \o rsc, x)
  BY MoreEvents
<1>8. PICK u \in Seq(Event) : u = Append(rsc, x)
  BY <1>7
<1>9. Append(u, y) \in Seq(Event) /\ t \o Append(u, y) = Append(t \o u, y)
  BY MoreEvents
<1>10. QED
  BY <1>2, <1>3, <1>5, <1>6, <1>7, <1>8, <1>9 DEF Regrouped

(* finish *)
LEMMA FinishTells ==
  ASSUME acc \in Accum, NEW base \in Seq(Event), Agrees(acc, base),
         NEW m \in Nat, NEW chunks, Holds(acc, m, chunks)
  PROVE  /\ \E told : Ended(Finish, base, told, Finished(Finish.acc, NamedSlots))
         /\ Settled(acc, Finish.acc, m, chunks)
<1> DEFINE a == [acc |-> acc, events |-> <<>>]
           f == Finalize(a)
           g == FlushReasoning(f)
           p == PendingReasoning(f)
           rsn == IF acc.rtext = <<>> THEN p ELSE Say(p, "rsn_done", acc.rtext)
           msg == IF rsn.acc.text = <<>> THEN rsn ELSE Say(rsn, "msg_done", rsn.acc.text)
           calls == [msg EXCEPT !.events = @ \o Each("call_done", NamedSlots)]
           d == f.acc
<1>1. Tells(a, base) /\ a.acc = acc
  <2>1. <<>> \in Seq(Event) /\ base \o <<>> = base
    OBVIOUS
  <2>2. a \in Running
    BY <2>1 DEF Running
  <2>3. AllOf(Opened, <<>>)
    BY DEF AllOf
  <2>4. QED
    BY <2>1, <2>2, <2>3 DEF Tells
<1>2. Finish = Say(Say(calls, "completed", <<>>), "done", <<>>)
  BY DEF Finish
<1> HIDE DEF a
<1>3. /\ Tells(f, base)
      /\ TextKept(d, m, chunks) /\ TextDone(d)
      /\ NoDuplicates(d, m, chunks)
      /\ SameRest(acc, d) /\ d.native = acc.native
      /\ d.rtext = acc.rtext /\ d.rpending = acc.rpending
  BY <1>1, FinalizeTells
<1> HIDE DEF f, d
<1>4. /\ f \in Running /\ d \in Accum /\ f.events \in Seq(Event)
      /\ d.rtext \in Seq(Positions) /\ d.rpending \in Seq(Positions) /\ d.text \in Seq(Positions)
  <2>1. f \in Running /\ d \in Accum /\ f.events \in Seq(Event)
    BY <1>3 DEF Tells, Running, d
  <2>2. QED
    BY <2>1, AccumType
<1>5. /\ g \in Running /\ g.acc \in Accum /\ g.events \in Seq(Event)
      /\ AllOf(Opened, g.events) /\ Agrees(g.acc, base \o g.events)
      /\ g.acc = [d EXCEPT !.rpending = <<>>]
  <2>1. Tells(g, base) /\ g.acc = [d EXCEPT !.rpending = <<>>]
    BY <1>3, FlushTells DEF d
  <2>2. QED
    BY <2>1 DEF Tells, Running
<1>6. p \in Running /\ p.acc = d /\ p.events = g.events
  <2>1. CASE d.rpending = <<>>
    <3>1. p = f /\ g = f
      BY <2>1 DEF PendingReasoning, FlushReasoning, d
    <3>2. QED
      BY <1>4, <3>1 DEF d
  <2>2. CASE d.rpending # <<>>
    <3> DEFINE s == Say(f, "rsn_delta", d.rpending)
    <3>1. d.rpending \in Seq(Parts)
      BY <1>4, Widened DEF Parts
    <3>2. PICK e \in Event : e = [type |-> "rsn_delta", parts |-> d.rpending]
      BY <3>1, SaidEvent DEF Opened
    <3>3. s \in Running /\ s.acc = d /\ s.events = Append(f.events, e)
      BY <1>4, <3>2, SayAdds DEF d
    <3>4. p = s
      BY <2>2 DEF PendingReasoning, d
    <3>5. g.events = s.events
      <4>1. g = [s EXCEPT !.acc.rpending = <<>>]
        BY <2>2 DEF FlushReasoning, d
      <4> HIDE DEF s, g
      <4>2. QED
        BY <3>3, <4>1 DEF Running
    <3>6. QED
      BY <3>3, <3>4, <3>5
  <2>3. QED
    BY <2>1, <2>2
<1> HIDE DEF g, p
<1>7. /\ rsn \in Running /\ rsn.acc = d /\ RsnDone(d) \in Seq(Event)
      /\ rsn.events = g.events \o RsnDone(d)
  <2>1. PICK type \in {"rsn_done", "msg_done"}, held \in Seq(Positions), q \in Running :
          type = "rsn_done" /\ held = d.rtext /\ q = p
    BY <1>4, <1>6
  <2>2. /\ DoneItem(q, type, held) \in Running /\ DoneItem(q, type, held).acc = q.acc
        /\ DoneEvents(type, held) \in Seq(Event)
        /\ DoneItem(q, type, held).events = q.events \o DoneEvents(type, held)
    BY DoneTold
  <2>3. rsn = DoneItem(q, type, held)
    BY <1>3, <1>6, <2>1 DEF DoneItem
  <2>4. RsnDone(d) = DoneEvents(type, held)
    BY <2>1 DEF RsnDone
  <2> HIDE DEF rsn
  <2>5. QED
    BY <1>6, <2>1, <2>2, <2>3, <2>4
<1> HIDE DEF rsn
<1>8. /\ msg \in Running /\ msg.acc = d /\ MsgDone(d) \in Seq(Event)
      /\ msg.events = (g.events \o RsnDone(d)) \o MsgDone(d)
  <2>1. PICK type \in {"rsn_done", "msg_done"}, held \in Seq(Positions), q \in Running :
          type = "msg_done" /\ held = d.text /\ q = rsn
    BY <1>4, <1>7
  <2>2. /\ DoneItem(q, type, held) \in Running /\ DoneItem(q, type, held).acc = q.acc
        /\ DoneEvents(type, held) \in Seq(Event)
        /\ DoneItem(q, type, held).events = q.events \o DoneEvents(type, held)
    BY DoneTold
  <2>3. msg = DoneItem(q, type, held)
    BY <1>3, <1>7, <2>1 DEF DoneItem
  <2>4. MsgDone(d) = DoneEvents(type, held)
    BY <2>1 DEF MsgDone
  <2> HIDE DEF msg
  <2>5. QED
    BY <1>7, <2>1, <2>2, <2>3, <2>4
<1> HIDE DEF msg
<1>9. Each("call_done", NamedSlots) \in Seq(Event)
  <2>1. NamedSlots \in Seq(Slots)
    BY NamedType
  <2>2. NamedSlots \in Seq(Parts)
    BY <2>1, Widened DEF Parts
  <2>3. PICK type \in Opened \cup {"call_done"}, parts \in Seq(Parts) :
          type = "call_done" /\ parts = NamedSlots
    BY <2>2
  <2>4. Each(type, parts) \in Seq(Event)
    BY EachTells
  <2>5. QED
    BY <2>3, <2>4
<1>10. PICK t \in Seq(Event), r \in Seq(Event), s \in Seq(Event), c \in Seq(Event) :
         /\ t = g.events /\ r = RsnDone(d) /\ s = MsgDone(d)
         /\ c = Each("call_done", NamedSlots)
  BY <1>5, <1>7, <1>8, <1>9
<1>11. PICK x \in Event, y \in Event :
         x = [type |-> "completed", parts |-> <<>>] /\ y = [type |-> "done", parts |-> <<>>]
  <2>1. <<>> \in Seq(Parts)
    OBVIOUS
  <2>2. PICK n \in Seq(Parts) : n = <<>>
    BY <2>1
  <2>3. [type |-> "completed", parts |-> n] \in Event
    BY SaidEvent
  <2>4. [type |-> "done", parts |-> n] \in Event
    BY SaidEvent
  <2>5. QED
    BY <2>2, <2>3, <2>4
<1>12. /\ calls \in Running /\ calls.acc = d /\ calls.events = ((t \o r) \o s) \o c
  <2>1. (t \o r) \o s \in Seq(Event)
    BY <1>8, <1>10 DEF Running
  <2>2. PICK u \in Seq(Event) : u = (t \o r) \o s
    BY <2>1
  <2>3. msg \in Running /\ msg.acc = d /\ msg.events = u
    BY <1>8, <1>10, <2>2
  <2>4. calls = [msg EXCEPT !.events = @ \o c]
    BY <1>10
  <2>5. u \o c \in Seq(Event)
    OBVIOUS
  <2>6. calls \in Running /\ calls.acc = d /\ calls.events = u \o c
    <3> HIDE DEF calls
    <3>1. calls = [msg EXCEPT !.events = u \o c]
      BY <2>3, <2>4
    <3>2. PICK v \in Seq(Event) : v = u \o c
      BY <2>5
    <3>3. QED
      BY <1>4, <2>3, <3>1, <3>2 DEF Running
  <2>7. QED
    BY <2>2, <2>6
<1> HIDE DEF calls
<1>13. /\ Finish.acc = d
       /\ Finish.events = Append(Append(((t \o r) \o s) \o c, x), y)
  <2>1. PICK q \in Running : q = calls
    BY <1>12
  <2>2. /\ Say(q, "completed", <<>>) \in Running /\ Say(q, "completed", <<>>).acc = q.acc
        /\ Say(q, "completed", <<>>).events = Append(q.events, x)
    BY <1>11, SayAdds
  <2>3. PICK u \in Running : u = Say(q, "completed", <<>>)
    BY <2>2
  <2>4. Say(u, "done", <<>>).acc = u.acc /\ Say(u, "done", <<>>).events = Append(u.events, y)
    BY <1>11, SayAdds
  <2>5. QED
    BY <1>2, <1>12, <2>1, <2>2, <2>3, <2>4
<1>14. PICK tail \in Seq(Event) :
         tail = Finished(d, NamedSlots) /\ Finish.events = t \o tail
  <2>1. Regrouped(t, r, s, c, x, y)
    BY ToldInTurn
  <2>2. Finished(d, NamedSlots) = Append(Append((r \o s) \o c, x), y)
    BY <1>10, <1>11 DEF Finished
  <2>3. QED
    BY <1>13, <2>1, <2>2 DEF Regrouped
<1>15. Agrees(Silent(d), base \o t)
  <2>1. g.acc = Silent(d)
    BY <1>5 DEF Silent
  <2>2. QED
    BY <1>5, <1>10, <2>1
<1>16. Ended(Finish, base, t, Finished(Finish.acc, NamedSlots))
  BY <1>4, <1>5, <1>10, <1>13, <1>14, <1>15 DEF Ended
<1>17. Settled(acc, d, m, chunks)
  BY <1>3 DEF Settled
<1>18. QED
  BY <1>13, <1>16, <1>17

(* What holds of the first chunks still holds of them when one more came.  *)
LEMMA SeenSame ==
  ASSUME NEW m \in Nat, NEW s \in Seq(Shapes), NEW t \in Seq(Shapes),
         \A i \in 1..m : s[i] = t[i]
  PROVE  /\ TextsTo(m, t) = TextsTo(m, s)
         /\ \A X : Covers(X, m, t) <=> Covers(X, m, s)
         /\ \A c : Holds(c, m, s) => Holds(c, m, t)
<1>1. TextsTo(m, t) = TextsTo(m, s)
  <2>1. [i \in 1..m |-> IF s[i].content # "none" THEN <<i>> ELSE <<>>]
          = [i \in 1..m |-> IF t[i].content # "none" THEN <<i>> ELSE <<>>]
    OBVIOUS
  <2>2. QED
    BY <2>1 DEF TextsTo
<1>2. \A kinds : \A i \in 0..m : OfKind(kinds, i, t) = OfKind(kinds, i, s)
  BY DEF OfKind
<1>3. \A X : Covers(X, m, t) <=> Covers(X, m, s)
  <2>1. \A i \in 1..m : i - 1 \in 0..m
    OBVIOUS
  <2>2. QED
    BY <1>2, <2>1 DEF Covers
<1>4. ASSUME NEW c, Holds(c, m, s) PROVE Holds(c, m, t)
  <2>1. TextKept(c, m, t)
    BY <1>1, <1>3, <1>4 DEF Holds, TextKept
  <2>2. m \in 0..m /\ TextShape(c, m, s)
    BY <1>4 DEF Holds
  <2>3. TextShape(c, m, t)
    <3>1. \A kinds : OfKind(kinds, m, t) = OfKind(kinds, m, s)
      BY <1>2, <2>2
    <3>2. Sane(c, m, t) /\ Waits(c, m, t)
      BY <2>2, <3>1 DEF TextShape, Sane, Waits, InTurn
    <3>3. QED
      BY <2>2, <3>1, <3>2 DEF TextShape
  <2>4. QED
    BY <2>1, <2>3 DEF Holds
<1>5. QED
  BY <1>1, <1>3, <1>4

(* What a sequence was extended by is at its end. *)
LEMMA SuffixOfMore ==
  ASSUME NEW S, NEW s \in Seq(S), NEW t \in Seq(S)
  PROVE  IsSuffix(t, s \o t)
<1> DEFINE r == Reverse(t)
           q == Reverse(s \o t)
<1>1. /\ Len(s) \in Nat /\ Len(t) \in Nat /\ s \o t \in Seq(S)
      /\ Len(s \o t) = Len(s) + Len(t)
      /\ \A k \in 1..Len(t) : (s \o t)[Len(s) + k] = t[k] /\ t[k] \in S
      /\ \A k \in 1..Len(s) + Len(t) : (s \o t)[k] \in S
  OBVIOUS
<1>2. r = [i \in 1..Len(t) |-> t[(Len(t) - i) + 1]]
  BY DEF Reverse
<1>3. q = [i \in 1..Len(s) + Len(t) |-> (s \o t)[(Len(s) + Len(t) - i) + 1]]
  BY <1>1 DEF Reverse
<1> HIDE DEF r, q
<1>4. r \in Seq(S) /\ Len(r) = Len(t)
  <2>1. \A i \in 1..Len(t) : (Len(t) - i) + 1 \in 1..Len(t) /\ r[i] \in S
    BY <1>1, <1>2
  <2>2. r = [i \in 1..Len(t) |-> r[i]]
    BY <1>2
  <2>3. QED
    BY <1>1, <2>1, <2>2, SequenceOf
<1>5. q \in Seq(S) /\ Len(q) = Len(s) + Len(t)
  <2>1. \A i \in 1..Len(s) + Len(t) :
          (Len(s) + Len(t) - i) + 1 \in 1..Len(s) + Len(t) /\ q[i] \in S
    BY <1>1, <1>3
  <2>2. q = [i \in 1..Len(s) + Len(t) |-> q[i]]
    BY <1>3
  <2>3. PICK n \in Nat : n = Len(s) + Len(t)
    BY <1>1
  <2>4. QED
    BY <2>1, <2>2, <2>3, SequenceOf
<1>6. \A i \in 1..Len(t) : r[i] = q[i]
  <2>1. SUFFICES ASSUME NEW i \in 1..Len(t) PROVE r[i] = q[i]
    OBVIOUS
  <2>2. (Len(t) - i) + 1 \in 1..Len(t) /\ i \in 1..Len(s) + Len(t)
        /\ (Len(s) + Len(t) - i) + 1 = Len(s) + ((Len(t) - i) + 1)
    BY <1>1
  <2>3. PICK k \in 1..Len(t) : k = (Len(t) - i) + 1
    BY <2>2
  <2>4. r[i] = t[k] /\ q[i] = (s \o t)[Len(s) + k]
    BY <1>2, <1>3, <2>2, <2>3
  <2>5. QED
    BY <1>1, <2>3, <2>4
<1>7. SubSeq(r, 1, Len(r)) = SubSeq(q, 1, Len(r))
  <2>1. /\ SubSeq(r, 1, Len(t)) \in Seq(S) /\ Len(SubSeq(r, 1, Len(t))) = Len(t)
        /\ \A i \in 1..Len(t) : SubSeq(r, 1, Len(t))[i] = r[i]
    BY <1>1, <1>4
  <2>2. /\ SubSeq(q, 1, Len(t)) \in Seq(S) /\ Len(SubSeq(q, 1, Len(t))) = Len(t)
        /\ \A i \in 1..Len(t) : SubSeq(q, 1, Len(t))[i] = q[i]
    BY <1>1, <1>5
  <2>3. PICK u \in Seq(S), v \in Seq(S) : u = SubSeq(r, 1, Len(t)) /\ v = SubSeq(q, 1, Len(t))
    BY <2>1, <2>2
  <2>4. Len(u) = Len(v) /\ \A i \in 1..Len(u) : u[i] = v[i]
    BY <1>6, <2>1, <2>2, <2>3
  <2>5. u = v
    BY <2>4, SameSequence
  <2>6. QED
    BY <1>4, <2>3, <2>5
<1>8. Len(r) <= Len(q)
  BY <1>1, <1>4, <1>5
<1>9. QED
  BY <1>7, <1>8 DEF IsSuffix, IsPrefix, r, q

-----------------------------------------------------------------------------
(* Everything the client is told, once it has been told all of it.         *)
Scripted(added, delta, done, events) ==
  /\ \A j \in At(delta, events) : \E k \in At(added, events) : k < j
  /\ \A k, j \in At(added, events) : k = j
  /\ \A k, j \in At(done, events) : k = j
  /\ \A k \in At(done, events) :
       /\ At(delta, events) # {} /\ \A j \in At(delta, events) : j < k
       /\ events[k].parts = Told(delta, events)

Script(events) ==
  /\ Scripted("rsn_added", "rsn_delta", "rsn_done", events)
  /\ Scripted("msg_added", "msg_delta", "msg_done", events)
  /\ \A k \in At("completed", events) \cup At("failed", events) :
       \A j \in DOMAIN events : j > k => j = k + 1 /\ events[j].type = "done"
  /\ \A k \in At("completed", events) :
       /\ Told("call_done", events) = NamedSlots
       /\ At("rsn_delta", events) # {} => At("rsn_done", events) # {}
       /\ At("msg_delta", events) # {} => At("msg_done", events) # {}

(* Up to where the client is, one item makes sense too. *)
LEMMA ScriptedNow ==
  ASSUME NEW added, NEW delta, NEW done, out \in Seq(Event), queue \in Seq(Event),
         Scripted(added, delta, done, out \o queue)
  PROVE  Coherent(added, delta, done)
<1> DEFINE w == out \o queue
<1>1. /\ w \in Seq(Event) /\ Len(out) \in Nat /\ DOMAIN out = 1..Len(out)
      /\ Len(queue) \in Nat /\ DOMAIN queue = 1..Len(queue)
      /\ DOMAIN w = 1..Len(out) + Len(queue)
      /\ \A k \in 1..Len(out) : w[k] = out[k]
      /\ \A k \in 1..Len(queue) : w[Len(out) + k] = queue[k]
  OBVIOUS
<1>2. \A type : Where(type) = {k \in At(type, w) : k <= Len(out)}
  BY <1>1 DEF Where, At
<1>3. (\A k, j \in Where(added) : k = j) /\ (\A k, j \in Where(done) : k = j)
  BY <1>2 DEF Scripted
<1>4. Where(delta) # {} => \E k \in Where(added) : \A j \in Where(delta) : k < j
  <2>1. SUFFICES ASSUME NEW l \in Where(delta)
                 PROVE  \E k \in Where(added) : \A j \in Where(delta) : k < j
    OBVIOUS
  <2>2. PICK k \in At(added, w) : k < l
    BY <1>2 DEF Scripted
  <2>3. k \in Where(added)
    BY <1>1, <1>2, <2>2 DEF At
  <2>4. ASSUME NEW j \in Where(delta) PROVE k < j
    <3>1. PICK i \in At(added, w) : i < j
      BY <1>2 DEF Scripted
    <3>2. i = k
      BY DEF Scripted
    <3>3. QED
      BY <3>1, <3>2
  <2>5. QED
    BY <2>3, <2>4
<1>5. ASSUME NEW k \in Where(done)
      PROVE  /\ Where(delta) # {} /\ \A j \in Where(delta) : j < k
             /\ out[k].parts = Told(delta, out)
  <2>1. /\ k \in At(done, w) /\ k <= Len(out) /\ k \in 1..Len(out)
        /\ \A j \in At(delta, w) : j < k
        /\ At(delta, w) # {} /\ w[k].parts = Told(delta, w)
    BY <1>1, <1>2 DEF Scripted, Where
  <2>2. At(delta, w) = Where(delta)
    BY <1>1, <1>2, <2>1 DEF At
  <2>3. At(delta, queue) = {}
    <3>1. ASSUME NEW l \in At(delta, queue) PROVE FALSE
      <4>1. l \in 1..Len(queue) /\ Len(out) + l \in At(delta, w)
        BY <1>1, <3>1 DEF At
      <4>2. Len(out) + l < k
        BY <2>1, <4>1
      <4>3. QED
        BY <1>1, <2>1, <4>1, <4>2
    <3>2. QED
      BY <3>1
  <2>4. Told(delta, w) = Told(delta, out) \o Told(delta, queue) /\ Told(delta, out) \in Seq(Parts)
    BY ToldBoth
  <2>5. Told(delta, queue) = <<>>
    BY <2>3, ToldNothing
  <2>6. PICK s \in Seq(Parts) : s = Told(delta, out)
    BY <2>4
  <2>7. s \o <<>> = s
    OBVIOUS
  <2>8. QED
    BY <1>1, <2>1, <2>2, <2>4, <2>5, <2>6, <2>7
<1>6. QED
  BY <1>3, <1>4, <1>5 DEF Coherent

(* Up to where the client is, what it was told makes sense. *)
LEMMA ScriptNow ==
  ASSUME out \in Seq(Event), queue \in Seq(Event), Script(out \o queue)
  PROVE  EventsCohere
<1> DEFINE w == out \o queue
<1>1. /\ Coherent("rsn_added", "rsn_delta", "rsn_done")
      /\ Coherent("msg_added", "msg_delta", "msg_done")
  BY ScriptedNow DEF Script
<1>2. /\ w \in Seq(Event) /\ Len(out) \in Nat /\ DOMAIN out = 1..Len(out)
      /\ Len(queue) \in Nat /\ DOMAIN queue = 1..Len(queue)
      /\ DOMAIN w = 1..Len(out) + Len(queue)
      /\ \A k \in 1..Len(out) : w[k] = out[k]
      /\ \A k \in 1..Len(queue) : w[Len(out) + k] = queue[k]
  OBVIOUS
<1>3. \A type : Where(type) = {k \in At(type, w) : k <= Len(out)}
  BY <1>2 DEF Where, At
<1>4. ASSUME NEW k \in Where("completed") \cup Where("failed"), NEW j \in DOMAIN out, j > k
      PROVE  j = k + 1 /\ out[j].type = "done"
  BY <1>2, <1>3, <1>4 DEF Script
<1>5. ASSUME NEW k \in Where("completed")
      PROVE  /\ Told("call_done", out) = NamedSlots
             /\ Where("rsn_delta") # {} => Where("rsn_done") # {}
             /\ Where("msg_delta") # {} => Where("msg_done") # {}
  <2>1. /\ k \in At("completed", w) /\ k \in 1..Len(out)
        /\ \A j \in DOMAIN w : j > k => w[j].type = "done"
        /\ Told("call_done", w) = NamedSlots
        /\ At("rsn_delta", w) # {} => At("rsn_done", w) # {}
        /\ At("msg_delta", w) # {} => At("msg_done", w) # {}
    BY <1>2, <1>3 DEF Script, Where
  <2>2. \A j \in 1..Len(queue) : queue[j].type = "done"
    <3>1. SUFFICES ASSUME NEW j \in 1..Len(queue) PROVE queue[j].type = "done"
      OBVIOUS
    <3>2. Len(out) + j \in DOMAIN w /\ Len(out) + j > k
      BY <1>2, <2>1
    <3>3. QED
      BY <1>2, <2>1, <3>2
  <2>3. ASSUME NEW type, type # "done" PROVE Where(type) = At(type, w) /\ At(type, queue) = {}
    <3>1. At(type, queue) = {}
      BY <1>2, <2>2, <2>3 DEF At
    <3>2. ASSUME NEW j \in At(type, w) PROVE j <= Len(out)
      <4>1. j \in DOMAIN w /\ w[j].type # "done"
        BY <2>3 DEF At
      <4>2. ~(j > k)
        BY <2>1, <4>1
      <4>3. QED
        BY <1>2, <2>1, <4>1, <4>2
    <3>3. QED
      BY <1>3, <3>1, <3>2
  <2>4. Told("call_done", out) = NamedSlots
    <3>1. /\ Told("call_done", w) = Told("call_done", out) \o Told("call_done", queue)
          /\ Told("call_done", out) \in Seq(Parts)
      BY ToldBoth
    <3>2. Told("call_done", queue) = <<>>
      BY <2>3, ToldNothing
    <3>3. PICK s \in Seq(Parts) : s = Told("call_done", out)
      BY <3>1
    <3>4. s \o <<>> = s
      OBVIOUS
    <3>5. QED
      BY <2>1, <3>1, <3>2, <3>3, <3>4
  <2>5. QED
    BY <2>1, <2>3, <2>4
<1>6. QED
  BY <1>1, <1>4, <1>5 DEF EventsCohere

\* Events that close a stream whose accumulator is c.
Closes(events, c) ==
  /\ \A k \in DOMAIN events : events[k].type \notin Opened
  /\ \A k \in At("rsn_done", events) : events[k].parts = c.rtext /\ c.rtext # <<>>
  /\ \A k \in At("msg_done", events) : events[k].parts = c.text /\ c.text # <<>>
  /\ \A k, j \in At("rsn_done", events) : k = j
  /\ \A k, j \in At("msg_done", events) : k = j
  /\ \A k \in At("completed", events) \cup At("failed", events) :
       \A j \in DOMAIN events : j > k => j = k + 1 /\ events[j].type = "done"
  /\ At("completed", events) # {} =>
       /\ Told("call_done", events) = NamedSlots
       /\ c.rtext # <<>> => At("rsn_done", events) # {}
       /\ c.text # <<>> => At("msg_done", events) # {}

(* So does a failure, and so does a stream that goes on. *)
LEMMA FailedCloses ==
  ASSUME NEW c
  PROVE  /\ Closes(Failed, c) /\ Closes(<<>>, c)
         /\ Failed \in Seq(Event) /\ Failed # <<>> /\ At("completed", Failed) = {}
<1>1. <<>> \in Seq(Parts) /\ DOMAIN <<>> = {}
  OBVIOUS
<1>2. PICK e \in Event : e = [type |-> "failed", parts |-> <<>>]
  BY <1>1, SaidEvent
<1>3. Failed = <<e>> /\ e.type = "failed"
  BY <1>2 DEF Failed
<1>4. DOMAIN Failed = {1} /\ Failed[1] = e /\ Failed \in Seq(Event) /\ Failed # <<>>
  BY <1>3
<1>5. Closes(Failed, c) /\ At("completed", Failed) = {}
  BY <1>3, <1>4 DEF Closes, At, Opened
<1>6. Closes(<<>>, c)
  BY <1>1 DEF Closes, At
<1>7. QED
  BY <1>4, <1>5, <1>6

\* Where the events that finish a response are.
FinishedAt(events, r, s, n, c) ==
  /\ events \in Seq(Event) /\ DOMAIN events = 1..r + s + n + 2
  /\ r = (IF c.rtext = <<>> THEN 0 ELSE 1) /\ s = (IF c.text = <<>> THEN 0 ELSE 1)
  /\ \A k \in 1..r : events[k].type = "rsn_done" /\ events[k].parts = c.rtext
  /\ \A k \in r + 1..r + s : events[k].type = "msg_done" /\ events[k].parts = c.text
  /\ \A k \in r + s + 1..r + s + n : events[k].type = "call_done"
  /\ events[r + s + n + 1].type = "completed"
  /\ events[r + s + n + 2].type = "done"

(* What an item that is done adds. *)
LEMMA DoneIs ==
  ASSUME NEW type \in {"rsn_done", "msg_done"}, NEW held \in Seq(Positions)
  PROVE  /\ DoneEvents(type, held) \in Seq(Event)
         /\ Len(DoneEvents(type, held)) = IF held = <<>> THEN 0 ELSE 1
         /\ \A k \in 1..Len(DoneEvents(type, held)) :
              /\ DoneEvents(type, held)[k].type = type
              /\ DoneEvents(type, held)[k].parts = held
<1>1. CASE held = <<>>
  <2>1. Len(<<>>) = 0 /\ <<>> \in Seq(Event)
    OBVIOUS
  <2>2. QED
    BY <1>1, <2>1 DEF DoneEvents
<1>2. CASE held # <<>>
  <2>1. held \in Seq(Parts)
    BY Widened DEF Parts
  <2>2. PICK e \in Event : e = [type |-> type, parts |-> held]
    BY <2>1, SaidEvent
  <2>3. DoneEvents(type, held) = <<e>> /\ e.type = type /\ e.parts = held
    BY <1>2, <2>2 DEF DoneEvents
  <2>4. Len(<<e>>) = 1 /\ <<e>>[1] = e /\ <<e>> \in Seq(Event)
    OBVIOUS
  <2>5. QED
    BY <1>2, <2>3, <2>4
<1>3. QED
  BY <1>1, <1>2

(* What is appended comes last. *)
LEMMA LastOne ==
  ASSUME NEW s \in Seq(Event), NEW e \in Event
  PROVE  /\ Append(s, e) \in Seq(Event) /\ Len(Append(s, e)) = Len(s) + 1
         /\ \A k \in 1..Len(s) : Append(s, e)[k] = s[k]
         /\ Append(s, e)[Len(s) + 1] = e
OBVIOUS

(* The events that finish a response, one by one. *)
LEMMA FinishedIs ==
  ASSUME NEW c \in Accum, acc \in Accum
  PROVE  /\ \E r \in Nat, s \in Nat, n \in Nat :
              FinishedAt(Finished(c, NamedSlots), r, s, n, c)
         /\ Told("call_done", Finished(c, NamedSlots)) = NamedSlots
<1>1. c.rtext \in Seq(Positions) /\ c.text \in Seq(Positions)
  BY AccumType
<1>2. PICK R \in Seq(Event) : /\ R = RsnDone(c)
                              /\ Len(R) = IF c.rtext = <<>> THEN 0 ELSE 1
                              /\ \A k \in 1..Len(R) : R[k].type = "rsn_done" /\ R[k].parts = c.rtext
  <2>1. PICK type \in {"rsn_done", "msg_done"}, held \in Seq(Positions) :
          type = "rsn_done" /\ held = c.rtext
    BY <1>1
  <2>2. PICK R : R = DoneEvents(type, held)
    OBVIOUS
  <2>3. /\ R \in Seq(Event) /\ Len(R) = IF held = <<>> THEN 0 ELSE 1
        /\ \A k \in 1..Len(R) : R[k].type = type /\ R[k].parts = held
    BY <2>2, DoneIs
  <2>4. R = RsnDone(c)
    BY <2>1, <2>2 DEF RsnDone
  <2>5. QED
    BY <2>1, <2>3, <2>4
<1>3. PICK M \in Seq(Event) : /\ M = MsgDone(c)
                              /\ Len(M) = IF c.text = <<>> THEN 0 ELSE 1
                              /\ \A k \in 1..Len(M) : M[k].type = "msg_done" /\ M[k].parts = c.text
  <2>1. PICK type \in {"rsn_done", "msg_done"}, held \in Seq(Positions) :
          type = "msg_done" /\ held = c.text
    BY <1>1
  <2>2. PICK u : u = DoneEvents(type, held)
    OBVIOUS
  <2>3. /\ u \in Seq(Event) /\ Len(u) = IF held = <<>> THEN 0 ELSE 1
        /\ \A k \in 1..Len(u) : u[k].type = type /\ u[k].parts = held
    BY <2>2, DoneIs
  <2>4. u = MsgDone(c)
    BY <2>1, <2>2 DEF MsgDone
  <2>5. QED
    BY <2>1, <2>3, <2>4
<1>4. PICK C \in Seq(Event) : /\ C = Each("call_done", NamedSlots)
                              /\ \A k \in 1..Len(C) : C[k].type = "call_done"
                              /\ Told("call_done", C) = NamedSlots
  <2>1. NamedSlots \in Seq(Slots)
    BY NamedType
  <2>2. NamedSlots \in Seq(Parts)
    BY <2>1, Widened DEF Parts
  <2>3. PICK type \in Opened \cup {"call_done"}, parts \in Seq(Parts) :
          type = "call_done" /\ parts = NamedSlots
    BY <2>2
  <2>4. PICK C : C = Each(type, parts)
    OBVIOUS
  <2>5. /\ C \in Seq(Event) /\ Len(C) = Len(parts)
        /\ \A k \in 1..Len(parts) : C[k].type = type
        /\ Told(type, C) = parts
    BY <2>4, EachTells
  <2>6. QED
    BY <2>3, <2>4, <2>5
<1>5. PICK x \in Event, y \in Event :
        /\ x = [type |-> "completed", parts |-> <<>>] /\ y = [type |-> "done", parts |-> <<>>]
        /\ x.type = "completed" /\ y.type = "done"
  <2>1. <<>> \in Seq(Parts)
    OBVIOUS
  <2>2. PICK n \in Seq(Parts) : n = <<>>
    BY <2>1
  <2>3. [type |-> "completed", parts |-> n] \in Event
    BY SaidEvent
  <2>4. [type |-> "done", parts |-> n] \in Event
    BY SaidEvent
  <2>5. QED
    BY <2>2, <2>3, <2>4
<1>6. PICK D \in Seq(Event) :
        /\ D = R \o M /\ Len(D) = Len(R) + Len(M)
        /\ \A k \in 1..Len(R) : D[k] = R[k]
        /\ \A k \in 1..Len(M) : D[Len(R) + k] = M[k]
  <2>1. /\ R \o M \in Seq(Event) /\ Len(R \o M) = Len(R) + Len(M)
        /\ \A k \in 1..Len(R) : (R \o M)[k] = R[k]
        /\ \A k \in 1..Len(M) : (R \o M)[Len(R) + k] = M[k]
    OBVIOUS
  <2>2. QED
    BY <2>1
<1>7. PICK E \in Seq(Event) :
        /\ E = D \o C /\ Len(E) = Len(D) + Len(C)
        /\ \A k \in 1..Len(D) : E[k] = D[k]
        /\ \A k \in 1..Len(C) : E[Len(D) + k] = C[k]
  <2>1. /\ D \o C \in Seq(Event) /\ Len(D \o C) = Len(D) + Len(C)
        /\ \A k \in 1..Len(D) : (D \o C)[k] = D[k]
        /\ \A k \in 1..Len(C) : (D \o C)[Len(D) + k] = C[k]
    OBVIOUS
  <2>2. QED
    BY <2>1
<1>8. PICK F \in Seq(Event) :
        /\ F = Append(Append(E, x), y) /\ Len(F) = Len(E) + 2
        /\ \A k \in 1..Len(E) : F[k] = E[k]
        /\ F[Len(E) + 1] = x /\ F[Len(E) + 2] = y
  <2>1. PICK G \in Seq(Event) :
          /\ G = Append(E, x) /\ Len(G) = Len(E) + 1
          /\ \A k \in 1..Len(E) : G[k] = E[k]
          /\ G[Len(E) + 1] = x
    BY LastOne
  <2>2. PICK F \in Seq(Event) :
          /\ F = Append(G, y) /\ Len(F) = Len(G) + 1
          /\ \A k \in 1..Len(G) : F[k] = G[k]
          /\ F[Len(G) + 1] = y
    BY LastOne
  <2>3. Len(E) \in Nat /\ Len(E) + 1 \in 1..Len(G) /\ Len(G) + 1 = Len(E) + 2
        /\ \A k \in 1..Len(E) : k \in 1..Len(G)
    BY <2>1
  <2>4. /\ F = Append(Append(E, x), y) /\ Len(F) = Len(E) + 2
        /\ F[Len(E) + 1] = x /\ F[Len(E) + 2] = y
    BY <2>1, <2>2, <2>3
  <2>5. \A k \in 1..Len(E) : F[k] = E[k]
    BY <2>1, <2>2, <2>3
  <2>6. QED
    BY <2>4, <2>5
<1>9. F = Finished(c, NamedSlots)
  BY <1>2, <1>3, <1>4, <1>5, <1>6, <1>7, <1>8 DEF Finished
<1>10. PICK r \in Nat, s \in Nat, n \in Nat :
         r = Len(R) /\ s = Len(M) /\ n = Len(C)
  OBVIOUS
<1>11. /\ Len(D) = r + s /\ Len(E) = r + s + n /\ DOMAIN F = 1..r + s + n + 2
       /\ r = (IF c.rtext = <<>> THEN 0 ELSE 1) /\ s = (IF c.text = <<>> THEN 0 ELSE 1)
  <2>1. DOMAIN F = 1..Len(F)
    OBVIOUS
  <2>2. QED
    BY <1>2, <1>3, <1>6, <1>7, <1>8, <1>10, <2>1
<1>12. ASSUME NEW k \in 1..r PROVE F[k].type = "rsn_done" /\ F[k].parts = c.rtext
  <2>1. k \in 1..Len(E) /\ k \in 1..Len(D) /\ k \in 1..Len(R)
    BY <1>10, <1>11
  <2>2. QED
    BY <1>2, <1>6, <1>7, <1>8, <2>1
<1>13. ASSUME NEW k \in r + 1..r + s PROVE F[k].type = "msg_done" /\ F[k].parts = c.text
  <2>1. k \in 1..Len(E) /\ k \in 1..Len(D)
    BY <1>10, <1>11
  <2>2. PICK l \in 1..Len(M) : k = Len(R) + l
    <3>1. k - r \in 1..s /\ k = r + (k - r)
      OBVIOUS
    <3>2. QED
      BY <1>10, <3>1
  <2>3. F[k] = M[l]
    BY <1>6, <1>7, <1>8, <2>1, <2>2
  <2>4. QED
    BY <1>3, <2>3
<1>14. ASSUME NEW k \in r + s + 1..r + s + n PROVE F[k].type = "call_done"
  <2>1. k \in 1..Len(E)
    BY <1>10, <1>11
  <2>2. PICK l \in 1..Len(C) : k = Len(D) + l
    <3>1. k - (r + s) \in 1..n /\ k = (r + s) + (k - (r + s))
      OBVIOUS
    <3>2. QED
      BY <1>10, <1>11, <3>1
  <2>3. F[k] = C[l]
    BY <1>7, <1>8, <2>1, <2>2
  <2>4. QED
    BY <1>4, <2>3
<1>15. F[r + s + n + 1].type = "completed" /\ F[r + s + n + 2].type = "done"
  BY <1>5, <1>8, <1>11
<1>16. FinishedAt(F, r, s, n, c)
  BY <1>11, <1>12, <1>13, <1>14, <1>15 DEF FinishedAt
<1>17. Told("call_done", F) = NamedSlots
  <2>1. At("call_done", R) = {} /\ At("call_done", M) = {}
    BY <1>2, <1>3 DEF At
  <2>2. Told("call_done", R) = <<>> /\ Told("call_done", M) = <<>>
    BY <2>1, ToldNothing
  <2>3. Told("call_done", D) = Told("call_done", R) \o Told("call_done", M)
    BY <1>6, ToldBoth
  <2>4. Told("call_done", E) = Told("call_done", D) \o Told("call_done", C)
        /\ Told("call_done", C) \in Seq(Parts)
    BY <1>7, ToldBoth
  <2>5. PICK v \in Seq(Parts) : v = Told("call_done", C)
    BY <2>4
  <2>6. (<<>> \o <<>>) \o v = v
    OBVIOUS
  <2>7. Told("call_done", E) = NamedSlots
    BY <1>4, <2>2, <2>3, <2>4, <2>5, <2>6
  <2>8. PICK G \in Seq(Event) : G = Append(E, x) /\ F = Append(G, y)
    <3>1. Append(E, x) \in Seq(Event)
      OBVIOUS
    <3>2. QED
      BY <1>8, <3>1
  <2>9. Told("call_done", G) =
          Told("call_done", E) \o (IF x.type = "call_done" THEN x.parts ELSE <<>>)
    BY <2>8, OneMore
  <2>10. Told("call_done", F) =
           Told("call_done", G) \o (IF y.type = "call_done" THEN y.parts ELSE <<>>)
    BY <2>8, OneMore
  <2>11. v \o <<>> = v
    OBVIOUS
  <2>12. QED
    BY <1>4, <1>5, <2>5, <2>7, <2>9, <2>10, <2>11
<1>18. QED
  BY <1>9, <1>16, <1>17

(* A success closes the stream too. *)
LEMMA FinishedCloses ==
  ASSUME NEW c \in Accum, acc \in Accum
  PROVE  /\ Closes(Finished(c, NamedSlots), c) /\ Finished(c, NamedSlots) \in Seq(Event)
         /\ Finished(c, NamedSlots) # <<>>
<1> DEFINE F == Finished(c, NamedSlots)
<1>1. PICK r \in Nat, s \in Nat, n \in Nat : FinishedAt(F, r, s, n, c)
  BY FinishedIs
<1>2. Told("call_done", F) = NamedSlots
  BY FinishedIs
<1> HIDE DEF F
<1>3. /\ F \in Seq(Event) /\ DOMAIN F = 1..r + s + n + 2
      /\ r = (IF c.rtext = <<>> THEN 0 ELSE 1) /\ s = (IF c.text = <<>> THEN 0 ELSE 1)
      /\ \A k \in 1..r : F[k].type = "rsn_done" /\ F[k].parts = c.rtext
      /\ \A k \in r + 1..r + s : F[k].type = "msg_done" /\ F[k].parts = c.text
      /\ \A k \in r + s + 1..r + s + n : F[k].type = "call_done"
      /\ F[r + s + n + 1].type = "completed"
      /\ F[r + s + n + 2].type = "done"
  BY <1>1 DEF FinishedAt
<1>4. ASSUME NEW k \in DOMAIN F
      PROVE  \/ k \in 1..r /\ F[k].type = "rsn_done" /\ F[k].parts = c.rtext
             \/ k \in r + 1..r + s /\ F[k].type = "msg_done" /\ F[k].parts = c.text
             \/ k \in r + s + 1..r + s + n /\ F[k].type = "call_done"
             \/ k = r + s + n + 1 /\ F[k].type = "completed"
             \/ k = r + s + n + 2 /\ F[k].type = "done"
  <2>1. \/ k \in 1..r \/ k \in r + 1..r + s \/ k \in r + s + 1..r + s + n
        \/ k = r + s + n + 1 \/ k = r + s + n + 2
    BY <1>3
  <2>2. QED
    BY <1>3, <2>1
<1>5. \A k \in DOMAIN F : F[k].type \notin Opened /\ F[k].type # "failed"
  BY <1>4 DEF Opened
<1>6. \A k \in At("rsn_done", F) : F[k].parts = c.rtext /\ c.rtext # <<>>
  <2>1. SUFFICES ASSUME NEW k \in At("rsn_done", F) PROVE F[k].parts = c.rtext /\ c.rtext # <<>>
    OBVIOUS
  <2>2. k \in 1..r /\ F[k].parts = c.rtext
    BY <1>4 DEF At
  <2>3. QED
    BY <1>3, <2>2
<1>7. \A k \in At("msg_done", F) : F[k].parts = c.text /\ c.text # <<>>
  <2>1. SUFFICES ASSUME NEW k \in At("msg_done", F) PROVE F[k].parts = c.text /\ c.text # <<>>
    OBVIOUS
  <2>2. k \in r + 1..r + s /\ F[k].parts = c.text
    BY <1>4 DEF At
  <2>3. s # 0
    BY <2>2
  <2>4. QED
    BY <1>3, <2>2, <2>3
<1>8. ASSUME NEW k \in At("completed", F) \cup At("failed", F), NEW j \in DOMAIN F, j > k
      PROVE  j = k + 1 /\ F[j].type = "done"
  <2>1. k \in DOMAIN F /\ F[k].type = "completed"
    BY <1>5 DEF At
  <2>2. k = r + s + n + 1
    BY <1>4, <2>1
  <2>3. j = r + s + n + 2
    BY <1>3, <1>8, <2>2
  <2>4. QED
    BY <1>3, <2>2, <2>3
<1>9. (c.rtext # <<>> => At("rsn_done", F) # {}) /\ (c.text # <<>> => At("msg_done", F) # {})
  <2>1. c.rtext # <<>> => 1 \in At("rsn_done", F)
    BY <1>3 DEF At
  <2>2. c.text # <<>> => r + 1 \in At("msg_done", F)
    BY <1>3 DEF At
  <2>3. QED
    BY <2>1, <2>2
<1>10. F # <<>>
  <2>1. 1 \in DOMAIN F
    BY <1>3
  <2>2. DOMAIN <<>> = {}
    OBVIOUS
  <2>3. QED
    BY <2>1, <2>2
<1>11. /\ \A k, j \in At("rsn_done", F) : k = j
       /\ \A k, j \in At("msg_done", F) : k = j
  <2>1. At("rsn_done", F) \subseteq 1..r /\ At("msg_done", F) \subseteq r + 1..r + s
    BY <1>4 DEF At
  <2>2. r \in {0, 1} /\ s \in {0, 1}
    BY <1>3
  <2>3. QED
    BY <2>1, <2>2
<1>12. Closes(F, c)
  BY <1>2, <1>5, <1>6, <1>7, <1>8, <1>9, <1>11 DEF Closes
<1>13. QED
  BY <1>3, <1>10, <1>12 DEF F

(* An item that is done after its deltas. *)
LEMMA ScriptedEnd ==
  ASSUME NEW added \in Opened, NEW delta \in Opened, NEW done, done \notin Opened,
         NEW open \in BOOLEAN, NEW told \in Seq(Event), NEW tail \in Seq(Event),
         AllOf(Opened, told), \A k \in DOMAIN tail : tail[k].type \notin Opened,
         Begun(added, delta, open, told), \A k, j \in At(done, tail) : k = j,
         \A k \in At(done, tail) : tail[k].parts = Told(delta, told) /\ Told(delta, told) # <<>>
  PROVE  Scripted(added, delta, done, told \o tail)
<1> DEFINE w == told \o tail
<1>1. /\ w \in Seq(Event) /\ Len(told) \in Nat /\ DOMAIN told = 1..Len(told)
      /\ Len(tail) \in Nat /\ DOMAIN tail = 1..Len(tail)
      /\ DOMAIN w = 1..Len(told) + Len(tail)
      /\ \A k \in 1..Len(told) : w[k] = told[k]
      /\ \A k \in 1..Len(tail) : w[Len(told) + k] = tail[k]
  OBVIOUS
<1>2. ASSUME NEW type PROVE At(type, w) = At(type, told) \cup {Len(told) + k : k \in At(type, tail)}
  BY AtBoth
<1>3. \A type \in Opened : At(type, tail) = {}
  BY DEF At
<1>4. At(added, w) = At(added, told) /\ At(delta, w) = At(delta, told)
  BY <1>2, <1>3
<1>5. At(done, told) = {}
  BY DEF At, AllOf
<1>6. Told(delta, w) = Told(delta, told)
  <2>1. Told(delta, w) = Told(delta, told) \o Told(delta, tail) /\ Told(delta, told) \in Seq(Parts)
    BY ToldBoth
  <2>2. Told(delta, tail) = <<>>
    BY <1>3, ToldNothing
  <2>3. PICK s \in Seq(Parts) : s = Told(delta, told)
    BY <2>1
  <2>4. s \o <<>> = s
    OBVIOUS
  <2>5. QED
    BY <2>1, <2>2, <2>3, <2>4
<1> HIDE DEF w
<1>7. ASSUME NEW k \in At(done, w)
      PROVE  /\ At(delta, w) # {} /\ \A j \in At(delta, w) : j < k
             /\ w[k].parts = Told(delta, w)
  <2>1. PICK l \in At(done, tail) : k = Len(told) + l
    BY <1>2, <1>5
  <2>2. l \in 1..Len(tail) /\ w[k] = tail[l]
    BY <1>1, <2>1 DEF At
  <2>3. \A j \in At(delta, w) : j \in 1..Len(told)
    BY <1>1, <1>4 DEF At
  <2>4. At(delta, told) # {}
    <3>1. Told(delta, told) # <<>>
      BY <2>1
    <3>2. QED
      BY <3>1, ToldNothing
  <2>5. \A j \in At(delta, w) : j < k
    BY <1>1, <2>1, <2>2, <2>3
  <2>6. QED
    BY <1>4, <1>6, <2>1, <2>2, <2>4, <2>5
<1>8. \A k, j \in At(done, w) : k = j
  BY <1>2, <1>5
<1>9. Scripted(added, delta, done, w)
  BY <1>4, <1>7, <1>8 DEF Scripted, Begun
<1>10. QED
  BY <1>9 DEF w

(* What is told until the end makes sense. *)
LEMMA ScriptEnd ==
  ASSUME NEW c, NEW told \in Seq(Event), NEW tail \in Seq(Event),
         AllOf(Opened, told), Agrees(c, told), Closes(tail, c),
         c.rtext \in Seq(Positions), c.text \in Seq(Positions), c.rpending \in Seq(Positions),
         c.rpending = <<>> \/ tail = <<>>
  PROVE  Script(told \o tail)
<1> DEFINE w == told \o tail
<1>1. /\ Begun("rsn_added", "rsn_delta", c.rtext # <<>>, told)
      /\ Begun("msg_added", "msg_delta", c.text # <<>>, told)
      /\ Told("msg_delta", told) = c.text
      /\ Told("rsn_delta", told) \o c.rpending = c.rtext
      /\ Told("rsn_delta", told) \in Seq(Parts)
  <2>1. Told("rsn_delta", told) \in Seq(Parts)
    BY ToldBoth
  <2>2. QED
    BY <2>1 DEF Agrees
<1>2. /\ w \in Seq(Event) /\ Len(told) \in Nat /\ DOMAIN told = 1..Len(told)
      /\ Len(tail) \in Nat /\ DOMAIN tail = 1..Len(tail)
      /\ DOMAIN w = 1..Len(told) + Len(tail)
      /\ \A k \in 1..Len(told) : w[k] = told[k]
      /\ \A k \in 1..Len(tail) : w[Len(told) + k] = tail[k]
  OBVIOUS
<1>3. ASSUME NEW type PROVE At(type, w) = At(type, told) \cup {Len(told) + k : k \in At(type, tail)}
  <2>1. At(type, told \o tail) = At(type, told) \cup {Len(told) + k : k \in At(type, tail)}
    BY AtBoth, SMTT(30)
  <2>2. QED
    BY <2>1
<1>4. \A type : type \notin Opened => At(type, told) = {}
  BY DEF At, AllOf
<1>5. At("rsn_done", tail) # {} => Told("rsn_delta", told) = c.rtext
  <2>1. PICK s \in Seq(Parts) : s = Told("rsn_delta", told)
    BY <1>1
  <2>2. s \o <<>> = s
    OBVIOUS
  <2>3. tail = <<>> => At("rsn_done", tail) = {}
    BY DEF At
  <2>4. QED
    BY <1>1, <2>1, <2>2, <2>3
<1>6. /\ Scripted("rsn_added", "rsn_delta", "rsn_done", w)
  <2>0. PICK open \in BOOLEAN : open = (c.rtext # <<>>)
    OBVIOUS
  <2>1. PICK added \in Opened, delta \in Opened, done \in {"rsn_done"} :
          /\ added = "rsn_added" /\ delta = "rsn_delta" /\ done = "rsn_done"
          /\ done \notin Opened
    BY DEF Opened
  <2>2. /\ \A k \in DOMAIN tail : tail[k].type \notin Opened
        /\ Begun(added, delta, open, told) /\ \A k, j \in At(done, tail) : k = j
        /\ \A k \in At(done, tail) :
             tail[k].parts = Told(delta, told) /\ Told(delta, told) # <<>>
    BY <1>1, <1>5, <2>0, <2>1 DEF Closes
  <2>3. Scripted(added, delta, done, told \o tail)
    BY <2>1, <2>2, ScriptedEnd
  <2>4. QED
    BY <2>1, <2>3
<1>7. Scripted("msg_added", "msg_delta", "msg_done", w)
  <2>0. PICK open \in BOOLEAN : open = (c.text # <<>>)
    OBVIOUS
  <2>1. PICK added \in Opened, delta \in Opened, done \in {"msg_done"} :
          /\ added = "msg_added" /\ delta = "msg_delta" /\ done = "msg_done"
          /\ done \notin Opened
    BY DEF Opened
  <2>2. /\ \A k \in DOMAIN tail : tail[k].type \notin Opened
        /\ Begun(added, delta, open, told) /\ \A k, j \in At(done, tail) : k = j
        /\ \A k \in At(done, tail) :
             tail[k].parts = Told(delta, told) /\ Told(delta, told) # <<>>
    BY <1>1, <2>0, <2>1 DEF Closes
  <2>3. Scripted(added, delta, done, told \o tail)
    BY <2>1, <2>2, ScriptedEnd
  <2>4. QED
    BY <2>1, <2>3
<1>8. ASSUME NEW k \in At("completed", w) \cup At("failed", w), NEW j \in DOMAIN w, j > k
      PROVE  j = k + 1 /\ w[j].type = "done"
  <2>1. At("completed", told) = {} /\ At("failed", told) = {}
    BY <1>4 DEF Opened
  <2>2. PICK l \in At("completed", tail) \cup At("failed", tail) : k = Len(told) + l
    <3>1. CASE k \in At("completed", w)
      BY <1>3, <2>1, <3>1
    <3>2. CASE k \in At("failed", w)
      BY <1>3, <2>1, <3>2
    <3>3. QED
      BY <1>8, <3>1, <3>2
  <2>3. l \in 1..Len(tail)
    BY <1>2 DEF At
  <2>4. PICK i \in 1..Len(tail) : j = Len(told) + i
    <3>1. j - Len(told) \in 1..Len(tail) /\ j = Len(told) + (j - Len(told))
      BY <1>2, <1>8, <2>2, <2>3
    <3>2. QED
      BY <3>1
  <2>5. i > l /\ i \in DOMAIN tail
    BY <1>2, <1>8, <2>2, <2>3, <2>4
  <2>6. i = l + 1 /\ tail[i].type = "done"
    BY <2>2, <2>5 DEF Closes
  <2>7. QED
    BY <1>2, <2>2, <2>3, <2>4, <2>6
<1>9. ASSUME NEW k \in At("completed", w)
      PROVE  /\ Told("call_done", w) = NamedSlots
             /\ At("rsn_delta", w) # {} => At("rsn_done", w) # {}
             /\ At("msg_delta", w) # {} => At("msg_done", w) # {}
  <2>1. At("completed", tail) # {}
    <3>1. At("completed", told) = {}
      BY <1>4 DEF Opened
    <3>2. At("completed", w) = At("completed", told) \cup {Len(told) + l : l \in At("completed", tail)}
      BY <1>3
    <3>3. QED
      BY <3>1, <3>2
  <2>2. /\ Told("call_done", tail) = NamedSlots
        /\ c.rtext # <<>> => At("rsn_done", tail) # {}
        /\ c.text # <<>> => At("msg_done", tail) # {}
    BY <2>1 DEF Closes
  <2>3. Told("call_done", w) = NamedSlots
    <3>1. Told("call_done", w) = Told("call_done", told) \o Told("call_done", tail)
          /\ Told("call_done", tail) \in Seq(Parts)
      BY ToldBoth
    <3>2. At("call_done", told) = {}
      BY <1>4 DEF Opened
    <3>3. Told("call_done", told) = <<>>
      BY <3>2, ToldNothing
    <3>4. PICK s \in Seq(Parts) : s = Told("call_done", tail)
      BY <3>1
    <3>5. <<>> \o s = s
      OBVIOUS
    <3>6. QED
      BY <2>2, <3>1, <3>3, <3>4, <3>5
  <2>4. At("rsn_delta", w) # {} => At("rsn_done", w) # {}
    <3>1. At("rsn_delta", tail) = {}
      BY DEF At, Closes, Opened
    <3>2. At("rsn_delta", w) = At("rsn_delta", told) \cup {Len(told) + l : l \in At("rsn_delta", tail)}
      BY <1>3
    <3>3. At("rsn_delta", told) # {} => c.rtext # <<>>
      BY <1>1 DEF Begun
    <3>4. At("rsn_done", w) = At("rsn_done", told) \cup {Len(told) + l : l \in At("rsn_done", tail)}
      BY <1>3
    <3>5. QED
      BY <2>2, <3>1, <3>2, <3>3, <3>4
  <2>5. At("msg_delta", w) # {} => At("msg_done", w) # {}
    <3>1. At("msg_delta", tail) = {}
      BY DEF At, Closes, Opened
    <3>2. At("msg_delta", w) = At("msg_delta", told) \cup {Len(told) + l : l \in At("msg_delta", tail)}
      BY <1>3
    <3>3. At("msg_delta", told) # {} => c.text # <<>>
      BY <1>1 DEF Begun
    <3>4. At("msg_done", w) = At("msg_done", told) \cup {Len(told) + l : l \in At("msg_done", tail)}
      BY <1>3
    <3>5. QED
      BY <2>2, <3>1, <3>2, <3>3, <3>4
  <2>6. QED
    BY <2>3, <2>4, <2>5
<1>10. QED
  BY <1>6, <1>7, <1>8, <1>9 DEF Script

-----------------------------------------------------------------------------
(* The invariant.                                                          *)
Types ==
  /\ suppress \in BOOLEAN
  /\ pc \in {"reading", "crediting", "yielding", "closed"}
  /\ seen \in Seq(Shapes) /\ Len(seen) <= MaxChunks
  /\ acc \in Accum
  /\ observed \in BOOLEAN
  /\ billed \in Seq(Positions \cup {None})
  /\ credited \in BOOLEAN
  /\ queue \in Seq(Event)
  /\ ending \in {"open", "success", "failure", "gone"}
  /\ out \in Seq(Event)

\* Where the generator is, what it still has to yield and how it will end.
FlowInv ==
  /\ pc = "yielding" <=> queue # <<>>
  /\ pc \in {"reading", "crediting"} => ending = "open"
  /\ pc = "closed" => ending # "open"
  /\ ending = "gone" => pc = "closed"

\* What the accumulator holds of the chunks seen.
TextInv ==
  /\ TextKept(acc, Len(seen), seen)
  /\ ending = "open" => TextShape(acc, Len(seen), seen)
  /\ ending \in {"success", "failure"} => TextDone(acc)
  /\ NoDuplicates(acc, Len(seen), seen)
  /\ acc.deferred # <<>> => suppress /\ ~acc.native
  /\ NativeNamed(acc)
  /\ acc.rpending # <<>> => IsSuffix(acc.rpending, acc.rtext)

\* Everything told and to be told is what the accumulator says, and the end.
Closing ==
  CASE ending = "success" -> Finished(acc, NamedSlots)
    [] ending = "failure" -> Failed
    [] OTHER -> <<>>

Spoken == IF ending = "open" THEN acc ELSE Silent(acc)

Heard(told) ==
  /\ told \in Seq(Event) /\ out \o queue = told \o Closing
  /\ AllOf(Opened, told) /\ Agrees(Spoken, told)

WordsInv == ending # "gone" => \E told : Heard(told)

\* The last usage reported.
Latest(usage, chunks) ==
  LET counts == {i \in DOMAIN chunks : chunks[i].usage}
  IN IF counts = {} THEN usage = None
     ELSE usage \in counts /\ \A i \in counts : i <= usage

Responded(chunks) == \E i \in DOMAIN chunks : chunks[i].observed

BillInv ==
  /\ Latest(acc.usage, seen)
  /\ observed \/ acc.finish # "none" \/ billed # <<>> => Responded(seen)
  /\ billed \in {<<>>, <<acc.usage>>}
  /\ ending = "open" => (billed # <<>> <=> pc = "crediting")
  /\ ending = "failure" => billed = <<>>
  /\ ending = "success" => credited
  /\ ending \in {"open", "failure"} => ~credited
  /\ credited => billed # <<>>

\* What is left of it once the client is gone.
GoneInv ==
  /\ ending = "gone" =>
       EventsCohere /\ ToSet(Told("msg_delta", out)) \subseteq ToSet(acc.text)
  /\ \A k \in DOMAIN out : out[k].type = "completed" => credited

ChatInv == Types /\ FlowInv /\ TextInv /\ WordsInv /\ BillInv /\ GoneInv

(* The start of the stream. *)
LEMMA ChatStarts == Init => ChatInv
<1> SUFFICES ASSUME Init PROVE ChatInv
  OBVIOUS
<1> USE DEF Init
<1>1. <<>> \in Seq(Positions) /\ <<>> \in Seq(Shapes) /\ <<>> \in Seq(Event) /\ <<>> \in Seq(Parts)
      /\ <<>> \in Seq(Positions \cup {None}) /\ Len(<<>>) = 0 /\ DOMAIN <<>> = {}
  OBVIOUS
<1>2. acc \in Accum
  <2>1. [s \in Slots |-> "absent"] \in [Slots -> {"absent", "unnamed", "named"}]
    OBVIOUS
  <2>2. QED
    BY <1>1, <2>1 DEF Accum
<1>3. PICK e \in Event : e = [type |-> "created", parts |-> <<>>]
  BY <1>1, SaidEvent DEF Opened
<1>4. queue = <<e>> /\ e.type = "created" /\ queue \in Seq(Event) /\ queue # <<>> /\ out = <<>>
      /\ DOMAIN queue = {1} /\ queue[1] = e
  BY <1>3
<1>5. Types
  <2>1. /\ suppress \in BOOLEAN /\ pc = "yielding" /\ seen = <<>> /\ observed = FALSE
        /\ billed = <<>> /\ credited = FALSE /\ ending = "open"
    OBVIOUS
  <2> HIDE DEF Init
  <2>2. 0 <= MaxChunks
    BY Constants
  <2>3. QED
    BY <1>1, <1>2, <1>4, <2>1, <2>2 DEF Types
<1>6. FlowInv
  BY <1>4 DEF FlowInv
<1>7. /\ acc.text = <<>> /\ acc.edge = <<>> /\ acc.deferred = <<>> /\ acc.rtext = <<>>
      /\ acc.rpending = <<>> /\ ~acc.inside /\ ~acc.native /\ acc.usage = None
      /\ acc.finish = "none"
  OBVIOUS
<1>8. TextInv
  <2>1. TextsTo(0, seen) = <<>>
    <3>1. PICK m \in Nat : m = 0
      OBVIOUS
    <3>2. QED
      BY <3>1, TextsMore
  <2>2. <<>> \o (<<>> \o <<>>) = <<>>
    OBVIOUS
  <2>3. TextKept(acc, 0, seen)
    BY <1>7, <2>1, <2>2 DEF TextKept
  <2>4. ToSet(<<>>) = {}
    BY ElementsOne
  <2>5. TextShape(acc, 0, seen)
    BY <1>1, <1>7, <2>4 DEF TextShape, Sane, Waits, InTurn
  <2>6. QED
    BY <1>1, <1>7, <2>3, <2>4, <2>5 DEF TextInv, NoDuplicates, NativeNamed
<1>9. WordsInv
  <2>1. out \o queue = queue /\ queue \o <<>> = queue
    BY <1>4
  <2>2. \A type \in Opened \ {"created"} : At(type, queue) = {}
    BY <1>4 DEF At
  <2>3. AllOf(Opened, queue)
    BY <1>4 DEF AllOf, Opened
  <2>4. /\ Begun("rsn_added", "rsn_delta", FALSE, queue)
        /\ Begun("msg_added", "msg_delta", FALSE, queue)
    BY <2>2 DEF Begun, Opened
  <2>5. At("rsn_delta", queue) = {} /\ At("msg_delta", queue) = {}
    BY <2>2 DEF Opened
  <2>6. Told("rsn_delta", queue) = <<>> /\ Told("msg_delta", queue) = <<>>
    BY <1>4, <2>5, ToldNothing
  <2>7. <<>> \o <<>> = <<>>
    OBVIOUS
  <2>8. Agrees(acc, queue)
    BY <1>7, <2>4, <2>6, <2>7 DEF Agrees
  <2>9. Heard(queue)
    BY <1>4, <2>1, <2>3, <2>8 DEF Heard, Closing, Spoken
  <2>10. QED
    BY <2>9 DEF WordsInv
<1>10. BillInv
  BY <1>1, <1>7 DEF BillInv, Latest
<1>11. GoneInv
  BY <1>1 DEF GoneInv
<1>12. QED
  BY <1>5, <1>6, <1>8, <1>9, <1>10, <1>11 DEF ChatInv

(* What the invariant says while the generator waits for the upstream. *)
LEMMA WhileReading ==
  ASSUME ChatInv, pc \in {"reading", "crediting"}
  PROVE  /\ queue = <<>> /\ ending = "open" /\ out \in Seq(Event) /\ acc \in Accum
         /\ AllOf(Opened, out) /\ Agrees(acc, out) /\ ~credited
         /\ Len(seen) \in Nat /\ seen \in Seq(Shapes) /\ Stream(seen)
         /\ Holds(acc, Len(seen), seen) /\ NativeNamed(acc)
         /\ \A k \in DOMAIN out : out[k].type # "completed"
<1>1. Types /\ FlowInv /\ TextInv /\ WordsInv /\ BillInv
  BY DEF ChatInv
<1>2. queue = <<>> /\ ending = "open" /\ out \in Seq(Event) /\ acc \in Accum
      /\ seen \in Seq(Shapes) /\ Len(seen) <= MaxChunks /\ ~credited
  BY <1>1 DEF Types, FlowInv, BillInv
<1>3. PICK told : Heard(told)
  BY <1>1, <1>2 DEF WordsInv
<1>4. told \in Seq(Event) /\ out \o queue = told \o <<>> /\ AllOf(Opened, told) /\ Agrees(acc, told)
  BY <1>2, <1>3 DEF Heard, Closing, Spoken
<1>5. out \o <<>> = out /\ told \o <<>> = told
  BY <1>2, <1>4
<1>6. AllOf(Opened, out) /\ Agrees(acc, out)
  BY <1>2, <1>4, <1>5
<1>7. Holds(acc, Len(seen), seen) /\ NativeNamed(acc)
  BY <1>1, <1>2 DEF TextInv, Holds
<1>8. \A k \in DOMAIN out : out[k].type # "completed"
  BY <1>6 DEF AllOf, Opened
<1>9. QED
  BY <1>2, <1>6, <1>7, <1>8 DEF Stream

(* While suppress stays, what is kept of the text is what was kept. *)
LEMMA SameSuppress ==
  ASSUME suppress' = suppress
  PROVE  /\ TextKept(acc', Len(seen'), seen') => TextKept(acc, Len(seen), seen)'
         /\ TextShape(acc', Len(seen'), seen') => TextShape(acc, Len(seen), seen)'
         /\ NoDuplicates(acc', Len(seen'), seen') => NoDuplicates(acc, Len(seen), seen)'
<1>1. TextKept(acc', Len(seen'), seen') => TextKept(acc, Len(seen), seen)'
  BY DEF TextKept
<1>2. TextShape(acc', Len(seen'), seen') => TextShape(acc, Len(seen), seen)'
  BY DEF TextShape
<1>3. NoDuplicates(acc', Len(seen'), seen') => NoDuplicates(acc, Len(seen), seen)'
  BY DEF NoDuplicates
<1>4. QED
  BY <1>1, <1>2, <1>3

(* What is pending is the end of the reasoning. *)
LEMMA PendingLast ==
  ASSUME NEW c \in Accum, NEW events \in Seq(Event), Agrees(c, events)
  PROVE  IsSuffix(c.rpending, c.rtext)
<1>1. Told("rsn_delta", events) \in Seq(Parts)
  BY ToldBoth
<1>2. c.rpending \in Seq(Positions)
  BY AccumType
<1>3. c.rpending \in Seq(Parts)
  BY <1>2, Widened DEF Parts
<1>4. PICK s \in Seq(Parts), t \in Seq(Parts) : s = Told("rsn_delta", events) /\ t = c.rpending
  BY <1>1, <1>3
<1>5. IsSuffix(t, s \o t)
  BY SuffixOfMore
<1>6. QED
  BY <1>4, <1>5 DEF Agrees

\* The reasoning that no event tells yet.
Unflushed == IF ending = "open" THEN acc.rpending ELSE <<>>

(* What the client is told while the stream is read makes sense. *)
LEMMA StillCoheres ==
  ASSUME ChatInv, ending # "gone"
  PROVE  /\ EventsCohere
         /\ Told("msg_delta", out \o queue) = acc.text
         /\ Told("rsn_delta", out \o queue) \o Unflushed = acc.rtext
         /\ \A k \in DOMAIN (out \o queue) : (out \o queue)[k].type = "completed" => credited
<1>1. Types /\ FlowInv /\ WordsInv /\ BillInv
  BY DEF ChatInv
<1>2. PICK told \in Seq(Event) :
        out \o queue = told \o Closing /\ AllOf(Opened, told) /\ Agrees(Spoken, told)
  BY <1>1 DEF WordsInv, Heard
<1>3. out \in Seq(Event) /\ queue \in Seq(Event) /\ acc \in Accum
      /\ ending \in {"open", "success", "failure"}
  BY <1>1 DEF Types
<1>4. /\ acc.rtext \in Seq(Positions) /\ acc.text \in Seq(Positions) /\ acc.rpending \in Seq(Positions)
      /\ <<>> \in Seq(Positions)
  BY <1>3, AccumType
<1>5. /\ Silent(acc).rtext = acc.rtext /\ Silent(acc).text = acc.text
      /\ Silent(acc).rpending = <<>>
  BY <1>3 DEF Accum, Silent
<1>6. PICK c : c = Spoken
  OBVIOUS
<1>7. /\ c.rtext = acc.rtext /\ c.text = acc.text
      /\ c.rpending \in Seq(Positions) /\ (c.rpending = <<>> \/ ending = "open")
      /\ c.rpending = Unflushed
  BY <1>4, <1>5, <1>6 DEF Spoken, Unflushed
<1>8. Closing \in Seq(Event) /\ Closes(Closing, c) /\ (ending = "open" => Closing = <<>>)
      /\ (ending # "success" => At("completed", Closing) = {})
  <2>1. CASE ending = "open"
    <3>1. <<>> \in Seq(Event) /\ At("completed", <<>>) = {}
      BY DEF At
    <3>2. QED
      BY <2>1, <3>1, FailedCloses DEF Closing
  <2>2. CASE ending = "failure"
    BY <2>2, FailedCloses DEF Closing
  <2>3. CASE ending = "success"
    <3>1. Closing = Finished(acc, NamedSlots)
      BY <2>3 DEF Closing
    <3>2. Closes(Finished(acc, NamedSlots), acc) /\ Finished(acc, NamedSlots) \in Seq(Event)
      BY <1>3, FinishedCloses
    <3>3. Closes(Finished(acc, NamedSlots), c)
      BY <1>7, <3>2 DEF Closes
    <3>4. QED
      BY <2>3, <3>1, <3>2, <3>3
  <2>4. QED
    BY <1>3, <2>1, <2>2, <2>3
<1>9. PICK tail \in Seq(Event) : tail = Closing
  BY <1>8
<1>10. Agrees(c, told) /\ Closes(tail, c) /\ (c.rpending = <<>> \/ tail = <<>>)
  BY <1>2, <1>6, <1>7, <1>8, <1>9
<1>11. c.rtext \in Seq(Positions) /\ c.text \in Seq(Positions)
  BY <1>4, <1>7
<1>12. Script(told \o tail)
  BY <1>2, <1>7, <1>10, <1>11, ScriptEnd
<1>13. EventsCohere
  BY <1>2, <1>3, <1>9, <1>12, ScriptNow
<1>14. /\ Told("msg_delta", told \o tail) = acc.text
       /\ Told("rsn_delta", told \o tail) \o Unflushed = acc.rtext
  <2>1. ASSUME NEW type \in {"msg_delta", "rsn_delta"}
        PROVE  Told(type, told \o tail) = Told(type, told)
    <3>1. /\ Told(type, told \o tail) = Told(type, told) \o Told(type, tail)
          /\ Told(type, told) \in Seq(Parts)
      BY ToldBoth
    <3>2. At(type, tail) = {}
      BY <1>10 DEF Closes, At, Opened
    <3>3. Told(type, tail) = <<>>
      BY <3>2, ToldNothing
    <3>4. PICK s \in Seq(Parts) : s = Told(type, told)
      BY <3>1
    <3>5. s \o <<>> = s
      OBVIOUS
    <3>6. QED
      BY <3>1, <3>3, <3>4, <3>5
  <2>2. Told("msg_delta", told) = acc.text /\ Told("rsn_delta", told) \o Unflushed = acc.rtext
    BY <1>7, <1>10 DEF Agrees
  <2>3. QED
    BY <2>1, <2>2
<1>15. ASSUME NEW k \in DOMAIN (told \o tail), (told \o tail)[k].type = "completed"
       PROVE  credited
  <2>1. k \in At("completed", told \o tail)
    BY <1>15 DEF At
  <2>2. At("completed", told \o tail)
          = At("completed", told) \cup {Len(told) + l : l \in At("completed", tail)}
    BY AtBoth
  <2>3. At("completed", told) = {}
    BY <1>2 DEF At, AllOf, Opened
  <2>4. ending = "success"
    BY <1>8, <1>9, <2>1, <2>2, <2>3
  <2>5. QED
    BY <1>1, <2>4 DEF BillInv
<1>16. QED
  BY <1>2, <1>9, <1>13, <1>14, <1>15

(* The first of some events, and the rest. *)
LEMMA FirstOff ==
  ASSUME NEW q \in Seq(Event), q # <<>>
  PROVE  /\ Head(q) \in Event /\ Tail(q) \in Seq(Event)
         /\ q = <<Head(q)>> \o Tail(q)
         /\ Tail(q) # <<>> <=> Len(q) > 1
<1>1. Len(q) \in Nat /\ Len(q) > 0 /\ Head(q) = q[1]
  OBVIOUS
<1>2. Head(q) \in Event
  BY <1>1
<1>3. Tail(q) \in Seq(Event) /\ Len(Tail(q)) = Len(q) - 1
  BY <1>1
<1>4. PICK t \in Seq(Event) : t = Tail(q)
  BY <1>3
<1>5. t # <<>> <=> Len(q) > 1
  <2>1. Len(t) = Len(q) - 1 /\ Len(<<>>) = 0
    BY <1>3, <1>4
  <2>2. t # <<>> <=> Len(t) # 0
    OBVIOUS
  <2>3. QED
    BY <1>1, <2>1, <2>2
<1>6. q = <<Head(q)>> \o Tail(q)
  BY <1>1, <1>3
<1>7. QED
  BY <1>2, <1>3, <1>4, <1>5, <1>6

(* The client is told one event more. *)
LEMMA YieldKeeps ==
  ASSUME ChatInv, Yield
  PROVE  ChatInv'
<1>1. Types /\ FlowInv /\ TextInv /\ WordsInv /\ BillInv /\ GoneInv
  BY DEF ChatInv
<1>2. /\ pc = "yielding" /\ out' = Append(out, Head(queue)) /\ queue' = Tail(queue)
      /\ pc' = AfterYield
      /\ suppress' = suppress /\ seen' = seen /\ acc' = acc /\ observed' = observed
      /\ billed' = billed /\ credited' = credited /\ ending' = ending
  BY DEF Yield
<1>3. queue # <<>> /\ ending \in {"open", "success", "failure"}
      /\ queue \in Seq(Event) /\ out \in Seq(Event)
  BY <1>1, <1>2 DEF FlowInv, Types
<1>4. /\ out' \in Seq(Event) /\ queue' \in Seq(Event) /\ out' \o queue' = out \o queue
      /\ queue' # <<>> <=> Len(queue) > 1
  <2>0. PICK h \in Event, t \in Seq(Event) :
          /\ h = Head(queue) /\ t = Tail(queue) /\ queue = <<h>> \o t
          /\ (t # <<>> <=> Len(queue) > 1)
    BY <1>3, FirstOff
  <2>1. /\ Append(out, h) \in Seq(Event)
    BY <1>3
  <2>2. Append(out, h) \o t = out \o queue
    <3>3. Append(out, h) = out \o <<h>>
      BY <1>3
    <3>4. PICK o \in Seq(Event) : o = <<h>>
      <4>1. <<h>> \in Seq(Event)
        OBVIOUS
      <4>2. QED
        BY <4>1
    <3>5. Associates(out, o, t)
      BY <1>3, Chained
    <3>6. QED
      BY <2>0, <3>3, <3>4, <3>5 DEF Associates
  <2>3. QED
    BY <1>2, <2>0, <2>1, <2>2
<1>5. Types'
  <2>1. pc' \in {"reading", "crediting", "yielding", "closed"}
    BY <1>2 DEF AfterYield
  <2>2. QED
    BY <1>1, <1>2, <1>4, <2>1 DEF Types
<1>6. FlowInv'
  <2>1. pc' = IF Len(queue) > 1 THEN "yielding" ELSE IF ending = "open" THEN "reading" ELSE "closed"
    BY <1>2 DEF AfterYield
  <2>2. QED
    BY <1>2, <1>3, <1>4, <2>1 DEF FlowInv
<1>7. TextInv'
  <2>1. TextKept(acc, Len(seen), seen)' /\ NoDuplicates(acc, Len(seen), seen)'
    BY <1>1, <1>2, SameSuppress DEF TextInv
  <2>2. (ending = "open" => TextShape(acc, Len(seen), seen))'
    BY <1>1, <1>2, SameSuppress DEF TextInv
  <2>3. QED
    BY <1>1, <1>2, <2>1, <2>2 DEF TextInv, TextDone, NativeNamed
<1>8. WordsInv'
  <2>1. PICK told : Heard(told)
    BY <1>1, <1>3 DEF WordsInv
  <2>2. Closing' = Closing /\ Spoken' = Spoken
    BY <1>2 DEF Closing, Spoken, NamedSlots
  <2>3. Heard(told)'
    BY <1>4, <2>1, <2>2 DEF Heard
  <2>4. QED
    BY <2>3 DEF WordsInv
<1>9. BillInv'
  <2>1. pc' # "crediting"
    BY <1>2 DEF AfterYield
  <2>2. QED
    BY <1>1, <1>2, <1>3, <2>1 DEF BillInv
<1>10. GoneInv'
  <2>1. ASSUME NEW k \in DOMAIN out', out'[k].type = "completed" PROVE credited'
    <3>1. k \in DOMAIN (out' \o queue') /\ (out' \o queue')[k] = out'[k]
      BY <1>4
    <3>2. credited
      BY <1>3, <1>4, <2>1, <3>1, StillCoheres
    <3>3. QED
      BY <1>2, <3>2
  <2>2. ending' # "gone"
    BY <1>2, <1>3
  <2>3. QED
    BY <2>1, <2>2 DEF GoneInv
<1>11. QED
  BY <1>5, <1>6, <1>7, <1>8, <1>9, <1>10 DEF ChatInv

(* The client goes away. *)
LEMMA DropKeeps ==
  ASSUME ChatInv, Drop
  PROVE  ChatInv'
<1>1. Types /\ FlowInv /\ TextInv /\ WordsInv /\ BillInv /\ GoneInv
  BY DEF ChatInv
<1>2. /\ pc # "closed" /\ pc' = "closed" /\ ending' = "gone" /\ queue' = <<>>
      /\ suppress' = suppress /\ seen' = seen /\ acc' = acc /\ observed' = observed
      /\ billed' = billed /\ credited' = credited /\ out' = out
  BY DEF Drop
<1>3. ending # "gone" /\ out \in Seq(Event) /\ queue \in Seq(Event)
  BY <1>1, <1>2 DEF FlowInv, Types
<1>4. EventsCohere /\ Told("msg_delta", out \o queue) = acc.text
  BY <1>3, StillCoheres
<1>5. Types'
  <2>1. <<>> \in Seq(Event)
    OBVIOUS
  <2>2. QED
    BY <1>1, <1>2, <2>1 DEF Types
<1>6. FlowInv'
  BY <1>2 DEF FlowInv
<1>7. TextInv'
  <2>1. TextKept(acc, Len(seen), seen)' /\ NoDuplicates(acc, Len(seen), seen)'
    BY <1>1, <1>2, SameSuppress DEF TextInv
  <2>2. QED
    BY <1>1, <1>2, <2>1 DEF TextInv, NativeNamed
<1>8. WordsInv'
  BY <1>2 DEF WordsInv
<1>9. BillInv'
  BY <1>1, <1>2 DEF BillInv
<1>10. GoneInv'
  <2>1. EventsCohere'
    BY <1>2, <1>4 DEF EventsCohere, Coherent, Where, NamedSlots
  <2>2. ToSet(Told("msg_delta", out)) \subseteq ToSet(acc.text)
    <3>1. /\ Told("msg_delta", out \o queue) = Told("msg_delta", out) \o Told("msg_delta", queue)
          /\ Told("msg_delta", out) \in Seq(Parts) /\ Told("msg_delta", queue) \in Seq(Parts)
      BY <1>3, ToldBoth
    <3>2. PICK s \in Seq(Parts), t \in Seq(Parts) :
            s = Told("msg_delta", out) /\ t = Told("msg_delta", queue)
      BY <3>1
    <3>3. ToSet(s) \subseteq ToSet(s \o t)
      BY DEF ToSet
    <3>4. QED
      BY <1>4, <3>1, <3>2, <3>3
  <2>3. (ToSet(Told("msg_delta", out)) \subseteq ToSet(acc.text))'
    BY <1>2, <2>2
  <2>4. QED
    BY <1>1, <1>2, <2>1, <2>3 DEF GoneInv
<1>11. QED
  BY <1>5, <1>6, <1>7, <1>8, <1>9, <1>10 DEF ChatInv

(* Nothing happens. *)
LEMMA StutterKeeps ==
  ASSUME ChatInv, UNCHANGED vars
  PROVE  ChatInv'
<1>1. Types /\ FlowInv /\ TextInv /\ WordsInv /\ BillInv /\ GoneInv
  BY DEF ChatInv
<1>2. /\ suppress' = suppress /\ pc' = pc /\ seen' = seen /\ acc' = acc /\ observed' = observed
      /\ billed' = billed /\ credited' = credited /\ queue' = queue /\ ending' = ending
      /\ out' = out
  BY DEF vars
<1>3. Types' /\ FlowInv' /\ BillInv'
  BY <1>1, <1>2 DEF Types, FlowInv, BillInv
<1>4. TextInv'
  <2>1. TextKept(acc, Len(seen), seen)' /\ NoDuplicates(acc, Len(seen), seen)'
    BY <1>1, <1>2, SameSuppress DEF TextInv
  <2>2. (ending = "open" => TextShape(acc, Len(seen), seen))'
    BY <1>1, <1>2, SameSuppress DEF TextInv
  <2>3. QED
    BY <1>1, <1>2, <2>1, <2>2 DEF TextInv, TextDone, NativeNamed
<1>5. WordsInv'
  BY <1>1, <1>2 DEF WordsInv, Heard, Closing, Spoken, NamedSlots
<1>6. GoneInv'
  BY <1>1, <1>2 DEF GoneInv, EventsCohere, Coherent, Where, NamedSlots
<1>7. QED
  BY <1>3, <1>4, <1>5, <1>6 DEF ChatInv

\* What a step after which the client is still there does to what was said.
Goes ==
  /\ suppress' = suppress /\ (acc.native => acc'.native)
  /\ seen' = seen \/ \E c \in Shapes : seen' = Append(seen, c)
  /\ \E i \in Nat : Grows(acc.rtext, acc'.rtext, i)

(* A chunk comes in. *)
LEMMA ReadKeeps ==
  ASSUME ChatInv, ReadChunk
  PROVE  ChatInv' /\ Goes
<1>1. Types /\ FlowInv /\ TextInv /\ WordsInv /\ BillInv /\ GoneInv
  BY DEF ChatInv
<1>2. PICK c \in Shapes :
        /\ pc = "reading" /\ Len(seen) < MaxChunks
        /\ seen' = Append(seen, c) /\ observed' = (observed \/ c.observed)
        /\ Deliver(Apply(Len(seen'), seen'), "open")
        /\ suppress' = suppress /\ billed' = billed /\ credited' = credited /\ out' = out
  BY DEF ReadChunk
<1>3. /\ queue = <<>> /\ ending = "open" /\ out \in Seq(Event) /\ acc \in Accum
      /\ AllOf(Opened, out) /\ Agrees(acc, out) /\ ~credited
      /\ Len(seen) \in Nat /\ seen \in Seq(Shapes) /\ Stream(seen)
      /\ Holds(acc, Len(seen), seen) /\ NativeNamed(acc)
      /\ \A k \in DOMAIN out : out[k].type # "completed"
  BY <1>2, WhileReading
<1>4. PICK m \in Nat, i \in Nat, chunks \in Seq(Shapes) :
        /\ m = Len(seen) /\ i = m + 1 /\ chunks = seen'
        /\ Len(chunks) = i /\ chunks[i] = c /\ \A k \in 1..m : chunks[k] = seen[k]
        /\ DOMAIN chunks = 1..i /\ DOMAIN seen = 1..m
  <2>1. /\ Append(seen, c) \in Seq(Shapes) /\ Len(Append(seen, c)) = Len(seen) + 1
        /\ Append(seen, c)[Len(seen) + 1] = c
        /\ \A k \in 1..Len(seen) : Append(seen, c)[k] = seen[k]
        /\ DOMAIN Append(seen, c) = 1..(Len(seen) + 1) /\ DOMAIN seen = 1..Len(seen)
    BY <1>3
  <2>2. PICK chunks \in Seq(Shapes) : chunks = Append(seen, c)
    BY <2>1
  <2>3. Len(seen) + 1 \in Nat
    BY <1>3
  <2>4. QED
    BY <1>2, <1>3, <2>1, <2>2, <2>3
<1>5. Stream(chunks) /\ i \in DOMAIN chunks
  <2>1. i <= MaxChunks
    BY <1>2, <1>4, Constants
  <2>2. QED
    BY <1>4, <2>1 DEF Stream
<1>6. Holds(acc, m, chunks)
  BY <1>3, <1>4, SeenSame
<1>7. PICK base \in Seq(Event), a \in {Apply(i, chunks)} : base = out /\ a = Apply(i, chunks)
  BY <1>3
<1>8. /\ Tells(a, base) /\ Holds(a.acc, i, chunks) /\ NativeNamed(a.acc)
      /\ a.acc.finish = (IF chunks[i].finish = "none" THEN acc.finish ELSE chunks[i].finish)
      /\ a.acc.usage = (IF chunks[i].usage THEN i ELSE acc.usage)
      /\ Grows(acc.rtext, a.acc.rtext, i) /\ (acc.native => a.acc.native)
  BY <1>3, <1>4, <1>5, <1>6, <1>7, ApplyTells
<1>9. /\ acc' = a.acc /\ queue' = a.events /\ ending' = "open"
      /\ pc' = IF a.events # <<>> THEN "yielding" ELSE "reading"
  BY <1>2, <1>4, <1>7 DEF Deliver
<1>10. /\ a.acc \in Accum /\ a.events \in Seq(Event)
       /\ AllOf(Opened, a.events) /\ Agrees(a.acc, base \o a.events)
  BY <1>8 DEF Tells, Running
<1>11. /\ c.usage \in BOOLEAN /\ c.observed \in BOOLEAN /\ (c.finish # "none" => c.observed)
  BY ChunkType
<1>12. Types'
  BY <1>1, <1>2, <1>4, <1>5, <1>9, <1>10, <1>11 DEF Types, Stream
<1>13. FlowInv'
  BY <1>9 DEF FlowInv
<1>14. base \o a.events \in Seq(Event)
  BY <1>10
<1>15. TextInv'
  <2>1. TextKept(acc, Len(seen), seen)' /\ TextShape(acc, Len(seen), seen)'
    BY <1>2, <1>4, <1>8, <1>9, SameSuppress DEF Holds
  <2>2. NoDuplicates(acc, Len(seen), seen)'
    BY <2>1 DEF TextShape, NoDuplicates
  <2>3. (acc.deferred # <<>> => suppress /\ ~acc.native)'
    BY <2>1 DEF TextShape
  <2>4. IsSuffix(a.acc.rpending, a.acc.rtext)
    BY <1>10, <1>14, PendingLast
  <2>5. QED
    BY <1>8, <1>9, <2>1, <2>2, <2>3, <2>4 DEF TextInv, NativeNamed
<1>16. WordsInv'
  <2>1. PICK told \in Seq(Event) : told = base \o a.events
    BY <1>14
  <2>2. AllOf(Opened, told)
    BY <1>3, <1>7, <1>10, <2>1, AllOfBoth
  <2>3. told \o <<>> = told
    OBVIOUS
  <2>4. Closing' = <<>> /\ Spoken' = a.acc
    BY <1>9 DEF Closing, Spoken
  <2>5. Heard(told)'
    BY <1>2, <1>7, <1>9, <1>10, <2>1, <2>2, <2>3, <2>4 DEF Heard
  <2>6. QED
    BY <2>5 DEF WordsInv
<1>17. billed = <<>>
  BY <1>1, <1>2, <1>3 DEF BillInv
<1>18. BillInv'
  <2>1. Latest(acc.usage, seen)
    BY <1>1 DEF BillInv
  <2>2. Latest(a.acc.usage, chunks)
    <3> DEFINE old == {k \in DOMAIN seen : seen[k].usage}
               new == {k \in DOMAIN chunks : chunks[k].usage}
    <3>1. new = old \cup (IF c.usage THEN {i} ELSE {})
      <4>1. DOMAIN chunks = DOMAIN seen \cup {i} /\ i \notin DOMAIN seen
        BY <1>4
      <4>2. QED
        BY <1>4, <4>1
    <3>2. IF old = {} THEN acc.usage = None ELSE acc.usage \in old /\ \A k \in old : k <= acc.usage
      BY <2>1 DEF Latest
    <3>3. \A k \in old : k <= i
      BY <1>4
    <3>4. IF new = {} THEN a.acc.usage = None
          ELSE a.acc.usage \in new /\ \A k \in new : k <= a.acc.usage
      <4> HIDE DEF new, old
      <4>1. CASE c.usage
        <5>1. a.acc.usage = i /\ i <= i
          BY <1>4, <1>8, <4>1
        <5>2. QED
          BY <3>1, <3>3, <4>1, <5>1
      <4>2. CASE ~c.usage
        <5>1. a.acc.usage = acc.usage /\ new = old
          BY <1>4, <1>8, <3>1, <4>2
        <5>2. QED
          BY <3>2, <5>1
      <4>3. QED
        BY <4>1, <4>2
    <3>5. QED
      BY <3>4 DEF Latest
  <2>3. Responded(seen) => Responded(chunks)
    BY <1>4 DEF Responded
  <2>4. c.observed => Responded(chunks)
    BY <1>4 DEF Responded
  <2>5. observed' \/ acc'.finish # "none" \/ billed' # <<>> => Responded(chunks)
    BY <1>1, <1>2, <1>4, <1>8, <1>9, <1>11, <1>17, <2>3, <2>4 DEF BillInv
  <2>6. pc' # "crediting" /\ ~credited' /\ billed' = <<>>
    BY <1>2, <1>3, <1>9, <1>17
  <2>7. QED
    BY <1>4, <1>9, <2>2, <2>5, <2>6 DEF BillInv
<1>19. GoneInv'
  BY <1>2, <1>3, <1>9 DEF GoneInv
<1>20. Goes
  BY <1>2, <1>8, <1>9 DEF Goes
<1>21. QED
  BY <1>12, <1>13, <1>15, <1>16, <1>18, <1>19, <1>20 DEF ChatInv

(* The upstream ended well: the response is billed. *)
LEMMA SucceedKeeps ==
  ASSUME ChatInv, pc = "reading", NEW done \in BOOLEAN, Succeeds(done), Succeed
  PROVE  ChatInv'
<1>1. Types /\ FlowInv /\ TextInv /\ WordsInv /\ BillInv /\ GoneInv
  BY DEF ChatInv
<1>2. /\ billed' = Append(billed, acc.usage) /\ pc' = "crediting"
      /\ suppress' = suppress /\ seen' = seen /\ acc' = acc /\ observed' = observed
      /\ credited' = credited /\ queue' = queue /\ ending' = ending /\ out' = out
  BY DEF Succeed
<1>3. queue = <<>> /\ ending = "open" /\ ~credited /\ acc \in Accum
  BY WhileReading
<1>4. billed = <<>>
  BY <1>1, <1>3 DEF BillInv
<1>5. acc.usage \in Positions \cup {None}
  BY <1>3, AccumType
<1>6. billed' = <<acc.usage>> /\ billed' \in Seq(Positions \cup {None}) /\ billed' # <<>>
  <2>1. Append(<<>>, acc.usage) = <<acc.usage>>
    OBVIOUS
  <2>2. <<acc.usage>> \in Seq(Positions \cup {None}) /\ <<acc.usage>> # <<>>
    BY <1>5
  <2>3. QED
    BY <1>2, <1>4, <2>1, <2>2
<1>7. Types'
  BY <1>1, <1>2, <1>6 DEF Types
<1>8. FlowInv'
  BY <1>1, <1>2, <1>3 DEF FlowInv
<1>9. TextInv'
  <2>1. TextKept(acc, Len(seen), seen)' /\ NoDuplicates(acc, Len(seen), seen)'
    BY <1>1, <1>2, SameSuppress DEF TextInv
  <2>2. (ending = "open" => TextShape(acc, Len(seen), seen))'
    BY <1>1, <1>2, SameSuppress DEF TextInv
  <2>3. QED
    BY <1>1, <1>2, <2>1, <2>2 DEF TextInv, TextDone, NativeNamed
<1>10. WordsInv'
  BY <1>1, <1>2 DEF WordsInv, Heard, Closing, Spoken, NamedSlots
<1>11. BillInv'
  <2>1. Responded(seen)
    BY <1>1 DEF BillInv, Succeeds
  <2>2. QED
    BY <1>1, <1>2, <1>3, <1>6, <2>1 DEF BillInv
<1>12. GoneInv'
  BY <1>1, <1>2, <1>3 DEF GoneInv
<1>13. QED
  BY <1>7, <1>8, <1>9, <1>10, <1>11, <1>12 DEF ChatInv

(* The proxy ends the stream, well or not. *)
LEMMA EndKeeps ==
  ASSUME ChatInv, pc \in {"reading", "crediting"},
         NEW end \in {"success", "failure"}, NEW a, NEW told, NEW tail,
         Ended(a, out, told, tail), Settled(acc, a.acc, Len(seen), seen), tail # <<>>,
         Deliver(a, end),
         suppress' = suppress, seen' = seen, observed' = observed, billed' = billed, out' = out,
         tail = Closing',
         IF end = "success" THEN pc = "crediting" /\ credited'
         ELSE pc = "reading" /\ credited' = credited,
         credited' \in BOOLEAN
  PROVE  ChatInv' /\ Goes
<1>1. Types /\ FlowInv /\ TextInv /\ WordsInv /\ BillInv /\ GoneInv
  BY DEF ChatInv
<1>2. /\ acc' = a.acc /\ queue' = a.events /\ ending' = end
      /\ pc' = IF a.events # <<>> THEN "yielding" ELSE "reading"
  BY DEF Deliver
<1>3. /\ queue = <<>> /\ ending = "open" /\ out \in Seq(Event) /\ acc \in Accum
      /\ AllOf(Opened, out) /\ ~credited
      /\ \A k \in DOMAIN out : out[k].type # "completed"
  BY WhileReading
<1>4. /\ told \in Seq(Event) /\ tail \in Seq(Event) /\ a.events = told \o tail /\ a.acc \in Accum
      /\ AllOf(Opened, told) /\ Agrees(Silent(a.acc), out \o told)
  BY DEF Ended
<1>5. a.events \in Seq(Event) /\ a.events # <<>> /\ out \o told \in Seq(Event)
  <2>1. PICK t \in Seq(Event), u \in Seq(Event) : t = told /\ u = tail
    BY <1>4
  <2>2. t \o u \in Seq(Event) /\ (u # <<>> => t \o u # <<>>)
    BY NotEmpty
  <2>3. out \o t \in Seq(Event)
    BY <1>3
  <2>4. QED
    BY <1>4, <2>1, <2>2, <2>3
<1>6. pc' = "yielding"
  BY <1>2, <1>5
<1>7. /\ TextKept(a.acc, Len(seen), seen) /\ TextDone(a.acc)
      /\ NoDuplicates(a.acc, Len(seen), seen)
      /\ a.acc.calls = acc.calls /\ a.acc.finish = acc.finish /\ a.acc.usage = acc.usage
      /\ a.acc.native = acc.native /\ a.acc.rtext = acc.rtext
      /\ a.acc.rpending \in {acc.rpending, <<>>}
  BY DEF Settled, SameRest, SameCalls
<1>8. Types'
  BY <1>1, <1>2, <1>4, <1>5, <1>6 DEF Types
<1>9. FlowInv'
  BY <1>2, <1>5, <1>6 DEF FlowInv
<1>10. TextInv'
  <2>1. TextKept(acc, Len(seen), seen)' /\ NoDuplicates(acc, Len(seen), seen)'
    BY <1>2, <1>7, SameSuppress
  <2>2. TextDone(acc)' /\ ~(acc.deferred # <<>>)'
    BY <1>2, <1>7 DEF TextDone
  <2>3. NativeNamed(acc)'
    BY <1>1, <1>2, <1>7 DEF TextInv, NativeNamed
  <2>4. (acc.rpending # <<>> => IsSuffix(acc.rpending, acc.rtext))'
    BY <1>1, <1>2, <1>7 DEF TextInv
  <2>5. QED
    BY <1>2, <2>1, <2>2, <2>3, <2>4 DEF TextInv
<1>11. WordsInv'
  <2>1. PICK w \in Seq(Event) : w = out \o told
    BY <1>5
  <2>2. PICK t \in Seq(Event), u \in Seq(Event) : t = told /\ u = tail
    BY <1>4
  <2>3. out \o (t \o u) = w \o u
    <3>1. Associates(out, t, u)
      BY <1>3, Chained
    <3>2. QED
      BY <2>1, <2>2, <3>1 DEF Associates
  <2>4. AllOf(Opened, w)
    BY <1>3, <1>4, <2>1, <2>2, AllOfBoth
  <2>5. Spoken' = Silent(a.acc)
    BY <1>2 DEF Spoken, Silent
  <2>6. Heard(w)'
    BY <1>2, <1>4, <2>1, <2>2, <2>3, <2>4, <2>5 DEF Heard
  <2>7. QED
    BY <2>6 DEF WordsInv
<1>12. BillInv'
  BY <1>1, <1>2, <1>3, <1>6, <1>7 DEF BillInv
<1>13. GoneInv'
  BY <1>2, <1>3 DEF GoneInv
<1>14. Goes
  <2>1. Grows(acc.rtext, acc'.rtext, 0)
    BY <1>2, <1>7 DEF Grows
  <2>2. QED
    BY <1>2, <1>7, <2>1 DEF Goes
<1>15. QED
  BY <1>8, <1>9, <1>10, <1>11, <1>12, <1>13, <1>14 DEF ChatInv

(* A stream that fails. *)
LEMMA FailKeeps ==
  ASSUME ChatInv, pc = "reading", Fail
  PROVE  ChatInv' /\ Goes
<1>1. /\ Deliver(Failure, "failure") /\ suppress' = suppress /\ seen' = seen
      /\ observed' = observed /\ billed' = billed /\ credited' = credited /\ out' = out
  BY DEF Fail
<1>2. /\ out \in Seq(Event) /\ acc \in Accum /\ Agrees(acc, out)
      /\ Len(seen) \in Nat /\ Holds(acc, Len(seen), seen) /\ ~credited
  BY WhileReading
<1>3. PICK m \in Nat, base \in Seq(Event) : m = Len(seen) /\ base = out
  BY <1>2
<1>c. PICK chunks : chunks = seen
  OBVIOUS
<1>4. (\E told : Ended(Failure, base, told, Failed)) /\ Settled(acc, Failure.acc, m, chunks)
  BY <1>2, <1>3, <1>c, FailureTells
<1>5. PICK told : Ended(Failure, base, told, Failed)
  BY <1>4
<1>6. Failed # <<>>
  BY FailedCloses
<1>7. Closing' = Failed
  BY <1>1 DEF Deliver, Closing
<1>8. PICK a : a = Failure
  OBVIOUS
<1>e. PICK end \in {"success", "failure"}, tail \in {Failed} : end = "failure" /\ tail = Failed
  OBVIOUS
<1>9. Ended(a, out, told, tail) /\ Settled(acc, a.acc, Len(seen), seen) /\ Deliver(a, end)
  BY <1>1, <1>3, <1>4, <1>5, <1>8, <1>c, <1>e
<1>10. credited \in BOOLEAN
  BY DEF ChatInv, Types
<1>11. /\ tail # <<>> /\ tail = Closing' /\ credited' \in BOOLEAN
       /\ IF end = "success" THEN pc = "crediting" /\ credited'
          ELSE pc = "reading" /\ credited' = credited
  BY <1>1, <1>6, <1>7, <1>10, <1>e
<1>12. QED
  BY <1>1, <1>9, <1>11, EndKeeps

(* A response that has succeeded. *)
LEMMA CreditKeeps ==
  ASSUME ChatInv, Credit
  PROVE  ChatInv' /\ Goes
<1>1. /\ pc = "crediting" /\ credited' = TRUE
      /\ Deliver(Finish, "success") /\ suppress' = suppress /\ seen' = seen
      /\ observed' = observed /\ billed' = billed /\ out' = out
  BY DEF Credit
<1>2. /\ out \in Seq(Event) /\ acc \in Accum /\ Agrees(acc, out)
      /\ Len(seen) \in Nat /\ Holds(acc, Len(seen), seen)
  BY <1>1, WhileReading
<1>3. PICK m \in Nat, base \in Seq(Event) : m = Len(seen) /\ base = out
  BY <1>2
<1>c. PICK chunks : chunks = seen
  OBVIOUS
<1>4. PICK tail : tail = Finished(Finish.acc, NamedSlots)
  OBVIOUS
<1>5. (\E told : Ended(Finish, base, told, tail)) /\ Settled(acc, Finish.acc, m, chunks)
  BY <1>2, <1>3, <1>4, <1>c, FinishTells
<1>6. PICK told : Ended(Finish, base, told, tail)
  BY <1>5
<1>7. Finish.acc \in Accum
  BY <1>6 DEF Ended
<1>8. tail # <<>>
  BY <1>2, <1>4, <1>7, FinishedCloses
<1>9. Closing' = tail
  <2>1. acc' = Finish.acc /\ ending' = "success" /\ Finish.acc.calls = acc.calls
    BY <1>1, <1>5 DEF Deliver, Settled, SameRest, SameCalls
  <2>2. NamedSlots' = NamedSlots
    BY <2>1 DEF NamedSlots
  <2>3. Closing' = Finished(acc', NamedSlots')
    BY <2>1 DEF Closing
  <2>4. QED
    BY <1>4, <2>1, <2>2, <2>3
<1>10. PICK a : a = Finish
  OBVIOUS
<1>e. PICK end \in {"success", "failure"} : end = "success"
  OBVIOUS
<1>11. Ended(a, out, told, tail) /\ Settled(acc, a.acc, Len(seen), seen) /\ Deliver(a, end)
  BY <1>1, <1>3, <1>5, <1>6, <1>10, <1>c, <1>e
<1>12. /\ tail = Closing' /\ credited' \in BOOLEAN
       /\ IF end = "success" THEN pc = "crediting" /\ credited'
          ELSE pc = "reading" /\ credited' = credited
  BY <1>1, <1>9, <1>e
<1>13. QED
  BY <1>1, <1>8, <1>11, <1>12, EndKeeps

(* Every step keeps the invariant. *)
LEMMA ChatNext ==
  ASSUME ChatInv, [Next]_vars
  PROVE  ChatInv'
<1>1. CASE ReadChunk
  BY <1>1, ReadKeeps
<1>2. CASE UpstreamFails
  BY <1>2, FailKeeps DEF UpstreamFails
<1>3. CASE UpstreamEnds
  <2>1. PICK done \in BOOLEAN : pc = "reading" /\ IF Succeeds(done) THEN Succeed ELSE Fail
    BY <1>3 DEF UpstreamEnds
  <2>2. CASE Succeeds(done)
    BY <2>1, <2>2, SucceedKeeps
  <2>3. CASE ~Succeeds(done)
    BY <2>1, <2>3, FailKeeps
  <2>4. QED
    BY <2>2, <2>3
<1>4. CASE Credit
  BY <1>4, CreditKeeps
<1>5. CASE Yield
  BY <1>5, YieldKeeps
<1>6. CASE Drop
  BY <1>6, DropKeeps
<1>7. CASE UNCHANGED vars
  BY <1>7, StutterKeeps
<1>8. QED
  BY <1>1, <1>2, <1>3, <1>4, <1>5, <1>6, <1>7 DEF Next

(* The invariant holds in every reachable state. *)
LEMMA ChatInvariant == Spec => []ChatInv
<1>1. Init => ChatInv
  BY ChatStarts
<1>2. ChatInv /\ [Next]_vars => ChatInv'
  BY ChatNext
<1>3. QED
  BY <1>1, <1>2, PTL DEF Spec

-----------------------------------------------------------------------------
(* Type correctness: the generator has events to yield exactly while it    *)
(* yields; the reasoning still pending is the end of the reasoning item;   *)
(* text is deferred only under the transform and before a native call, and *)
(* a native call is a named one (ChatAccum).                               *)
THEOREM TypeCorrect == Spec => []TypeOK
<1>1. ChatInv => TypeOK
  BY DEF ChatInv, Types, FlowInv, TextInv, NativeNamed, TypeOK
<1>2. QED
  BY <1>1, ChatInvariant, PTL

(* A reply that ended well was a response, is billed once and with the     *)
(* last usage the upstream reported, and the client sees it completed only *)
(* after the session was credited (chat_stream_to_responses).              *)
THEOREM BilledOnceHolds == Spec => []BilledOnce
<1>1. ASSUME ChatInv PROVE BilledOnce
  <2>1. Types /\ BillInv /\ GoneInv
    BY <1>1 DEF ChatInv
  <2>2. Len(billed) <= 1 /\ (billed # <<>> => billed[1] = acc.usage)
    <3>1. CASE billed = <<>>
      BY <3>1
    <3>2. CASE billed = <<acc.usage>>
      BY <3>2
    <3>3. QED
      BY <2>1, <3>1, <3>2 DEF BillInv
  <2>3. billed # <<>> => Responded(seen) /\ Latest(billed[1], seen)
    BY <2>1, <2>2 DEF BillInv
  <2>4. \A k \in DOMAIN out : out[k].type = "completed" => credited
    BY <2>1 DEF GoneInv
  <2>5. QED
    BY <2>2, <2>3, <2>4 DEF BilledOnce, Responded, Latest
<1>2. QED
  BY <1>1, ChatInvariant, PTL

(* The events the client has seen make sense together, at any point of any *)
(* stream: items are added before their deltas and finished with the text  *)
(* of these, the response ends once, and a completed one has told every    *)
(* named call in the order of the indexes (apply_chat_chunk, finish and    *)
(* failure_events together).                                               *)
THEOREM EventsCohereHolds == Spec => []EventsCohere
<1>1. ASSUME ChatInv PROVE EventsCohere
  <2>1. CASE ending = "gone"
    BY <1>1, <2>1 DEF ChatInv, GoneInv
  <2>2. CASE ending # "gone"
    BY <1>1, <2>2, StillCoheres
  <2>3. QED
    BY <2>1, <2>2
<1>2. QED
  BY <1>1, ChatInvariant, PTL

(* The text of the chunks seen. *)
LEMMA TextsSeen ==
  ASSUME seen \in Seq(Shapes)
  PROVE  Texts = TextsTo(Len(seen), seen)
<1>1. DOMAIN seen = 1..Len(seen)
  OBVIOUS
<1>2. QED
  BY <1>1 DEF Texts, TextsTo

(* The sanitizer leaves out duplicate markup and nothing else: a stream    *)
(* the proxy ended has shown all its text in order unless a native call    *)
(* was made, and once one was made no complete element of markup is shown, *)
(* whatever was deferred, restored or released on the way                  *)
(* (finalize_tool_markup_content).                                         *)
THEOREM OnlyDuplicatesDroppedHolds == Spec => []OnlyDuplicatesDropped
<1>1. ASSUME ChatInv PROVE OnlyDuplicatesDropped
  <2>1. Types /\ FlowInv /\ TextInv /\ GoneInv
    BY <1>1 DEF ChatInv
  <2>2. /\ out \in Seq(Event) /\ queue \in Seq(Event) /\ acc \in Accum /\ seen \in Seq(Shapes)
        /\ ending \in {"open", "success", "failure", "gone"}
    BY <2>1 DEF Types
  <2>3. pc = "closed" => queue = <<>> /\ out \o queue = out
    <3>1. pc = "closed" => queue = <<>>
      BY <2>1 DEF FlowInv
    <3>2. out \o <<>> = out
      BY <2>2
    <3>3. QED
      BY <3>1, <3>2
  <2>4. ASSUME pc = "closed", ending # "gone", ~(suppress /\ acc.native)
        PROVE  Told("msg_delta", out) = Texts
    <3>1. ending \in {"success", "failure"}
      BY <2>1, <2>2, <2>4 DEF FlowInv
    <3>2. Told("msg_delta", out) = acc.text
      BY <1>1, <2>3, <2>4, StillCoheres
    <3>3. acc.edge = <<>> /\ acc.deferred = <<>>
      BY <2>1, <3>1 DEF TextInv, TextDone
    <3>4. acc.text \in Seq(Nat)
      BY <2>2, NoneWaits
    <3>5. PICK s \in Seq(Nat), t \in Seq(Nat) : s = acc.text /\ t = TextsTo(Len(seen), seen)
      <4>1. PICK m \in Nat, chunks \in Seq(Shapes) : m = Len(seen) /\ chunks = seen
        BY <2>2
      <4>2. TextsTo(m, chunks) \in Seq(Nat)
        BY TextsMore
      <4>3. QED
        BY <3>4, <4>1, <4>2
    <3>6. s \o (<<>> \o <<>>) = s
      OBVIOUS
    <3>7. Less(s, {}) = Less(t, {})
      BY <2>1, <2>4, <3>3, <3>5, <3>6 DEF TextInv, TextKept
    <3>8. Less(s, {}) = s /\ Less(t, {}) = t
      BY LessNothing
    <3>9. QED
      BY <2>2, <3>2, <3>5, <3>7, <3>8, TextsSeen
  <2>5. ASSUME suppress, acc.native, NEW p \in ToSet(Told("msg_delta", out \o queue))
        PROVE  seen[p].content # "element"
    <3>1. p \in ToSet(acc.text)
      <4>1. CASE ending = "gone"
        BY <2>1, <2>3, <2>5, <4>1 DEF FlowInv, GoneInv
      <4>2. CASE ending # "gone"
        BY <1>1, <2>5, <4>2, StillCoheres
      <4>3. QED
        BY <4>1, <4>2
    <3>2. p \in OfKind({"plain", "prefix"}, Len(seen), seen)
      BY <2>1, <2>5, <3>1 DEF TextInv, NoDuplicates
    <3>3. QED
      BY <3>2 DEF OfKind
  <2>6. QED
    BY <2>4, <2>5 DEF OnlyDuplicatesDropped
<1>2. QED
  BY <1>1, ChatInvariant, PTL

-----------------------------------------------------------------------------
(* The operators of the promise are the usual ones. *)
LEMMA SameFlatten ==
  ASSUME NEW s
  PROVE Promise!FlattenSeq(s) = FlattenSeq(s)
BY DEF Promise!FlattenSeq, FlattenSeq

(* So is its order of sequences. *)
LEMMA SamePrefix ==
  ASSUME NEW s, NEW t
  PROVE Promise!IsPrefix(s, t) = IsPrefix(s, t)
BY DEF Promise!IsPrefix, IsPrefix

(* What it keeps of a sequence is what is left of it. *)
LEMMA KeptLess ==
  ASSUME NEW X, NEW s \in Seq(Nat)
  PROVE  Promise!Kept(s, X) = Less(s, X)
<1>1. \A k \in DOMAIN s : s[k] \in Nat
  OBVIOUS
<1>2. Mapped(Leaving(X), s) = [k \in DOMAIN s |-> IF s[k] \in X THEN <<>> ELSE <<s[k]>>]
  BY <1>1 DEF Mapped, Leaving
<1>3. QED
  BY <1>2, SameFlatten DEF Promise!Kept, Less, FlatMap

(* A sequence comes before itself and more. *)
LEMMA PrefixOfMore ==
  ASSUME NEW S, NEW a \in Seq(S), NEW b \in Seq(S)
  PROVE  IsPrefix(a, a) /\ IsPrefix(a, a \o b)
<1>1. a \o b \in Seq(S) /\ Len(a \o b) = Len(a) + Len(b)
      /\ Len(a) \in Nat /\ Len(b) \in Nat
      /\ \A i \in 1..Len(a) : (a \o b)[i] = a[i]
  OBVIOUS
<1>2. ASSUME NEW c \in Seq(S), Len(a) <= Len(c), \A i \in 1..Len(a) : c[i] = a[i]
      PROVE  IsPrefix(a, c)
  <2>1. /\ SubSeq(c, 1, Len(a)) \in Seq(S) /\ Len(SubSeq(c, 1, Len(a))) = Len(a)
        /\ \A i \in 1..Len(a) : SubSeq(c, 1, Len(a))[i] = c[i]
    BY <1>2
  <2>2. /\ SubSeq(a, 1, Len(a)) \in Seq(S) /\ Len(SubSeq(a, 1, Len(a))) = Len(a)
        /\ \A i \in 1..Len(a) : SubSeq(a, 1, Len(a))[i] = a[i]
    OBVIOUS
  <2>3. SubSeq(a, 1, Len(a)) = SubSeq(c, 1, Len(a))
    BY <1>2, <2>1, <2>2, SameSequence
  <2>4. QED
    BY <1>2, <2>3 DEF IsPrefix
<1>3. IsPrefix(a, a)
  BY <1>2
<1>4. IsPrefix(a, a \o b)
  <2>1. PICK c \in Seq(S) : c = a \o b
    BY <1>1
  <2>2. Len(a) <= Len(c) /\ \A i \in 1..Len(a) : c[i] = a[i]
    BY <1>1, <2>1
  <2>3. QED
    BY <1>2, <2>1, <2>2
<1>5. QED
  BY <1>3, <1>4

(* The text of some chunks is that of the chunks that have any. *)
LEMMA TextsAre ==
  ASSUME NEW m \in Nat, NEW chunks
  PROVE  ToSet(TextsTo(m, chunks)) = {i \in 1..m : chunks[i].content # "none"}
<1> DEFINE has(n) == {i \in 1..n : chunks[i].content # "none"}
           S == {n \in 0..m : ToSet(TextsTo(n, chunks)) = has(n)}
<1>1. 0 \in S
  <2>1. TextsTo(0, chunks) = <<>>
    BY TextsMore
  <2>2. ToSet(<<>>) = {}
    BY ElementsOne
  <2>3. has(0) = {} /\ 0 \in 0..m
    OBVIOUS
  <2>4. QED
    BY <2>1, <2>2, <2>3
<1>2. ASSUME NEW n \in 0..m, n \in S, n < m PROVE n + 1 \in S
  <2>1. n \in Nat /\ n + 1 \in 0..m /\ n + 1 \in Nat
    BY <1>2
  <2>2. PICK more : more = IF chunks[n + 1].content # "none" THEN <<n + 1>> ELSE <<>>
    OBVIOUS
  <2>3. /\ TextsTo(n, chunks) \in Seq(Nat)
        /\ TextsTo(n + 1, chunks) = TextsTo(n, chunks) \o more
    BY <2>1, <2>2, TextsMore
  <2>4. more \in Seq(Nat)
    BY <2>1, <2>2
  <2>5. ToSet(more) = IF chunks[n + 1].content # "none" THEN {n + 1} ELSE {}
    <3>1. PICK k : k = n + 1
      OBVIOUS
    <3>2. ToSet(<<k>>) = {k} /\ ToSet(<<>>) = {}
      BY ElementsOne
    <3>3. QED
      BY <2>2, <3>1, <3>2
  <2>6. PICK s \in Seq(Nat), t \in Seq(Nat) : s = TextsTo(n, chunks) /\ t = more
    BY <2>3, <2>4
  <2>7. ToSet(s \o t) = ToSet(s) \cup ToSet(t)
    <3>1. ToSet(s \o t) \subseteq ToSet(s) \cup ToSet(t)
      BY ElementsBoth
    <3>2. ToSet(s) \subseteq ToSet(s \o t)
      BY DEF ToSet
    <3>3. ASSUME NEW k \in DOMAIN t PROVE t[k] \in ToSet(s \o t)
      <4>1. Len(s) + k \in DOMAIN (s \o t) /\ (s \o t)[Len(s) + k] = t[k]
        OBVIOUS
      <4>2. QED
        BY <4>1 DEF ToSet
    <3>4. ToSet(t) \subseteq ToSet(s \o t)
      BY <3>3 DEF ToSet
    <3>5. QED
      BY <3>1, <3>2, <3>4
  <2>8. ToSet(s) = has(n)
    BY <1>2, <2>6
  <2>9. has(n + 1) = has(n) \cup (IF chunks[n + 1].content # "none" THEN {n + 1} ELSE {})
    BY <2>1
  <2> HIDE DEF has
  <2>10. ToSet(TextsTo(n + 1, chunks)) = has(n + 1)
    BY <2>3, <2>5, <2>6, <2>7, <2>8, <2>9
  <2>11. QED
    BY <2>1, <2>10
<1> HIDE DEF S
<1>3. \A i \in 0..m : i \in S
  BY <1>1, <1>2, Induction
<1>4. m \in S
  BY <1>3
<1>5. QED
  BY <1>4 DEF S

(* The same of the next state. *)
LEMMA TextsSeenNext == (seen \in Seq(Shapes) => Texts = TextsTo(Len(seen), seen))'
<1>1. seen \in Seq(Shapes) => Texts = TextsTo(Len(seen), seen)
  BY TextsSeen
<1>2. QED
  BY <1>1, PTL

(* What is excused covers what may have been left out. *)
LEMMA ExcusedCovers ==
  ASSUME seen \in Seq(Shapes), suppress, acc.native
  PROVE  Covers(Excused, Len(seen), seen)
<1>1. PICK m \in Nat : m = Len(seen)
  OBVIOUS
<1>2. Texts = TextsTo(m, seen)
  BY <1>1, TextsSeen
<1>3. PICK chunks : chunks = seen
  OBVIOUS
<1>4. ToSet(TextsTo(m, chunks)) = {i \in 1..m : chunks[i].content # "none"}
  BY TextsAre
<1>5. \A i \in 1..m : seen[i].content # "none" => i \in ToSet(Texts)
  BY <1>2, <1>3, <1>4
<1>6. SUFFICES ASSUME NEW i \in 1..m, seen[i].content # "none",
                      ~(seen[i].content = "plain" /\ OfKind({"unclosed"}, i - 1, seen) = {})
               PROVE  i \in Excused
  BY <1>1 DEF Covers
<1>7. i \in ToSet(Texts)
  BY <1>5, <1>6
<1>8. seen[i].content # "plain" \/ \E j \in 1..i - 1 : seen[j].content = "unclosed"
  BY <1>6 DEF OfKind
<1>9. QED
  BY <1>7, <1>8 DEF Excused

(* The same of the next state. *)
LEMMA ExcusedCoversNext ==
  (seen \in Seq(Shapes) /\ suppress /\ acc.native => Covers(Excused, Len(seen), seen))'
<1>1. seen \in Seq(Shapes) /\ suppress /\ acc.native => Covers(Excused, Len(seen), seen)
  BY ExcusedCovers
<1>2. QED
  BY <1>1, PTL

\* What is held back of each channel.
HeldText == Told("msg_delta", queue) \o acc.edge \o acc.deferred
HeldReasoning == Told("rsn_delta", queue) \o Unflushed

(* What was told and what is held back is all there is. *)
LEMMA Everything ==
  ASSUME ChatInv, ending # "gone"
  PROVE  /\ Told("msg_delta", out) \o HeldText = acc.text \o (acc.edge \o acc.deferred)
         /\ acc.text \o (acc.edge \o acc.deferred) \in Seq(Nat)
         /\ Told("rsn_delta", out) \o HeldReasoning = acc.rtext
         /\ acc.rtext \in Seq(Nat)
<1>1. out \in Seq(Event) /\ queue \in Seq(Event) /\ acc \in Accum
  BY DEF ChatInv, Types
<1>2. /\ acc.text \in Seq(Positions) /\ acc.edge \in Seq(Positions)
      /\ acc.deferred \in Seq(Positions) /\ acc.rtext \in Seq(Positions)
      /\ acc.rpending \in Seq(Positions)
  BY <1>1, AccumType
<1>3. Positions \subseteq Nat /\ Parts \subseteq Nat
  BY Constants
<1>4. Unflushed \in Seq(Positions)
  BY <1>2 DEF Unflushed
<1>5. PICK x \in Seq(Nat), y \in Seq(Nat), z \in Seq(Nat), r \in Seq(Nat), u \in Seq(Nat) :
        x = acc.text /\ y = acc.edge /\ z = acc.deferred /\ r = acc.rtext /\ u = Unflushed
  BY <1>2, <1>3, <1>4, Widened
<1>6. /\ Told("msg_delta", out \o queue) = Told("msg_delta", out) \o Told("msg_delta", queue)
      /\ Told("msg_delta", out) \in Seq(Parts) /\ Told("msg_delta", queue) \in Seq(Parts)
      /\ Told("rsn_delta", out \o queue) = Told("rsn_delta", out) \o Told("rsn_delta", queue)
      /\ Told("rsn_delta", out) \in Seq(Parts) /\ Told("rsn_delta", queue) \in Seq(Parts)
  BY <1>1, ToldBoth
<1>7. PICK a \in Seq(Nat), b \in Seq(Nat), c \in Seq(Nat), d \in Seq(Nat) :
        /\ a = Told("msg_delta", out) /\ b = Told("msg_delta", queue)
        /\ c = Told("rsn_delta", out) /\ d = Told("rsn_delta", queue)
  BY <1>3, <1>6, Widened
<1>8. a \o b = x /\ (c \o d) \o u = r
  BY <1>5, <1>6, <1>7, StillCoheres
<1>9. a \o ((b \o y) \o z) = (a \o b) \o (y \o z) /\ c \o (d \o u) = (c \o d) \o u
      /\ x \o (y \o z) \in Seq(Nat)
  <2>1. y \o z \in Seq(Nat) /\ b \o y \in Seq(Nat)
    OBVIOUS
  <2>2. PICK v \in Seq(Nat) : v = y \o z
    BY <2>1
  <2>3. Associates(b, y, z) /\ Associates(a, b, v) /\ Associates(c, d, u)
    BY Chained
  <2>4. x \o v \in Seq(Nat)
    OBVIOUS
  <2>5. QED
    BY <2>2, <2>3, <2>4 DEF Associates
<1>10. QED
  BY <1>5, <1>7, <1>8, <1>9 DEF HeldText, HeldReasoning

(* The same of the next state. *)
LEMMA EverythingNext ==
  (ChatInv /\ ending # "gone" =>
     /\ Told("msg_delta", out) \o HeldText = acc.text \o (acc.edge \o acc.deferred)
     /\ acc.text \o (acc.edge \o acc.deferred) \in Seq(Nat)
     /\ Told("rsn_delta", out) \o HeldReasoning = acc.rtext
     /\ acc.rtext \in Seq(Nat))'
<1>1. ChatInv /\ ending # "gone" =>
        /\ Told("msg_delta", out) \o HeldText = acc.text \o (acc.edge \o acc.deferred)
        /\ acc.text \o (acc.edge \o acc.deferred) \in Seq(Nat)
        /\ Told("rsn_delta", out) \o HeldReasoning = acc.rtext
        /\ acc.rtext \in Seq(Nat)
  BY Everything
<1>2. QED
  BY <1>1, PTL

(* What is left of the text so far, and of the text after a step. *)
LEMMA TextGoes ==
  ASSUME ChatInv, ChatInv', Goes
  PROVE  /\ IsPrefix(Less(acc.text \o (acc.edge \o acc.deferred), Excused'),
                     Less(acc'.text \o (acc'.edge \o acc'.deferred), Excused'))
         /\ Excused \subseteq Excused'
<1>1. /\ seen \in Seq(Shapes) /\ seen' \in Seq(Shapes)
      /\ TextKept(acc, Len(seen), seen) /\ TextKept(acc, Len(seen), seen)'
  BY DEF ChatInv, Types, TextInv
<1>2. suppress' = suppress /\ (acc.native => acc'.native)
  BY DEF Goes
<1>3. PICK X : X = Excused'
  OBVIOUS
<1>4. PICK s \in Seq(Shapes), t \in Seq(Shapes), m \in Nat, n \in Nat :
        /\ s = seen /\ t = seen' /\ m = Len(s) /\ n = Len(t)
        /\ (t = s \/ n = m + 1) /\ \A i \in 1..m : t[i] = s[i]
  <2>1. CASE seen' = seen
    BY <1>1, <2>1
  <2>2. ASSUME NEW c \in Shapes, seen' = Append(seen, c)
        PROVE  Len(seen') = Len(seen) + 1 /\ \A i \in 1..Len(seen) : seen'[i] = seen[i]
    BY <1>1, <2>2
  <2>3. QED
    BY <1>1, <2>1, <2>2 DEF Goes
<1>5. suppress' /\ acc'.native => Covers(X, n, t)
  BY <1>1, <1>3, <1>4, ExcusedCoversNext
<1>6. suppress /\ acc.native => Covers(X, m, s)
  <2>1. SUFFICES ASSUME suppress, acc.native PROVE Covers(X, m, s)
    OBVIOUS
  <2>2. Covers(X, n, t)
    BY <1>2, <1>5, <2>1
  <2>3. Covers(X, m, t)
    <3>1. CASE t = s
      BY <1>4, <2>2, <3>1
    <3>2. CASE n = m + 1
      <4>1. Covers(X, m + 1, t)
        BY <2>2, <3>2
      <4>2. QED
        BY <4>1, CoversLess
    <3>3. QED
      BY <1>4, <3>1, <3>2
  <2>4. QED
    BY <1>4, <2>3, SeenSame
<1>7. Less(acc.text \o (acc.edge \o acc.deferred), X) = Less(TextsTo(m, s), X)
  BY <1>1, <1>4, <1>6 DEF TextKept
<1>8. Less(acc'.text \o (acc'.edge \o acc'.deferred), X) = Less(TextsTo(n, t), X)
  <2>1. \A Y : (suppress' /\ acc'.native => Covers(Y, Len(seen'), seen')) =>
           Less(acc'.text \o (acc'.edge \o acc'.deferred), Y) = Less(TextsTo(Len(seen'), seen'), Y)
    BY <1>1 DEF TextKept
  <2>2. QED
    BY <1>4, <1>5, <2>1
<1>9. IsPrefix(Less(TextsTo(m, s), X), Less(TextsTo(n, t), X))
  <2>1. TextsTo(m, s) = TextsTo(m, t)
    BY <1>4, SeenSame
  <2>2. \E more \in Seq(Nat) : TextsTo(n, t) = TextsTo(m, t) \o more
    <3>1. TextsTo(m, t) \in Seq(Nat)
      BY TextsMore
    <3>2. CASE t = s
      <4>1. PICK w \in Seq(Nat) : w = TextsTo(m, t)
        BY <3>1
      <4>2. w \o <<>> = w /\ <<>> \in Seq(Nat) /\ n = m
        BY <1>4, <3>2
      <4>3. QED
        BY <4>1, <4>2
    <3>3. CASE n = m + 1
      <4>1. PICK more : more = IF t[m + 1].content # "none" THEN <<m + 1>> ELSE <<>>
        OBVIOUS
      <4>2. TextsTo(n, t) = TextsTo(m, t) \o more
        BY <3>3, <4>1, TextsMore
      <4>3. more \in Seq(Nat)
        BY <4>1
      <4>4. QED
        BY <4>2, <4>3
    <3>4. QED
      BY <1>4, <3>2, <3>3
  <2>3. PICK w \in Seq(Nat), more \in Seq(Nat) : w = TextsTo(m, t) /\ TextsTo(n, t) = w \o more
    BY <2>2, TextsMore
  <2>4. /\ Less(w, X) \in Seq(Nat) /\ Less(more, X) \in Seq(Nat)
        /\ Less(w \o more, X) = Less(w, X) \o Less(more, X)
    BY LessBoth
  <2>5. PICK x \in Seq(Nat), y \in Seq(Nat) : x = Less(w, X) /\ y = Less(more, X)
    BY <2>4
  <2>6. IsPrefix(x, x \o y)
    BY PrefixOfMore
  <2>7. QED
    BY <2>1, <2>3, <2>4, <2>5, <2>6
<1>10. Excused \subseteq Excused'
  <2>1. SUFFICES ASSUME NEW i \in Excused PROVE i \in Excused'
    OBVIOUS
  <2>2. /\ suppress /\ acc.native /\ i \in ToSet(Texts)
        /\ (seen[i].content # "plain" \/ \E j \in 1..i - 1 : seen[j].content = "unclosed")
    BY DEF Excused
  <2>3. ToSet(Texts) = {k \in 1..m : s[k].content # "none"}
    <3>1. Texts = TextsTo(m, s)
      BY <1>4, TextsSeen
    <3>2. QED
      BY <3>1, TextsAre
  <2>4. ToSet(Texts') = {k \in 1..n : t[k].content # "none"}
    <3>1. Texts' = TextsTo(n, t)
      BY <1>1, <1>4, TextsSeenNext
    <3>2. QED
      BY <3>1, TextsAre
  <2>5. i \in 1..m /\ i \in 1..n /\ t[i] = s[i] /\ \A j \in 1..i - 1 : t[j] = s[j]
    BY <1>4, <2>2, <2>3
  <2>6. i \in ToSet(Texts')
    BY <2>2, <2>3, <2>4, <2>5
  <2>7. seen'[i].content # "plain" \/ \E j \in 1..i - 1 : seen'[j].content = "unclosed"
    BY <1>4, <2>2, <2>5
  <2>8. QED
    BY <1>2, <2>2, <2>6, <2>7 DEF Excused
<1>11. QED
  BY <1>3, <1>7, <1>8, <1>9, <1>10

(* A step that tells the client nothing, or the next event. *)
Moves ==
  \/ out' = out
  \/ queue # <<>> /\ out' = Append(out, Head(queue))

(* Such a step is faithful to what was said. *)
LEMMA Faithfully ==
  ASSUME ChatInv, ChatInv', ending # "gone", ending' # "gone", Moves, Goes
  PROVE  Promise!Faithful
<1>1. out \in Seq(Event) /\ out' \in Seq(Event) /\ queue \in Seq(Event)
  BY DEF ChatInv, Types
<1>2. ASSUME NEW type PROVE IsPrefix(Told(type, out), Told(type, out'))
  <2>1. \E e \in Seq(Event) : out' = out \o e
    <3>1. CASE out' = out
      <4>1. out \o <<>> = out /\ <<>> \in Seq(Event)
        BY <1>1
      <4>2. QED
        BY <3>1, <4>1
    <3>2. CASE queue # <<>> /\ out' = Append(out, Head(queue))
      <4>1. Head(queue) \in Event
        BY <1>1, <3>2
      <4>2. <<Head(queue)>> \in Seq(Event) /\ out' = out \o <<Head(queue)>>
        BY <1>1, <3>2, <4>1
      <4>3. QED
        BY <4>2
    <3>3. QED
      BY <3>1, <3>2 DEF Moves
  <2>2. PICK o \in Seq(Event), e \in Seq(Event) : o = out /\ out' = o \o e
    BY <1>1, <2>1
  <2>3. Told(type, o \o e) = Told(type, o) \o Told(type, e)
        /\ Told(type, o) \in Seq(Parts) /\ Told(type, e) \in Seq(Parts)
    BY ToldBoth
  <2>4. PICK x \in Seq(Parts), y \in Seq(Parts) : x = Told(type, o) /\ y = Told(type, e)
    BY <2>3
  <2>5. IsPrefix(x, x \o y)
    BY PrefixOfMore
  <2>6. QED
    BY <2>2, <2>3, <2>4, <2>5
<1>3. IsPrefix(acc.rtext, acc'.rtext) /\ acc.rtext \in Seq(Nat) /\ acc'.rtext \in Seq(Nat)
  <2>1. acc.rtext \in Seq(Nat) /\ acc'.rtext \in Seq(Nat)
    BY Everything, EverythingNext
  <2>2. PICK i \in Nat : Grows(acc.rtext, acc'.rtext, i)
    BY DEF Goes
  <2>3. PICK r \in Seq(Nat), o \in Seq(Nat) : r = acc.rtext /\ o = <<i>>
    <3>1. <<i>> \in Seq(Nat)
      OBVIOUS
    <3>2. QED
      BY <2>1, <3>1
  <2>4. IsPrefix(r, r) /\ IsPrefix(r, r \o o) /\ Append(r, i) = r \o o
    <3>1. Append(r, i) = r \o <<i>>
      OBVIOUS
    <3>2. QED
      BY <2>3, <3>1, PrefixOfMore
  <2>5. QED
    BY <2>1, <2>2, <2>3, <2>4 DEF Grows
<1>4. /\ Told("msg_delta", out) \o HeldText = acc.text \o (acc.edge \o acc.deferred)
      /\ acc.text \o (acc.edge \o acc.deferred) \in Seq(Nat)
      /\ Told("rsn_delta", out) \o HeldReasoning = acc.rtext
  BY Everything
<1>5. /\ Told("msg_delta", out') \o HeldText' = acc'.text \o (acc'.edge \o acc'.deferred)
      /\ acc'.text \o (acc'.edge \o acc'.deferred) \in Seq(Nat)
      /\ Told("rsn_delta", out') \o HeldReasoning' = acc'.rtext
  BY EverythingNext
<1>6. /\ IsPrefix(Less(acc.text \o (acc.edge \o acc.deferred), Excused'),
                  Less(acc'.text \o (acc'.edge \o acc'.deferred), Excused'))
      /\ Excused \subseteq Excused'
  BY TextGoes
<1>7. IsPrefix(Promise!Kept(Told("msg_delta", out) \o HeldText, Excused'),
               Promise!Kept(Told("msg_delta", out') \o HeldText', Excused'))
  <2>0. PICK X : X = Excused'
    OBVIOUS
  <2>1. PICK x \in Seq(Nat), y \in Seq(Nat) :
          /\ x = acc.text \o (acc.edge \o acc.deferred)
          /\ y = acc'.text \o (acc'.edge \o acc'.deferred)
    BY <1>4, <1>5
  <2>2. Promise!Kept(x, X) = Less(x, X) /\ Promise!Kept(y, X) = Less(y, X)
    BY KeptLess
  <2>3. QED
    BY <1>4, <1>5, <1>6, <2>0, <2>1, <2>2
<1>8. IsPrefix(Promise!Kept(Told("rsn_delta", out) \o HeldReasoning, {}),
               Promise!Kept(Told("rsn_delta", out') \o HeldReasoning', {}))
  <2>1. PICK x \in Seq(Nat), y \in Seq(Nat) : x = acc.rtext /\ y = acc'.rtext
    BY <1>3
  <2>2. Promise!Kept(x, {}) = x /\ Promise!Kept(y, {}) = y
    BY KeptLess, LessNothing
  <2>3. QED
    BY <1>3, <1>4, <1>5, <2>1, <2>2
<1>9. /\ HeldText = Told("msg_delta", queue) \o acc.edge \o acc.deferred
      /\ HeldText' = Told("msg_delta", queue') \o acc'.edge \o acc'.deferred
      /\ HeldReasoning = Told("rsn_delta", queue)
                           \o (IF ending = "open" THEN acc.rpending ELSE <<>>)
      /\ HeldReasoning' = Told("rsn_delta", queue')
                           \o (IF ending' = "open" THEN acc'.rpending ELSE <<>>)
  BY DEF HeldText, HeldReasoning, Unflushed
<1>10. IsPrefix(Told("msg_delta", out), Told("msg_delta", out'))
       /\ IsPrefix(Told("rsn_delta", out), Told("rsn_delta", out'))
  BY <1>2
<1>11. Channels = {"reasoning", "text"}
  BY DEF Channels
<1>12. QED
  BY <1>6, <1>7, <1>8, <1>9, <1>10, <1>11, SamePrefix DEF Promise!Faithful

(* Every step is one that the promise allows. *)
LEMMA PromiseStep ==
  ASSUME ChatInv, ChatInv', [Next]_vars
  PROVE  Promise!Next \/ UNCHANGED Promise!vars
<1>0. /\ Types /\ FlowInv /\ TextInv /\ BillInv
      /\ Types' /\ FlowInv' /\ TextInv' /\ BillInv'
  BY DEF ChatInv
<1>1. ASSUME Moves, Goes, pc # "closed", pc' # "closed",
             billed # <<>> => billed' # <<>>, credited => credited'
      PROVE  Promise!Next
  <2>1. ending # "gone" /\ ending' # "gone"
    BY <1>0, <1>1 DEF FlowInv
  <2>2. Promise!Faithful
    BY <1>1, <2>1, Faithfully
  <2>3. credited' => billed' # <<>>
    BY <1>0 DEF BillInv
  <2>4. Promise!Speak
    BY <1>1, <2>2, <2>3 DEF Promise!Speak, Promise!Accounts
  <2>5. QED
    BY <2>4 DEF Promise!Next
<1>2. ASSUME NEW a, NEW end, Deliver(a, end) PROVE pc' # "closed"
  BY <1>2 DEF Deliver
<1>3. CASE ReadChunk
  <2>1. Goes
    BY <1>3, ReadKeeps
  <2>2. /\ pc = "reading" /\ out' = out /\ billed' = billed /\ credited' = credited
        /\ Deliver(Apply(Len(seen'), seen'), "open")
    BY <1>3 DEF ReadChunk
  <2>3. QED
    BY <1>1, <1>2, <2>1, <2>2 DEF Moves
<1>4. ASSUME pc = "reading", Fail PROVE Promise!Next
  <2>1. Goes
    BY <1>4, FailKeeps
  <2>2. out' = out /\ billed' = billed /\ credited' = credited /\ Deliver(Failure, "failure")
    BY <1>4 DEF Fail
  <2>3. QED
    BY <1>1, <1>2, <1>4, <2>1, <2>2 DEF Moves
<1>5. ASSUME suppress' = suppress, seen' = seen, acc' = acc PROVE Goes
  <2>1. Grows(acc.rtext, acc'.rtext, 0)
    BY <1>5 DEF Grows
  <2>2. QED
    BY <1>5, <2>1 DEF Goes
<1>6. ASSUME pc = "reading", Succeed PROVE Promise!Next
  <2>1. /\ billed' = Append(billed, acc.usage) /\ pc' = "crediting" /\ out' = out
        /\ credited' = credited /\ suppress' = suppress /\ seen' = seen /\ acc' = acc
    BY <1>6 DEF Succeed
  <2>2. billed' # <<>>
    <3>1. acc.usage \in Positions \cup {None} /\ billed \in Seq(Positions \cup {None})
      BY <1>0, AccumType DEF Types
    <3>2. QED
      BY <2>1, <3>1
  <2>3. QED
    BY <1>1, <1>5, <1>6, <2>1, <2>2 DEF Moves
<1>7. CASE Credit
  <2>1. Goes
    BY <1>7, CreditKeeps
  <2>2. /\ pc = "crediting" /\ out' = out /\ billed' = billed /\ credited' = TRUE
        /\ Deliver(Finish, "success")
    BY <1>7 DEF Credit
  <2>3. QED
    BY <1>1, <1>2, <2>1, <2>2 DEF Moves
<1>8. CASE Yield
  <2>1. /\ pc = "yielding" /\ out' = Append(out, Head(queue)) /\ pc' = AfterYield
        /\ suppress' = suppress /\ seen' = seen /\ acc' = acc
        /\ billed' = billed /\ credited' = credited /\ ending' = ending
    BY <1>8 DEF Yield
  <2>2. Moves /\ Goes
    BY <1>0, <1>5, <2>1 DEF Moves, FlowInv
  <2>3. CASE pc' # "closed"
    BY <1>1, <2>1, <2>2, <2>3
  <2>4. CASE pc' = "closed"
    <3>1. ending # "gone" /\ ending # "open" /\ queue' = <<>>
      BY <1>0, <2>1, <2>4 DEF FlowInv
    <3>2. ending \in {"success", "failure"}
      BY <1>0, <3>1 DEF Types
    <3>3. Promise!Faithful
      BY <2>1, <2>2, <3>1, Faithfully
    <3>4. acc'.edge = <<>> /\ acc'.deferred = <<>>
      BY <1>0, <2>1, <3>2 DEF TextInv, TextDone
    <3>5. Told("msg_delta", <<>>) = <<>> /\ Told("rsn_delta", <<>>) = <<>>
      <4>1. <<>> \in Seq(Event) /\ At("msg_delta", <<>>) = {} /\ At("rsn_delta", <<>>) = {}
        BY DEF At
      <4>2. QED
        BY <4>1, ToldNothing
    <3>6. /\ Told("msg_delta", queue') \o acc'.edge \o acc'.deferred = <<>>
          /\ Told("rsn_delta", queue') \o (IF ending' = "open" THEN acc'.rpending ELSE <<>>) = <<>>
      <4>1. (<<>> \o <<>>) \o <<>> = <<>> /\ <<>> \o <<>> = <<>>
        OBVIOUS
      <4>2. QED
        BY <2>1, <3>1, <3>4, <3>5, <4>1
    <3>7. \/ ending' = "success" /\ billed' # <<>> /\ credited'
          \/ ending' \in {"failure", "broken"} /\ ~(billed' # <<>>) /\ ~credited'
      BY <1>0, <2>1, <3>2 DEF BillInv
    <3>8. Promise!Accounts
      BY <1>0, <2>1 DEF Promise!Accounts, BillInv
    <3>9. Channels = {"reasoning", "text"}
      BY DEF Channels
    <3>10. Promise!Close
      BY <2>1, <2>4, <3>3, <3>6, <3>7, <3>8, <3>9 DEF Promise!Close
    <3>11. QED
      BY <3>10 DEF Promise!Next
  <2>5. QED
    BY <2>3, <2>4
<1>9. CASE Drop
  <2>1. /\ pc # "closed" /\ pc' = "closed" /\ ending' = "gone"
        /\ UNCHANGED <<suppress, seen, acc, out, billed, credited>>
    BY <1>9 DEF Drop
  <2>2. Excused' = Excused
    BY <2>1 DEF Excused, Texts
  <2>3. Promise!Leave
    BY <2>1, <2>2 DEF Promise!Leave
  <2>4. QED
    BY <2>3 DEF Promise!Next
<1>10. CASE UNCHANGED vars
  <2>1. /\ suppress' = suppress /\ pc' = pc /\ seen' = seen /\ acc' = acc /\ billed' = billed
        /\ credited' = credited /\ queue' = queue /\ ending' = ending /\ out' = out
    BY <1>10 DEF vars
  <2>2. Excused' = Excused
    BY <2>1 DEF Excused, Texts
  <2>3. QED
    BY <2>1, <2>2 DEF Promise!vars
<1>11. CASE UpstreamFails \/ UpstreamEnds
  BY <1>4, <1>6, <1>11 DEF UpstreamFails, UpstreamEnds
<1>12. QED
  BY <1>3, <1>7, <1>8, <1>9, <1>10, <1>11 DEF Next

(* The start of the stream. *)
LEMMA PromiseInit == Init => Promise!Init
<1> SUFFICES ASSUME Init PROVE Promise!Init
  OBVIOUS
<1>1. /\ pc = "yielding" /\ seen = <<>> /\ out = <<>> /\ billed = <<>> /\ credited = FALSE
      /\ ending = "open" /\ queue = <<[type |-> "created", parts |-> <<>>]>>
  BY DEF Init
<1>2. acc.edge = <<>> /\ acc.deferred = <<>> /\ acc.rpending = <<>> /\ ~acc.native
  BY DEF Init
<1>3. Excused = {}
  BY <1>2 DEF Excused
<1>4. PICK e \in Event : e = [type |-> "created", parts |-> <<>>]
  <2>1. <<>> \in Seq(Parts)
    OBVIOUS
  <2>2. QED
    BY <2>1, SaidEvent DEF Opened
<1>5. \A type \in {"msg_delta", "rsn_delta"} : Told(type, queue) = <<>> /\ Told(type, out) = <<>>
  BY <1>1, <1>4, ToldOne
<1>6. (<<>> \o <<>>) \o <<>> = <<>> /\ <<>> \o <<>> = <<>>
  OBVIOUS
<1>7. QED
  BY <1>1, <1>2, <1>3, <1>5, <1>6 DEF Promise!Init, Channels

(* The Chat converter implements the promise of ResponseStream: reasoning  *)
(* and text each in order, nothing of the text left out but what a native  *)
(* call excuses, nothing held back at an end that the proxy makes, and an  *)
(* end that is billed and credited as it should be.                        *)
THEOREM KeepsPromiseHolds == Spec => KeepsPromise
<1>1. Init => Promise!Init
  BY PromiseInit
<1>2. ChatInv /\ ChatInv' /\ [Next]_vars => [Promise!Next]_(Promise!vars)
  BY PromiseStep
<1>3. QED
  BY <1>1, <1>2, ChatInvariant, PTL DEF Spec, KeepsPromise, Promise!Spec
=============================================================================
