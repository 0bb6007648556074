------------------------- MODULE NativeStreamProofs -------------------------
(***************************************************************************)
(* Proofs about NativeStream, for every set of frames an upstream may      *)
(* send, every length of a stream and every size of the buffer.            *)
(***************************************************************************)
EXTENDS NativeStream, Recursion

Ended(i) == heard[i].kind \in {"completed", "incomplete"}

\* The converter reads on.
Open == pc = "reading" \/ (pc = "yielding" /\ ending = "open")

\* What is recorded is the last usage that the upstream reported.
IsLatest(u) ==
  LET counts == {i \in DOMAIN heard : heard[i].usage}
  IN IF counts = {} THEN u = None
     ELSE u \in counts /\ \A i \in counts : i <= u

\* While the converter reads, no response came and the latest usage is the
\* pending one; afterwards nothing is read, so that both stay.
ReadInv ==
  /\ Open => /\ \A i \in DOMAIN heard : ~Ended(i)
             /\ IsLatest(usage)
             /\ billed = <<>>
  /\ pc = "crediting" => heard # <<>> /\ heard[Len(heard)].kind = "completed"
  /\ pc = "reading" => queue = <<>>

\* Only reasoning waits in the buffer, and a completed response is neither
\* queued nor told before the session is credited.
Covered(events, frames, allowed) ==
  \A k \in DOMAIN events : \A p \in ToSet(events[k].parts) :
    p \in DOMAIN frames /\ (frames[p].kind = "completed" => allowed)
TellInv ==
  /\ \A p \in ToSet(pending) : p \in DOMAIN heard /\ heard[p].kind = "reasoning"
  /\ Covered(out, heard, credited) /\ Covered(queue, heard, credited)

\* What was recorded, once the response has come.
BillInv ==
  /\ billed = <<>> \/ Len(billed) = 1
  /\ billed # <<>> <=> \E i \in DOMAIN heard : Ended(i)
  /\ \A i \in DOMAIN heard : Ended(i) => i = Len(heard)
  /\ billed # <<>> => IsLatest(billed[1])
  /\ credited => heard # <<>> /\ heard[Len(heard)].kind = "completed"

IInv == TypeOK /\ ReadInv /\ TellInv /\ BillInv

-----------------------------------------------------------------------------
(* What the assumption says of a frame. *)
LEMMA Frames ==
  ASSUME NEW f \in Shapes
  PROVE  /\ f \in Frame /\ f.kind \in Kinds /\ f.item \in Items \cup {None}
         /\ f.usage \in BOOLEAN /\ f.id \in BOOLEAN
         /\ f.kind = "reasoning" <=> f.item # None
BY NativeAssumption DEF Frame

(* A sequence of some things is one of more. *)
LEMMA Widened ==
  ASSUME NEW S, NEW T, S \subseteq T, NEW s \in Seq(S)
  PROVE  s \in Seq(T)
OBVIOUS

(* Every variable has its type at the start. *)
LEMMA InitType == Init => TypeOK
<1> SUFFICES ASSUME Init PROVE TypeOK
  OBVIOUS
<1>1. Len(<<>>) = 0 /\ 0 <= MaxFrames
  BY NativeAssumption
<1>2. heard \in Seq(Shapes) /\ Len(heard) <= MaxFrames
  BY <1>1 DEF Init
<1>3. pending \in Seq(1..Len(heard)) /\ billed \in Seq(1..Len(heard) \cup {None})
  BY DEF Init
<1>4. queue \in Seq(Event) /\ out \in Seq(Event)
  BY DEF Init
<1>5. QED
  BY <1>2, <1>3, <1>4 DEF Init, TypeOK

(* The events that the converter makes of its state. *)
LEMMA BlockType ==
  ASSUME TypeOK
  PROVE  TakeAll \in Seq(Event)
<1>1. CASE pending = <<>>
  BY <1>1 DEF TakeAll
<1>2. CASE pending # <<>>
  <2>1. Len(heard) \in Nat /\ Len(heard) <= MaxFrames /\ MaxFrames \in Nat
    BY NativeAssumption DEF TypeOK
  <2>2. pending \in Seq(1..MaxFrames)
    BY <2>1 DEF TypeOK
  <2>3. [type |-> "delta", of |-> active, parts |-> pending] \in Event
    BY <2>2 DEF Event, TypeOK
  <2>4. QED
    BY <1>2, <2>3 DEF TakeAll
<1>3. QED
  BY <1>1, <1>2

(* One event told of the positions of frames. *)
LEMMA ToldType ==
  ASSUME NEW type \in {"frame", "comment", "failed", "error", "abort"},
         NEW parts \in Seq(1..MaxFrames)
  PROVE  Told(type, parts) \in Event
BY DEF Told, Event

(* Reading a frame keeps what was known of the frames before it. *)
LEMMA AppendFrame ==
  ASSUME TypeOK, NEW f \in Shapes, Len(heard) < MaxFrames, heard' = Append(heard, f)
  PROVE  /\ heard' \in Seq(Shapes) /\ Len(heard') = Len(heard) + 1
         /\ Len(heard') <= MaxFrames /\ Len(heard') \in 1..MaxFrames
         /\ <<Len(heard')>> \in Seq(1..MaxFrames)
         /\ pending \in Seq(1..Len(heard'))
         /\ usage \in 1..Len(heard') \cup {None}
         /\ billed \in Seq(1..Len(heard') \cup {None})
<1>1. heard \in Seq(Shapes) /\ Len(heard) \in Nat /\ MaxFrames \in Nat
  BY NativeAssumption DEF TypeOK
<1>2. heard' \in Seq(Shapes) /\ Len(heard') = Len(heard) + 1
  BY <1>1
<1>3. Len(heard') <= MaxFrames /\ Len(heard') \in 1..MaxFrames
  BY <1>1, <1>2
<1>4. 1..Len(heard) \subseteq 1..Len(heard')
  BY <1>1, <1>2
<1>5. usage \in 1..Len(heard') \cup {None}
  BY <1>4 DEF TypeOK
<1>6. pending \in Seq(1..Len(heard'))
  BY <1>4 DEF TypeOK
<1>7. billed \in Seq(1..Len(heard') \cup {None})
  <2>1. 1..Len(heard) \cup {None} \subseteq 1..Len(heard') \cup {None}
    BY <1>4
  <2>2. QED
    BY <2>1 DEF TypeOK
<1>8. QED
  BY <1>2, <1>3, <1>5, <1>6, <1>7

(* Handing over the queue. *)
LEMMA DeliverType ==
  ASSUME NEW end \in {"open", "success", "partial", "failure", "broken", "gone"},
         Deliver(end)
  PROVE  /\ ending' \in {"open", "success", "partial", "failure", "broken", "gone"}
         /\ pc' \in {"reading", "crediting", "yielding", "closed"}
         /\ pc' = "yielding" <=> queue' # <<>>
BY DEF Deliver

(* What a new frame is billed with. *)
LEMMA BillType ==
  ASSUME TypeOK, NEW f \in Shapes, Len(heard) < MaxFrames, Note(f), Bill(f)
  PROVE  /\ usage' \in 1..Len(heard') \cup {None}
         /\ billed' \in Seq(1..Len(heard') \cup {None})
<1>1. heard' = Append(heard, f) /\ usage' = IF f.usage THEN Len(heard) + 1 ELSE usage
  BY DEF Note
<1>2. Len(heard') = Len(heard) + 1 /\ Len(heard') \in 1..MaxFrames
  BY <1>1, AppendFrame
<1>3. Len(heard) + 1 \in 1..Len(heard')
  BY <1>2 DEF TypeOK
<1>4. usage' \in 1..Len(heard') \cup {None}
  BY <1>1, <1>3, AppendFrame
<1>5. billed \in Seq(1..Len(heard') \cup {None})
  BY <1>1, AppendFrame
<1>6. <<usage'>> \in Seq(1..Len(heard') \cup {None})
  BY <1>4
<1>7. QED
  BY <1>4, <1>5, <1>6 DEF Bill

(* The buffer after one more delta. *)
LEMMA BufferType ==
  ASSUME TypeOK, NEW f \in Shapes, f.kind = "reasoning", Len(heard) < MaxFrames,
         heard' = Append(heard, f), Buffer(f, Len(heard'))
  PROVE  /\ queue' \in Seq(Event)
         /\ pending' \in Seq(1..Len(heard')) /\ active' \in Items \cup {None}
         /\ pending' # <<>> => active' # None
<1>0. PICK i \in Nat : i = Len(heard')
  BY AppendFrame
<1> DEFINE text  == IF f.size = 0 THEN <<>> ELSE <<i>>
           block == IF StartsBlock(f) THEN text ELSE pending \o text
           stamp == IF StartsBlock(f) THEN f.item ELSE active
           flushed == IF StartsBlock(f) THEN TakeAll ELSE <<>>
           full == Size(block, heard') >= FlushChars
<1>1. i \in 1..i /\ i <= MaxFrames /\ pending \in Seq(1..i)
  BY <1>0, AppendFrame
<1>2. text \in Seq(1..i)
  <2>1. <<>> \in Seq(1..i) /\ <<i>> \in Seq(1..i)
    BY <1>1
  <2>2. QED
    BY <2>1
<1>3. block \in Seq(1..i)
  <2> HIDE DEF text
  <2>1. pending \o text \in Seq(1..i)
    BY <1>1, <1>2
  <2>2. QED
    BY <1>2, <2>1
<1>4. stamp \in Items \cup {None} /\ stamp # None
  BY Frames DEF TypeOK, StartsBlock
<1>5. flushed \in Seq(Event)
  BY BlockType
<1>6. block \in Seq(1..MaxFrames)
  <2>1. 1..i \subseteq 1..MaxFrames
    BY <1>1, NativeAssumption
  <2> HIDE DEF block
  <2>2. QED
    BY <1>3, <2>1, Widened
<1>7. [type |-> "delta", of |-> stamp, parts |-> block] \in Event
  BY <1>4, <1>6 DEF Event
<1>8. /\ queue' = flushed \o (IF full THEN <<[type |-> "delta", of |-> stamp,
                                               parts |-> block]>> ELSE <<>>)
      /\ pending' = IF full THEN <<>> ELSE block
      /\ active' = IF full THEN None ELSE stamp
  BY <1>0 DEF Buffer
<1>9. QED
  <2> HIDE DEF block, stamp, flushed, full
  <2>1. <<>> \in Seq(Event) /\ <<>> \in Seq(1..i)
    OBVIOUS
  <2>2. <<[type |-> "delta", of |-> stamp, parts |-> block]>> \in Seq(Event)
    BY <1>7
  <2>3. queue' \in Seq(Event)
    BY <1>5, <1>8, <2>1, <2>2
  <2>4. pending' \in Seq(1..i) /\ active' \in Items \cup {None}
    BY <1>3, <1>4, <1>8, <2>1
  <2>5. pending' # <<>> => active' # None
    BY <1>4, <1>8
  <2>6. QED
    BY <1>0, <2>3, <2>4, <2>5

(* A block that is flushed, and what follows it. *)
LEMMA FlushType ==
  ASSUME TypeOK, NEW event \in Event, queue' = TakeAll \o <<event>>
  PROVE  queue' \in Seq(Event)
<1>1. <<event>> \in Seq(Event)
  OBVIOUS
<1>2. QED
  BY <1>1, BlockType

(* Every step keeps the types. *)
LEMMA NextType == TypeOK /\ ReadInv /\ [Next]_vars => TypeOK'
<1> SUFFICES ASSUME TypeOK, ReadInv, [Next]_vars PROVE TypeOK'
  OBVIOUS
<1> DEFINE ends == {"open", "success", "partial", "failure", "broken", "gone"}
<1>0. <<>> \in Seq(1..MaxFrames) /\ \A i \in 1..MaxFrames : <<i>> \in Seq(1..MaxFrames)
  OBVIOUS
<1>1. ASSUME NEW f \in Shapes, Len(heard) < MaxFrames, heard' = Append(heard, f),
             queue' \in Seq(Event),
             NEW end \in ends, Deliver(end),
             pending' \in Seq(1..Len(heard')), active' \in Items \cup {None},
             pending' # <<>> => active' # None, known' \in BOOLEAN,
             usage' \in 1..Len(heard') \cup {None},
             billed' \in Seq(1..Len(heard') \cup {None}),
             UNCHANGED <<credited, out>>
      PROVE  TypeOK'
  <2>1. heard' \in Seq(Shapes) /\ Len(heard') <= MaxFrames
    BY <1>1, AppendFrame
  <2>2. ending' \in ends /\ pc' \in {"reading", "crediting", "yielding", "closed"}
        /\ (pc' = "yielding" <=> queue' # <<>>)
    BY <1>1, DeliverType
  <2>3. credited' \in BOOLEAN /\ out' \in Seq(Event)
    BY <1>1 DEF TypeOK
  <2>4. QED
    BY <1>1, <2>1, <2>2, <2>3 DEF TypeOK
<1>2. ASSUME NEW f \in Shapes, Len(heard) < MaxFrames, BadFrame(f) PROVE TypeOK'
  <2>1. heard' = Append(heard, f) /\ UNCHANGED <<known, usage, billed, credited, out>>
        /\ pending' = <<>> /\ active' = None /\ Deliver("broken")
        /\ queue' = TakeAll \o <<Told("abort", <<>>)>>
    BY <1>2 DEF BadFrame, Break, EmptyBuffer
  <2>2. queue' \in Seq(Event)
    BY <1>0, <2>1, ToldType, FlushType
  <2>3. /\ usage' \in 1..Len(heard') \cup {None}
        /\ billed' \in Seq(1..Len(heard') \cup {None})
    BY <1>2, <2>1, AppendFrame
  <2>4. known' \in BOOLEAN /\ <<>> \in Seq(1..Len(heard'))
    BY <2>1 DEF TypeOK
  <2>5. QED
    BY <1>1, <1>2, <2>1, <2>2, <2>3, <2>4
<1>3. ASSUME NEW f \in Shapes, Len(heard) < MaxFrames, ErrorFrame(f) PROVE TypeOK'
  <2>1. heard' = Append(heard, f) /\ UNCHANGED <<usage, billed, credited, out>>
        /\ known' = (known \/ f.id)
        /\ pending' = <<>> /\ active' = None /\ Deliver("failure")
        /\ queue' = TakeAll \o <<Failed(known')>>
    BY <1>3 DEF ErrorFrame, EmptyBuffer
  <2>2. queue' \in Seq(Event)
    BY <1>0, <2>1, ToldType, FlushType DEF Failed
  <2>3. /\ usage' \in 1..Len(heard') \cup {None}
        /\ billed' \in Seq(1..Len(heard') \cup {None})
    BY <1>3, <2>1, AppendFrame
  <2>4. known' \in BOOLEAN /\ <<>> \in Seq(1..Len(heard'))
    BY <2>1, Frames DEF TypeOK
  <2>5. QED
    BY <1>1, <1>3, <2>1, <2>2, <2>3, <2>4
<1>4. ASSUME NEW f \in Shapes, Len(heard) < MaxFrames, Note(f), Bill(f)
      PROVE  /\ heard' = Append(heard, f) /\ known' \in BOOLEAN
             /\ usage' \in 1..Len(heard') \cup {None}
             /\ billed' \in Seq(1..Len(heard') \cup {None})
             /\ Len(heard') \in 1..MaxFrames
  BY <1>4, AppendFrame, BillType, Frames DEF Note, TypeOK
<1>5. ASSUME NEW f \in Shapes, Len(heard) < MaxFrames, CompletedFrame(f), pc = "reading"
      PROVE  TypeOK'
  <2>1. Note(f) /\ Bill(f) /\ pc' = "crediting"
        /\ UNCHANGED <<pending, active, credited, queue, ending, out>>
    BY <1>5 DEF CompletedFrame
  <2>2. heard' \in Seq(Shapes) /\ Len(heard') <= MaxFrames /\ pending' \in Seq(1..Len(heard'))
    BY <1>4, <1>5, <2>1, AppendFrame
  <2>3. queue = <<>>
    BY <1>5 DEF TypeOK
  <2>4. QED
    BY <1>4, <1>5, <2>1, <2>2, <2>3 DEF TypeOK
<1>6. ASSUME NEW f \in Shapes, Len(heard) < MaxFrames, PassFrame(f) PROVE TypeOK'
  <2>1. Note(f) /\ Bill(f) /\ UNCHANGED <<credited, out>>
        /\ pending' = <<>> /\ active' = None /\ Deliver(EndAfter(f))
        /\ queue' = TakeAll \o <<Told("frame", <<Len(heard')>>)>>
    BY <1>6 DEF PassFrame, Forward, EmptyBuffer
  <2>2. queue' \in Seq(Event)
    BY <1>0, <1>4, <1>6, <2>1, ToldType, FlushType
  <2>3. EndAfter(f) \in ends /\ <<>> \in Seq(1..Len(heard'))
    BY DEF EndAfter, Terminal
  <2>4. QED
    BY <1>1, <1>4, <1>6, <2>1, <2>2, <2>3
<1>7. ASSUME NEW f \in Shapes, Len(heard) < MaxFrames, ReasoningFrame(f) PROVE TypeOK'
  <2>1. f.kind = "reasoning" /\ Note(f) /\ Buffer(f, Len(heard')) /\ Deliver("open")
        /\ UNCHANGED <<billed, credited, out>> /\ heard' = Append(heard, f)
    BY <1>7 DEF ReasoningFrame, Note
  <2>2. billed' \in Seq(1..Len(heard') \cup {None})
    BY <1>7, <2>1, AppendFrame
  <2>3. usage' \in 1..Len(heard') \cup {None} /\ known' \in BOOLEAN
    <3>1. Len(heard) + 1 \in 1..Len(heard')
      BY <1>7, <2>1, AppendFrame
    <3>2. QED
      BY <1>7, <2>1, <3>1, AppendFrame, Frames DEF Note, TypeOK
  <2>4. /\ queue' \in Seq(Event)
        /\ pending' \in Seq(1..Len(heard')) /\ active' \in Items \cup {None}
        /\ pending' # <<>> => active' # None
    BY <1>7, <2>1, BufferType
  <2>5. QED
    BY <1>1, <1>7, <2>1, <2>2, <2>3, <2>4
<1>8. ASSUME NEW f \in Shapes, Len(heard) < MaxFrames, CommentFrame(f) PROVE TypeOK'
  <2>1. Note(f) /\ heard' = Append(heard, f) /\ Deliver("open")
        /\ queue' = <<Told("comment", <<Len(heard')>>)>>
        /\ UNCHANGED <<pending, active, billed, credited, out>>
    BY <1>8 DEF CommentFrame, Note
  <2>2. billed' \in Seq(1..Len(heard') \cup {None}) /\ pending' \in Seq(1..Len(heard'))
        /\ Len(heard') \in 1..MaxFrames
    BY <1>8, <2>1, AppendFrame
  <2>3. usage' \in 1..Len(heard') \cup {None} /\ known' \in BOOLEAN
    <3>1. Len(heard) + 1 \in 1..Len(heard')
      BY <1>8, <2>1, AppendFrame
    <3>2. QED
      BY <1>8, <2>1, <3>1, AppendFrame, Frames DEF Note, TypeOK
  <2>4. queue' \in Seq(Event)
    <3>1. Told("comment", <<Len(heard')>>) \in Event
      BY <1>0, <2>2, ToldType
    <3>2. QED
      BY <2>1, <3>1
  <2>5. active' \in Items \cup {None} /\ (pending' # <<>> => active' # None)
    BY <2>1 DEF TypeOK
  <2>6. QED
    BY <1>1, <1>8, <2>1, <2>2, <2>3, <2>4, <2>5
<1>9. ASSUME UNCHANGED <<heard, known, usage, billed, out>>, credited' \in BOOLEAN,
             pending' = <<>>, active' = None, NEW end \in ends, Deliver(end),
             queue' \in Seq(Event)
      PROVE  TypeOK'
  <2>1. ending' \in ends /\ pc' \in {"reading", "crediting", "yielding", "closed"}
        /\ (pc' = "yielding" <=> queue' # <<>>)
    BY <1>9, DeliverType
  <2>2. QED
    BY <1>9, <2>1 DEF TypeOK
<1>10. CASE TransportFails
  <2>1. queue' = TakeAll \o <<Told("abort", <<>>)>> /\ Deliver("broken")
        /\ UNCHANGED <<heard, known, usage, billed, credited, out>>
        /\ pending' = <<>> /\ active' = None
    BY <1>10 DEF TransportFails, Break, EmptyBuffer
  <2>2. queue' \in Seq(Event)
    BY <1>0, <2>1, ToldType, FlushType
  <2>3. QED
    BY <1>9, <2>1, <2>2 DEF TypeOK
<1>11. CASE UpstreamEnds
  <2>1. queue' = TakeAll \o <<Failed(known)>> /\ Deliver("failure")
        /\ UNCHANGED <<heard, known, usage, billed, credited, out>>
        /\ pending' = <<>> /\ active' = None
    BY <1>11 DEF UpstreamEnds, Final, EmptyBuffer
  <2>2. queue' \in Seq(Event)
    BY <1>0, <2>1, ToldType, FlushType DEF Failed
  <2>3. QED
    BY <1>9, <2>1, <2>2 DEF TypeOK
<1>12. CASE Credit
  <2>1. queue' = TakeAll \o <<Told("frame", <<Len(heard)>>)>>
        /\ Deliver(EndAfter(heard[Len(heard)])) /\ credited' = TRUE
        /\ UNCHANGED <<heard, known, usage, billed, out>>
        /\ pending' = <<>> /\ active' = None
    BY <1>12 DEF Credit, Forward, EmptyBuffer
  <2>2. Len(heard) \in 1..MaxFrames
    <3>1. heard # <<>> /\ heard \in Seq(Shapes) /\ Len(heard) <= MaxFrames
      BY <1>12 DEF Credit, ReadInv, TypeOK
    <3>2. QED
      BY <3>1, NativeAssumption
  <2>3. queue' \in Seq(Event)
    BY <1>0, <2>1, <2>2, ToldType, FlushType
  <2>4. EndAfter(heard[Len(heard)]) \in ends
    BY DEF EndAfter, Terminal
  <2>5. QED
    BY <1>9, <2>1, <2>3, <2>4
<1>13. CASE Yield
  <2>1. queue # <<>> /\ queue \in Seq(Event) /\ out \in Seq(Event) /\ ending \in ends
    BY <1>13 DEF Yield, TypeOK
  <2>2. Head(queue) \in Event /\ Tail(queue) \in Seq(Event)
    BY <2>1
  <2>3. out' \in Seq(Event) /\ queue' \in Seq(Event)
    BY <1>13, <2>1, <2>2 DEF Yield
  <2>4. ending' \in ends /\ pc' \in {"reading", "crediting", "yielding", "closed"}
        /\ (pc' = "yielding" <=> queue' # <<>>)
    BY <1>13, <2>1, DeliverType DEF Yield
  <2>5. QED
    BY <1>13, <2>3, <2>4 DEF Yield, TypeOK
<1>14. CASE Drop
  BY <1>14 DEF Drop, EmptyBuffer, TypeOK
<1>15. CASE UNCHANGED vars
  BY <1>15 DEF vars, TypeOK
<1>16. CASE ReadFrame
  BY <1>2, <1>3, <1>5, <1>6, <1>7, <1>8, <1>16 DEF ReadFrame
<1>17. QED
  BY <1>10, <1>11, <1>12, <1>13, <1>14, <1>15, <1>16 DEF Next

-----------------------------------------------------------------------------
(* What follows a hand-over. *)
LEMMA Delivered ==
  ASSUME NEW end, Deliver(end)
  PROVE  /\ end # "open" => ~Open' /\ pc' \in {"yielding", "closed"}
         /\ pc' # "crediting"
         /\ pc' = "reading" => queue' = <<>>
BY DEF Deliver, Open

(* The frames before a new one. *)
LEMMA Grown ==
  ASSUME TypeOK, NEW f \in Shapes, heard' = Append(heard, f)
  PROVE  /\ DOMAIN heard' = DOMAIN heard \cup {Len(heard')}
         /\ Len(heard') = Len(heard) + 1 /\ Len(heard') \notin DOMAIN heard
         /\ \A i \in DOMAIN heard : heard'[i] = heard[i] /\ i <= Len(heard)
         /\ heard'[Len(heard')] = f /\ heard' # <<>>
         /\ DOMAIN heard \subseteq Nat /\ Len(heard) \in Nat
<1>1. heard \in Seq(Shapes) /\ Len(heard) \in Nat /\ DOMAIN heard = 1..Len(heard)
  BY DEF TypeOK
<1>2. /\ heard' \in Seq(Shapes) /\ Len(heard') = Len(heard) + 1
      /\ DOMAIN heard' = 1..Len(heard')
      /\ heard'[Len(heard) + 1] = f /\ heard' # <<>>
  BY <1>1
<1>3. \A i \in 1..Len(heard) : heard'[i] = heard[i] /\ i <= Len(heard)
  BY <1>1
<1>4. 1..Len(heard') = 1..Len(heard) \cup {Len(heard')} /\ Len(heard') \notin 1..Len(heard)
  BY <1>1, <1>2
<1>5. QED
  BY <1>1, <1>2, <1>3, <1>4

(* The pending usage is the latest one after a frame is noted. *)
LEMMA LatestNoted ==
  ASSUME TypeOK, NEW f \in Shapes, Note(f), IsLatest(usage)
  PROVE  IsLatest(usage)'
<1>1. heard' = Append(heard, f) /\ usage' = IF f.usage THEN Len(heard) + 1 ELSE usage
  BY DEF Note
<1> DEFINE counts == {i \in DOMAIN heard : heard[i].usage}
<1>2. CASE f.usage
  <2>1. counts' = counts \cup {Len(heard')}
    BY <1>1, <1>2, Grown
  <2>2. \A i \in counts' : i <= Len(heard')
    BY <1>1, <2>1, Grown
  <2>3. usage' = Len(heard')
    BY <1>1, <1>2, Grown
  <2>4. QED
    BY <2>1, <2>2, <2>3 DEF IsLatest
<1>3. CASE ~f.usage
  <2>1. counts' = counts
    BY <1>1, <1>3, Grown
  <2>2. QED
    BY <1>1, <1>3, <2>1 DEF IsLatest
<1>4. QED
  BY <1>2, <1>3

(* A frame that does not end the response. *)
LEMMA ReadsOn ==
  ASSUME TypeOK, ReadInv, pc = "reading", NEW f \in Shapes, Note(f),
         f.kind \notin {"completed", "incomplete"}, billed' = billed,
         pc' # "crediting", pc' = "reading" => queue' = <<>>
  PROVE  ReadInv'
<1>1. heard' = Append(heard, f) /\ Open
  BY DEF Note, Open
<1>2. \A i \in DOMAIN heard' : ~Ended(i)'
  BY <1>1, Grown DEF Ended, ReadInv
<1>3. IsLatest(usage)'
  BY <1>1, LatestNoted DEF ReadInv
<1>4. QED
  BY <1>1, <1>2, <1>3 DEF ReadInv

(* Reading goes on only while no response came. *)
LEMMA NextRead == TypeOK /\ ReadInv /\ [Next]_vars => ReadInv'
<1> SUFFICES ASSUME TypeOK, ReadInv, [Next]_vars PROVE ReadInv'
  OBVIOUS
<1>1. ASSUME NEW end, end # "open", Deliver(end) PROVE ReadInv'
  BY <1>1, Delivered DEF ReadInv
<1>2. ASSUME NEW f \in Shapes, BadFrame(f) PROVE ReadInv'
  BY <1>1, <1>2 DEF BadFrame, Break
<1>3. ASSUME NEW f \in Shapes, ErrorFrame(f) PROVE ReadInv'
  BY <1>1, <1>3 DEF ErrorFrame
<1>4. ASSUME NEW f \in Shapes, CompletedFrame(f) PROVE ReadInv'
  <2>1. pc' = "crediting" /\ heard' = Append(heard, f) /\ f.kind = "completed"
    BY <1>4 DEF CompletedFrame, Note
  <2>2. QED
    BY <2>1, Grown DEF ReadInv, Open
<1>5. ASSUME NEW f \in Shapes, PassFrame(f), pc = "reading" PROVE ReadInv'
  <2>1. Note(f) /\ Bill(f) /\ Deliver(EndAfter(f))
        /\ f.kind \in {"event", "incomplete", "malformed", "nonsuccess"}
    BY <1>5 DEF PassFrame
  <2>2. CASE EndAfter(f) # "open"
    BY <1>1, <2>1, <2>2
  <2>3. CASE EndAfter(f) = "open"
    <3>1. f.kind \notin {"completed", "incomplete"} /\ billed' = billed
      BY <2>1, <2>3 DEF EndAfter, Terminal, Bill
    <3>2. QED
      BY <1>5, <2>1, <3>1, Delivered, ReadsOn
  <2>4. QED
    BY <2>2, <2>3
<1>6. ASSUME NEW f \in Shapes, ReasoningFrame(f), pc = "reading" PROVE ReadInv'
  <2>1. Note(f) /\ Deliver("open") /\ f.kind = "reasoning" /\ billed' = billed
    BY <1>6 DEF ReasoningFrame
  <2>2. QED
    BY <1>6, <2>1, Delivered, ReadsOn
<1>7. ASSUME NEW f \in Shapes, CommentFrame(f), pc = "reading" PROVE ReadInv'
  <2>1. Note(f) /\ Deliver("open") /\ f.kind = "comment" /\ billed' = billed
    BY <1>7 DEF CommentFrame
  <2>2. QED
    BY <1>7, <2>1, Delivered, ReadsOn
<1>8. CASE ReadFrame
  BY <1>2, <1>3, <1>4, <1>5, <1>6, <1>7, <1>8 DEF ReadFrame
<1>9. CASE TransportFails
  BY <1>1, <1>9 DEF TransportFails, Break
<1>10. CASE UpstreamEnds
  BY <1>1, <1>10 DEF UpstreamEnds
<1>11. CASE Credit
  <2>1. heard[Len(heard)].kind = "completed"
    BY <1>11 DEF Credit, ReadInv
  <2>2. EndAfter(heard[Len(heard)]) = "success"
    BY <2>1 DEF EndAfter, Terminal
  <2>3. QED
    BY <1>1, <1>11, <2>2 DEF Credit
<1>12. CASE Yield
  <2>1. pc = "yielding" /\ Deliver(ending) /\ UNCHANGED <<heard, usage, billed>>
        /\ ending' = ending
    BY <1>12 DEF Yield, Deliver
  <2>2. Open' => Open
    BY <2>1 DEF Open, Deliver
  <2>3. QED
    BY <2>1, <2>2, Delivered DEF ReadInv, IsLatest, Ended
<1>13. CASE Drop
  BY <1>13 DEF Drop, ReadInv, Open
<1>14. CASE UNCHANGED vars
  BY <1>14 DEF vars, ReadInv, Open, IsLatest, Ended
<1>15. QED
  BY <1>8, <1>9, <1>10, <1>11, <1>12, <1>13, <1>14 DEF Next

-----------------------------------------------------------------------------
(* Two queues that a client may be told may be told one after the other. *)
LEMMA CoveredBoth ==
  ASSUME NEW a \in Seq(Event), NEW b \in Seq(Event), NEW frames, NEW allowed,
         Covered(a, frames, allowed), Covered(b, frames, allowed)
  PROVE  Covered(a \o b, frames, allowed)
<1> SUFFICES ASSUME NEW k \in DOMAIN (a \o b), NEW q \in ToSet((a \o b)[k].parts)
             PROVE  q \in DOMAIN frames /\ (frames[q].kind = "completed" => allowed)
  BY DEF Covered
<1>1. k \in 1..(Len(a) + Len(b)) /\ Len(a) \in Nat /\ Len(b) \in Nat
  OBVIOUS
<1>2. CASE k <= Len(a)
  <2>1. k \in DOMAIN a /\ (a \o b)[k] = a[k]
    BY <1>1, <1>2
  <2>2. QED
    BY <2>1 DEF Covered
<1>3. CASE ~(k <= Len(a))
  <2>1. k - Len(a) \in DOMAIN b /\ (a \o b)[k] = b[k - Len(a)]
    BY <1>1, <1>3
  <2>2. QED
    BY <2>1 DEF Covered
<1>4. QED
  BY <1>2, <1>3

(* One event. *)
LEMMA CoveredOne ==
  ASSUME NEW event \in Event, NEW frames, NEW allowed,
         \A q \in ToSet(event.parts) :
           q \in DOMAIN frames /\ (frames[q].kind = "completed" => allowed)
  PROVE  <<event>> \in Seq(Event) /\ Covered(<<event>>, frames, allowed)
<1>1. DOMAIN <<event>> = {1} /\ <<event>>[1] = event /\ <<event>> \in Seq(Event)
  OBVIOUS
<1>2. QED
  BY <1>1 DEF Covered

(* The frames that are heard later, and a credit, forbid nothing. *)
LEMMA CoveredStill ==
  ASSUME NEW events, NEW frames, NEW grown, NEW allowed, NEW later,
         Covered(events, frames, allowed), allowed => later,
         \A q \in DOMAIN frames : q \in DOMAIN grown /\ grown[q] = frames[q]
  PROVE  Covered(events, grown, later)
BY DEF Covered

(* What is buffered is a block of reasoning that may be told. *)
LEMMA BlockCovered ==
  ASSUME TypeOK, TellInv, NEW grown, NEW allowed,
         \A q \in DOMAIN heard : q \in DOMAIN grown /\ grown[q] = heard[q]
  PROVE  Covered(TakeAll, grown, allowed)
<1>1. \A q \in ToSet(pending) : q \in DOMAIN grown /\ grown[q].kind = "reasoning"
  BY DEF TellInv
<1>2. CASE pending = <<>>
  BY <1>2 DEF TakeAll, Covered
<1>3. CASE pending # <<>>
  <2> DEFINE event == [type |-> "delta", of |-> active, parts |-> pending]
  <2>1. TakeAll = <<event>> /\ event.parts = pending
    BY <1>3 DEF TakeAll
  <2>2. DOMAIN <<event>> = {1} /\ <<event>>[1] = event
    OBVIOUS
  <2>3. QED
    <3> HIDE DEF event
    <3>1. QED
      BY <1>1, <2>1, <2>2 DEF Covered
<1>4. QED
  BY <1>2, <1>3

(* The end of the stream, told by an event without payload. *)
LEMMA EndCovered ==
  ASSUME NEW frames, NEW allowed, NEW type \in {"failed", "error", "abort"}
  PROVE  /\ Told(type, <<>>) \in Event
         /\ <<Told(type, <<>>)>> \in Seq(Event)
         /\ Covered(<<Told(type, <<>>)>>, frames, allowed)
<1>1. ToSet(<<>>) = {} /\ <<>> \in Seq(1..MaxFrames) /\ Told(type, <<>>).parts = <<>>
  BY DEF ToSet, Told
<1>2. Told(type, <<>>) \in Event
  BY <1>1, ToldType
<1>3. QED
  BY <1>1, <1>2, CoveredOne

(* A frame that is passed on. *)
LEMMA FrameCovered ==
  ASSUME NEW frames, NEW allowed, NEW type \in {"frame", "comment"},
         NEW i \in 1..MaxFrames, i \in DOMAIN frames,
         frames[i].kind = "completed" => allowed
  PROVE  /\ Told(type, <<i>>) \in Event
         /\ <<Told(type, <<i>>)>> \in Seq(Event)
         /\ Covered(<<Told(type, <<i>>)>>, frames, allowed)
<1>1. ToSet(<<i>>) = {i} /\ <<i>> \in Seq(1..MaxFrames) /\ Told(type, <<i>>).parts = <<i>>
  BY DEF ToSet, Told
<1>2. Told(type, <<i>>) \in Event
  BY <1>1, ToldType
<1>3. QED
  BY <1>1, <1>2, CoveredOne

(* A step that flushes the buffer and tells one event more. *)
LEMMA FlushTells ==
  ASSUME TypeOK, TellInv, credited => credited', out' = out, pending' = <<>>,
         \A q \in DOMAIN heard : q \in DOMAIN heard' /\ heard'[q] = heard[q],
         NEW last \in Seq(Event), Covered(last, heard', credited'),
         queue' = TakeAll \o last
  PROVE  TellInv'
<1>1. Covered(TakeAll, heard', credited')
  BY BlockCovered
<1>2. Covered(queue', heard', credited')
  BY <1>1, BlockType, CoveredBoth
<1>3. Covered(out', heard', credited')
  BY CoveredStill DEF TellInv
<1>4. ToSet(pending') = {}
  BY DEF ToSet
<1>5. QED
  BY <1>2, <1>3, <1>4 DEF TellInv

(* What the client was told of stays known. *)
LEMMA OutStill ==
  ASSUME TypeOK, NEW f \in Shapes, heard' = Append(heard, f), credited' = credited,
         NEW events, Covered(events, heard, credited)
  PROVE  Covered(events, heard', credited')
<1>1. \A q \in DOMAIN heard : q \in DOMAIN heard' /\ heard'[q] = heard[q]
  BY Grown
<1>2. QED
  BY <1>1 DEF Covered

(* A delta joins the buffer, or what it does not fit into is flushed. *)
LEMMA BufferTells ==
  ASSUME TypeOK, TellInv, NEW f \in Shapes, f.kind = "reasoning", Len(heard) < MaxFrames,
         heard' = Append(heard, f), Buffer(f, Len(heard')), UNCHANGED <<out, credited>>
  PROVE  TellInv'
<1>0. PICK i \in Nat : i = Len(heard')
  BY AppendFrame
<1> DEFINE text  == IF f.size = 0 THEN <<>> ELSE <<i>>
           block == IF StartsBlock(f) THEN text ELSE pending \o text
           stamp == IF StartsBlock(f) THEN f.item ELSE active
           flushed == IF StartsBlock(f) THEN TakeAll ELSE <<>>
           full == Size(block, heard') >= FlushChars
           whole == [type |-> "delta", of |-> stamp, parts |-> block]
           rest == IF full THEN <<whole>> ELSE <<>>
<1>1. \A q \in DOMAIN heard : q \in DOMAIN heard' /\ heard'[q] = heard[q]
  BY Grown
<1>2. i \in DOMAIN heard' /\ heard'[i].kind = "reasoning" /\ i \in 1..MaxFrames /\ i \in 1..i
  BY <1>0, Grown, AppendFrame
<1>3. \A q \in ToSet(pending) : q \in DOMAIN heard' /\ heard'[q].kind = "reasoning"
  BY <1>1 DEF TellInv
<1>4. text \in Seq(1..i) /\ \A q \in ToSet(text) : q = i
  <2>1. <<>> \in Seq(1..i) /\ <<i>> \in Seq(1..i) /\ ToSet(<<>>) = {} /\ ToSet(<<i>>) = {i}
    BY <1>2 DEF ToSet
  <2>2. QED
    BY <2>1
<1>5. block \in Seq(1..i) /\ \A q \in ToSet(block) : q \in DOMAIN heard' /\ heard'[q].kind = "reasoning"
  <2>1. pending \in Seq(1..i)
    BY <1>0, AppendFrame
  <2>2. ASSUME NEW q \in ToSet(pending \o text)
        PROVE  q \in ToSet(pending) \/ q \in ToSet(text)
    <3> HIDE DEF text
    <3>1. PICK k \in DOMAIN (pending \o text) : q = (pending \o text)[k]
      BY <2>2 DEF ToSet
    <3>2. CASE k <= Len(pending)
      BY <1>4, <2>1, <3>1, <3>2 DEF ToSet
    <3>3. CASE ~(k <= Len(pending))
      <4>1. k - Len(pending) \in DOMAIN text /\ q = text[k - Len(pending)]
        BY <1>4, <2>1, <3>1, <3>3
      <4>2. QED
        BY <4>1 DEF ToSet
    <3>4. QED
      BY <3>2, <3>3
  <2>3. pending \o text \in Seq(1..i)
    <3> HIDE DEF text
    <3>1. QED
      BY <1>4, <2>1
  <2>4. QED
    <3> HIDE DEF text
    <3>1. QED
      BY <1>2, <1>3, <1>4, <2>2, <2>3
<1>6. stamp \in Items \cup {None}
  BY Frames DEF TypeOK
<1>7. whole \in Event
  <2>1. 1..i \subseteq 1..MaxFrames
    BY <1>2, NativeAssumption
  <2>2. block \in Seq(1..MaxFrames)
    <3> HIDE DEF block
    <3>1. QED
      BY <1>5, <2>1, Widened
  <2>3. QED
    BY <1>6, <2>2 DEF Event
<1>8. queue' = flushed \o rest /\ pending' = IF full THEN <<>> ELSE block
  BY <1>0 DEF Buffer
<1>9. rest \in Seq(Event) /\ Covered(rest, heard', credited')
  <2>1. whole.parts = block
    OBVIOUS
  <2>2. <<whole>> \in Seq(Event) /\ Covered(<<whole>>, heard', credited')
    <3> HIDE DEF whole, block
    <3>1. QED
      BY <1>5, <1>7, <2>1, CoveredOne
  <2>3. <<>> \in Seq(Event) /\ Covered(<<>>, heard', credited')
    BY DEF Covered
  <2>4. QED
    BY <2>2, <2>3
<1>10. flushed \in Seq(Event) /\ Covered(flushed, heard', credited')
  <2>1. <<>> \in Seq(Event) /\ Covered(<<>>, heard', credited')
    BY DEF Covered
  <2>2. QED
    BY <1>1, <2>1, BlockType, BlockCovered
<1>11. Covered(queue', heard', credited')
  <2> HIDE DEF rest, flushed
  <2>1. QED
    BY <1>8, <1>9, <1>10, CoveredBoth
<1>12. Covered(out', heard', credited')
  <2>1. Covered(out, heard, credited) /\ credited' = credited /\ out' = out
    BY DEF TellInv
  <2>2. QED
    BY <2>1, OutStill
<1>13. \A q \in ToSet(pending') : q \in DOMAIN heard' /\ heard'[q].kind = "reasoning"
  <2>1. ToSet(<<>>) = {}
    BY DEF ToSet
  <2> HIDE DEF block, full
  <2>2. QED
    BY <1>5, <1>8, <2>1
<1>14. QED
  BY <1>11, <1>12, <1>13 DEF TellInv

(* No step lets the client see a completed response before the credit. *)
LEMMA NextTell == TypeOK /\ ReadInv /\ TellInv /\ [Next]_vars => TellInv'
<1> SUFFICES ASSUME TypeOK, ReadInv, TellInv, [Next]_vars PROVE TellInv'
  OBVIOUS
<1>1. ASSUME NEW f \in Shapes, BadFrame(f) PROVE TellInv'
  <2>1. /\ heard' = Append(heard, f) /\ UNCHANGED <<out, credited>> /\ pending' = <<>>
        /\ queue' = TakeAll \o <<Told("abort", <<>>)>>
    BY <1>1 DEF BadFrame, Break, EmptyBuffer
  <2>2. QED
    BY <2>1, Grown, EndCovered, FlushTells
<1>2. ASSUME NEW f \in Shapes, ErrorFrame(f) PROVE TellInv'
  <2>1. /\ heard' = Append(heard, f) /\ UNCHANGED <<out, credited>> /\ pending' = <<>>
        /\ queue' = TakeAll \o <<Told(IF known' THEN "failed" ELSE "error", <<>>)>>
    BY <1>2 DEF ErrorFrame, EmptyBuffer, Failed
  <2>2. (IF known' THEN "failed" ELSE "error") \in {"failed", "error", "abort"}
    OBVIOUS
  <2>3. QED
    BY <2>1, <2>2, Grown, EndCovered, FlushTells
<1>3. ASSUME NEW f \in Shapes, CompletedFrame(f), pc = "reading" PROVE TellInv'
  <2>1. heard' = Append(heard, f) /\ UNCHANGED <<pending, queue, out, credited>>
    BY <1>3 DEF CompletedFrame, Note
  <2>2. \A q \in DOMAIN heard : q \in DOMAIN heard' /\ heard'[q] = heard[q]
    BY <2>1, Grown
  <2>3. Covered(out', heard', credited') /\ Covered(queue', heard', credited')
    <3>1. Covered(out, heard, credited) /\ Covered(queue, heard, credited)
      BY DEF TellInv
    <3>2. QED
      BY <2>1, <3>1, OutStill
  <2>4. QED
    BY <2>1, <2>2, <2>3 DEF TellInv
<1>4. ASSUME NEW f \in Shapes, PassFrame(f), Len(heard) < MaxFrames PROVE TellInv'
  <2>1. /\ heard' = Append(heard, f) /\ UNCHANGED <<out, credited>> /\ pending' = <<>>
        /\ queue' = TakeAll \o <<Told("frame", <<Len(heard')>>)>> /\ f.kind # "completed"
    BY <1>4 DEF PassFrame, Note, Forward, EmptyBuffer
  <2>2. Len(heard') \in 1..MaxFrames /\ Len(heard') \in DOMAIN heard'
        /\ heard'[Len(heard')].kind # "completed"
    BY <1>4, <2>1, Grown, AppendFrame
  <2>3. QED
    BY <2>1, <2>2, Grown, FrameCovered, FlushTells
<1>5. ASSUME NEW f \in Shapes, ReasoningFrame(f), Len(heard) < MaxFrames PROVE TellInv'
  BY <1>5, BufferTells DEF ReasoningFrame, Note
<1>6. ASSUME NEW f \in Shapes, CommentFrame(f), Len(heard) < MaxFrames PROVE TellInv'
  <2>1. /\ heard' = Append(heard, f) /\ UNCHANGED <<pending, out, credited>>
        /\ queue' = <<Told("comment", <<Len(heard')>>)>> /\ f.kind = "comment"
    BY <1>6 DEF CommentFrame, Note
  <2>2. Len(heard') \in 1..MaxFrames /\ Len(heard') \in DOMAIN heard'
        /\ heard'[Len(heard')].kind # "completed"
    BY <1>6, <2>1, Grown, AppendFrame
  <2>3. \A q \in DOMAIN heard : q \in DOMAIN heard' /\ heard'[q] = heard[q]
    BY <2>1, Grown
  <2>4. Covered(queue', heard', credited')
    BY <2>1, <2>2, FrameCovered
  <2>5. Covered(out', heard', credited')
    <3>1. Covered(out, heard, credited)
      BY DEF TellInv
    <3>2. QED
      BY <2>1, <3>1, OutStill
  <2>6. QED
    BY <2>1, <2>3, <2>4, <2>5 DEF TellInv
<1>7. CASE ReadFrame
  BY <1>1, <1>2, <1>3, <1>4, <1>5, <1>6, <1>7 DEF ReadFrame
<1>8. CASE TransportFails
  <2>1. /\ UNCHANGED <<heard, out, credited>> /\ pending' = <<>>
        /\ queue' = TakeAll \o <<Told("abort", <<>>)>>
    BY <1>8 DEF TransportFails, Break, EmptyBuffer
  <2>2. QED
    BY <2>1, EndCovered, FlushTells
<1>9. CASE UpstreamEnds
  <2>1. /\ UNCHANGED <<heard, out, credited>> /\ pending' = <<>>
        /\ queue' = TakeAll \o <<Told(IF known THEN "failed" ELSE "error", <<>>)>>
    BY <1>9 DEF UpstreamEnds, Final, EmptyBuffer, Failed
  <2>2. (IF known THEN "failed" ELSE "error") \in {"failed", "error", "abort"}
    OBVIOUS
  <2>3. QED
    BY <2>1, <2>2, EndCovered, FlushTells
<1>10. CASE Credit
  <2>1. /\ UNCHANGED <<heard, out>> /\ credited' /\ pending' = <<>>
        /\ queue' = TakeAll \o <<Told("frame", <<Len(heard)>>)>>
    BY <1>10 DEF Credit, Forward, EmptyBuffer
  <2>2. Len(heard) \in 1..MaxFrames /\ Len(heard) \in DOMAIN heard
    <3>1. heard # <<>> /\ heard \in Seq(Shapes) /\ Len(heard) <= MaxFrames
      BY <1>10 DEF Credit, ReadInv, TypeOK
    <3>2. QED
      BY <3>1, NativeAssumption
  <2>3. QED
    BY <2>1, <2>2, FrameCovered, FlushTells
<1>11. CASE Yield
  <2>1. /\ UNCHANGED <<heard, pending, credited>> /\ queue # <<>> /\ queue \in Seq(Event)
        /\ out \in Seq(Event) /\ out' = out \o <<Head(queue)>> /\ queue' = Tail(queue)
    BY <1>11 DEF Yield, TypeOK
  <2>2. 1 \in DOMAIN queue /\ Head(queue) = queue[1] /\ Head(queue) \in Event
    BY <2>1
  <2>3. \A k \in DOMAIN Tail(queue) : k + 1 \in DOMAIN queue /\ Tail(queue)[k] = queue[k + 1]
    BY <2>1
  <2>4. Covered(queue', heard', credited')
    BY <2>1, <2>3 DEF TellInv, Covered
  <2>5. <<Head(queue)>> \in Seq(Event) /\ Covered(<<Head(queue)>>, heard, credited)
    BY <2>2, CoveredOne DEF TellInv, Covered
  <2>6. Covered(out', heard', credited')
    BY <2>1, <2>5, CoveredBoth DEF TellInv
  <2>7. QED
    BY <2>1, <2>4, <2>6 DEF TellInv
<1>12. CASE Drop
  BY <1>12 DEF Drop, EmptyBuffer, TellInv, Covered, ToSet
<1>13. CASE UNCHANGED vars
  BY <1>13 DEF vars, TellInv
<1>14. QED
  BY <1>7, <1>8, <1>9, <1>10, <1>11, <1>12, <1>13 DEF Next

-----------------------------------------------------------------------------
(* What a frame changes of the accounts. *)
LEMMA ReadBills ==
  ASSUME TypeOK, ReadInv, BillInv, pc = "reading", NEW f \in Shapes,
         heard' = Append(heard, f), credited' = credited,
         IF f.kind \in {"completed", "incomplete"}
         THEN Note(f) /\ billed' = <<usage'>> ELSE billed' = billed
  PROVE  BillInv'
<1>1. (\A i \in DOMAIN heard : ~Ended(i)) /\ IsLatest(usage) /\ billed = <<>>
  BY DEF ReadInv, Open
<1>2. ~credited
  <2>1. heard # <<>> => Len(heard) \in DOMAIN heard
    BY DEF TypeOK
  <2>2. QED
    BY <1>1, <2>1 DEF BillInv, Ended
<1>3. \A i \in DOMAIN heard : ~Ended(i)'
  BY <1>1, Grown DEF Ended
<1>4. CASE f.kind \in {"completed", "incomplete"}
  <2>1. Ended(Len(heard))' /\ Len(heard') \in DOMAIN heard'
    BY <1>4, Grown DEF Ended
  <2>2. \A i \in DOMAIN heard' : Ended(i)' => i = Len(heard')
    BY <1>3, Grown
  <2>3. Len(billed') = 1 /\ billed' # <<>> /\ billed'[1] = usage'
    BY <1>4
  <2>4. IsLatest(usage)'
    BY <1>1, <1>4, LatestNoted
  <2>5. IsLatest(billed[1])'
    BY <2>3, <2>4 DEF IsLatest
  <2>6. \E i \in DOMAIN heard' : Ended(i)'
    BY <2>1
  <2>7. QED
    BY <1>2, <2>2, <2>3, <2>5, <2>6 DEF BillInv
<1>5. CASE f.kind \notin {"completed", "incomplete"}
  <2>1. \A i \in DOMAIN heard' : ~Ended(i)'
    BY <1>3, <1>5, Grown DEF Ended
  <2>2. QED
    BY <1>1, <1>2, <1>5, <2>1 DEF BillInv
<1>6. QED
  BY <1>4, <1>5

(* A response is billed once, when it comes. *)
LEMMA NextBill == TypeOK /\ ReadInv /\ BillInv /\ [Next]_vars => BillInv'
<1> SUFFICES ASSUME TypeOK, ReadInv, BillInv, [Next]_vars PROVE BillInv'
  OBVIOUS
<1>1. ASSUME UNCHANGED <<heard, billed, credited>> PROVE BillInv'
  BY <1>1 DEF BillInv, IsLatest, Ended
<1>2. ASSUME NEW f \in Shapes, pc = "reading",
             BadFrame(f) \/ ErrorFrame(f) \/ ReasoningFrame(f) \/ CommentFrame(f)
      PROVE  BillInv'
  BY <1>2, ReadBills DEF BadFrame, ErrorFrame, ReasoningFrame, CommentFrame, Note
<1>3. ASSUME NEW f \in Shapes, pc = "reading", CompletedFrame(f) \/ PassFrame(f)
      PROVE  BillInv'
  <2>1. Note(f) /\ Bill(f) /\ heard' = Append(heard, f) /\ credited' = credited
    BY <1>3 DEF CompletedFrame, PassFrame, Note
  <2>2. billed = <<>>
    BY <1>3 DEF ReadInv, Open
  <2>3. Terminal(f) \in {"success", "partial"} <=> f.kind \in {"completed", "incomplete"}
    BY DEF Terminal
  <2>4. QED
    BY <1>3, <2>1, <2>2, <2>3, ReadBills DEF Bill
<1>4. CASE ReadFrame
  BY <1>2, <1>3, <1>4 DEF ReadFrame
<1>5. CASE TransportFails
  BY <1>1, <1>5 DEF TransportFails
<1>6. CASE UpstreamEnds
  BY <1>1, <1>6 DEF UpstreamEnds
<1>7. CASE Credit
  <2>1. UNCHANGED <<heard, billed>> /\ heard # <<>> /\ heard[Len(heard)].kind = "completed"
    BY <1>7 DEF Credit, ReadInv
  <2>2. QED
    BY <2>1 DEF BillInv, IsLatest, Ended
<1>8. CASE Yield
  BY <1>1, <1>8 DEF Yield
<1>9. CASE Drop
  BY <1>1, <1>9 DEF Drop
<1>10. CASE UNCHANGED vars
  BY <1>1, <1>10 DEF vars
<1>11. QED
  BY <1>4, <1>5, <1>6, <1>7, <1>8, <1>9, <1>10 DEF Next

-----------------------------------------------------------------------------
(* The accounts are right at the start. *)
LEMMA InitInv == Init => IInv
<1> SUFFICES ASSUME Init PROVE IInv
  OBVIOUS
<1>1. DOMAIN heard = {} /\ ToSet(pending) = {} /\ DOMAIN out = {} /\ DOMAIN queue = {}
  BY DEF Init, ToSet
<1>2. ReadInv /\ TellInv /\ BillInv
  BY <1>1 DEF Init, ReadInv, TellInv, BillInv, Covered, IsLatest, Open
<1>3. QED
  BY <1>2, InitType DEF IInv

(* The inductive invariant about types and accounts. *)
THEOREM Invariance == Spec => []IInv
<1>1. IInv /\ [Next]_vars => IInv'
  BY NextType, NextRead, NextTell, NextBill DEF IInv
<1>2. QED
  BY <1>1, InitInv, PTL DEF Spec

(* The converter keeps its types for every set of frames. *)
THEOREM TypeCorrect == Spec => []TypeOK
<1>1. IInv => TypeOK
  BY DEF IInv
<1>2. QED
  BY <1>1, Invariance, PTL

(* A response is billed at most once, exactly if it came well-formed, with *)
(* the latest usage reported, and credited before the client sees it.      *)
THEOREM AccountedHolds == Spec => []Accounted
<1>1. IInv => Accounted
  <2> SUFFICES ASSUME IInv PROVE Accounted
    OBVIOUS
  <2> DEFINE ended == {i \in DOMAIN heard : heard[i].kind \in {"completed", "incomplete"}}
             counts == {i \in DOMAIN heard : heard[i].usage}
  <2>1. Len(billed) <= 1
    <3>1. billed = <<>> \/ Len(billed) = 1
      BY DEF IInv, BillInv
    <3>2. CASE billed = <<>>
      BY <3>2
    <3>3. CASE Len(billed) = 1
      BY <3>3
    <3>4. QED
      BY <3>1, <3>2, <3>3
  <2>2. billed # <<>> <=> ended # {}
    BY DEF IInv, BillInv, Ended
  <2>3. \A i \in ended : i = Len(heard)
    BY DEF IInv, BillInv, Ended
  <2>4. billed # <<>> => IF counts = {} THEN billed[1] = None
                         ELSE billed[1] \in counts /\ \A i \in counts : i <= billed[1]
    BY DEF IInv, BillInv, IsLatest
  <2>5. \A k \in DOMAIN out : \A q \in ToSet(out[k].parts) :
          heard[q].kind = "completed" => credited
    BY DEF IInv, TellInv, Covered
  <2>6. credited => heard[Len(heard)].kind = "completed"
    BY DEF IInv, BillInv
  <2>7. QED
    BY <2>1, <2>2, <2>3, <2>4, <2>5, <2>6 DEF Accounted
<1>2. QED
  BY <1>1, Invariance, PTL

-----------------------------------------------------------------------------
(* The fields of an event. *)
LEMMA EventType ==
  ASSUME NEW e \in Event
  PROVE  /\ e.type \in {"delta", "frame", "comment", "failed", "error", "abort"}
         /\ e.of \in Items \cup {None}
         /\ e.parts \in Seq(1..MaxFrames)
BY DEF Event

(* What a sequence of events tells, event after event. *)
LEMMA PositionsBoth ==
  ASSUME NEW type, NEW a \in Seq(Event), NEW b \in Seq(Event)
  PROVE  /\ Positions(type, a) \in Seq(1..MaxFrames)
         /\ Positions(type, b) \in Seq(1..MaxFrames)
         /\ Positions(type, a \o b) = Positions(type, a) \o Positions(type, b)
<1> DEFINE p(s) == [k \in DOMAIN s |-> IF s[k].type \in type THEN s[k].parts ELSE <<>>]
<1>1. ASSUME NEW s \in Seq(Event)
      PROVE  p(s) \in Seq(Seq(1..MaxFrames)) /\ Len(p(s)) = Len(s)
  <2>1. <<>> \in Seq(1..MaxFrames)
    OBVIOUS
  <2>2. \A k \in DOMAIN s : s[k].parts \in Seq(1..MaxFrames)
    BY EventType
  <2>3. PICK n \in Nat : n = Len(s) /\ DOMAIN s = 1..n
    OBVIOUS
  <2>4. \A k \in 1..n : p(s)[k] \in Seq(1..MaxFrames)
    BY <2>1, <2>2, <2>3
  <2>5. p(s) = [k \in 1..n |-> p(s)[k]]
    BY <2>3
  <2> HIDE DEF p
  <2>6. QED
    BY <2>3, <2>4, <2>5, SequenceOf
<1>2. p(a \o b) = p(a) \o p(b)
  <2>1. a \o b \in Seq(Event) /\ DOMAIN (a \o b) = 1..(Len(a) + Len(b))
        /\ Len(a) \in Nat /\ Len(b) \in Nat
    OBVIOUS
  <2>2. ASSUME NEW k \in 1..(Len(a) + Len(b))
        PROVE  p(a \o b)[k] = (p(a) \o p(b))[k]
    <3>1. CASE k <= Len(a)
      <4>1. k \in DOMAIN a /\ (a \o b)[k] = a[k]
        BY <3>1
      <4>2. p(a \o b)[k] = p(a)[k]
        BY <2>1, <4>1
      <4>3. (p(a) \o p(b))[k] = p(a)[k]
        BY <1>1, <3>1
      <4>4. QED
        BY <4>2, <4>3
    <3>2. CASE ~(k <= Len(a))
      <4>1. k - Len(a) \in DOMAIN b /\ (a \o b)[k] = b[k - Len(a)]
        BY <3>2
      <4>2. p(a \o b)[k] = p(b)[k - Len(a)]
        BY <2>1, <4>1
      <4>3. (p(a) \o p(b))[k] = p(b)[k - Len(a)]
        BY <1>1, <3>2
      <4>4. QED
        BY <4>2, <4>3
    <3>3. QED
      BY <3>1, <3>2
  <2>3. /\ p(a \o b) \in Seq(Seq(1..MaxFrames)) /\ Len(p(a \o b)) = Len(a) + Len(b)
        /\ p(a) \o p(b) \in Seq(Seq(1..MaxFrames)) /\ Len(p(a) \o p(b)) = Len(a) + Len(b)
    <3>1. PICK x, y \in Seq(Seq(1..MaxFrames)) :
            x = p(a) /\ y = p(b) /\ Len(x) = Len(a) /\ Len(y) = Len(b)
      BY <1>1
    <3>2. x \o y \in Seq(Seq(1..MaxFrames)) /\ Len(x \o y) = Len(a) + Len(b)
      <4>1. x \o y \in Seq(Seq(1..MaxFrames)) /\ Len(x \o y) = Len(x) + Len(y)
        OBVIOUS
      <4>2. QED
        BY <3>1, <4>1
    <3>3. p(a \o b) \in Seq(Seq(1..MaxFrames)) /\ Len(p(a \o b)) = Len(a) + Len(b)
      <4>1. Len(a \o b) = Len(a) + Len(b)
        OBVIOUS
      <4> HIDE DEF p
      <4>2. QED
        BY <1>1, <2>1, <4>1
    <3> HIDE DEF p
    <3>4. QED
      BY <3>1, <3>2, <3>3
  <2> HIDE DEF p
  <2>4. QED
    BY <2>2, <2>3, SameSequence
<1>3. p(a) \in Seq(Seq(1..MaxFrames)) /\ p(b) \in Seq(Seq(1..MaxFrames))
  BY <1>1
<1> DEFINE x == p(a)
           y == p(b)
<1>4. /\ Positions(type, a) = FlattenSeq(x) /\ Positions(type, b) = FlattenSeq(y)
      /\ Positions(type, a \o b) = FlattenSeq(x \o y)
  BY <1>2 DEF Positions
<1>5. x \in Seq(Seq(1..MaxFrames)) /\ y \in Seq(Seq(1..MaxFrames))
  BY <1>3
<1> HIDE DEF x, y
<1>6. QED
  BY <1>4, <1>5, FlattenConcat

(* What one event tells. *)
LEMMA PositionsOne ==
  ASSUME NEW type, NEW e \in Event
  PROVE  Positions(type, <<e>>) = IF e.type \in type THEN e.parts ELSE <<>>
<1> DEFINE one == IF e.type \in type THEN e.parts ELSE <<>>
<1>1. one \in Seq(1..MaxFrames)
  <2>1. <<>> \in Seq(1..MaxFrames)
    OBVIOUS
  <2>2. QED
    BY <2>1, EventType
<1>2. [k \in DOMAIN <<e>> |-> IF <<e>>[k].type \in type THEN <<e>>[k].parts ELSE <<>>]
        = <<one>>
  OBVIOUS
<1> HIDE DEF one
<1>3. FlattenSeq(<<one>>) = one
  BY <1>1, FlattenOne
<1>4. QED
  BY <1>2, <1>3 DEF Positions, one

(* No event tells nothing. *)
LEMMA PositionsNone ==
  ASSUME NEW type
  PROVE  Positions(type, <<>>) = <<>> /\ <<>> \in Seq(Event)
<1>1. [k \in DOMAIN <<>> |-> IF <<>>[k].type \in type THEN <<>>[k].parts ELSE <<>>]
        = <<>>
  OBVIOUS
<1>2. FlattenSeq(<<>>) = <<>>
  BY DEF FlattenSeq
<1>3. QED
  BY <1>1, <1>2 DEF Positions

(* The stream so far is a sequence of positions. *)
LEMMA SaidType == TypeOK => Said \in Seq(Nat)
<1> SUFFICES ASSUME TypeOK PROVE Said \in Seq(Nat)
  OBVIOUS
<1> DEFINE s == [i \in DOMAIN heard |-> IF Payload(heard[i]) THEN <<i>> ELSE <<>>]
<1>1. PICK n \in Nat : DOMAIN heard = 1..n
  BY DEF TypeOK
<1>2. s \in Seq(Seq(Nat)) /\ <<>> \in Seq(Seq(Nat))
  BY <1>1
<1>3. Said = FlattenSeq(s)
  BY DEF Said
<1> HIDE DEF s
<1>4. QED
  BY <1>2, <1>3, FlattenConcat

(* A new frame is said last. *)
LEMMA SaidAppend ==
  ASSUME TypeOK, NEW f \in Shapes, heard' = Append(heard, f)
  PROVE  Said' = Said \o (IF Payload(f) THEN <<Len(heard')>> ELSE <<>>)
<1> DEFINE s == [i \in DOMAIN heard |-> IF Payload(heard[i]) THEN <<i>> ELSE <<>>]
           t == [i \in DOMAIN heard' |-> IF Payload(heard'[i]) THEN <<i>> ELSE <<>>]
           last == IF Payload(f) THEN <<Len(heard')>> ELSE <<>>
<1>1. heard \in Seq(Shapes)
  BY DEF TypeOK
<1>2. PICK n \in Nat : n = Len(heard) /\ DOMAIN heard = 1..n
  BY <1>1
<1>3. Len(heard') = n + 1 /\ DOMAIN heard' = 1..(n + 1) /\ heard'[n + 1] = f
      /\ \A i \in 1..n : heard'[i] = heard[i]
  BY <1>1, <1>2
<1>4. s \in Seq(Seq(Nat)) /\ Len(s) = n
  BY <1>2
<1>5. last \in Seq(Nat) /\ <<last>> \in Seq(Seq(Nat)) /\ Len(<<last>>) = 1 /\ <<last>>[1] = last
  BY <1>3
<1>6. t \in Seq(Seq(Nat)) /\ Len(t) = n + 1
  BY <1>3
<1>7. t = s \o <<last>>
  <2>1. \A i \in 1..n : t[i] = s[i]
    BY <1>2, <1>3
  <2>2. t[n + 1] = last
    BY <1>3
  <2> HIDE DEF s, t, last
  <2>3. QED
    <3>1. s \o <<last>> \in Seq(Seq(Nat)) /\ Len(s \o <<last>>) = n + 1
      BY <1>4, <1>5
    <3>2. \A i \in 1..n : (s \o <<last>>)[i] = s[i]
      BY <1>4, <1>5
    <3>3. (s \o <<last>>)[n + 1] = last
      BY <1>4, <1>5
    <3>4. \A i \in 1..(n + 1) : t[i] = (s \o <<last>>)[i]
      <4>1. \A i \in 1..(n + 1) : i \in 1..n \/ i = n + 1
        BY <1>2
      <4>2. QED
        BY <2>1, <2>2, <3>2, <3>3, <4>1
    <3>5. QED
      BY <1>6, <3>1, <3>4, SameSequence
<1>8. Said = FlattenSeq(s) /\ Said' = FlattenSeq(t)
  BY DEF Said
<1> HIDE DEF s, t
<1>9. Said \in Seq(Nat) /\ Said' = Said \o FlattenSeq(<<last>>)
  BY <1>4, <1>5, <1>7, <1>8, FlattenConcat
<1>10. FlattenSeq(<<last>>) = last
  BY <1>5, FlattenOne
<1>11. QED
  BY <1>9, <1>10

(* The size of a block: no text at first, a number, and the same whatever  *)
(* is heard after the block.                                               *)
LEMMA SizeOf ==
  ASSUME NEW parts, Len(parts) \in Nat, NEW frames,
         \A k \in 1..Len(parts) : frames[parts[k]].size \in Nat
  PROVE  /\ Size(parts, frames) \in Nat
         /\ \E f \in [0..Len(parts) -> Nat] :
              /\ f[0] = 0
              /\ \A k \in 1..Len(parts) : f[k] = f[k - 1] + frames[parts[k]].size
              /\ Size(parts, frames) = f[Len(parts)]
<1>1. PICK n \in Nat : n = Len(parts)
  OBVIOUS
<1>2. PICK step \in [1..n -> [Nat -> Nat]] :
        \A k \in 1..n : \A x \in Nat : step[k][x] = x + frames[parts[k]].size
  <2> DEFINE F == [k \in 1..n |-> [x \in Nat |-> x + frames[parts[k]].size]]
  <2>1. \A k \in 1..n : \A x \in Nat : x + frames[parts[k]].size \in Nat
    BY <1>1
  <2>2. F \in [1..n -> [Nat -> Nat]]
    BY <2>1
  <2>3. \A k \in 1..n : \A x \in Nat : F[k][x] = x + frames[parts[k]].size
    OBVIOUS
  <2> HIDE DEF F
  <2>4. QED
    BY <2>2, <2>3
<1>3. PICK f : Recurs(f, n, Nat, 0, step)
  BY RecursionExists
<1>4. f \in [0..n -> Nat] /\ f[0] = 0 /\ \A k \in 1..n : f[k] = step[k][f[k - 1]]
  BY <1>3 DEF Recurs
<1>5. ASSUME NEW k \in 1..n PROVE f[k] = f[k - 1] + frames[parts[k]].size
  <2>1. k - 1 \in 0..n
    BY <1>1
  <2>2. f[k - 1] \in Nat
    BY <1>4, <2>1
  <2>3. QED
    BY <1>2, <1>4, <2>2
<1> DEFINE Body(g) == [k \in 0..n |-> IF k = 0 THEN 0
                                      ELSE g[k - 1] + frames[parts[k]].size]
           size == CHOOSE g : g = Body(g)
<1>6. f = Body(f)
  <2>1. \A k \in 0..n : f[k] = IF k = 0 THEN 0 ELSE f[k - 1] + frames[parts[k]].size
    BY <1>4, <1>5
  <2>2. f = [k \in 0..n |-> f[k]]
    BY <1>4
  <2>3. QED
    BY <2>1, <2>2
<1>7. size = Body(size)
  <2> HIDE DEF Body
  <2>1. QED
    BY <1>6
<1>8. Size(parts, frames) = size[n]
  BY <1>1 DEF Size
<1> HIDE DEF size
<1>9. \A k \in 0..n : size[k] = IF k = 0 THEN 0 ELSE size[k - 1] + frames[parts[k]].size
  BY <1>7
<1> DEFINE T == {k \in 0..n : size[k] = f[k]}
<1>10. 0 \in T
  BY <1>4, <1>9
<1>11. ASSUME NEW k \in 0..n, k \in T, k < n PROVE k + 1 \in T
  <2>1. k + 1 \in 0..n /\ k + 1 \in 1..n /\ (k + 1) - 1 = k /\ k + 1 # 0
    BY <1>11
  <2>2. size[k + 1] = size[k] + frames[parts[k + 1]].size
    BY <1>9, <2>1
  <2>3. f[k + 1] = f[k] + frames[parts[k + 1]].size
    BY <1>5, <2>1
  <2>4. QED
    BY <1>11, <2>1, <2>2, <2>3
<1>12. \A k \in 0..n : k \in T
  <2> HIDE DEF T
  <2>1. QED
    BY <1>10, <1>11, Induction
<1>13. n \in 0..n /\ f[n] \in Nat
  BY <1>1, <1>4
<1>14. Size(parts, frames) = f[n]
  BY <1>8, <1>12, <1>13
<1>15. QED
  <2>1. Size(parts, frames) \in Nat
    BY <1>13, <1>14
  <2>2. QED
    BY <1>1, <1>4, <1>5, <1>14, <2>1

(* An empty block. *)
LEMMA SizeEmpty ==
  ASSUME NEW frames
  PROVE  Size(<<>>, frames) = 0
<1>1. Len(<<>>) = 0 /\ 1..0 = {} /\ 0 \in Nat
  OBVIOUS
<1>2. PICK f \in [0..0 -> Nat] : f[0] = 0 /\ Size(<<>>, frames) = f[0]
  BY <1>1, SizeOf
<1>3. QED
  BY <1>2

(* Frames that are heard after a block do not change its size. *)
LEMMA SizeStill ==
  ASSUME NEW parts, Len(parts) \in Nat, NEW frames, NEW grown,
         \A k \in 1..Len(parts) : /\ frames[parts[k]].size \in Nat
                                  /\ grown[parts[k]] = frames[parts[k]]
  PROVE  Size(parts, grown) = Size(parts, frames)
<1>1. PICK n \in Nat : n = Len(parts)
  OBVIOUS
<1>2. PICK f \in [0..n -> Nat] :
        /\ f[0] = 0
        /\ \A k \in 1..n : f[k] = f[k - 1] + frames[parts[k]].size
        /\ Size(parts, frames) = f[n]
  BY <1>1, SizeOf
<1>3. PICK g \in [0..n -> Nat] :
        /\ g[0] = 0
        /\ \A k \in 1..n : g[k] = g[k - 1] + grown[parts[k]].size
        /\ Size(parts, grown) = g[n]
  <2>1. \A k \in 1..n : grown[parts[k]].size \in Nat
    BY <1>1
  <2>2. QED
    BY <1>1, <2>1, SizeOf
<1> DEFINE T == {k \in 0..n : g[k] = f[k]}
<1>4. 0 \in T
  BY <1>2, <1>3
<1>5. ASSUME NEW k \in 0..n, k \in T, k < n PROVE k + 1 \in T
  <2>1. k + 1 \in 0..n /\ k + 1 \in 1..n /\ (k + 1) - 1 = k
    BY <1>5
  <2>2. /\ f[k + 1] = f[k] + frames[parts[k + 1]].size
        /\ g[k + 1] = g[k] + grown[parts[k + 1]].size
        /\ grown[parts[k + 1]] = frames[parts[k + 1]]
    BY <1>1, <1>2, <1>3, <2>1
  <2>3. QED
    BY <1>5, <2>1, <2>2
<1>6. \A k \in 0..n : k \in T
  <2> HIDE DEF T
  <2>1. QED
    BY <1>4, <1>5, Induction
<1>7. n \in 0..n
  BY <1>1
<1>8. QED
  BY <1>2, <1>3, <1>6, <1>7

-----------------------------------------------------------------------------
\* How a stream that the proxy ends has been accounted for, until the client
\* has seen the end, and what the converter holds back until then.
EndInv ==
  /\ ending = "gone" => pc = "closed"
  /\ pc \in {"reading", "crediting"} => ending = "open" /\ ~credited
  /\ pc = "yielding" =>
       /\ ending # "open" => pending = <<>>
       /\ ending \in {"success", "partial"} => billed # <<>>
       /\ ending \in {"failure", "broken"} => billed = <<>>
       /\ credited <=> ending = "success"

(* The end of a response is accounted for before it is told. *)
LEMMA NextEnd == IInv /\ EndInv /\ [Next]_vars => EndInv'
<1> SUFFICES ASSUME IInv, EndInv, [Next]_vars PROVE EndInv'
  OBVIOUS
<1> USE DEF EndInv
<1>0. /\ pc = "reading" => billed = <<>> /\ queue = <<>> /\ ending = "open" /\ ~credited
      /\ TypeOK /\ ReadInv
  BY DEF IInv, ReadInv, Open
<1>1. ASSUME NEW f \in Shapes, pc = "reading",
             BadFrame(f) \/ ErrorFrame(f) \/ ReasoningFrame(f) \/ CommentFrame(f)
      PROVE  EndInv'
  BY <1>0, <1>1 DEF BadFrame, Break, EmptyBuffer, ErrorFrame, ReasoningFrame, CommentFrame,
                    Deliver
<1>2. ASSUME NEW f \in Shapes, pc = "reading", CompletedFrame(f) PROVE EndInv'
  BY <1>0, <1>2 DEF CompletedFrame
<1>3. ASSUME NEW f \in Shapes, pc = "reading", PassFrame(f) PROVE EndInv'
  <2>1. Bill(f) /\ pending' = <<>> /\ Deliver(EndAfter(f)) /\ ~credited'
    BY <1>0, <1>3 DEF PassFrame, Forward, EmptyBuffer
  <2>2. \/ EndAfter(f) = "partial" /\ billed' # <<>>
        \/ EndAfter(f) \in {"open", "failure"} /\ billed' = <<>>
    BY <1>0, <1>3, <2>1 DEF PassFrame, Bill, EndAfter, Terminal
  <2>3. QED
    BY <2>1, <2>2 DEF Deliver
<1>4. CASE ReadFrame
  BY <1>1, <1>2, <1>3, <1>4 DEF ReadFrame
<1>5. CASE TransportFails
  BY <1>0, <1>5 DEF TransportFails, Break, EmptyBuffer, Deliver
<1>6. CASE UpstreamEnds
  BY <1>0, <1>6 DEF UpstreamEnds, EmptyBuffer, Deliver
<1>7. CASE Credit
  <2>1. heard # <<>> /\ heard[Len(heard)].kind = "completed"
    BY <1>0, <1>7 DEF Credit, ReadInv
  <2>2. EndAfter(heard[Len(heard)]) = "success"
    BY <2>1 DEF EndAfter, Terminal
  <2>3. billed # <<>>
    <3>1. Len(heard) \in DOMAIN heard
      BY <1>0, <2>1 DEF TypeOK
    <3>2. QED
      BY <2>1, <3>1 DEF IInv, BillInv, Ended
  <2>4. pending' = <<>> /\ Deliver("success") /\ credited' /\ billed' # <<>>
    BY <1>7, <2>2, <2>3 DEF Credit, Forward, EmptyBuffer
  <2>5. QED
    BY <2>4 DEF Deliver
<1>8. CASE Yield
  <2>1. ending' = ending /\ pc = "yielding" /\ UNCHANGED <<pending, billed, credited>>
        /\ pc' = IF queue' # <<>> THEN "yielding"
                 ELSE IF ending = "open" THEN "reading" ELSE "closed"
    BY <1>8 DEF Yield, Deliver
  <2>2. QED
    BY <2>1
<1>9. CASE Drop
  BY <1>9 DEF Drop
<1>10. CASE UNCHANGED vars
  BY <1>10 DEF vars
<1>11. QED
  BY <1>4, <1>5, <1>6, <1>7, <1>8, <1>9, <1>10 DEF Next

-----------------------------------------------------------------------------
Payloads == {"delta", "frame"}

\* A completed frame that waits for the session cache.
Waiting == IF pc = "crediting" THEN <<Len(heard)>> ELSE <<>>

(* What the buffer tells when it is flushed. *)
LEMMA BlockTells ==
  ASSUME TypeOK
  PROVE  Positions(Payloads, TakeAll) = pending
<1>1. CASE pending = <<>>
  BY <1>1, PositionsNone DEF TakeAll
<1>2. CASE pending # <<>>
  <2> DEFINE e == [type |-> "delta", of |-> active, parts |-> pending]
  <2>1. TakeAll = <<e>>
    BY <1>2 DEF TakeAll
  <2>2. <<e>> \in Seq(Event)
    BY <2>1, BlockType
  <2>3. e \in Event /\ e.type = "delta" /\ e.parts = pending
    BY <2>2
  <2> HIDE DEF e
  <2>4. QED
    BY <2>1, <2>3, PositionsOne DEF Payloads
<1>3. QED
  BY <1>1, <1>2

(* A step that makes events from what was read tells them last. *)
LEMMA MoreTold ==
  ASSUME NEW type, TypeOK, queue = <<>>, out' = out, NEW more \in Seq(Event), queue' = more
  PROVE  /\ Positions(type, out' \o queue') = Positions(type, out \o queue) \o Positions(type, more)
         /\ Positions(type, out \o queue) \in Seq(1..MaxFrames)
         /\ Positions(type, more) \in Seq(1..MaxFrames)
<1>1. out \in Seq(Event) /\ out \o queue = out
  BY DEF TypeOK
<1>2. QED
  BY <1>1, PositionsBoth

(* A step that flushes the buffer and then tells last. *)
LEMMA FlushOrders ==
  ASSUME TypeOK, queue = <<>>, out' = out, NEW e \in Event, queue' = TakeAll \o <<e>>
  PROVE  Positions(Payloads, out' \o queue') =
           (Positions(Payloads, out \o queue) \o pending)
             \o (IF e.type \in Payloads THEN e.parts ELSE <<>>)
<1>1. TakeAll \in Seq(Event) /\ <<e>> \in Seq(Event)
  BY BlockType
<1>2. queue' \in Seq(Event)
  BY <1>1
<1> DEFINE a == Positions(Payloads, out \o queue)
           b == Positions(Payloads, TakeAll)
           c == Positions(Payloads, <<e>>)
<1>3. Positions(Payloads, out' \o queue') = a \o Positions(Payloads, queue')
      /\ a \in Seq(1..MaxFrames)
  BY <1>2, MoreTold
<1>4. Positions(Payloads, queue') = b \o c /\ b \in Seq(1..MaxFrames) /\ c \in Seq(1..MaxFrames)
  BY <1>1, PositionsBoth
<1>5. b = pending /\ c = IF e.type \in Payloads THEN e.parts ELSE <<>>
  BY BlockTells, PositionsOne
<1> HIDE DEF a, b, c
<1>6. a \o (b \o c) = (a \o b) \o c
  <2>1. \A x, y, z \in Seq(1..MaxFrames) : x \o (y \o z) = (x \o y) \o z
    OBVIOUS
  <2>2. QED
    BY <1>3, <1>4, <2>1
<1>7. QED
  BY <1>3, <1>4, <1>5, <1>6 DEF a

(* A delta joins the buffer, or what it does not fit into is flushed: with *)
(* what is then buffered, the block and the delta are told in order.       *)
LEMMA BufferOrders ==
  ASSUME TypeOK, queue = <<>>, out' = out, NEW f \in Shapes, f.kind = "reasoning",
         Len(heard) < MaxFrames, heard' = Append(heard, f), Buffer(f, Len(heard'))
  PROVE  Positions(Payloads, out' \o queue') \o pending' =
           (Positions(Payloads, out \o queue) \o pending)
             \o (IF Payload(f) THEN <<Len(heard')>> ELSE <<>>)
<1>0. PICK i \in Nat : i = Len(heard')
  BY AppendFrame
<1>a. /\ \A x, y, z \in Seq(1..MaxFrames) : x \o (y \o z) = (x \o y) \o z
      /\ \A x \in Seq(1..MaxFrames) : x \o <<>> = x /\ <<>> \o x = x
      /\ \A x, y \in Seq(1..MaxFrames) : x \o y \in Seq(1..MaxFrames)
  OBVIOUS
<1> DEFINE text  == IF f.size = 0 THEN <<>> ELSE <<i>>
           block == IF StartsBlock(f) THEN text ELSE pending \o text
           stamp == IF StartsBlock(f) THEN f.item ELSE active
           flushed == IF StartsBlock(f) THEN TakeAll ELSE <<>>
           full == Size(block, heard') >= FlushChars
           whole == [type |-> "delta", of |-> stamp, parts |-> block]
           rest == IF full THEN <<whole>> ELSE <<>>
           told == Positions(Payloads, out \o queue)
<1>1. queue' = flushed \o rest /\ pending' = IF full THEN <<>> ELSE block
  BY <1>0 DEF Buffer
<1>2. text = IF Payload(f) THEN <<Len(heard')>> ELSE <<>>
  <2>1. f.size \in Nat
    BY NativeAssumption DEF Frame
  <2>2. QED
    BY <1>0, <2>1 DEF Payload
<1>3. text \in Seq(1..MaxFrames) /\ pending \in Seq(1..MaxFrames)
  <2>1. i \in 1..MaxFrames /\ <<i>> \in Seq(1..MaxFrames) /\ pending \in Seq(1..i)
    BY <1>0, AppendFrame
  <2>2. <<>> \in Seq(1..MaxFrames) /\ 1..i \subseteq 1..MaxFrames
    BY <2>1, NativeAssumption
  <2>3. QED
    BY <2>1, <2>2, Widened
<1> HIDE DEF text
<1>4. block \in Seq(1..MaxFrames)
  BY <1>a, <1>3
<1>5. whole \in Event /\ whole.type = "delta" /\ whole.parts = block
  <2>1. stamp \in Items \cup {None}
    BY Frames DEF TypeOK
  <2> HIDE DEF block, stamp
  <2>2. QED
    BY <1>4, <2>1 DEF Event
<1>6. flushed \in Seq(Event) /\ Positions(Payloads, flushed) = IF StartsBlock(f) THEN pending ELSE <<>>
  <2>1. Positions(Payloads, <<>>) = <<>> /\ <<>> \in Seq(Event)
    BY PositionsNone
  <2>2. QED
    BY <2>1, BlockType, BlockTells
<1>7. rest \in Seq(Event) /\ Positions(Payloads, rest) = IF full THEN block ELSE <<>>
  <2> HIDE DEF whole, block, full
  <2>1. Positions(Payloads, <<>>) = <<>> /\ <<>> \in Seq(Event) /\ <<whole>> \in Seq(Event)
    BY <1>5, PositionsNone
  <2>2. Positions(Payloads, <<whole>>) = block
    BY <1>5, PositionsOne DEF Payloads
  <2>3. QED
    BY <2>1, <2>2
<1> HIDE DEF flushed, rest, full, whole
<1>8. /\ Positions(Payloads, out' \o queue') = told \o Positions(Payloads, queue')
      /\ told \in Seq(1..MaxFrames)
  <2>1. queue' \in Seq(Event)
    BY <1>1, <1>6, <1>7
  <2>2. QED
    BY <2>1, MoreTold
<1>9. Positions(Payloads, queue') = Positions(Payloads, flushed) \o Positions(Payloads, rest)
  BY <1>1, <1>6, <1>7, PositionsBoth
<1> HIDE DEF told
<1>b. /\ <<>> \in Seq(1..MaxFrames) /\ <<>> \o <<>> = <<>>
      /\ pending' \in Seq(1..MaxFrames) /\ Positions(Payloads, queue') \in Seq(1..MaxFrames)
  <2>1. <<>> \in Seq(1..MaxFrames)
    OBVIOUS
  <2>2. Positions(Payloads, flushed) \in Seq(1..MaxFrames)
        /\ Positions(Payloads, rest) \in Seq(1..MaxFrames)
    BY <1>6, <1>7, PositionsBoth
  <2> HIDE DEF block
  <2>3. pending' \in Seq(1..MaxFrames)
    BY <1>1, <1>4, <2>1
  <2>4. QED
    BY <1>a, <1>9, <2>1, <2>2, <2>3
<1>10. ASSUME StartsBlock(f)
       PROVE  Positions(Payloads, queue') \o pending' = pending \o text
  <2>1. block = text /\ Positions(Payloads, flushed) = pending
    BY <1>6, <1>10
  <2> HIDE DEF block
  <2>2. CASE full
    <3>1. Positions(Payloads, queue') = pending \o text /\ pending' = <<>>
      BY <1>1, <1>7, <1>9, <2>1, <2>2
    <3>2. QED
      BY <1>a, <1>b, <3>1
  <2>3. CASE ~full
    <3>1. Positions(Payloads, queue') = pending \o <<>> /\ pending' = text
      BY <1>1, <1>7, <1>9, <2>1, <2>3
    <3>2. QED
      BY <1>a, <1>3, <3>1
  <2>4. QED
    BY <2>2, <2>3
<1>11. ASSUME ~StartsBlock(f)
       PROVE  Positions(Payloads, queue') \o pending' = pending \o text
  <2>1. block = pending \o text
    BY <1>11
  <2> HIDE DEF block
  <2>2. Positions(Payloads, flushed) = <<>>
    BY <1>6, <1>11
  <2>3. CASE full
    <3>1. Positions(Payloads, queue') = <<>> \o block /\ pending' = <<>>
      BY <1>1, <1>7, <1>9, <2>2, <2>3
    <3>2. QED
      BY <1>a, <1>b, <1>4, <2>1, <3>1
  <2>4. CASE ~full
    <3>1. Positions(Payloads, queue') = <<>> /\ pending' = block
      BY <1>1, <1>7, <1>9, <1>b, <2>2, <2>4
    <3>2. QED
      BY <1>a, <1>4, <2>1, <3>1
  <2>5. QED
    BY <2>3, <2>4
<1>12. Positions(Payloads, queue') \o pending' = pending \o text
  BY <1>10, <1>11
<1>13. PICK x, y \in Seq(1..MaxFrames) : x = Positions(Payloads, queue') /\ y = pending'
  BY <1>b
<1>14. (told \o x) \o y = told \o (x \o y)
  BY <1>a, <1>8
<1>15. told \o (pending \o text) = (told \o pending) \o text
  <2>1. PICK a, b, c \in Seq(1..MaxFrames) : a = told /\ b = pending /\ c = text
    BY <1>3, <1>8
  <2>2. a \o (b \o c) = (a \o b) \o c
    OBVIOUS
  <2>3. QED
    BY <2>1, <2>2
<1>16. QED
  BY <1>2, <1>8, <1>12, <1>13, <1>14, <1>15 DEF told

-----------------------------------------------------------------------------
(* An event that carries no payload. *)
LEMMA EndType ==
  ASSUME NEW type \in {"failed", "error", "abort"}
  PROVE  /\ Told(type, <<>>) \in Event /\ Told(type, <<>>).type = type
         /\ Told(type, <<>>).parts = <<>> /\ type \notin Payloads
<1>1. <<>> \in Seq(1..MaxFrames)
  OBVIOUS
<1>2. QED
  BY <1>1, ToldType DEF Told, Payloads

(* A frame that carries no payload to the client ends the stream. *)
LEMMA EndOrders ==
  ASSUME TypeOK, InOrder, ending = "open", pc = "reading", queue = <<>>,
         NEW type \in {"failed", "error", "abort"},
         queue' = TakeAll \o <<Told(type, <<>>)>>, pending' = <<>>, out' = out,
         pc' # "crediting", Said' = Said
  PROVE  InOrder'
<1>1. Positions(Payloads, out \o queue) \o pending \o <<>> = Said
  BY DEF InOrder, Payloads
<1>2. Positions(Payloads, out' \o queue') =
        (Positions(Payloads, out \o queue) \o pending) \o <<>>
  BY EndType, FlushOrders
<1>3. Positions(Payloads, out' \o queue') = Said
  BY <1>1, <1>2
<1>4. Said \o <<>> = Said
  OBVIOUS
<1>5. QED
  BY <1>3, <1>4 DEF InOrder, Payloads

(* The meaningful frames stay in order whatever is read and told. *)
LEMMA NextOrder == IInv /\ EndInv /\ InOrder /\ [Next]_vars => InOrder'
<1> SUFFICES ASSUME IInv, EndInv, InOrder, [Next]_vars PROVE InOrder'
  OBVIOUS
<1>0. TypeOK /\ ReadInv /\ TellInv /\ BillInv
  BY DEF IInv
<1> DEFINE told == Positions(Payloads, out \o queue)
<1>1. pc = "reading" => /\ ending = "open" /\ queue = <<>>
                        /\ told \o pending \o <<>> = Said
  BY <1>0 DEF EndInv, ReadInv, InOrder, Payloads
<1>2. pc = "reading" => told \in Seq(1..MaxFrames) /\ pending \in Seq(1..MaxFrames)
                        /\ told \o pending = Said
  <2>1. SUFFICES ASSUME pc = "reading"
                 PROVE  told \in Seq(1..MaxFrames) /\ pending \in Seq(1..MaxFrames)
                        /\ told \o pending = Said
    OBVIOUS
  <2>2. out \o queue \in Seq(Event) /\ <<>> \in Seq(Event)
    BY <1>0 DEF TypeOK
  <2>3. told \in Seq(1..MaxFrames)
    BY <2>2, PositionsBoth
  <2>4. pending \in Seq(1..MaxFrames)
    BY <1>0, BlockTells, BlockType, PositionsBoth
  <2> HIDE DEF told
  <2>5. told \o pending \o <<>> = told \o pending
    BY <2>3, <2>4
  <2>6. QED
    BY <1>1, <2>1, <2>3, <2>4, <2>5
<1>3. \A f \in Shapes : heard' = Append(heard, f) =>
        Said' = Said \o (IF Payload(f) THEN <<Len(heard')>> ELSE <<>>)
  BY <1>0, SaidAppend
<1>4. Said \in Seq(Nat)
  BY <1>0, SaidType
<1>5. ASSUME heard' = heard PROVE Said' = Said
  BY <1>5 DEF Said
<1>6. ASSUME NEW f \in Shapes, heard' = Append(heard, f), ~Payload(f)
      PROVE  Said' = Said
  <2>1. Said' = Said \o <<>>
    BY <1>3, <1>6
  <2>2. Said \o <<>> = Said
    BY <1>4
  <2>3. QED
    BY <2>1, <2>2
<1>a. ASSUME NEW f \in Shapes, Len(heard) < MaxFrames, heard' = Append(heard, f)
      PROVE  Said' \in Seq(Nat)
  <2>1. Len(heard') \in Nat
    BY <1>0, <1>a, AppendFrame
  <2>2. (IF Payload(f) THEN <<Len(heard')>> ELSE <<>>) \in Seq(Nat)
    BY <2>1
  <2>3. PICK x, y \in Seq(Nat) :
          x = Said /\ y = IF Payload(f) THEN <<Len(heard')>> ELSE <<>>
    BY <1>4, <2>2
  <2>4. x \o y \in Seq(Nat)
    OBVIOUS
  <2>5. QED
    BY <1>3, <1>a, <2>3, <2>4
<1>7. ASSUME NEW type \in {"failed", "error", "abort"}, pc = "reading",
             queue' = TakeAll \o <<Told(type, <<>>)>>, pending' = <<>>, out' = out,
             pc' # "crediting", Said' = Said
      PROVE  InOrder'
  BY <1>0, <1>1, <1>7, EndOrders
<1>8. ASSUME NEW f \in Shapes, pc = "reading", BadFrame(f) PROVE InOrder'
  <2>1. /\ heard' = Append(heard, f) /\ ~Payload(f) /\ out' = out /\ pending' = <<>>
        /\ queue' = TakeAll \o <<Told("abort", <<>>)>> /\ pc' # "crediting"
    BY <1>8 DEF BadFrame, Break, EmptyBuffer, Payload, Deliver
  <2>2. QED
    BY <1>6, <1>7, <1>8, <2>1
<1>9. ASSUME NEW f \in Shapes, pc = "reading", ErrorFrame(f) PROVE InOrder'
  <2>1. /\ heard' = Append(heard, f) /\ ~Payload(f) /\ out' = out /\ pending' = <<>>
        /\ queue' = TakeAll \o <<Told(IF known' THEN "failed" ELSE "error", <<>>)>>
        /\ pc' # "crediting"
    BY <1>9 DEF ErrorFrame, EmptyBuffer, Payload, Deliver, Failed
  <2>2. (IF known' THEN "failed" ELSE "error") \in {"failed", "error", "abort"}
    OBVIOUS
  <2>3. QED
    BY <1>6, <1>7, <1>9, <2>1, <2>2
<1>10. ASSUME NEW f \in Shapes, pc = "reading", CompletedFrame(f) PROVE InOrder'
  <2>1. /\ heard' = Append(heard, f) /\ Payload(f) /\ pc' = "crediting"
        /\ UNCHANGED <<pending, queue, out>>
    BY <1>10 DEF CompletedFrame, Note, Payload
  <2>2. Said' = Said \o <<Len(heard')>>
    BY <1>3, <2>1
  <2>3. Positions(Payloads, out' \o queue') \o pending' = Said
    BY <1>2, <1>10, <2>1
  <2>4. QED
    BY <2>1, <2>2, <2>3 DEF InOrder, Payloads
<1>11. ASSUME NEW f \in Shapes, Len(heard) < MaxFrames, pc = "reading", PassFrame(f)
       PROVE  InOrder'
  <2> DEFINE e == Told("frame", <<Len(heard')>>)
  <2>1. /\ heard' = Append(heard, f) /\ Payload(f) /\ pc' # "crediting" /\ out' = out
        /\ pending' = <<>> /\ queue' = TakeAll \o <<e>>
    BY <1>11 DEF PassFrame, Note, Payload, Forward, EmptyBuffer, Deliver
  <2>2. e \in Event /\ e.type \in Payloads /\ e.parts = <<Len(heard')>>
    <3>1. <<Len(heard')>> \in Seq(1..MaxFrames)
      BY <1>0, <1>11, <2>1, AppendFrame
    <3>2. QED
      BY <3>1, ToldType DEF Told, Payloads
  <2> HIDE DEF e
  <2>3. Positions(Payloads, out' \o queue') = (told \o pending) \o <<Len(heard')>>
    BY <1>0, <1>1, <1>11, <2>1, <2>2, FlushOrders
  <2>4. Positions(Payloads, out' \o queue') = Said'
    BY <1>2, <1>3, <1>11, <2>1, <2>3
  <2>5. Said' \in Seq(Nat)
    BY <1>11, <1>a, <2>1
  <2>6. Said' \o <<>> \o <<>> = Said'
    BY <2>5
  <2>7. QED
    BY <2>1, <2>4, <2>6 DEF InOrder, Payloads
<1>12. ASSUME NEW f \in Shapes, Len(heard) < MaxFrames, pc = "reading", ReasoningFrame(f)
       PROVE  InOrder'
  <2>1. /\ heard' = Append(heard, f) /\ f.kind = "reasoning" /\ out' = out
        /\ Buffer(f, Len(heard')) /\ pc' # "crediting"
    BY <1>12 DEF ReasoningFrame, Note, Deliver
  <2>2. Positions(Payloads, out' \o queue') \o pending' =
          (told \o pending) \o (IF Payload(f) THEN <<Len(heard')>> ELSE <<>>)
    BY <1>0, <1>1, <1>12, <2>1, BufferOrders
  <2>3. Positions(Payloads, out' \o queue') \o pending' = Said'
    BY <1>2, <1>3, <1>12, <2>1, <2>2
  <2>4. Said' \in Seq(Nat)
    BY <1>12, <1>a, <2>1
  <2>5. Said' \o <<>> = Said'
    BY <2>4
  <2>6. QED
    BY <2>1, <2>3, <2>5 DEF InOrder, Payloads
<1>13. ASSUME NEW f \in Shapes, Len(heard) < MaxFrames, pc = "reading", CommentFrame(f)
       PROVE  InOrder'
  <2> DEFINE e == Told("comment", <<Len(heard')>>)
  <2>1. /\ heard' = Append(heard, f) /\ ~Payload(f) /\ UNCHANGED <<pending, out>>
        /\ queue' = <<e>> /\ pc' # "crediting"
    BY <1>13 DEF CommentFrame, Note, Payload, Deliver
  <2>2. e \in Event /\ e.type \notin Payloads /\ <<e>> \in Seq(Event)
    <3>1. <<Len(heard')>> \in Seq(1..MaxFrames)
      BY <1>0, <1>13, <2>1, AppendFrame
    <3>2. e \in Event
      BY <3>1, ToldType
    <3>3. e.type \notin Payloads
      BY DEF Told, Payloads
    <3> HIDE DEF e
    <3>4. QED
      BY <3>2, <3>3
  <2> HIDE DEF e
  <2>3. Positions(Payloads, <<e>>) = <<>>
    BY <2>2, PositionsOne
  <2>4. Positions(Payloads, out' \o queue') = told \o <<>>
    BY <1>0, <1>1, <1>13, <2>1, <2>2, <2>3, MoreTold
  <2>5. Said' = Said
    BY <1>6, <2>1
  <2> HIDE DEF told
  <2>6. told \o <<>> = told
    BY <1>2, <1>13
  <2>7. Positions(Payloads, out' \o queue') \o pending' = Said'
    BY <1>2, <1>13, <2>1, <2>4, <2>5, <2>6
  <2>8. Said \o <<>> = Said
    BY <1>4
  <2>9. QED
    BY <2>1, <2>5, <2>7, <2>8 DEF InOrder, Payloads
<1>14. CASE ReadFrame
  BY <1>8, <1>9, <1>10, <1>11, <1>12, <1>13, <1>14 DEF ReadFrame
<1>15. CASE TransportFails
  <2>1. /\ UNCHANGED <<heard, out>> /\ pending' = <<>> /\ pc = "reading"
        /\ queue' = TakeAll \o <<Told("abort", <<>>)>> /\ pc' # "crediting"
    BY <1>15 DEF TransportFails, Break, EmptyBuffer, Deliver
  <2>2. QED
    BY <1>5, <1>7, <2>1
<1>16. CASE UpstreamEnds
  <2>1. /\ UNCHANGED <<heard, out>> /\ pending' = <<>> /\ pc = "reading"
        /\ queue' = TakeAll \o <<Told(IF known THEN "failed" ELSE "error", <<>>)>>
        /\ pc' # "crediting"
    BY <1>16 DEF UpstreamEnds, Final, EmptyBuffer, Deliver, Failed
  <2>2. (IF known THEN "failed" ELSE "error") \in {"failed", "error", "abort"}
    OBVIOUS
  <2>3. QED
    BY <1>5, <1>7, <2>1, <2>2
<1>17. CASE Credit
  <2> DEFINE e == Told("frame", <<Len(heard)>>)
  <2>1. /\ UNCHANGED <<heard, out>> /\ pending' = <<>> /\ pc = "crediting"
        /\ queue' = TakeAll \o <<e>> /\ pc' # "crediting"
    BY <1>17 DEF Credit, Forward, EmptyBuffer, Deliver
  <2>2. e \in Event /\ e.type \in Payloads /\ e.parts = <<Len(heard)>>
    <3>1. Len(heard) \in 1..MaxFrames
      <4>1. heard # <<>> /\ heard \in Seq(Shapes) /\ Len(heard) <= MaxFrames
        BY <1>0, <2>1 DEF ReadInv, TypeOK
      <4>2. QED
        BY <4>1, NativeAssumption
    <3>2. <<Len(heard)>> \in Seq(1..MaxFrames)
      BY <3>1
    <3>3. QED
      BY <3>2, ToldType DEF Told, Payloads
  <2>3. queue = <<>> /\ ending = "open" /\ (told \o pending) \o <<Len(heard)>> = Said
    BY <1>0, <2>1 DEF TypeOK, EndInv, InOrder, Payloads
  <2> HIDE DEF e
  <2>4. Positions(Payloads, out' \o queue') = (told \o pending) \o <<Len(heard)>>
    BY <1>0, <2>1, <2>2, <2>3, FlushOrders
  <2>5. Said' = Said /\ Said \o <<>> \o <<>> = Said
    BY <1>4, <1>5, <2>1
  <2>6. QED
    BY <2>1, <2>3, <2>4, <2>5 DEF InOrder, Payloads
<1>18. CASE Yield
  <2>1. /\ UNCHANGED <<heard, pending, ending>> /\ pc # "crediting" /\ pc' # "crediting"
        /\ out \in Seq(Event) /\ queue \in Seq(Event) /\ queue # <<>>
        /\ out' = Append(out, Head(queue)) /\ queue' = Tail(queue)
    BY <1>0, <1>18 DEF Yield, Deliver, TypeOK
  <2>2. out' \o queue' = out \o queue
    BY <2>1
  <2>3. Said' = Said
    BY <1>5, <2>1
  <2>4. QED
    BY <2>1, <2>2, <2>3 DEF InOrder
<1>19. CASE Drop
  BY <1>19 DEF Drop, InOrder
<1>20. CASE UNCHANGED vars
  BY <1>20 DEF vars, InOrder, Said
<1>21. QED
  BY <1>14, <1>15, <1>16, <1>17, <1>18, <1>19, <1>20 DEF Next

-----------------------------------------------------------------------------
\* Blocks of reasoning hold text of the identity they are stamped with, those
\* that the client has, those it will get and the one in the buffer.
Stamped(events, frames) ==
  \A k \in DOMAIN events :
    events[k].type = "delta" =>
      \A q \in ToSet(events[k].parts) :
        q \in DOMAIN frames /\ frames[q].item = events[k].of

IdentityInv ==
  /\ Stamped(out, heard) /\ Stamped(queue, heard)
  /\ \A q \in ToSet(pending) : q \in DOMAIN heard /\ heard[q].item = active
  /\ Size(pending, heard) < FlushChars

(* Two sequences of events, one after the other. *)
LEMMA StampedBoth ==
  ASSUME NEW a \in Seq(Event), NEW b \in Seq(Event), NEW frames,
         Stamped(a, frames), Stamped(b, frames)
  PROVE  Stamped(a \o b, frames)
<1>1. SUFFICES ASSUME NEW k \in DOMAIN (a \o b), (a \o b)[k].type = "delta",
                      NEW q \in ToSet((a \o b)[k].parts)
               PROVE  q \in DOMAIN frames /\ frames[q].item = (a \o b)[k].of
  BY DEF Stamped
<1>2. CASE k <= Len(a)
  <2>1. k \in DOMAIN a /\ (a \o b)[k] = a[k]
    BY <1>2
  <2>2. QED
    BY <1>1, <2>1 DEF Stamped
<1>3. CASE ~(k <= Len(a))
  <2>1. k - Len(a) \in DOMAIN b /\ (a \o b)[k] = b[k - Len(a)]
    BY <1>3
  <2>2. QED
    BY <1>1, <2>1 DEF Stamped
<1>4. QED
  BY <1>2, <1>3

(* One event, and none. *)
LEMMA StampedOne ==
  ASSUME NEW e \in Event, NEW frames,
         e.type = "delta" => \A q \in ToSet(e.parts) :
                               q \in DOMAIN frames /\ frames[q].item = e.of
  PROVE  <<e>> \in Seq(Event) /\ Stamped(<<e>>, frames)
<1>1. DOMAIN <<e>> = {1} /\ <<e>>[1] = e /\ <<e>> \in Seq(Event)
  OBVIOUS
<1>2. QED
  BY <1>1 DEF Stamped

(* Frames that are heard later change no stamp. *)
LEMMA StampedStill ==
  ASSUME NEW events, NEW frames, NEW grown, Stamped(events, frames),
         \A q \in DOMAIN frames : q \in DOMAIN grown /\ grown[q] = frames[q]
  PROVE  Stamped(events, grown)
BY DEF Stamped

(* What is buffered, as the event that tells it. *)
LEMMA BlockStamped ==
  ASSUME TypeOK, IdentityInv, NEW grown,
         \A q \in DOMAIN heard : q \in DOMAIN grown /\ grown[q] = heard[q]
  PROVE  Stamped(TakeAll, grown)
<1>1. CASE pending = <<>>
  BY <1>1 DEF TakeAll, Stamped
<1>2. CASE pending # <<>>
  <2> DEFINE e == [type |-> "delta", of |-> active, parts |-> pending]
  <2>1. TakeAll = <<e>> /\ <<e>> \in Seq(Event)
    BY <1>2, BlockType DEF TakeAll
  <2>2. e \in Event /\ e.parts = pending /\ e.of = active
    BY <2>1
  <2> HIDE DEF e
  <2>3. QED
    BY <2>1, <2>2, StampedOne DEF IdentityInv
<1>3. QED
  BY <1>1, <1>2

(* A buffer with no more text than it had stays below the size. *)
LEMMA SizeKept ==
  ASSUME TypeOK, IdentityInv, pending' = pending \/ pending' = <<>>,
         \A q \in DOMAIN heard : heard'[q] = heard[q]
  PROVE  Size(pending', heard') < FlushChars
<1>1. CASE pending' = <<>>
  <2>1. Size(<<>>, heard') = 0 /\ 0 < FlushChars
    BY SizeEmpty, NativeAssumption
  <2>2. QED
    BY <1>1, <2>1
<1>2. CASE pending' = pending
  <2>1. PICK n \in Nat : n = Len(pending)
    BY DEF TypeOK
  <2>2. \A k \in 1..n : pending[k] \in DOMAIN heard
    BY <2>1 DEF TypeOK
  <2>3. \A q \in DOMAIN heard : heard[q].size \in Nat
    <3>1. \A q \in DOMAIN heard : heard[q] \in Shapes
      BY DEF TypeOK
    <3>2. \A f \in Shapes : f.size \in Nat
      BY NativeAssumption DEF Frame
    <3>3. QED
      BY <3>1, <3>2
  <2>4. \A k \in 1..n : heard[pending[k]].size \in Nat /\ heard'[pending[k]] = heard[pending[k]]
    BY <2>2, <2>3
  <2>5. Size(pending, heard') = Size(pending, heard)
    BY <2>1, <2>4, SizeStill
  <2>6. QED
    BY <1>2, <2>5 DEF IdentityInv
<1>3. QED
  BY <1>1, <1>2

(* A step that flushes the buffer and tells something without a stamp. *)
LEMMA FlushStamps ==
  ASSUME TypeOK, IdentityInv, out' = out, pending' = <<>>,
         \A q \in DOMAIN heard : q \in DOMAIN heard' /\ heard'[q] = heard[q],
         NEW e \in Event, e.type # "delta", queue' = TakeAll \o <<e>>
  PROVE  IdentityInv'
<1>1. Stamped(TakeAll, heard') /\ TakeAll \in Seq(Event)
  BY BlockStamped, BlockType
<1>2. Stamped(<<e>>, heard') /\ <<e>> \in Seq(Event)
  BY StampedOne
<1>3. Stamped(queue', heard')
  BY <1>1, <1>2, StampedBoth
<1>4. Stamped(out', heard')
  BY StampedStill DEF IdentityInv
<1>5. ToSet(pending') = {}
  BY DEF ToSet
<1>6. QED
  BY <1>3, <1>4, <1>5, SizeKept DEF IdentityInv

(* A delta joins the buffer, or what it does not fit into is flushed. *)
LEMMA BufferStamps ==
  ASSUME TypeOK, IdentityInv, NEW f \in Shapes, f.kind = "reasoning", Len(heard) < MaxFrames,
         heard' = Append(heard, f), Buffer(f, Len(heard')), out' = out
  PROVE  IdentityInv'
<1>0. PICK i \in Nat : i = Len(heard')
  BY AppendFrame
<1> DEFINE text  == IF f.size = 0 THEN <<>> ELSE <<i>>
           block == IF StartsBlock(f) THEN text ELSE pending \o text
           stamp == IF StartsBlock(f) THEN f.item ELSE active
           flushed == IF StartsBlock(f) THEN TakeAll ELSE <<>>
           full == Size(block, heard') >= FlushChars
           whole == [type |-> "delta", of |-> stamp, parts |-> block]
           rest == IF full THEN <<whole>> ELSE <<>>
<1>1. \A q \in DOMAIN heard : q \in DOMAIN heard' /\ heard'[q] = heard[q]
  BY Grown
<1>2. /\ i \in DOMAIN heard' /\ heard'[i] = f /\ i \in 1..MaxFrames /\ i \in 1..i
      /\ pending \in Seq(1..i) /\ 1..i \subseteq 1..MaxFrames /\ DOMAIN heard' = 1..i
  <2>1. i \in DOMAIN heard' /\ heard'[i] = f
    BY <1>0, Grown
  <2>2. i \in 1..MaxFrames /\ pending \in Seq(1..i) /\ heard' \in Seq(Shapes)
    BY <1>0, AppendFrame
  <2>3. QED
    BY <1>0, <2>1, <2>2, NativeAssumption
<1>3. text \in Seq(1..i) /\ \A k \in DOMAIN text : text[k] = i
  <2>1. <<>> \in Seq(1..i) /\ <<i>> \in Seq(1..i) /\ DOMAIN <<i>> = {1} /\ <<i>>[1] = i
        /\ DOMAIN <<>> = {}
    BY <1>2
  <2>2. QED
    BY <2>1
<1> HIDE DEF text
<1>4. \A k \in DOMAIN pending : pending[k] \in DOMAIN heard /\ heard'[pending[k]].item = active
  BY <1>1 DEF IdentityInv, ToSet
<1>5. block \in Seq(1..i) /\ \A k \in DOMAIN block : heard'[block[k]].item = stamp
  <2>1. CASE StartsBlock(f)
    BY <1>2, <1>3, <2>1
  <2>2. CASE ~StartsBlock(f)
    <3>1. stamp = active /\ f.item = active /\ block = pending \o text
      BY <2>2 DEF StartsBlock
    <3>2. PICK b \in Seq(1..i) : b = pending \o text
      <4>1. PICK x, y \in Seq(1..i) : x = pending /\ y = text
        BY <1>2, <1>3
      <4>2. x \o y \in Seq(1..i)
        OBVIOUS
      <4>3. QED
        BY <4>1, <4>2
    <3>3. ASSUME NEW k \in DOMAIN b PROVE heard'[b[k]].item = active
      <4>1. CASE k <= Len(pending)
        <5>1. k \in DOMAIN pending /\ b[k] = pending[k]
          BY <1>2, <1>3, <3>2, <4>1
        <5>2. QED
          BY <1>4, <5>1
      <4>2. CASE ~(k <= Len(pending))
        <5>1. k - Len(pending) \in DOMAIN text /\ b[k] = text[k - Len(pending)]
          BY <1>2, <1>3, <3>2, <4>2
        <5>2. QED
          BY <1>2, <1>3, <3>1, <5>1
      <4>3. QED
        BY <4>1, <4>2
    <3> HIDE DEF block, stamp
    <3>4. QED
      BY <3>1, <3>2, <3>3
  <2>3. QED
    BY <2>1, <2>2
<1>6. stamp \in Items \cup {None}
  BY Frames DEF TypeOK
<1> HIDE DEF block, stamp
<1>7. \A q \in ToSet(block) : q \in DOMAIN heard' /\ heard'[q].item = stamp
  BY <1>2, <1>5 DEF ToSet
<1>8. whole \in Event /\ whole.parts = block /\ whole.of = stamp
  <2>1. block \in Seq(1..MaxFrames)
    BY <1>2, <1>5, Widened
  <2>2. QED
    BY <1>6, <2>1 DEF Event
<1>9. /\ queue' = flushed \o rest
      /\ pending' = IF full THEN <<>> ELSE block
      /\ active' = IF full THEN None ELSE stamp
  BY <1>0 DEF Buffer, block, stamp, text
<1>10. rest \in Seq(Event) /\ Stamped(rest, heard')
  <2> HIDE DEF whole
  <2>1. <<whole>> \in Seq(Event) /\ Stamped(<<whole>>, heard')
    BY <1>7, <1>8, StampedOne
  <2>2. <<>> \in Seq(Event) /\ Stamped(<<>>, heard')
    BY DEF Stamped
  <2>3. QED
    BY <2>1, <2>2
<1>11. flushed \in Seq(Event) /\ Stamped(flushed, heard')
  <2>1. <<>> \in Seq(Event) /\ Stamped(<<>>, heard')
    BY DEF Stamped
  <2>2. QED
    BY <1>1, <2>1, BlockType, BlockStamped
<1>12. Size(pending', heard') < FlushChars
  <2>1. Size(block, heard') \in Nat
    <3>1. PICK n \in Nat : n = Len(block)
      BY <1>5
    <3>2. \A k \in 1..n : block[k] \in DOMAIN heard'
      BY <1>2, <1>5, <3>1
    <3>3. \A q \in DOMAIN heard' : heard'[q].size \in Nat
      <4>1. heard' \in Seq(Shapes)
        BY AppendFrame
      <4>2. \A g \in Shapes : g.size \in Nat
        BY NativeAssumption DEF Frame
      <4>3. QED
        BY <4>1, <4>2
    <3>4. QED
      BY <3>1, <3>2, <3>3, SizeOf
  <2>2. CASE full
    <3>1. Size(<<>>, heard') = 0 /\ 0 < FlushChars
      BY SizeEmpty, NativeAssumption
    <3>2. QED
      BY <1>9, <2>2, <3>1
  <2>3. CASE ~full
    BY <1>9, <2>1, <2>3, NativeAssumption
  <2>4. QED
    BY <2>2, <2>3
<1> HIDE DEF full, rest, flushed
<1>13. Stamped(queue', heard')
  BY <1>9, <1>10, <1>11, StampedBoth
<1>14. Stamped(out', heard')
  BY <1>1, StampedStill DEF IdentityInv
<1>15. \A q \in ToSet(pending') : q \in DOMAIN heard' /\ heard'[q].item = active'
  <2>1. ToSet(<<>>) = {}
    BY DEF ToSet
  <2>2. QED
    BY <1>7, <1>9, <2>1
<1>16. QED
  BY <1>12, <1>13, <1>14, <1>15 DEF IdentityInv

(* No step mixes the reasoning of two items. *)
LEMMA NextIdentity == IInv /\ IdentityInv /\ [Next]_vars => IdentityInv'
<1> SUFFICES ASSUME IInv, IdentityInv, [Next]_vars PROVE IdentityInv'
  OBVIOUS
<1>0. TypeOK /\ ReadInv /\ (pc = "reading" => queue = <<>>)
  BY DEF IInv, ReadInv
<1>1. ASSUME NEW f \in Shapes, heard' = Append(heard, f)
      PROVE  \A q \in DOMAIN heard : q \in DOMAIN heard' /\ heard'[q] = heard[q]
  BY <1>0, <1>1, Grown
<1>2. ASSUME NEW type \in {"failed", "error", "abort"}
      PROVE  Told(type, <<>>) \in Event /\ Told(type, <<>>).type # "delta"
  BY EndType DEF Payloads
<1>3. ASSUME NEW f \in Shapes, BadFrame(f) PROVE IdentityInv'
  <2>1. /\ heard' = Append(heard, f) /\ out' = out /\ pending' = <<>>
        /\ queue' = TakeAll \o <<Told("abort", <<>>)>>
    BY <1>3 DEF BadFrame, Break, EmptyBuffer
  <2>2. QED
    BY <1>0, <1>1, <1>2, <2>1, FlushStamps
<1>4. ASSUME NEW f \in Shapes, ErrorFrame(f) PROVE IdentityInv'
  <2>1. /\ heard' = Append(heard, f) /\ out' = out /\ pending' = <<>>
        /\ queue' = TakeAll \o <<Told(IF known' THEN "failed" ELSE "error", <<>>)>>
    BY <1>4 DEF ErrorFrame, EmptyBuffer, Failed
  <2>2. (IF known' THEN "failed" ELSE "error") \in {"failed", "error", "abort"}
    OBVIOUS
  <2>3. QED
    BY <1>0, <1>1, <1>2, <2>1, <2>2, FlushStamps
<1>5. ASSUME NEW f \in Shapes, CompletedFrame(f) PROVE IdentityInv'
  <2>1. heard' = Append(heard, f) /\ UNCHANGED <<pending, active, queue, out>>
    BY <1>5 DEF CompletedFrame, Note
  <2>2. Stamped(out', heard') /\ Stamped(queue', heard')
    BY <1>1, <2>1, StampedStill DEF IdentityInv
  <2>3. \A q \in ToSet(pending') : q \in DOMAIN heard' /\ heard'[q].item = active'
    BY <1>1, <2>1 DEF IdentityInv
  <2>4. Size(pending', heard') < FlushChars
    BY <1>0, <1>1, <2>1, SizeKept
  <2>5. QED
    BY <2>2, <2>3, <2>4 DEF IdentityInv
<1>6. ASSUME NEW f \in Shapes, PassFrame(f), Len(heard) < MaxFrames PROVE IdentityInv'
  <2>1. /\ heard' = Append(heard, f) /\ out' = out /\ pending' = <<>>
        /\ queue' = TakeAll \o <<Told("frame", <<Len(heard')>>)>>
    BY <1>6 DEF PassFrame, Note, Forward, EmptyBuffer
  <2>2. <<Len(heard')>> \in Seq(1..MaxFrames)
    BY <1>0, <1>6, <2>1, AppendFrame
  <2>3. Told("frame", <<Len(heard')>>) \in Event /\ Told("frame", <<Len(heard')>>).type # "delta"
    BY <2>2, ToldType DEF Told
  <2>4. QED
    BY <1>0, <1>1, <2>1, <2>3, FlushStamps
<1>7. ASSUME NEW f \in Shapes, ReasoningFrame(f), Len(heard) < MaxFrames PROVE IdentityInv'
  BY <1>0, <1>7, BufferStamps DEF ReasoningFrame, Note
<1>8. ASSUME NEW f \in Shapes, CommentFrame(f), Len(heard) < MaxFrames PROVE IdentityInv'
  <2> DEFINE e == Told("comment", <<Len(heard')>>)
  <2>1. /\ heard' = Append(heard, f) /\ UNCHANGED <<pending, active, out>> /\ queue' = <<e>>
    BY <1>8 DEF CommentFrame, Note
  <2>2. <<Len(heard')>> \in Seq(1..MaxFrames)
    BY <1>0, <1>8, <2>1, AppendFrame
  <2>3. e \in Event /\ e.type # "delta"
    BY <2>2, ToldType DEF Told
  <2> HIDE DEF e
  <2>4. Stamped(queue', heard')
    BY <2>1, <2>3, StampedOne
  <2>5. Stamped(out', heard')
    BY <1>1, <2>1, StampedStill DEF IdentityInv
  <2>6. \A q \in ToSet(pending') : q \in DOMAIN heard' /\ heard'[q].item = active'
    BY <1>1, <2>1 DEF IdentityInv
  <2>7. Size(pending', heard') < FlushChars
    BY <1>0, <1>1, <2>1, SizeKept
  <2>8. QED
    BY <2>4, <2>5, <2>6, <2>7 DEF IdentityInv
<1>9. CASE ReadFrame
  BY <1>3, <1>4, <1>5, <1>6, <1>7, <1>8, <1>9 DEF ReadFrame
<1>10. CASE TransportFails
  <2>1. /\ UNCHANGED <<heard, out>> /\ pending' = <<>>
        /\ queue' = TakeAll \o <<Told("abort", <<>>)>>
    BY <1>10 DEF TransportFails, Break, EmptyBuffer
  <2>2. QED
    BY <1>0, <1>2, <2>1, FlushStamps
<1>11. CASE UpstreamEnds
  <2>1. /\ UNCHANGED <<heard, out>> /\ pending' = <<>>
        /\ queue' = TakeAll \o <<Told(IF known THEN "failed" ELSE "error", <<>>)>>
    BY <1>11 DEF UpstreamEnds, Final, EmptyBuffer, Failed
  <2>2. (IF known THEN "failed" ELSE "error") \in {"failed", "error", "abort"}
    OBVIOUS
  <2>3. QED
    BY <1>0, <1>2, <2>1, <2>2, FlushStamps
<1>12. CASE Credit
  <2>1. /\ UNCHANGED <<heard, out>> /\ pending' = <<>>
        /\ queue' = TakeAll \o <<Told("frame", <<Len(heard)>>)>>
    BY <1>12 DEF Credit, Forward, EmptyBuffer
  <2>2. <<Len(heard)>> \in Seq(1..MaxFrames)
    <3>1. heard # <<>> /\ heard \in Seq(Shapes) /\ Len(heard) <= MaxFrames
      BY <1>0, <1>12 DEF Credit, ReadInv, TypeOK
    <3>2. Len(heard) \in 1..MaxFrames
      BY <3>1, NativeAssumption
    <3>3. QED
      BY <3>2
  <2>3. Told("frame", <<Len(heard)>>) \in Event /\ Told("frame", <<Len(heard)>>).type # "delta"
    BY <2>2, ToldType DEF Told
  <2>4. QED
    BY <1>0, <2>1, <2>3, FlushStamps
<1>13. CASE Yield
  <2>1. /\ UNCHANGED <<heard, pending, active>> /\ queue # <<>> /\ queue \in Seq(Event)
        /\ out \in Seq(Event) /\ out' = out \o <<Head(queue)>> /\ queue' = Tail(queue)
    BY <1>0, <1>13 DEF Yield, TypeOK
  <2>2. 1 \in DOMAIN queue /\ Head(queue) = queue[1] /\ Head(queue) \in Event
    BY <2>1
  <2>3. \A k \in DOMAIN Tail(queue) : k + 1 \in DOMAIN queue /\ Tail(queue)[k] = queue[k + 1]
    BY <2>1
  <2>4. Stamped(queue', heard')
    BY <2>1, <2>3 DEF IdentityInv, Stamped
  <2>5. <<Head(queue)>> \in Seq(Event) /\ Stamped(<<Head(queue)>>, heard)
    BY <2>2, StampedOne DEF IdentityInv, Stamped
  <2>6. Stamped(out', heard')
    BY <2>1, <2>5, StampedBoth DEF IdentityInv
  <2>7. QED
    BY <2>1, <2>4, <2>6 DEF IdentityInv
<1>14. CASE Drop
  <2>1. pending' = <<>> /\ queue' = <<>> /\ UNCHANGED <<out, heard>>
    BY <1>14 DEF Drop, EmptyBuffer
  <2>2. ToSet(pending') = {} /\ DOMAIN queue' = {}
    BY <2>1 DEF ToSet
  <2>3. Size(pending', heard') < FlushChars
    BY <1>0, <2>1, SizeKept
  <2>4. QED
    BY <2>1, <2>2, <2>3 DEF IdentityInv, Stamped
<1>15. CASE UNCHANGED vars
  BY <1>15 DEF vars, IdentityInv
<1>16. QED
  BY <1>9, <1>10, <1>11, <1>12, <1>13, <1>14, <1>15 DEF Next

-----------------------------------------------------------------------------
StreamInv == IInv /\ EndInv /\ InOrder /\ IdentityInv

(* The inductive invariant about what is told and in which order. *)
THEOREM StreamInvariance == Spec => []StreamInv
<1>1. Init => IInv
  BY InitInv
<1>2. Init => EndInv /\ InOrder /\ IdentityInv
  <2> SUFFICES ASSUME Init PROVE EndInv /\ InOrder /\ IdentityInv
    OBVIOUS
  <2>1. EndInv
    BY DEF Init, EndInv
  <2>2. InOrder
    <3>1. /\ out \o queue = <<>> /\ pending = <<>> /\ pc # "crediting"
          /\ heard = <<>>
      BY DEF Init
    <3>2. Positions(Payloads, out \o queue) = <<>>
      BY <3>1, PositionsNone
    <3>3. Said = <<>>
      <4>1. [i \in DOMAIN heard |-> IF Payload(heard[i]) THEN <<i>> ELSE <<>>] = <<>>
        BY <3>1
      <4>2. FlattenSeq(<<>>) = <<>>
        BY DEF FlattenSeq
      <4>3. QED
        BY <4>1, <4>2 DEF Said
    <3>4. QED
      BY <3>1, <3>2, <3>3 DEF InOrder, Payloads
  <2>3. IdentityInv
    <3>1. DOMAIN out = {} /\ DOMAIN queue = {} /\ ToSet(pending) = {} /\ pending = <<>>
      BY DEF Init, ToSet
    <3>2. Size(<<>>, heard) = 0 /\ 0 < FlushChars
      BY SizeEmpty, NativeAssumption
    <3>3. QED
      BY <3>1, <3>2 DEF IdentityInv, Stamped
  <2>4. QED
    BY <2>1, <2>2, <2>3
<1>3. StreamInv /\ [Next]_vars => StreamInv'
  <2>1. IInv /\ [Next]_vars => IInv'
    BY NextType, NextRead, NextTell, NextBill DEF IInv
  <2>2. QED
    BY <2>1, NextEnd, NextOrder, NextIdentity DEF StreamInv
<1>4. Init => StreamInv
  BY <1>1, <1>2 DEF StreamInv
<1>5. QED
  BY <1>3, <1>4, PTL DEF Spec

(* Whatever the buffer does, the meaningful frames are told, queued or held *)
(* back in the order they came, none lost and none twice.                  *)
THEOREM InOrderHolds == Spec => []InOrder
<1>1. StreamInv => InOrder
  BY DEF StreamInv
<1>2. QED
  BY <1>1, StreamInvariance, PTL

(* A block of reasoning that the client is shown holds text of the item it *)
(* is stamped with, and the buffer never holds a block that was due.       *)
THEOREM OneIdentityHolds == Spec => []OneIdentity
<1>1. StreamInv => OneIdentity
  BY DEF StreamInv, IdentityInv, Stamped, OneIdentity
<1>2. QED
  BY <1>1, StreamInvariance, PTL

-----------------------------------------------------------------------------
(* The operators of the promise are the usual ones. *)
LEMMA SameFlatten ==
  ASSUME NEW s
  PROVE Promise!FlattenSeq(s) = FlattenSeq(s)
BY DEF Promise!FlattenSeq, FlattenSeq

(* So is its order of sequences. *)
LEMMA SamePrefix ==
  ASSUME NEW s, NEW t
  PROVE Promise!IsPrefix(s, t) = IsPrefix(s, t)
BY DEF Promise!IsPrefix, IsPrefix

(* Nothing is excused. *)
LEMMA KeptAll ==
  ASSUME NEW S, NEW s \in Seq(S)
  PROVE  Promise!Kept(s, {}) = s
<1>1. [i \in DOMAIN s |-> IF s[i] \in {} THEN <<>> ELSE <<s[i]>>]
        = [i \in DOMAIN s |-> <<s[i]>>]
  OBVIOUS
<1>2. FlattenSeq([i \in DOMAIN s |-> <<s[i]>>]) = s
  BY FlattenSingles
<1>3. QED
  BY <1>1, <1>2, SameFlatten DEF Promise!Kept

(* The start of the stream. *)
LEMMA PromiseInit == Init => Promise!Init
<1> SUFFICES ASSUME Init PROVE Promise!Init
  OBVIOUS
<1>1. /\ pc = "reading" /\ out = <<>> /\ queue = <<>> /\ pending = <<>>
      /\ billed = <<>> /\ credited = FALSE
  BY DEF Init
<1>2. \A type : Positions(type, <<>>) = <<>>
  BY PositionsNone
<1>3. <<>> \o <<>> \o <<>> = <<>>
  OBVIOUS
<1>4. QED
  BY <1>1, <1>2, <1>3 DEF Promise!Init

(* A sequence comes before itself and more. *)
LEMMA PrefixOfMore ==
  ASSUME NEW S, NEW a \in Seq(S), NEW b \in Seq(S)
  PROVE  IsPrefix(a, a) /\ IsPrefix(a, a \o b)
<1>1. a \o b \in Seq(S) /\ Len(a \o b) = Len(a) + Len(b)
      /\ Len(a) \in Nat /\ Len(b) \in Nat
      /\ \A i \in 1..Len(a) : (a \o b)[i] = a[i]
  OBVIOUS
<1>2. ASSUME NEW c \in Seq(S), Len(a) <= Len(c), \A i \in 1..Len(a) : c[i] = a[i]
      PROVE  IsPrefix(a, c)
  <2>1. /\ SubSeq(c, 1, Len(a)) \in Seq(S) /\ Len(SubSeq(c, 1, Len(a))) = Len(a)
        /\ \A i \in 1..Len(a) : SubSeq(c, 1, Len(a))[i] = c[i]
    BY <1>2
  <2>2. /\ SubSeq(a, 1, Len(a)) \in Seq(S) /\ Len(SubSeq(a, 1, Len(a))) = Len(a)
        /\ \A i \in 1..Len(a) : SubSeq(a, 1, Len(a))[i] = a[i]
    OBVIOUS
  <2>3. SubSeq(a, 1, Len(a)) = SubSeq(c, 1, Len(a))
    BY <1>2, <2>1, <2>2, SameSequence
  <2>4. QED
    BY <1>2, <2>3 DEF IsPrefix
<1>3. IsPrefix(a, a)
  BY <1>2
<1>4. IsPrefix(a, a \o b)
  <2>1. PICK c \in Seq(S) : c = a \o b
    BY <1>1
  <2>2. Len(a) <= Len(c) /\ \A i \in 1..Len(a) : c[i] = a[i]
    BY <1>1, <2>1
  <2>3. QED
    BY <1>2, <2>1, <2>2
<1>5. QED
  BY <1>3, <1>4

Comments == {"comment"}

\* What the converter holds back of the frames that the client is to see.
HeldBack == Positions(Payloads, queue) \o pending \o Waiting

(* What was told and what is held back is the stream so far. *)
LEMMA Everything ==
  ASSUME StreamInv, ending # "gone"
  PROVE  /\ Positions(Payloads, out) \o HeldBack = Said
         /\ Positions(Payloads, out) \in Seq(Nat) /\ HeldBack \in Seq(Nat) /\ Said \in Seq(Nat)
         /\ Positions(Comments, out) \o Positions(Comments, queue)
              = Positions(Comments, out \o queue)
         /\ Positions(Comments, out) \in Seq(Nat) /\ Positions(Comments, queue) \in Seq(Nat)
<1>1. TypeOK /\ InOrder /\ out \in Seq(Event) /\ queue \in Seq(Event)
  BY DEF StreamInv, IInv, TypeOK
<1>2. Said \in Seq(Nat)
  BY <1>1, SaidType
<1>3. /\ Positions(Payloads, out \o queue) = Positions(Payloads, out) \o Positions(Payloads, queue)
      /\ Positions(Payloads, out) \in Seq(1..MaxFrames)
      /\ Positions(Payloads, queue) \in Seq(1..MaxFrames)
      /\ Positions(Comments, out \o queue) = Positions(Comments, out) \o Positions(Comments, queue)
      /\ Positions(Comments, out) \in Seq(1..MaxFrames)
      /\ Positions(Comments, queue) \in Seq(1..MaxFrames)
  BY <1>1, PositionsBoth
<1>4. pending \in Seq(Nat) /\ Waiting \in Seq(Nat)
  <2>1. Len(heard) \in Nat
    BY <1>1 DEF TypeOK
  <2>2. 1..Len(heard) \subseteq Nat /\ <<Len(heard)>> \in Seq(Nat) /\ <<>> \in Seq(Nat)
    BY <2>1
  <2>3. QED
    BY <1>1, <2>2, Widened DEF TypeOK, Waiting
<1>5. 1..MaxFrames \subseteq Nat
  OBVIOUS
<1>6. PICK a, b, c, d \in Seq(Nat) :
        /\ a = Positions(Payloads, out) /\ b = Positions(Payloads, queue)
        /\ c = pending /\ d = Waiting
  BY <1>3, <1>4, <1>5, Widened
<1>7. (a \o b) \o c \o d = a \o ((b \o c) \o d) /\ (b \o c) \o d \in Seq(Nat)
  BY <1>6
<1>8. Positions(Payloads, out \o queue) \o pending \o Waiting = Said
  BY <1>1 DEF InOrder, Payloads, Waiting
<1>9. Positions(Payloads, out) \o HeldBack = Said /\ HeldBack \in Seq(Nat)
  BY <1>3, <1>6, <1>7, <1>8 DEF HeldBack
<1>10. /\ Positions(Payloads, out) \in Seq(Nat) /\ Positions(Comments, out) \in Seq(Nat)
       /\ Positions(Comments, queue) \in Seq(Nat)
  BY <1>3, <1>5, Widened
<1>11. QED
  BY <1>2, <1>3, <1>9, <1>10

(* The same of the next state. *)
LEMMA EverythingNext ==
  (StreamInv /\ ending # "gone" =>
     /\ Positions(Payloads, out) \o HeldBack = Said
     /\ Said \in Seq(Nat)
     /\ Positions(Comments, out) \in Seq(Nat) /\ Positions(Comments, queue) \in Seq(Nat))'
<1>1. StreamInv /\ ending # "gone" =>
        /\ Positions(Payloads, out) \o HeldBack = Said
        /\ Said \in Seq(Nat)
        /\ Positions(Comments, out) \in Seq(Nat) /\ Positions(Comments, queue) \in Seq(Nat)
  BY Everything
<1>2. QED
  BY <1>1, PTL

(* A step that reads, or that tells the client the next event. *)
Moves ==
  \/ out' = out /\ queue = <<>>
  \/ /\ out \in Seq(Event) /\ queue \in Seq(Event) /\ queue # <<>>
     /\ out' = out \o <<Head(queue)>> /\ queue' = Tail(queue)

(* Such a step is faithful to what was said. *)
LEMMA Faithfully ==
  ASSUME StreamInv, StreamInv', ending # "gone", ending' # "gone", Moves,
         heard' = heard \/ \E f \in Shapes : heard' = Append(heard, f)
  PROVE  Promise!Faithful
<1>1. TypeOK /\ TypeOK' /\ out \in Seq(Event) /\ out' \in Seq(Event) /\ queue \in Seq(Event)
      /\ queue' \in Seq(Event)
  BY DEF StreamInv, IInv, TypeOK
<1>2. IsPrefix(Said, Said')
  <2>1. Said \in Seq(Nat) /\ Said' \in Seq(Nat)
    BY Everything, EverythingNext
  <2>2. CASE heard' = heard
    <3>1. Said' = Said
      BY <2>2 DEF Said
    <3>2. QED
      BY <2>1, <3>1, PrefixOfMore
  <2>3. ASSUME NEW f \in Shapes, heard' = Append(heard, f) PROVE IsPrefix(Said, Said')
    <3>1. PICK more : /\ Said' = Said \o more
                      /\ more = IF Payload(f) THEN <<Len(heard')>> ELSE <<>>
      BY <1>1, <2>3, SaidAppend
    <3>2. more \in Seq(Nat)
      <4>1. Len(heard') \in Nat
        BY <1>1, <2>3, Grown
      <4>2. QED
        BY <3>1, <4>1
    <3>3. QED
      BY <2>1, <3>1, <3>2, PrefixOfMore
  <2>4. QED
    BY <2>2, <2>3
<1>3. ASSUME NEW type
      PROVE  /\ IsPrefix(Positions(type, out), Positions(type, out'))
             /\ \/ IsPrefix(Positions(type, out \o queue), Positions(type, out' \o queue'))
                \/ out' = out /\ queue = <<>>
  <2>1. CASE out' = out /\ queue = <<>>
    BY <1>1, <2>1, PositionsBoth, PrefixOfMore
  <2>2. CASE queue # <<>> /\ out' = out \o <<Head(queue)>> /\ queue' = Tail(queue)
    <3>1. <<Head(queue)>> \in Seq(Event) /\ out' \o queue' = out \o queue
          /\ out \o queue \in Seq(Event)
      BY <1>1, <2>2
    <3>2. Positions(type, out') = Positions(type, out) \o Positions(type, <<Head(queue)>>)
      BY <1>1, <2>2, <3>1, PositionsBoth
    <3>3. /\ Positions(type, out) \in Seq(1..MaxFrames)
          /\ Positions(type, <<Head(queue)>>) \in Seq(1..MaxFrames)
          /\ Positions(type, out \o queue) \in Seq(1..MaxFrames)
      BY <1>1, <3>1, PositionsBoth
    <3>4. IsPrefix(Positions(type, out), Positions(type, out'))
      BY <3>2, <3>3, PrefixOfMore
    <3>5. IsPrefix(Positions(type, out \o queue), Positions(type, out' \o queue'))
      BY <3>1, <3>3, PrefixOfMore
    <3>6. QED
      BY <3>4, <3>5
  <2>3. QED
    BY <2>1, <2>2 DEF Moves
<1>4. IsPrefix(Positions(Comments, out) \o Positions(Comments, queue),
               Positions(Comments, out') \o Positions(Comments, queue'))
  <2>1. IsPrefix(Positions(Comments, out \o queue), Positions(Comments, out' \o queue'))
    <3>1. CASE out' = out /\ queue = <<>>
      <4>1. out \o queue = out
        BY <1>1, <3>1
      <4>2. /\ Positions(Comments, out' \o queue') = Positions(Comments, out) \o Positions(Comments, queue')
            /\ Positions(Comments, out) \in Seq(1..MaxFrames)
            /\ Positions(Comments, queue') \in Seq(1..MaxFrames)
        BY <1>1, <3>1, PositionsBoth
      <4>3. QED
        BY <4>1, <4>2, PrefixOfMore
    <3>2. QED
      BY <1>3, <3>1
  <2>2. QED
    BY <1>1, <2>1, PositionsBoth
<1>5. /\ Positions(Payloads, out) \o HeldBack = Said
      /\ Positions(Payloads, out') \o HeldBack' = Said'
      /\ Said \in Seq(Nat) /\ Said' \in Seq(Nat)
  <2>1. Positions(Payloads, out) \o HeldBack = Said
    BY Everything
  <2>2. (Positions(Payloads, out) \o HeldBack = Said)'
    BY EverythingNext
  <2>3. QED
    BY <2>1, <2>2, Everything, EverythingNext
<1>6. \A s \in Seq(Nat) : Promise!Kept(s, {}) = s
  BY KeptAll
<1>7. /\ Positions(Comments, out) \o Positions(Comments, queue) \in Seq(Nat)
      /\ Positions(Comments, out') \o Positions(Comments, queue') \in Seq(Nat)
  <2>1. \A x, y \in Seq(Nat) : x \o y \in Seq(Nat)
    OBVIOUS
  <2>2. QED
    BY <2>1, Everything, EverythingNext
<1>8. IsPrefix(Promise!Kept(Positions(Payloads, out) \o HeldBack, {}),
               Promise!Kept(Positions(Payloads, out') \o HeldBack', {}))
  BY <1>2, <1>5, <1>6
<1>9. IsPrefix(Promise!Kept(Positions(Comments, out) \o Positions(Comments, queue), {}),
               Promise!Kept(Positions(Comments, out') \o Positions(Comments, queue'), {}))
  BY <1>4, <1>6, <1>7
<1>10. HeldBack = Positions({"delta", "frame"}, queue) \o pending
                    \o (IF pc = "crediting" THEN <<Len(heard)>> ELSE <<>>)
  BY DEF HeldBack, Payloads, Waiting
<1>11. HeldBack' = Positions({"delta", "frame"}, queue') \o pending'
                    \o (IF pc' = "crediting" THEN <<Len(heard')>> ELSE <<>>)
  BY DEF HeldBack, Payloads, Waiting
<1>12. QED
  BY <1>3, <1>8, <1>9, <1>10, <1>11, SamePrefix DEF Promise!Faithful, Payloads, Comments

(* Every step is one that the promise allows. *)
LEMMA PromiseStep ==
  StreamInv /\ StreamInv' /\ [Next]_vars => [Promise!Next]_(Promise!vars)
<1> SUFFICES ASSUME StreamInv, StreamInv', [Next]_vars
             PROVE  Promise!Next \/ UNCHANGED Promise!vars
  BY DEF Promise!vars
<1>0. /\ TypeOK /\ ReadInv /\ BillInv /\ EndInv
      /\ TypeOK' /\ ReadInv' /\ BillInv' /\ EndInv'
  BY DEF StreamInv, IInv
<1>1. pc \in {"reading", "crediting"} => queue = <<>> /\ ending = "open" /\ ~credited
  BY <1>0 DEF TypeOK, EndInv
<1>2. credited => billed # <<>>
  <2>1. heard # <<>> => Len(heard) \in DOMAIN heard
    BY <1>0 DEF TypeOK
  <2>2. QED
    BY <1>0, <2>1 DEF BillInv, Ended
<1>3. credited' => billed' # <<>>
  <2>1. heard' # <<>> => Len(heard') \in DOMAIN heard'
    BY <1>0 DEF TypeOK
  <2>2. QED
    BY <1>0, <2>1 DEF BillInv, Ended
<1>4. ASSUME Moves, pc # "closed", pc' # "closed",
             heard' = heard \/ \E f \in Shapes : heard' = Append(heard, f),
             billed # <<>> => billed' # <<>>, credited => credited'
      PROVE  Promise!Next
  <2>1. ending # "gone" /\ ending' # "gone"
    BY <1>0, <1>4 DEF EndInv
  <2>2. Promise!Faithful
    BY <1>4, <2>1, Faithfully
  <2>3. Promise!Speak
    BY <1>3, <1>4, <2>2 DEF Promise!Speak, Promise!Accounts
  <2>4. QED
    BY <2>3 DEF Promise!Next
<1>5. ASSUME NEW f \in Shapes, pc = "reading",
             BadFrame(f) \/ ErrorFrame(f) \/ CompletedFrame(f) \/ PassFrame(f)
               \/ ReasoningFrame(f) \/ CommentFrame(f)
      PROVE  Promise!Next
  <2>1. heard' = Append(heard, f) /\ out' = out /\ credited' = credited
    BY <1>5 DEF BadFrame, ErrorFrame, CompletedFrame, PassFrame, ReasoningFrame, CommentFrame,
                Note
  <2>2. billed = <<>>
    BY <1>0, <1>5 DEF ReadInv, Open
  <2>3. pc' # "closed"
    <3>1. ASSUME NEW end, NEW e, Deliver(end), queue' = TakeAll \o <<e>> PROVE pc' # "closed"
      <4>1. TakeAll \o <<e>> # <<>>
        BY <1>0 DEF TakeAll
      <4>2. QED
        BY <3>1, <4>1 DEF Deliver
    <3>2. CASE BadFrame(f)
      BY <3>1, <3>2 DEF BadFrame, Break
    <3>3. CASE ErrorFrame(f)
      BY <3>1, <3>3 DEF ErrorFrame
    <3>4. CASE CompletedFrame(f)
      BY <3>4 DEF CompletedFrame
    <3>5. CASE PassFrame(f)
      BY <3>1, <3>5 DEF PassFrame, Forward
    <3>6. CASE ReasoningFrame(f) \/ CommentFrame(f)
      BY <3>6 DEF ReasoningFrame, CommentFrame, Deliver
    <3>7. QED
      BY <1>5, <3>2, <3>3, <3>4, <3>5, <3>6
  <2>4. QED
    BY <1>1, <1>4, <1>5, <2>1, <2>2, <2>3 DEF Moves
<1>6. CASE ReadFrame
  BY <1>5, <1>6 DEF ReadFrame
<1>7. ASSUME TransportFails \/ UpstreamEnds \/ Credit PROVE Promise!Next
  <2>1. heard' = heard /\ out' = out /\ billed' = billed /\ pc \in {"reading", "crediting"}
        /\ (credited => credited')
    BY <1>7 DEF TransportFails, UpstreamEnds, Credit
  <2>2. pc' # "closed"
    <3>1. PICK e, end : Deliver(end) /\ queue' = TakeAll \o <<e>>
      <4>1. CASE TransportFails
        BY <4>1 DEF TransportFails, Break
      <4>2. CASE UpstreamEnds
        BY <4>2 DEF UpstreamEnds, Final
      <4>3. CASE Credit
        BY <4>3 DEF Credit, Forward
      <4>4. QED
        BY <1>7, <4>1, <4>2, <4>3
    <3>2. TakeAll \o <<e>> # <<>>
      BY <1>0 DEF TakeAll
    <3>3. QED
      BY <3>1, <3>2 DEF Deliver
  <2>3. QED
    BY <1>1, <1>4, <2>1, <2>2 DEF Moves
<1>8. CASE Yield
  <2>1. /\ pc = "yielding" /\ UNCHANGED <<heard, pending, billed, credited, ending>>
        /\ out \in Seq(Event) /\ queue \in Seq(Event) /\ queue # <<>>
        /\ out' = out \o <<Head(queue)>> /\ queue' = Tail(queue) /\ Deliver(ending)
    BY <1>0, <1>8 DEF Yield, Deliver, TypeOK
  <2>2. Moves
    BY <2>1 DEF Moves
  <2>3. CASE pc' # "closed"
    BY <1>4, <2>1, <2>2, <2>3
  <2>4. CASE pc' = "closed"
    <3>1. /\ ending # "open" /\ ending # "gone" /\ queue' = <<>> /\ pending' = <<>>
          /\ pc' # "crediting"
      BY <1>0, <2>1, <2>4 DEF Deliver, EndInv
    <3>2. Promise!Faithful
      BY <2>1, <2>2, <3>1, Faithfully
    <3>3. Positions({"delta", "frame"}, <<>>) = <<>> /\ Positions({"comment"}, <<>>) = <<>>
      BY PositionsNone
    <3>4. Positions({"delta", "frame"}, queue') \o pending'
            \o (IF pc' = "crediting" THEN <<Len(heard')>> ELSE <<>>) = <<>>
      <4>1. <<>> \o <<>> \o <<>> = <<>>
        OBVIOUS
      <4>2. QED
        BY <3>1, <3>3, <4>1
    <3>5. \/ ending' = "success" /\ billed' # <<>> /\ credited'
          \/ ending' = "partial" /\ billed' # <<>> /\ ~credited'
          \/ ending' \in {"failure", "broken"} /\ ~(billed' # <<>>) /\ ~credited'
      <4>1. ending \in {"success", "partial", "failure", "broken"}
        BY <1>0, <3>1 DEF TypeOK
      <4>2. QED
        BY <1>0, <2>1, <4>1 DEF EndInv
    <3>6. Promise!Close
      BY <1>3, <2>1, <2>4, <3>1, <3>2, <3>3, <3>4, <3>5 DEF Promise!Close, Promise!Accounts
    <3>7. QED
      BY <3>6 DEF Promise!Next
  <2>5. QED
    BY <2>3, <2>4
<1>9. CASE Drop
  <2>1. pc # "closed" /\ pc' = "closed" /\ ending' = "gone" /\ UNCHANGED <<out, billed, credited>>
    BY <1>9 DEF Drop
  <2>2. Promise!Leave
    BY <2>1 DEF Promise!Leave
  <2>3. QED
    BY <2>2 DEF Promise!Next
<1>10. CASE UNCHANGED vars
  BY <1>10 DEF vars, Promise!vars, Positions
<1>11. QED
  BY <1>6, <1>7, <1>8, <1>9, <1>10 DEF Next

(* The native converter implements the promise of ResponseStream: the      *)
(* payload and the comments in order, nothing held back at an end that the *)
(* proxy makes, and an end that is billed and credited as it should be.    *)
THEOREM KeepsPromiseHolds == Spec => KeepsPromise
<1>1. Init => Promise!Init
  BY PromiseInit
<1>2. StreamInv /\ StreamInv' /\ [Next]_vars => [Promise!Next]_(Promise!vars)
  BY PromiseStep
<1>3. QED
  BY <1>1, <1>2, StreamInvariance, PTL DEF Spec, KeepsPromise, Promise!Spec
=============================================================================
