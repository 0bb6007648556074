---------------------------- MODULE NativeStream ----------------------------
(***************************************************************************)
(* native_stream_to_responses_with_session_model in                        *)
(* src/src/response_codec.rs: the stream of a provider that speaks the     *)
(* Responses API itself is passed on frame by frame, except that small     *)
(* reasoning deltas are coalesced in a NativeReasoningBuffer.              *)
(*                                                                         *)
(* The converter is a generator: it runs when the server polls the body,   *)
(* and stops at each yield and at each await, where the client may go away *)
(* and the generator be dropped.  A step here is what runs between two of  *)
(* those points.                                                           *)
(*                                                                         *)
(* Simplifications.  A frame is known by its position in `heard`; its text *)
(* is a size, and FlushChars is the size that makes reasoning_should_flush *)
(* true (160 characters, or any text with a blank line: a delta of size    *)
(* FlushChars stands for both).  How bytes are cut into frames, and the    *)
(* rewriting of tool calls inside a frame, are left out.  The request has  *)
(* a store to bill to and a session to credit.                             *)
(***************************************************************************)
EXTENDS Naturals, Sequences, SequencesExt

CONSTANTS
  Items,        \* reasoning identities: pairs (item_id, summary_index)
  None,         \* no identity, no usage
  Shapes,       \* the frames the upstream may send
  FlushChars,   \* REASONING_DELTA_FLUSH_CHARS
  MaxFrames     \* bound on the frames of one stream

Kinds == {"reasoning", "event", "comment", "error", "badutf8", "completed",
          "incomplete", "malformed", "nonsuccess"}

(* size: length of a reasoning delta; id: the frame names the response;    *)
(* usage: the frame carries token counts.  "malformed" is an incomplete    *)
(* response without a recognizable payload, or with an error in it.        *)
Frame == [kind: Kinds, item: Items \cup {None}, size: 0..FlushChars,
          id: BOOLEAN, usage: BOOLEAN]

ASSUME NativeAssumption ==
  /\ None \notin Items
  /\ FlushChars \in Nat \ {0}
  /\ MaxFrames \in Nat
  /\ Shapes \subseteq Frame
  /\ \A f \in Shapes : f.kind = "reasoning" <=> f.item # None

VARIABLES
  pc,        \* "reading", "crediting", "yielding" or "closed"
  heard,     \* history: the frames received, in order
  pending,   \* NativeReasoningBuffer.pending: positions of buffered deltas
  active,    \* NativeReasoningBuffer.active: their identity
  known,     \* response_id is known
  usage,     \* pending_usage: position of the frame it came from
  billed,    \* history: what record_completed was called with
  credited,  \* complete_session_model_update has run
  queue,     \* events computed and not yet yielded
  ending,    \* outcome once the queue is empty, "open" to read on
  out        \* history: the events yielded

vars == <<pc, heard, pending, active, known, usage, billed, credited, queue,
          ending, out>>

(* An event: its type, the identity it was stamped with, the positions of  *)
(* the frames whose payload it carries.                                    *)
Event == [type: {"delta", "frame", "comment", "failed", "error", "abort"},
          of: Items \cup {None}, parts: Seq(1..MaxFrames)]

Told(type, parts) == [type |-> type, of |-> None, parts |-> parts]

TypeOK ==
  /\ pc \in {"reading", "crediting", "yielding", "closed"}
  /\ heard \in Seq(Shapes) /\ Len(heard) <= MaxFrames
  /\ pending \in Seq(1..Len(heard))
  /\ active \in Items \cup {None}
  /\ known \in BOOLEAN
  /\ usage \in 1..Len(heard) \cup {None}
  /\ billed \in Seq(1..Len(heard) \cup {None})
  /\ credited \in BOOLEAN
  /\ queue \in Seq(Event)
  /\ ending \in {"open", "success", "partial", "failure", "broken", "gone"}
  /\ out \in Seq(Event)
  /\ pc = "yielding" <=> queue # <<>>
  /\ pending # <<>> => active # None

Init ==
  /\ pc = "reading"
  /\ heard = <<>>
  /\ pending = <<>>
  /\ active = None
  /\ known = FALSE
  /\ usage = None
  /\ billed = <<>>
  /\ credited = FALSE
  /\ queue = <<>>
  /\ ending = "open"
  /\ out = <<>>

----------------------------------------------------------------------------
(* The reasoning buffer.                                                   *)

Size(parts, frames) ==
  LET size[k \in 0..Len(parts)] ==
        IF k = 0 THEN 0 ELSE size[k - 1] + frames[parts[k]].size
  IN size[Len(parts)]

(* take_all: the buffered text as one event, or nothing. *)
TakeAll == IF pending = <<>> THEN <<>>
           ELSE <<[type |-> "delta", of |-> active, parts |-> pending]>>

(* Mutant: the buffer is taken but its text not cleared. *)
EmptyBufferKeepingText ==
  /\ active' = None
  /\ UNCHANGED pending

EmptyBuffer ==
  /\ pending' = <<>>
  /\ active' = None

(* Mutant: a delta of another item joins the block already buffered. *)
StartsBlockNever(f) == active = None

(* The delta f does not continue the block that is buffered. *)
StartsBlock(f) == active = None \/ active # f.item

(* append and then take_flush, for the delta f at position i.              *)
Buffer(f, i) ==
  LET text    == IF f.size = 0 THEN <<>> ELSE <<i>>
      block   == IF StartsBlock(f) THEN text ELSE pending \o text
      stamp   == IF StartsBlock(f) THEN f.item ELSE active
      flushed == IF StartsBlock(f) THEN TakeAll ELSE <<>>
      full    == Size(block, heard') >= FlushChars
  IN /\ queue' = flushed \o (IF full
                             THEN <<[type |-> "delta", of |-> stamp,
                                     parts |-> block]>>
                             ELSE <<>>)
     /\ pending' = IF full THEN <<>> ELSE block
     /\ active' = IF full THEN None ELSE stamp

----------------------------------------------------------------------------
(* Reading one frame.                                                      *)

(* Mutant: an incomplete response is terminal whatever it contains. *)
TerminalUnchecked(f) ==
  CASE f.kind = "completed" -> "success"
    [] f.kind \in {"incomplete", "malformed"} -> "partial"
    [] f.kind = "nonsuccess" -> "failure"
    [] OTHER -> "open"

(* native_sse_terminal: what a frame says about the end of the response.   *)
Terminal(f) ==
  CASE f.kind = "completed" -> "success"
    [] f.kind = "incomplete" -> "partial"
    [] f.kind = "nonsuccess" -> "failure"
    [] OTHER -> "open"

(* Hand the queue to the server and go on to `end` when it is delivered.   *)
Deliver(end) ==
  /\ ending' = end
  /\ pc' = IF queue' # <<>> THEN "yielding"
           ELSE IF end = "open" THEN "reading" ELSE "closed"

(* native_failed_event: named after the response when its id is known.     *)
Failed(id) == Told(IF id THEN "failed" ELSE "error", <<>>)

(* Mutant: a meaningful frame overtakes the reasoning still buffered. *)
ForwardUnflushed(i) ==
  /\ queue' = <<Told("frame", <<i>>)>>
  /\ UNCHANGED <<pending, active>>

(* A meaningful frame ends the buffered block and follows it. *)
Forward(i) ==
  /\ queue' = TakeAll \o <<Told("frame", <<i>>)>>
  /\ EmptyBuffer

(* Mutant: the stream reads on after a truncated response. *)
EndAfterCompleted(f) == IF Terminal(f) = "partial" THEN "open" ELSE Terminal(f)

(* The outcome that forwarding a frame leads to: a terminal frame breaks   *)
(* the loop.                                                               *)
EndAfter(f) == Terminal(f)

(* A completed or incomplete response is billed, once, with the latest     *)
(* usage seen: usage_recorder.take().                                      *)
Bill(f) ==
  billed' = IF Terminal(f) \in {"success", "partial"} /\ billed = <<>>
            THEN <<usage'>> ELSE billed

Note(f) ==
  /\ heard' = Append(heard, f)
  /\ known' = (known \/ f.id)
  /\ usage' = IF f.usage THEN Len(heard) + 1 ELSE usage

(* A frame that cannot be decoded, the transport failing, or a buffer past *)
(* 16 MiB: what is buffered is told, then the body breaks.                 *)
Break ==
  /\ queue' = TakeAll \o <<Told("abort", <<>>)>>
  /\ EmptyBuffer
  /\ Deliver("broken")

BadFrame(f) ==
  /\ f.kind = "badutf8"
  /\ heard' = Append(heard, f)
  /\ Break
  /\ UNCHANGED <<known, usage, billed, credited, out>>

ErrorFrame(f) ==
  /\ f.kind = "error"
  /\ heard' = Append(heard, f)
  /\ known' = (known \/ f.id)
  /\ queue' = TakeAll \o <<Failed(known')>>
  /\ EmptyBuffer
  /\ Deliver("failure")
  /\ UNCHANGED <<usage, billed, credited, out>>

(* A completed response waits for the session cache's write lock before    *)
(* it is passed on.                                                        *)
CompletedFrame(f) ==
  /\ f.kind = "completed"
  /\ Note(f)
  /\ Bill(f)
  /\ pc' = "crediting"
  /\ UNCHANGED <<pending, active, credited, queue, ending, out>>

PassFrame(f) ==
  /\ f.kind \in {"event", "incomplete", "malformed", "nonsuccess"}
  /\ Note(f)
  /\ Bill(f)
  /\ Forward(Len(heard'))
  /\ Deliver(EndAfter(f))
  /\ UNCHANGED <<credited, out>>

ReasoningFrame(f) ==
  /\ f.kind = "reasoning"
  /\ Note(f)
  /\ Buffer(f, Len(heard'))
  /\ Deliver("open")
  /\ UNCHANGED <<billed, credited, out>>

(* A comment is passed on without ending the buffered block. *)
CommentFrame(f) ==
  /\ f.kind = "comment"
  /\ Note(f)
  /\ queue' = <<Told("comment", <<Len(heard')>>)>>
  /\ Deliver("open")
  /\ UNCHANGED <<pending, active, billed, credited, out>>

ReadFrame ==
  /\ pc = "reading"
  /\ Len(heard) < MaxFrames
  /\ \E f \in Shapes :
       \/ BadFrame(f) \/ ErrorFrame(f) \/ CompletedFrame(f) \/ PassFrame(f)
       \/ ReasoningFrame(f) \/ CommentFrame(f)

TransportFails ==
  /\ pc = "reading"
  /\ Break
  /\ UNCHANGED <<heard, known, usage, billed, credited, out>>

(* Mutant: the end of the upstream is reported without what is buffered. *)
FinalUnflushed == <<Failed(known)>>

(* What is told when the upstream ends early. *)
Final == TakeAll \o <<Failed(known)>>

(* The upstream ends before a terminal frame. *)
UpstreamEnds ==
  /\ pc = "reading"
  /\ queue' = Final
  /\ EmptyBuffer
  /\ Deliver("failure")
  /\ UNCHANGED <<heard, known, usage, billed, credited, out>>

(* The lock is granted: the session is credited, the frame passed on.      *)
Credit ==
  /\ pc = "crediting"
  /\ credited' = TRUE
  /\ Forward(Len(heard))
  /\ Deliver(EndAfter(heard[Len(heard)]))
  /\ UNCHANGED <<heard, known, usage, billed, out>>

(* The server takes the next event for the client. *)
Yield ==
  /\ pc = "yielding"
  /\ out' = Append(out, Head(queue))
  /\ queue' = Tail(queue)
  /\ Deliver(ending)
  /\ UNCHANGED <<heard, pending, active, known, usage, billed, credited>>

(* The client goes away: the generator is dropped with all it holds.       *)
Drop ==
  /\ pc # "closed"
  /\ pc' = "closed"
  /\ ending' = "gone"
  /\ queue' = <<>>
  /\ EmptyBuffer
  /\ UNCHANGED <<heard, known, usage, billed, credited, out>>

Next == ReadFrame \/ TransportFails \/ UpstreamEnds \/ Credit \/ Yield \/ Drop

(* The server polls the body while the client is there, and the session    *)
(* cache's lock is only held for map operations.  Nothing is assumed of    *)
(* the upstream.                                                           *)
Spec == Init /\ [][Next]_vars /\ WF_vars(Yield) /\ WF_vars(Credit)

----------------------------------------------------------------------------
(* Properties.                                                             *)

Positions(type, events) ==
  FlattenSeq([k \in DOMAIN events |->
                IF events[k].type \in type THEN events[k].parts ELSE <<>>])

Payload(f) ==
  \/ f.kind = "reasoning" /\ f.size > 0
  \/ f.kind \in {"event", "completed", "incomplete", "malformed", "nonsuccess"}

(* The positions of the frames that the client is to see. *)
Said == FlattenSeq([i \in DOMAIN heard |-> IF Payload(heard[i]) THEN <<i>> ELSE <<>>])

(* Whatever the buffer does, the meaningful frames are told in the order   *)
(* they came, none lost and none twice: events told, then events queued,   *)
(* then the buffer, then a completed frame waiting for the session cache   *)
(* are exactly the stream so far.                                          *)
InOrder ==
  ending # "gone" =>
    Positions({"delta", "frame"}, out \o queue) \o pending
      \o (IF pc = "crediting" THEN <<Len(heard)>> ELSE <<>>)
    = Said

(* A block of reasoning shown to the client holds text of the one item and *)
(* summary it is stamped with, and a block waiting in the buffer is always *)
(* below the size that should have flushed it.                             *)
OneIdentity ==
  /\ \A k \in DOMAIN out :
       out[k].type = "delta" =>
         \A p \in ToSet(out[k].parts) : heard[p].item = out[k].of
  /\ Size(pending, heard) < FlushChars

(* Usage is recorded at most once per stream, exactly when the response    *)
(* that came was a well-formed completed or incomplete one, with the last  *)
(* usage the upstream reported; the session is credited only after a       *)
(* completed one, and always before the client can see it.                 *)
Accounted ==
  LET ended == {i \in DOMAIN heard : heard[i].kind \in {"completed", "incomplete"}}
      counts == {i \in DOMAIN heard : heard[i].usage}
  IN /\ Len(billed) <= 1
     /\ billed # <<>> <=> ended # {}
     /\ \A i \in ended : i = Len(heard)
     /\ billed # <<>> => IF counts = {} THEN billed[1] = None
                         ELSE /\ billed[1] \in counts
                              /\ \A i \in counts : i <= billed[1]
     /\ \A k \in DOMAIN out : \A p \in ToSet(out[k].parts) :
          heard[p].kind = "completed" => credited
     /\ credited => heard[Len(heard)].kind = "completed"

(* Once the response's last frame has been read the stream ends, whatever  *)
(* the upstream does afterwards.                                           *)
TerminalEnds ==
  (heard # <<>> /\ Terminal(heard[Len(heard)]) # "open") ~> (pc = "closed")

(* The stream keeps what ResponseStream promises, with the meaningful      *)
(* frames and the comments as its two channels.                            *)
Promise ==
  INSTANCE ResponseStream WITH
    Channels <- {"payload", "comments"},
    excused <- [c \in {"payload", "comments"} |-> {}],
    shown <- [c \in {"payload", "comments"} |->
                IF c = "payload" THEN Positions({"delta", "frame"}, out)
                ELSE Positions({"comment"}, out)],
    held <- [c \in {"payload", "comments"} |->
               IF c = "payload"
               THEN Positions({"delta", "frame"}, queue) \o pending
                      \o (IF pc = "crediting" THEN <<Len(heard)>> ELSE <<>>)
               ELSE Positions({"comment"}, queue)],
    outcome <- IF pc = "closed" THEN ending ELSE "open",
    billed <- billed # <<>>,
    credited <- credited

KeepsPromise == Promise!Spec
=============================================================================
