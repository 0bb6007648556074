----------------------------- MODULE ChatStream -----------------------------
(***************************************************************************)
(* chat_stream_to_responses_with_session_model and ChatAccum in            *)
(* src/src/response_codec.rs: the stream of a Chat Completions provider is *)
(* turned into Responses events.  Reasoning is coalesced; text that might  *)
(* be tool markup is deferred until it is known whether the turn makes a   *)
(* native tool call, whose markup it would repeat; tool calls are told     *)
(* only at the end.                                                        *)
(*                                                                         *)
(* As in NativeStream a step is what the generator does between two yields *)
(* or awaits, and a unit of payload is known by the position of its chunk. *)
(*                                                                         *)
(* Simplifications.  One choice per chunk.  A content fragment is wholly   *)
(* of one kind; Sanitizer (src/src/tool_markup.rs) is modelled by what it  *)
(* does to such fragments outside Markdown code.  The display header of a  *)
(* reasoning item, end_turn (the continue guard) and the splitting of      *)
(* concatenated call arguments are left out, and frames without data,      *)
(* which are skipped.  The request has a store to bill to and a session to *)
(* credit.                                                                 *)
(***************************************************************************)
EXTENDS Naturals, Sequences, SequencesExt

CONSTANTS
  None,        \* no slot, no usage
  NumSlots,    \* bound on the tool calls of one stream
  Shapes,      \* the chunks the upstream may send
  FlushAt,     \* small reasoning deltas that make a block
  MaxChunks    \* bound on the chunks of one stream

(* reasoning: nothing, a small delta, one that completes a block (a blank  *)
(* line), or a cumulative snapshot without news.  content: nothing, plain  *)
(* text, a complete element of tool markup, an opening tag (other than     *)
(* <tool>) never closed, or text that stops inside the name of what may be *)
(* a tag.                                                                  *)
(* observed: the first choice has a delta or a finish reason.              *)
Slots == 1..NumSlots
Chunk == [reasoning: {"none", "small", "block", "repeat"},
          content: {"none", "plain", "element", "unclosed", "prefix"},
          call: {"none", "unnamed", "named"}, slot: Slots \cup {None},
          finish: {"none", "terminal", "other"},
          usage: BOOLEAN, observed: BOOLEAN]

ASSUME ChatAssumption ==
  /\ NumSlots \in Nat /\ None \notin Nat
  /\ FlushAt \in Nat \ {0}
  /\ MaxChunks \in Nat
  /\ Shapes \subseteq Chunk
  /\ \A c \in Shapes :
       /\ c.call = "none" <=> c.slot = None
       /\ (c.reasoning # "none" \/ c.content # "none" \/ c.call # "none"
            \/ c.finish # "none") => c.observed

VARIABLES
  suppress,   \* suppress_duplicate_tool_markup of the provider's transform
  pc,         \* "reading", "crediting", "yielding" or "closed"
  seen,       \* history: the chunks received
  acc,        \* ChatAccum
  observed,   \* response_observed
  billed,     \* history: what record_completed was called with
  credited,   \* complete_session_model_update has run
  queue,      \* events computed and not yet yielded
  ending,     \* outcome once the queue is empty, "open" to read on
  out         \* history: the events yielded

vars == <<suppress, pc, seen, acc, observed, billed, credited, queue, ending,
          out>>

Positions == 1..MaxChunks

Event == [type: {"created", "rsn_added", "rsn_delta", "rsn_done", "msg_added",
                 "msg_delta", "msg_done", "call_done", "completed", "done",
                 "failed"},
          parts: Seq(Positions \cup Slots)]

(* rtext, text: what the reasoning item and the message hold so far; an    *)
(* item has been added as soon as it holds anything.  inside: the          *)
(* sanitizer is inside markup; edge: the possible tag it holds back.       *)
Accum == [rtext: Seq(Positions), rpending: Seq(Positions),
          text: Seq(Positions), deferred: Seq(Positions),
          edge: Seq(Positions), inside: BOOLEAN,
          calls: [Slots -> {"absent", "unnamed", "named"}], native: BOOLEAN,
          finish: {"none", "terminal", "other"},
          usage: Positions \cup {None}]

TypeOK ==
  /\ suppress \in BOOLEAN
  /\ pc \in {"reading", "crediting", "yielding", "closed"}
  /\ seen \in Seq(Shapes) /\ Len(seen) <= MaxChunks
  /\ acc \in Accum
  /\ observed \in BOOLEAN
  /\ billed \in Seq(Positions \cup {None})
  /\ credited \in BOOLEAN
  /\ queue \in Seq(Event)
  /\ ending \in {"open", "success", "failure", "gone"}
  /\ out \in Seq(Event)
  /\ pc = "yielding" <=> queue # <<>>
  /\ acc.rpending # <<>> => IsSuffix(acc.rpending, acc.rtext)
  /\ acc.deferred # <<>> => suppress /\ ~acc.native
  /\ acc.native => \E s \in Slots : acc.calls[s] = "named"

Init ==
  /\ suppress \in BOOLEAN
  /\ pc = "yielding"
  /\ seen = <<>>
  /\ acc = [rtext |-> <<>>, rpending |-> <<>>, text |-> <<>>,
            deferred |-> <<>>, edge |-> <<>>, inside |-> FALSE,
            calls |-> [s \in Slots |-> "absent"], native |-> FALSE,
            finish |-> "none", usage |-> None]
  /\ observed = FALSE
  /\ billed = <<>>
  /\ credited = FALSE
  /\ queue = <<[type |-> "created", parts |-> <<>>]>>
  /\ ending = "open"
  /\ out = <<>>

----------------------------------------------------------------------------
(* The accumulator.  Each operator takes [acc, events] and returns it      *)
(* changed, with the events it says appended.                              *)

Say(a, type, parts) ==
  [a EXCEPT !.events = Append(@, [type |-> type, parts |-> parts])]

(* take_reasoning_delta *)
FlushReasoning(a) ==
  IF a.acc.rpending = <<>> THEN a
  ELSE [Say(a, "rsn_delta", a.acc.rpending) EXCEPT !.acc.rpending = <<>>]

(* emit_content, adding the message item before its first text. *)
Emit(a, text) ==
  LET added == IF a.acc.text = <<>> THEN Say(a, "msg_added", <<>>) ELSE a
  IN IF text = <<>> THEN a
     ELSE [Say(added, "msg_delta", text) EXCEPT !.acc.text = @ \o text]

(* Mutant: only a whole element is taken for markup. *)
MayContainMarkupWhole(i, chunks) == chunks[i].content \in {"element", "unclosed"}

(* Sanitizer::may_contain_markup *)
MayContainMarkup(i, chunks) == chunks[i].content # "plain"

(* Sanitizer::push for the fragment at position i, then emit_content.      *)
(* Inside markup everything is payload of the markup; a possible tag held  *)
(* back turns out to be text as soon as more text follows it.              *)
Push(a, i, chunks) ==
  LET kind == chunks[i].content
      text == IF a.acc.inside THEN <<>>
              ELSE a.acc.edge \o (IF kind = "plain" THEN <<i>> ELSE <<>>)
      held == IF kind = "prefix" /\ ~a.acc.inside THEN <<i>> ELSE <<>>
  IN [Emit(a, text) EXCEPT !.acc.edge = held,
                           !.acc.inside = @ \/ kind = "unclosed"]

(* Push the fragments at these positions, one after the other. *)
PushAll(a, parts, chunks) ==
  LET pushed[k \in 0..Len(parts)] ==
        IF k = 0 THEN a ELSE Push(pushed[k - 1], parts[k], chunks)
  IN pushed[Len(parts)]

(* Mutant: what was deferred is released but not taken. *)
ReleaseKeeping(a, chunks) == PushAll(a, a.acc.deferred, chunks)

(* Release what was deferred, through the sanitizer. *)
Release(a, chunks) ==
  PushAll([a EXCEPT !.acc.deferred = <<>>], a.acc.deferred, chunks)

(* The reasoning of a chunk: a cumulative snapshot brings nothing new. *)
Reasoning(a, i, chunks) ==
  LET kind  == chunks[i].reasoning
      begun == IF a.acc.rtext = <<>> THEN Say(a, "rsn_added", <<>>) ELSE a
      grown == [begun EXCEPT !.acc.rtext = Append(@, i),
                             !.acc.rpending = Append(@, i)]
      full  == kind = "block" \/ Len(grown.acc.rpending) >= FlushAt
  IN IF kind \notin {"small", "block"} THEN a
     ELSE IF full THEN FlushReasoning(grown) ELSE grown

(* Mutant: text goes out although text before it is still deferred. *)
DefersMarkupOnly(a, i, chunks) ==
  suppress /\ ~a.acc.native /\ MayContainMarkup(i, chunks)

(* The text of a chunk has to wait for a named call, or for the end. *)
Defers(a, i, chunks) ==
  /\ suppress /\ ~a.acc.native
  /\ a.acc.deferred # <<>> \/ MayContainMarkup(i, chunks)

Content(a, i, chunks) ==
  LET flushed == FlushReasoning(a)
  IN CASE chunks[i].content = "none" -> a
       [] chunks[i].content # "none" /\ Defers(a, i, chunks) ->
            [a EXCEPT !.acc.deferred = Append(@, i)]
       [] OTHER -> IF suppress THEN Push(flushed, i, chunks)
                   ELSE Emit(flushed, <<i>>)

(* The tool call of a chunk; the first named one ends the deferral. *)
ToolCall(a, i, chunks) ==
  LET c      == chunks[i]
      flushed == FlushReasoning(a)
      called == [flushed EXCEPT !.acc.calls[c.slot] =
                   IF c.call = "named" THEN "named"
                   ELSE IF @ = "absent" THEN "unnamed" ELSE @]
      first  == ~a.acc.native /\ c.call = "named"
  IN CASE c.call = "none" -> a
       [] first -> Release([called EXCEPT !.acc.native = TRUE], chunks)
       [] OTHER -> called

(* apply_chat_chunk *)
Apply(i, chunks) ==
  LET c == chunks[i]
      noted == [acc |-> [acc EXCEPT
                           !.usage = IF c.usage THEN i ELSE @,
                           !.finish = IF c.finish = "none" THEN @ ELSE c.finish],
                events |-> <<>>]
  IN ToolCall(Content(Reasoning(noted, i, chunks), i, chunks), i, chunks)

(* One event for each of parts. *)
Each(type, parts) ==
  [k \in DOMAIN parts |-> [type |-> type, parts |-> <<parts[k]>>]]

(* Each fragment that was deferred goes out in an event of its own. *)
Restore(a) ==
  LET added == IF a.acc.text = <<>> THEN Say(a, "msg_added", <<>>) ELSE a
      parts == a.acc.deferred
  IN IF parts = <<>> THEN a
     ELSE [added EXCEPT !.events = @ \o Each("msg_delta", parts),
                        !.acc.text = @ \o parts, !.acc.deferred = <<>>]

(* finalize_tool_markup_content: without a native call the deferred text   *)
(* was no duplicate and is restored; with one the sanitizer's tail ends.   *)
Finalize(a) ==
  CASE ~suppress -> a
    [] suppress /\ a.acc.native -> [a EXCEPT !.acc.edge = <<>>, !.acc.inside = FALSE]
    [] suppress /\ ~a.acc.native -> Restore(a)

(* failure_events, and the response.failed that follows them. *)
Failure ==
  Say(Finalize(FlushReasoning([acc |-> acc, events |-> <<>>])), "failed", <<>>)

(* Mutant: the reasoning still pending is not told before its item is done. *)
PendingReasoningLost(a) == a

(* finish tells the pending reasoning after the deferred text, and leaves  *)
(* reasoning_pending as it is.                                             *)
PendingReasoning(a) ==
  IF a.acc.rpending = <<>> THEN a ELSE Say(a, "rsn_delta", a.acc.rpending)

NamedSlots ==
  FlattenSeq([s \in Slots |-> IF acc.calls[s] = "named" THEN <<s>> ELSE <<>>])

(* finish: the items that are open are done, then every named call, then   *)
(* the response.                                                           *)
Finish ==
  LET told == PendingReasoning(Finalize([acc |-> acc, events |-> <<>>]))
      rsn  == IF acc.rtext = <<>> THEN told
              ELSE Say(told, "rsn_done", acc.rtext)
      msg  == IF rsn.acc.text = <<>> THEN rsn
              ELSE Say(rsn, "msg_done", rsn.acc.text)
      calls == [msg EXCEPT !.events = @ \o Each("call_done", NamedSlots)]
  IN Say(Say(calls, "completed", <<>>), "done", <<>>)

----------------------------------------------------------------------------
(* The stream.                                                             *)

(* Take the accumulator and its events, and go on to `end` once they are   *)
(* delivered.                                                              *)
Deliver(a, end) ==
  /\ acc' = a.acc
  /\ queue' = a.events
  /\ ending' = end
  /\ pc' = IF a.events # <<>> THEN "yielding" ELSE "reading"

ReadChunk ==
  /\ pc = "reading"
  /\ Len(seen) < MaxChunks
  /\ \E c \in Shapes :
       /\ seen' = Append(seen, c)
       /\ observed' = (observed \/ c.observed)
       /\ Deliver(Apply(Len(seen'), seen'), "open")
  /\ UNCHANGED <<suppress, billed, credited, out>>

Fail ==
  /\ Deliver(Failure, "failure")
  /\ UNCHANGED <<suppress, seen, observed, billed, credited, out>>

(* The transport fails, a frame is too large, not UTF-8 or not JSON, or    *)
(* the upstream reports an error.                                          *)
UpstreamFails == pc = "reading" /\ Fail

(* Mutant: [DONE] is enough for a response to have completed. *)
SucceedsOnDone(done) == done \/ acc.finish = "terminal"

(* The upstream sent [DONE], or ended without it: was that a response?     *)
Succeeds(done) ==
  IF done THEN observed ELSE acc.finish = "terminal"

(* A success is billed, then waits for the session cache's write lock.     *)
Succeed ==
  /\ billed' = Append(billed, acc.usage)
  /\ pc' = "crediting"
  /\ UNCHANGED <<suppress, seen, acc, observed, credited, queue, ending, out>>

UpstreamEnds ==
  /\ pc = "reading"
  /\ \E done \in BOOLEAN :
       IF Succeeds(done) THEN Succeed ELSE Fail

Credit ==
  /\ pc = "crediting"
  /\ credited' = TRUE
  /\ Deliver(Finish, "success")
  /\ UNCHANGED <<suppress, seen, observed, billed, out>>

(* Mutant: the generator polls the upstream again after its last event. *)
AfterYieldReading == IF Len(queue) > 1 THEN "yielding" ELSE "reading"

AfterYield ==
  IF Len(queue) > 1 THEN "yielding"
  ELSE IF ending = "open" THEN "reading" ELSE "closed"

Yield ==
  /\ pc = "yielding"
  /\ out' = Append(out, Head(queue))
  /\ queue' = Tail(queue)
  /\ pc' = AfterYield
  /\ UNCHANGED <<suppress, seen, acc, observed, billed, credited, ending>>

(* The client goes away: the generator is dropped with all it holds. *)
Drop ==
  /\ pc # "closed"
  /\ pc' = "closed"
  /\ ending' = "gone"
  /\ queue' = <<>>
  /\ UNCHANGED <<suppress, seen, acc, observed, billed, credited, out>>

Next == ReadChunk \/ UpstreamFails \/ UpstreamEnds \/ Credit \/ Yield \/ Drop

(* As for NativeStream: nothing is assumed of the upstream. *)
Spec == Init /\ [][Next]_vars /\ WF_vars(Yield) /\ WF_vars(Credit)

----------------------------------------------------------------------------
(* Properties.                                                             *)

Told(type, events) ==
  FlattenSeq([k \in DOMAIN events |->
                IF events[k].type = type THEN events[k].parts ELSE <<>>])

Where(type) == {k \in DOMAIN out : out[k].type = type}

Texts ==
  FlattenSeq([i \in DOMAIN seen |-> IF seen[i].content # "none" THEN <<i>> ELSE <<>>])

(* The events the client has seen make sense together: an item is added    *)
(* once before its first delta and finished at most once after its last;   *)
(* the finished item holds exactly the text of its deltas; every named     *)
(* call is told once, in the order of the indexes; and nothing but the     *)
(* closing marker follows the event that ends the response.                *)
Coherent(added, delta, done) ==
  /\ Where(delta) # {} => \E k \in Where(added) : \A j \in Where(delta) : k < j
  /\ \A k, j \in Where(added) : k = j
  /\ \A k, j \in Where(done) : k = j
  /\ \A k \in Where(done) :
       /\ Where(delta) # {} /\ \A j \in Where(delta) : j < k
       /\ out[k].parts = Told(delta, out)

EventsCohere ==
  /\ Coherent("rsn_added", "rsn_delta", "rsn_done")
  /\ Coherent("msg_added", "msg_delta", "msg_done")
  /\ \A k \in Where("completed") \cup Where("failed") :
       \A j \in DOMAIN out : j > k => j = k + 1 /\ out[j].type = "done"
  /\ \A k \in Where("completed") :
       /\ Told("call_done", out) = NamedSlots
       /\ Where("rsn_delta") # {} => Where("rsn_done") # {}
       /\ Where("msg_delta") # {} => Where("msg_done") # {}

(* Text is left out only as duplicate markup: a stream the proxy ended has *)
(* shown all its text in order unless a native call was made, and once one *)
(* was made no complete element of tool markup is ever shown.              *)
OnlyDuplicatesDropped ==
  /\ pc = "closed" /\ ending # "gone" /\ ~(suppress /\ acc.native) =>
       Told("msg_delta", out) = Texts
  /\ suppress /\ acc.native =>
       \A p \in ToSet(Told("msg_delta", out \o queue)) :
         seen[p].content # "element"

(* A reply that ended well was really a response and is billed once with   *)
(* the last usage reported; the usage may come after the finish reason.    *)
BilledOnce ==
  /\ Len(billed) <= 1
  /\ billed # <<>> =>
       LET counts == {i \in DOMAIN seen : seen[i].usage}
       IN /\ \E i \in DOMAIN seen : seen[i].observed
          /\ IF counts = {} THEN billed[1] = None
             ELSE billed[1] \in counts /\ \A i \in counts : i <= billed[1]
  /\ \A k \in DOMAIN out : out[k].type = "completed" => credited

(* Once the response has ended, well or not, the client is told so and the *)
(* stream closes, whatever the upstream does afterwards.                   *)
TurnEnds == (ending # "open" \/ pc = "crediting") ~> (pc = "closed")

(* The text a stream with a native call may leave out: markup, what stops  *)
(* inside a possible tag, and what follows markup that is never closed.    *)
Excused ==
  IF ~(suppress /\ acc.native) THEN {}
  ELSE {i \in ToSet(Texts) :
          \/ seen[i].content # "plain"
          \/ \E j \in 1..i - 1 : seen[j].content = "unclosed"}

Channels == {"reasoning", "text"}

(* The stream keeps what ResponseStream promises, with reasoning and text  *)
(* as its two channels: the order between the two is not kept, because     *)
(* deferred text is told before reasoning that came earlier (finish).      *)
Promise ==
  INSTANCE ResponseStream WITH
    excused <- [c \in Channels |-> IF c = "text" THEN Excused ELSE {}],
    shown <- [c \in Channels |->
                IF c = "text" THEN Told("msg_delta", out)
                ELSE Told("rsn_delta", out)],
    held <- [c \in Channels |->
               IF c = "text"
               THEN Told("msg_delta", queue) \o acc.edge \o acc.deferred
               ELSE Told("rsn_delta", queue)
                      \o (IF ending = "open" THEN acc.rpending ELSE <<>>)],
    outcome <- IF pc = "closed" THEN ending ELSE "open",
    billed <- billed # <<>>,
    credited <- credited

KeepsPromise == Promise!Spec

(* tool_markup.rs:295 says of the end of a stream "retain unclosed         *)
(* material rather than silently deleting user text": when the stream      *)
(* succeeds, plain text has all been shown.                                *)
UnclosedTextSurvives ==
  pc = "closed" /\ ending = "success" =>
    \A i \in ToSet(Texts) :
      seen[i].content = "plain" => i \in ToSet(Told("msg_delta", out))
=============================================================================
