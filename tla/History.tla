------------------------------ MODULE History ------------------------------
(***************************************************************************)
(* The history of a request, a sequence of Responses items, as the chat    *)
(* messages that are sent to a Chat Completions provider (responses_to_    *)
(* chat) and as the items that are sent to a Responses provider            *)
(* (standardize_native_agent_messages), both in src/src/transform.rs, and  *)
(* what the continue guard reads in it (src/src/response_codec.rs).        *)
(*                                                                         *)
(* An item has a kind; an id, its call id if it is a call or an output;    *)
(* the tool it calls, or for assistant text "blank" when it is empty; and  *)
(* names, the children a wait is for, or the child an output names.  Tool  *)
(* declarations, morphs of the request and the wording of texts are left   *)
(* out: they do not depend on the order of the items.                      *)
(***************************************************************************)
EXTENDS Integers, FiniteSets, Sequences, SequencesExt, Filter

Kinds == {"user", "assistant", "agent", "reasoning", "call", "output", "other"}
Roles == {"user", "assistant", "tool", "calls"}
ItemType == [kind: Kinds, id: Int, tool: STRING, names: SUBSET Int]
MessageType == [role: Roles, ids: Seq(Int), reasoning: Seq(Int)]

Ids(items) == [i \in DOMAIN items |-> items[i].id]
----------------------------------------------------------------------------
(* responses_to_chat: one pass over the items.  Calls are gathered in      *)
(* pending until another item comes; outstanding are the calls that were   *)
(* sent and not answered; agent messages wait in deferred for them.        *)

Message(role, ids, reasoning) == [role |-> role, ids |-> ids, reasoning |-> reasoning]
NoCalls == Message("calls", <<>>, <<>>)

(* response_item_to_messages, of an item other than a call *)
ItemMessages(item, prior) ==
  CASE item.kind = "assistant" -> <<Message("assistant", <<item.id>>, prior)>>
    [] item.kind \in {"user", "agent"} -> <<Message("user", <<item.id>>, <<>>)>>
    [] item.kind = "output" -> <<Message("tool", <<item.id>>, <<>>)>>
    [] OTHER -> <<>>

(* should_retain_pending_reasoning, of what the item did not consume *)
Retained(item, prior) == IF item.kind = "output" THEN prior ELSE <<>>

Awaited(c) == c.pending # NoCalls \/ c.outstanding # {}

(* take_reasoning_from_preceding_assistant_text: the reasoning of the text *)
(* before a call moves to the call, and a blank text that loses it goes.   *)
IsShell(message, blank) == message.ids[1] \in blank
TakesReasoning(c) ==
  /\ c.reasoning = <<>> /\ c.messages # <<>>
  /\ Last(c.messages).role = "assistant" /\ Last(c.messages).reasoning # <<>>
WithoutReasoning(messages, blank) ==
  Front(messages) \o (IF IsShell(Last(messages), blank) THEN <<>>
                      ELSE <<[Last(messages) EXCEPT !.reasoning = <<>>]>>)

(* merge_pending_tool_call_message: parallel calls share a message. *)
Merged(calls, id, reasoning) ==
  [calls EXCEPT !.ids = Append(@, id), !.reasoning = @ \o reasoning]

CallStep(c, item, preserve, blank) ==
  LET takes == preserve /\ TakesReasoning(c)
      reasoning == IF takes THEN Last(c.messages).reasoning ELSE c.reasoning
  IN [c EXCEPT !.messages = IF takes THEN WithoutReasoning(@, blank) ELSE @,
               !.reasoning = <<>>, !.pending = Merged(@, item.id, reasoning)]

(* Mutant for Flushed: the calls that are sent are not waited for.         *)
FlushedForgetful(c) ==
  IF c.pending = NoCalls THEN c
  ELSE [c EXCEPT !.messages = Append(@, c.pending), !.pending = NoCalls]

Flushed(c) ==
  IF c.pending = NoCalls THEN c
  ELSE [c EXCEPT !.messages = Append(@, c.pending), !.pending = NoCalls,
                 !.outstanding = @ \cup ToSet(c.pending.ids)]

OtherStep(c, item) ==
  LET f == Flushed(c)
      left == IF item.kind = "output" THEN f.outstanding \ {item.id} ELSE f.outstanding
      due == IF left = {} THEN f.deferred ELSE <<>>
  IN [f EXCEPT !.messages = @ \o ItemMessages(item, c.reasoning) \o due,
               !.reasoning = Retained(item, c.reasoning), !.outstanding = left,
               !.deferred = IF left = {} THEN <<>> ELSE @]

ChatStep(c, item, preserve, blank) ==
  CASE item.kind = "reasoning" /\ preserve ->
         [c EXCEPT !.reasoning = Append(@, item.id)]
    [] item.kind = "call" -> CallStep(c, item, preserve, blank)
    [] item.kind = "agent" /\ Awaited(c) ->
         [c EXCEPT !.deferred = @ \o ItemMessages(item, <<>>), !.reasoning = <<>>]
    [] OTHER -> OtherStep(c, item)

Blank(input) == {input[i].id : i \in {j \in DOMAIN input : input[j].tool = "blank"}}
ChatPass(input, preserve) ==
  LET after[i \in 0..Len(input)] ==
        IF i = 0 THEN [messages |-> <<>>, reasoning |-> <<>>, pending |-> NoCalls,
                       outstanding |-> {}, deferred |-> <<>>]
        ELSE ChatStep(after[i - 1], input[i], preserve, Blank(input))
  IN after[Len(input)]

ChatMessages(input, preserve) ==
  LET c == ChatPass(input, preserve)
      all == c.messages \o c.deferred
               \o (IF c.pending = NoCalls THEN <<>> ELSE <<c.pending>>)
  IN IF all = <<>> THEN <<Message("user", <<>>, <<>>)>> ELSE all
----------------------------------------------------------------------------
(* standardize_native_agent_messages: the same pass over the items, which  *)
(* stay as they are but for the agent messages.                            *)

NativeFlushed(n) ==
  [n EXCEPT !.output = @ \o n.pending, !.pending = <<>>,
            !.outstanding = @ \cup ToSet(Ids(n.pending))]

NativeStep(n, item) ==
  LET f == NativeFlushed(n)
      left == IF item.kind = "output" THEN f.outstanding \ {item.id} ELSE f.outstanding
      due == IF left = {} THEN f.deferred ELSE <<>>
  IN CASE item.kind = "call" -> [n EXCEPT !.pending = Append(@, item)]
       [] item.kind = "agent" /\ (n.pending # <<>> \/ n.outstanding # {}) ->
            [n EXCEPT !.deferred = Append(@, item)]
       [] item.kind = "agent" /\ n.pending = <<>> /\ n.outstanding = {} ->
            [n EXCEPT !.output = Append(@, item)]
       [] OTHER -> [f EXCEPT !.output = Append(@, item) \o due, !.outstanding = left,
                             !.deferred = IF left = {} THEN <<>> ELSE @]

NativePass(input) ==
  LET after[i \in 0..Len(input)] ==
        IF i = 0 THEN [output |-> <<>>, pending |-> <<>>, outstanding |-> {}, deferred |-> <<>>]
        ELSE NativeStep(after[i - 1], input[i])
  IN after[Len(input)]

NativeItems(input) ==
  LET n == NativePass(input)
  IN n.output \o n.deferred \o n.pending
----------------------------------------------------------------------------
(* What the continue guard reads (ContinueGuardState::from_request) *)

(* request_shows_tool_progress: the last item is tool work, and not only   *)
(* planning.                                                               *)
Planning == {"plan_open", "plan_done"}
Call(item) == item.kind = "call" /\ item.tool \notin Planning
ShowsProgress(input) ==
  /\ input # <<>>
  /\ LET last == Last(input) IN
       \/ Call(last)
       \/ last.kind = "output" /\ \E i \in DOMAIN input :
            Call(input[i]) /\ input[i].id = last.id

(* latest_active_plan: done, or there is none or an open one. *)
PlanDone(input) ==
  LET i == SelectLastInSeq(input, LAMBDA e : e.kind = "call" /\ e.tool \in Planning)
  IN i # 0 /\ input[i].tool = "plan_done"

(* SubagentWork: the spawns whose child is not known yet, in order, and    *)
(* the children that are.  A wait for children takes those it names, or as *)
(* many unnamed spawns when no child has a name.                           *)
Waited(w, names) ==
  LET unnamed == IF w.named # {} THEN 0 ELSE Cardinality(names)
  IN [spawns |-> SubSeq(w.spawns, unnamed + 1, Len(w.spawns)),
      named |-> w.named \ names]

(* wait_resolution: no target list acknowledges all children. *)
Spawns(item) == item.kind = "call" /\ item.tool = "spawn"
Waits(item) == item.kind = "call" /\ item.tool = "wait"
AcknowledgesAll(item) == Waits(item) /\ item.names = {}

(* bind_spawn_output: an output names the child of its spawn. *)
Binds(w, item) == item.kind = "output" /\ item.names # {} /\ Contains(w.spawns, item.id)
Bound(w, item) ==
  [spawns |-> RemoveFirst(w.spawns, item.id), named |-> w.named \cup item.names]

WorkStep(w, item) ==
  CASE Spawns(item) -> [w EXCEPT !.spawns = Append(@, item.id)]
    [] AcknowledgesAll(item) -> [spawns |-> <<>>, named |-> {}]
    [] Waits(item) /\ ~AcknowledgesAll(item) -> Waited(w, item.names)
    [] Binds(w, item) -> Bound(w, item)
    [] OTHER -> w

UnresolvedWork(input) ==
  FoldLeft(WorkStep, [spawns |-> <<>>, named |-> {}], input)
    # [spawns |-> <<>>, named |-> {}]
----------------------------------------------------------------------------
(* What the translations must keep *)

(* A history as Codex records it: an id names one item, or a call and its *)
(* output; outputs follow the calls of their turn, each call gets one, and *)
(* nothing that the model or the user says comes between a call and its    *)
(* output.                                                                 *)
CallOf(input, j) == CHOOSE i \in DOMAIN input : input[i].kind = "call" /\ input[i].id = input[j].id
Legal(input) ==
  LET calls == {i \in DOMAIN input : input[i].kind = "call"}
      outputs == {i \in DOMAIN input : input[i].kind = "output"}
  IN /\ \A i, j \in DOMAIN input : input[i].id = input[j].id =>
          i = j \/ {input[i].kind, input[j].kind} = {"call", "output"}
     /\ \A i \in DOMAIN input : input[i].tool = "blank" => input[i].kind = "assistant"
     /\ {input[i].id : i \in calls} = {input[i].id : i \in outputs}
     /\ \A j \in outputs :
          LET i == CallOf(input, j) IN
          /\ i < j
          /\ \A k \in i..j : input[k].kind \notin {"user", "assistant"}
          /\ \A k, l \in i..j : input[k].kind = "output" /\ k < l => input[l].kind # "call"

(* The output of a call comes right after the message with the call, or    *)
(* after other outputs of that message.                                    *)
Paired(messages) ==
  \A i \in DOMAIN messages : messages[i].role = "tool" =>
    \E k \in 1..(i - 1) :
      /\ messages[k].role = "calls"
      /\ messages[i].ids[1] \in ToSet(messages[k].ids)
      /\ \A j \in (k + 1)..(i - 1) : messages[j].role = "tool"

(* A blank text has nothing to keep; reasoning has no place of its own.    *)
Speaks(item) == item.kind \notin {"reasoning", "other"} /\ item.tool # "blank"
Said(items) ==
  FlattenSeq([i \in DOMAIN items |-> IF Speaks(items[i]) THEN <<items[i].id>> ELSE <<>>])
SaidBy(messages, input) ==
  Kept(FlattenSeq([i \in DOMAIN messages |-> messages[i].ids]), ToSet(Said(input)))

(* Where the code does not keep them together: an item between two calls   *)
(* of one turn that yields no message, and reasoning is one unless it is   *)
(* preserved, sends the calls before it, and the calls after it come       *)
(* between those and their outputs.                                        *)
Interrupted(input, preserve) ==
  \E i, k \in DOMAIN input :
    /\ input[i].kind = "call" /\ input[k].kind = "call"
    /\ \A j \in i..k : input[j].kind # "output"
    /\ \E j \in i..k : \/ input[j].kind = "other"
                       \/ input[j].kind = "reasoning" /\ ~preserve

Intact(input, preserve, messages) ==
  Legal(input) =>
    /\ Interrupted(input, preserve) \/ Paired(messages)
    /\ SaidBy(messages, input) = Said(NativeItems(input))
    /\ ToSet(SaidBy(messages, input)) = ToSet(Said(input))
============================================================================
