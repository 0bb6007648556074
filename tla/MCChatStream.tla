---------------------------- MODULE MCChatStream ----------------------------
(* ChatStream for TLC: chunks of one kind of payload, and the combinations *)
(* whose order inside a chunk matters.                                     *)
EXTENDS ChatStream

Empty == [reasoning |-> "none", content |-> "none", call |-> "none",
          slot |-> None, finish |-> "none", usage |-> FALSE, observed |-> TRUE]

Call(name, s) == [Empty EXCEPT !.call = name, !.slot = s]

MCShapes ==
  {[Empty EXCEPT !.content = t] :
     t \in {"plain", "element", "unclosed", "prefix"}} \cup
  {[Empty EXCEPT !.reasoning = "small"],
   Call("named", 1),
   [Empty EXCEPT !.usage = TRUE, !.observed = FALSE],
   [Call("named", 2) EXCEPT !.content = "element", !.reasoning = "small"],
   [Call("unnamed", 1) EXCEPT !.reasoning = "repeat", !.finish = "other"],
   [Empty EXCEPT !.reasoning = "block", !.content = "plain",
                 !.finish = "terminal", !.usage = TRUE]}
=============================================================================
