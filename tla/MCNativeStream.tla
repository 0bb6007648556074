--------------------------- MODULE MCNativeStream ---------------------------
(* NativeStream for TLC: two reasoning identities and the frames that the  *)
(* converter tells apart.                                                  *)
EXTENDS NativeStream

Plain(kind, id, use) ==
  [kind |-> kind, item |-> None, size |-> 0, id |-> id, usage |-> use]

Delta(item, size) ==
  [kind |-> "reasoning", item |-> item, size |-> size, id |-> FALSE,
   usage |-> FALSE]

MCShapes ==
  {Delta(i, n) : i \in Items, n \in {0, 1, FlushChars}} \cup
  {Plain("event", TRUE, TRUE), Plain("event", FALSE, FALSE),
   Plain("comment", FALSE, FALSE), Plain("error", FALSE, FALSE),
   Plain("badutf8", FALSE, FALSE), Plain("completed", TRUE, TRUE),
   Plain("completed", FALSE, FALSE), Plain("incomplete", TRUE, FALSE),
   Plain("malformed", TRUE, FALSE), Plain("nonsuccess", TRUE, FALSE)}
=============================================================================
