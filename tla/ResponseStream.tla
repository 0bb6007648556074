--------------------------- MODULE ResponseStream ---------------------------
(***************************************************************************)
(* What the client of one streamed request is promised, whichever of the   *)
(* two converters of src/src/response_codec.rs produces the stream:        *)
(*                                                                         *)
(*   - what the upstream said arrives in the order it was said, channel by *)
(*     channel, with nothing lost, repeated or invented; only excused      *)
(*     units (tool markup that repeats a native call) may be left out;     *)
(*   - a stream that the proxy itself ends holds nothing back;             *)
(*   - a success is billed and credited to the session, a truncated        *)
(*     response is billed only, a failure neither.                         *)
(*                                                                         *)
(* NativeStream and ChatStream are shown to implement it.                  *)
(***************************************************************************)
EXTENDS Sequences, SequencesExt

CONSTANT
  Channels     \* kinds of payload that are each kept in order

VARIABLES
  excused,     \* channel -> units that may be left out
  shown,       \* channel -> units delivered to the client
  held,        \* channel -> units said but not delivered yet
  outcome,     \* how the stream ended, "open" while it has not
  billed,      \* usage was recorded
  credited     \* the session's model was recorded

vars == <<excused, shown, held, outcome, billed, credited>>

Init ==
  /\ excused = [c \in Channels |-> {}]
  /\ shown = [c \in Channels |-> <<>>]
  /\ held = [c \in Channels |-> <<>>]
  /\ outcome = "open"
  /\ billed = FALSE
  /\ credited = FALSE

Kept(s, left) ==
  FlattenSeq([i \in DOMAIN s |-> IF s[i] \in left THEN <<>> ELSE <<s[i]>>])

Faithful ==
  \A c \in Channels :
    /\ IsPrefix(shown[c], shown'[c])
    /\ excused[c] \subseteq excused'[c]
    /\ IsPrefix(Kept(shown[c] \o held[c], excused'[c]),
                Kept(shown'[c] \o held'[c], excused'[c]))

Accounts ==
  /\ billed => billed'
  /\ credited => credited'
  /\ credited' => billed'

(* The upstream says something, or the client is told something. *)
Speak ==
  /\ outcome = "open" /\ outcome' = "open"
  /\ Faithful
  /\ Accounts

(* The proxy ends the stream. *)
Close ==
  /\ outcome = "open"
  /\ \/ outcome' = "success" /\ billed' /\ credited'
     \/ outcome' = "partial" /\ billed' /\ ~credited'
     \/ outcome' \in {"failure", "broken"} /\ ~billed' /\ ~credited'
  /\ Faithful
  /\ Accounts
  /\ \A c \in Channels : held'[c] = <<>>

(* The client goes away, at any point; what it was not shown is gone. *)
Leave ==
  /\ outcome = "open" /\ outcome' = "gone"
  /\ UNCHANGED <<excused, shown, billed, credited>>

Next == Speak \/ Close \/ Leave

Spec == Init /\ [][Next]_vars
=============================================================================
