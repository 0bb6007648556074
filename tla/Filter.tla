------------------------------- MODULE Filter -------------------------------
(***************************************************************************)
(* Vec::retain, with the set of elements to keep in place of a predicate,  *)
(* and by way of the library's FlattenSeq: what the definition computes    *)
(* can be proved (Recursion).                                              *)
(***************************************************************************)
EXTENDS SequencesExt

(* The elements of s that are in keep, in their order. *)
Kept(s, keep) ==
  FlattenSeq([i \in DOMAIN s |-> IF s[i] \in keep THEN <<s[i]>> ELSE <<>>])
=============================================================================
