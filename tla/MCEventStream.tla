---------------------------- MODULE MCEventStream ----------------------------
(* Small instances of EventStream for TLC.                                 *)
EXTENDS EventStream, TLC

Symmetry == Permutations(Writers) \cup Permutations(Subs)
=============================================================================
