---------------------------- MODULE MCObjectLock ----------------------------
(* Constants of the TLC runs of ObjectLock.                                *)
EXTENDS ObjectLock, TLC

Symmetry == Permutations(Workers)

\* The last key of the destination and the first of the source share a record.
SharedKey == [o \in Places |-> IF o = Dst(NKeys) THEN Src(1) ELSE o]
=============================================================================
