------------------------------- MODULE MCEdge --------------------------------
(* Constants of the TLC runs of Edge.                                      *)
EXTENDS Edge, TLC

(* Two versions, of three and of two bytes in two chunks each.             *)
TwoVersions == <<<<<<1, 2>>, <<3>>>>, <<<<4>>, <<5>>>>>>

(* Bytes 1 and 2: across the chunks of the first, beyond the second.       *)
OneRange == {[start |-> 1, end |-> 2]}

Symmetry == Permutations(Readers)
=============================================================================
