----------------------------- MODULE MCMultipart -----------------------------
(* Constants of the TLC runs of Multipart.                                 *)
EXTENDS Multipart, TLC

(* Parts of a chunk and a half: chunks cross the boundary of two parts.     *)
PartContents == {<<1, 2, 3>>, <<4, 5, 6>>}

Symmetry == Permutations(Workers)
=============================================================================
