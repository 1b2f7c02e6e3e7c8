----------------------------- MODULE MCNamespace -----------------------------
(* Small instances of Namespace and Listing for TLC.                       *)
EXTENDS Listing, TLC

CONSTANTS p1, p2, t1

PathOrder == <<p1, p2>>
OnePath == <<p1>>

Bind(p, absent, r) ==
  [path |-> p, kind |-> "bind", target |-> t1, if_absent |-> absent, if_rev |-> r]
Unbind(p, k, r) ==
  [path |-> p, kind |-> k, target |-> None, if_absent |-> FALSE, if_rev |-> r]

(* Every kind and precondition on the one path, rivals on the other.       *)
AllKinds ==
  {Bind(p1, TRUE, None), Bind(p1, FALSE, 1), Bind(p1, TRUE, 1), Unbind(p1, "tombstone", 1),
   Unbind(p1, "hard", 1), Unbind(p1, "hard", 2), Bind(p2, TRUE, None), Bind(p2, FALSE, 0),
   Unbind(p2, "tombstone", 1)}

Rivals == {Bind(p1, TRUE, None), Bind(p1, FALSE, 1)}

Symmetry == Permutations(Workers)
=============================================================================
