---------------------------- MODULE MCReplayGuard ----------------------------
(* Small instances of ReplayGuard for TLC.                                 *)
EXTENDS ReplayGuard, TLC

(* Requests, instances and idempotency keys are interchangeable.           *)
Symmetry == Permutations(Requests) \cup Permutations(Instances) \cup Permutations(Idems)
=============================================================================
