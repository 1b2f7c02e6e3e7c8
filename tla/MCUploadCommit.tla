--------------------------- MODULE MCUploadCommit ---------------------------
(* Small instances of UploadCommit for TLC.                                *)
EXTENDS UploadCommit, TLC

(* Manifests over the same chunks, so uploads share all they store.        *)
SharedChunks == [o \in Objects |-> Chunks]

Symmetry ==
  Permutations(Workers) \cup Permutations(Paths) \cup Permutations(Objects) \cup Permutations(Chunks)
=============================================================================
