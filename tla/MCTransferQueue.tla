--------------------------- MODULE MCTransferQueue ---------------------------
(* Two interchangeable jobs; up to three destinations in two directories.  *)
EXTENDS TransferQueue, TLC
CONSTANTS a, b, c

MCParentOf == [p \in {a, b, c} |-> IF p = c THEN "other" ELSE "dir"]
MCSymmetry == Permutations(JobIds) \cup Permutations(Paths)
=============================================================================
