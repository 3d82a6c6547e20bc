------------------------ MODULE MCTransferController ------------------------
(* Workers are interchangeable, and so are jobs.                           *)
EXTENDS TransferController, TLC

MCSymmetry == Permutations(Workers) \cup Permutations(Jobs)
=============================================================================
