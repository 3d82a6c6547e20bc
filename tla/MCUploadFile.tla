----------------------------- MODULE MCUploadFile -----------------------------
(* One upload that saves an external edit and one that does not, to the    *)
(* same destination.                                                       *)
EXTENDS UploadFile, TLC
=============================================================================
