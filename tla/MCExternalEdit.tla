---------------------------- MODULE MCExternalEdit ----------------------------
(* One file edited, saved twice with the same size.                        *)
EXTENDS ExternalEdit, TLC

MCSizeOf == 0 :> 1 @@ 1 :> 1 @@ 2 :> 1
=============================================================================
