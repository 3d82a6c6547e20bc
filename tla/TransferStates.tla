---------------------------- MODULE TransferStates ----------------------------
(***************************************************************************)
(* The states of a transfer and the transitions between them               *)
(* (src/core/transferQueue.cpp).  The queue, the controller and the user   *)
(* interface all decide by these two functions.                            *)
(***************************************************************************)
ActiveStates    == {"Enumerating", "Running"}
TerminalStates  == {"Completed", "Failed", "Cancelled"}
TransferState   == {"Queued", "Paused"} \cup ActiveStates \cup TerminalStates
TransferControl == {"Continue", "Pause", "Cancel"}

IsTransferTransitionAllowed(from, to) ==
    \/ from = "Queued"      /\ to \in {"Enumerating", "Paused", "Cancelled"}
    \/ from = "Enumerating" /\ to \in {"Running", "Paused", "Failed", "Cancelled"}
    \/ from = "Running"     /\ to \in {"Paused", "Completed", "Failed", "Cancelled"}
    \/ from = "Paused"      /\ to \in {"Queued", "Cancelled"}
    \/ from = "Failed"      /\ to \in {"Queued", "Cancelled"}
=============================================================================
