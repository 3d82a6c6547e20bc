-------------------------- MODULE TransferLifecycle --------------------------
(***************************************************************************)
(* What a connection tab promises of its transfers, without saying how:    *)
(* a job runs only when it was released, one worker at a time runs it,     *)
(* only that worker ends a running job, ended work never runs again unless *)
(* it failed, and a restart runs nothing and loses nothing that was        *)
(* waiting, running or failed.                                             *)
(***************************************************************************)
CONSTANTS Workers, Jobs

VARIABLES
    status,             \* where each job is
    holders             \* the workers that run it

vars == <<status, holders>>

Kept == {"waiting", "working", "failed"}

Move(j, from, to) ==
    /\ status[j] \in from
    /\ status' = [status EXCEPT ![j] = to]

Init ==
    /\ status = [j \in Jobs |-> "none"]
    /\ holders = [j \in Jobs |-> {}]

Submit(j)   == Move(j, {"none"}, "held") /\ UNCHANGED holders
Release(j)  == Move(j, {"held", "failed"}, "waiting") /\ UNCHANGED holders
Hold(j)     == Move(j, {"waiting"}, "held") /\ UNCHANGED holders
Withdraw(j) == Move(j, {"held", "waiting", "failed"}, "cancelled") /\ UNCHANGED holders
Forget(j)   == Move(j, {"done", "failed", "cancelled"}, "none") /\ UNCHANGED holders

Claim(w, j) ==
    /\ Move(j, {"waiting"}, "working")
    /\ \A k \in Jobs : w \notin holders[k]
    /\ holders' = [holders EXCEPT ![j] = {w}]

Settle(w, j) ==
    /\ holders[j] = {w}
    /\ \E s \in {"held", "done", "failed", "cancelled"} : Move(j, {"working"}, s)
    /\ holders' = [holders EXCEPT ![j] = {}]

Restart ==
    /\ status' \in [Jobs -> {"none", "held", "failed"}]
    /\ \A j \in Jobs : status[j] \in Kept => status'[j] # "none"
    /\ holders' = [j \in Jobs |-> {}]

Next ==
    \/ Restart
    \/ \E j \in Jobs :
           \/ Submit(j) \/ Release(j) \/ Hold(j) \/ Withdraw(j) \/ Forget(j)
           \/ \E w \in Workers : Claim(w, j) \/ Settle(w, j)

Spec == Init /\ [][Next]_vars
=============================================================================
