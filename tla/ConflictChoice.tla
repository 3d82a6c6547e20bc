---------------------------- MODULE ConflictChoice ----------------------------
(***************************************************************************)
(* Conflicts of one controller (RemoteController::Impl::                   *)
(* ResolveTransferConflict): workers that meet existing destinations       *)
(* together ask one after the other, and an answer may be meant for every  *)
(* transfer of the queue.                                                  *)
(*                                                                         *)
(* Asking is UiDispatch's: here a question is answered, or cancelled by    *)
(* the stop of its worker.  The queue is TransferQueue's: here a job waits *)
(* for a worker, or to be retried.                                         *)
(***************************************************************************)
EXTENDS Naturals, FiniteSets

CONSTANTS
    Workers, Jobs, Policies,
    None,
    MaxAnswers,         \* bound on the answers of the user
    MaxStarts           \* bound on the connections of the tab

ASSUME ConflictAssumption == None \notin Jobs \cup Policies

VARIABLES
    state,              \* what each job is in the queue
    place,              \* where each worker is in ResolveTransferConflict
    work,               \* its job
    answer,             \* the resolution it was given
    choice,             \* remainingConflictChoice
    halting,            \* whether StopTransfers waits for the workers
    starts, answers,
    promised,           \* history: the policy and jobs of the user's last answer for the queue
    late                \* history: jobs enqueued since that answer was put in force

conflictVars == <<state, place, work, answer, choice, halting, starts, answers, promised, late>>

\* Queued, Enumerating, Running and Paused jobs are told apart by having a worker.
States == {"absent", "waiting", "running", "failed", "completed"}
NoChoice == [policy |-> None, jobIds |-> {}]

ConflictInit ==
    /\ state = [j \in Jobs |-> "absent"]
    /\ place = [w \in Workers |-> "idle"]
    /\ work = [w \in Workers |-> None] /\ answer = [w \in Workers |-> None]
    /\ choice = NoChoice /\ halting = FALSE /\ starts = 0 /\ answers = 0
    /\ promised = NoChoice /\ late = {}

Proceed(w, label) == place' = [place EXCEPT ![w] = label]
Unfinished == {j \in Jobs : state[j] \in {"waiting", "running"}}

-----------------------------------------------------------------------------
(* The queue                                                               *)

Enqueue(j) ==
    /\ state[j] = "absent"
    /\ state' = [state EXCEPT ![j] = "waiting"]
    /\ late' = late \cup {j}
    /\ UNCHANGED <<place, work, answer, choice, halting, starts, answers, promised>>

Retry(j) ==
    /\ state[j] = "failed"
    /\ state' = [state EXCEPT ![j] = "waiting"]
    /\ UNCHANGED <<place, work, answer, choice, halting, starts, answers, promised, late>>

Claim(w, j) ==
    /\ place[w] = "idle" /\ ~halting /\ state[j] = "waiting"
    /\ state' = [state EXCEPT ![j] = "running"]
    /\ work' = [work EXCEPT ![w] = j]
    /\ Proceed(w, "gate")
    /\ UNCHANGED <<answer, choice, halting, starts, answers, promised, late>>

(* RemoveTerminal: the jobs leave the list, then the choice.               *)
RemoveJob(j) ==
    /\ state[j] \in {"failed", "completed"}
    /\ state' = [state EXCEPT ![j] = "absent"]
    /\ choice' = IF choice.jobIds \subseteq {j} THEN NoChoice
                 ELSE [choice EXCEPT !.jobIds = @ \ {j}]
    /\ promised' = [promised EXCEPT !.jobIds = @ \ {j}]
    /\ UNCHANGED <<place, work, answer, halting, starts, answers, late>>

-----------------------------------------------------------------------------
(* ResolveTransferConflict                                                 *)

InGate == {w \in Workers : place[w] \in {"deciding", "asking", "answered"}}

GateAlwaysFree == TRUE                                             \* mutant
GateFree == InGate = {}

(* conflictPromptMutex, tried every 25 ms: a worker whose job is paused or *)
(* cancelled meanwhile, or that is told to stop, gives up (CheckJobControl,*)
(* and under a question only the stop: InvokeUi).                          *)
EnterGate(w) ==
    /\ place[w] = "gate" /\ ~halting /\ GateFree
    /\ Proceed(w, "deciding")
    /\ UNCHANGED <<state, work, answer, choice, halting, starts, answers, promised, late>>

GiveUpGate(w, outcome) ==
    /\ place[w] = "gate" \/ (place[w] = "asking" /\ halting)
    /\ outcome \in {"waiting", "completed"}
    /\ Proceed(w, "idle")
    /\ state' = [state EXCEPT ![work[w]] = outcome]
    /\ work' = [work EXCEPT ![w] = None] /\ answer' = [answer EXCEPT ![w] = None]
    /\ UNCHANGED <<choice, halting, starts, answers, promised, late>>

Resolved(w, policy) ==
    /\ answer' = [answer EXCEPT ![w] = policy]
    /\ Proceed(w, "resolved")

(* The choice is looked up under conflictMutex, by job.                    *)
Decide(w) ==
    /\ place[w] = "deciding"
    /\ \/ work[w] \in choice.jobIds /\ Resolved(w, choice.policy)
       \/ work[w] \notin choice.jobIds /\ Proceed(w, "asking") /\ UNCHANGED answer
    /\ UNCHANGED <<state, work, choice, halting, starts, answers, promised, late>>

(* The user answers, for this file or for the queue.                       *)
Answer(w, policy, applyToRemainingQueue) ==
    /\ place[w] = "asking" /\ answers < MaxAnswers
    /\ answers' = answers + 1
    /\ answer' = [answer EXCEPT ![w] = policy]
    /\ Proceed(w, IF applyToRemainingQueue THEN "answered" ELSE "resolved")
    /\ promised' = IF applyToRemainingQueue THEN [policy |-> policy, jobIds |-> Unfinished]
                   ELSE promised
    /\ UNCHANGED <<state, work, choice, halting, starts, late>>

(* The snapshot of the queue, and then the choice under conflictMutex.     *)
Choose(w) ==
    /\ place[w] = "answered"
    /\ choice' = [policy |-> answer[w], jobIds |-> Unfinished]
    /\ late' = {}
    /\ Proceed(w, "resolved")
    /\ UNCHANGED <<state, work, answer, halting, starts, answers, promised>>

(* The transfer goes on, and meets another file that exists, or ends.      *)
NextFile(w) ==
    /\ place[w] = "resolved" /\ ~halting
    /\ Proceed(w, "gate")
    /\ UNCHANGED <<state, work, answer, choice, halting, starts, answers, promised, late>>

End(w, outcome) ==
    /\ place[w] = "resolved"
    /\ outcome \in IF halting THEN {"waiting", "completed", "failed"} ELSE {"completed", "failed"}
    /\ state' = [state EXCEPT ![work[w]] = outcome]
    /\ work' = [work EXCEPT ![w] = None]
    /\ answer' = [answer EXCEPT ![w] = None]
    /\ promised' = [promised EXCEPT !.jobIds = IF outcome = "failed" THEN @ \ {work[w]} ELSE @]
    /\ Proceed(w, "idle")
    /\ UNCHANGED <<choice, halting, starts, answers, late>>

-----------------------------------------------------------------------------
(* Start stops and joins the workers of the previous connection and resets *)
(* the choice.                                                             *)

StopTransfers ==
    /\ ~halting /\ starts < MaxStarts
    /\ halting' = TRUE /\ starts' = starts + 1
    /\ UNCHANGED <<state, place, work, answer, choice, answers, promised, late>>

Start ==
    /\ halting /\ \A w \in Workers : place[w] = "idle"
    /\ halting' = FALSE
    /\ choice' = NoChoice
    /\ promised' = NoChoice /\ late' = {}
    /\ UNCHANGED <<state, place, work, answer, starts, answers>>

ConflictNext ==
    \/ \E j \in Jobs : Enqueue(j) \/ Retry(j) \/ RemoveJob(j)
    \/ \E w \in Workers :
          \/ \E j \in Jobs : Claim(w, j)
          \/ EnterGate(w) \/ Decide(w) \/ Choose(w) \/ NextFile(w)
          \/ \E policy \in Policies, all \in BOOLEAN : Answer(w, policy, all)
          \/ \E outcome \in States : GiveUpGate(w, outcome) \/ End(w, outcome)
    \/ StopTransfers \/ Start

ConflictSpec == ConflictInit /\ [][ConflictNext]_conflictVars

-----------------------------------------------------------------------------
ConflictTypeOK ==
    /\ state \in [Jobs -> States]
    /\ \A w \in Workers : (work[w] = None) = (place[w] = "idle")
    /\ choice.jobIds \subseteq Jobs /\ Cardinality(InGate) <= 1

(* A user who answered for the queue is not asked again about the          *)
(* transfers it held (until they fail, leave the list, or the next         *)
(* connection), however many workers had met a conflict by then; and       *)
(* nobody is resolved without a question but by the last such answer, and  *)
(* for a transfer that was in the list when it came into force             *)
(* (conflictPromptMutex, remainingConflictChoice).                         *)
AsksOnce ==
    \A w \in Workers : place[w] = "deciding" =>
       /\ place'[w] = "asking" => work[w] \notin promised.jobIds
       /\ place'[w] = "resolved" => answer'[w] = promised.policy /\ work[w] \notin late
AskedOnce == [][ConflictTypeOK' /\ AsksOnce]_conflictVars
=============================================================================
