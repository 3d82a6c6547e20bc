-------------------------- MODULE TransferController --------------------------
(***************************************************************************)
(* One connection tab's RemoteController (src/ui/remoteController.cpp):    *)
(* the transfer workers, the requests of the user interface thread, the    *)
(* control map by which they stop a transfer, and the events and queue     *)
(* saves by which the main window learns of it.                            *)
(*                                                                         *)
(* A job is its state in the queue.  Everything between two uses of shared *)
(* state is one action: the queue, control and site mutexes are held only  *)
(* for single statements, so only transferActionMutex, which the interface *)
(* thread keeps across several steps, appears (UiHoldsAction).  What a     *)
(* transfer does to files and servers is left to the result it ends with.  *)
(***************************************************************************)
EXTENDS TransferStates, FiniteSets, Integers

CONSTANTS
    Workers,            \* transferWorkers
    Jobs,               \* job ids
    Limit,              \* TransferRuntime's concurrency limit
    None                \* no job

ASSUME ControllerAssumption ==
    /\ IsFiniteSet(Workers)
    /\ Limit \in 1 .. 16
    /\ None \notin Jobs

VARIABLES
    state,              \* the queue: a job's state, or "absent"
    control,            \* controls; an absent entry reads as "Continue"
    saved,              \* queue.cson: what a restart would restore
    saveFailed,         \* the last save failed
    unposted,           \* jobs changed since the last posted QueueEvent
    eventPending,       \* a QueueEvent waits for the interface thread
    durablePending,     \* ... and one of those waiting asks for a save
    pc,                 \* where each worker is in TransferLoop
    jobOf,              \* the job each worker claimed
    result,             \* the result of ProcessTransfer
    stop,               \* the workers' stop tokens
    enabled,            \* uiDispatch->enabled
    shuttingDown,
    link,               \* site and connectedGeneration
    uiPc,               \* where the interface thread is
    uiJob,              \* the job of the request it is serving
    uiSeen,             \* the state it read at the start of the request
    uiJobs              \* Shutdown: jobs of its snapshot left to pause

queueVars  == <<state, unposted>>
diskVars   == <<saved, saveFailed>>
eventVars  == <<eventPending, durablePending>>
workerVars == <<pc, jobOf, result, stop>>
lifeVars   == <<enabled, shuttingDown, link>>
uiVars     == <<uiPc, uiJob, uiSeen, uiJobs>>
vars == <<queueVars, control, diskVars, eventVars, workerVars, lifeVars, uiVars>>

-----------------------------------------------------------------------------
(* What the queue file keeps of a job: finished and cancelled work is left *)
(* out, all other work that has not failed is restored as paused.          *)
DurableView(s) ==
    CASE s \in {"Queued", "Paused"} \cup ActiveStates -> "unfinished"
      [] s = "Failed" -> "failed"
      [] OTHER -> "gone"

RestoredRunning(v) ==                                              \* mutant
    CASE v = "unfinished" -> "Queued" [] v = "failed" -> "Failed" [] OTHER -> "absent"
RestoredState(v) ==
    CASE v = "unfinished" -> "Paused" [] v = "failed" -> "Failed" [] OTHER -> "absent"

SetState(j, s) ==
    /\ state' = [state EXCEPT ![j] = s]
    /\ unposted' = unposted \cup {j}

(* PostQueue: the snapshot is taken and queued as one ordered operation;   *)
(* Post drops it once the application is shutting down.                    *)
Post(durable) ==
    IF shuttingDown
    THEN UNCHANGED <<eventVars, unposted>>
    ELSE /\ eventPending' = TRUE
         /\ durablePending' = (durablePending \/ durable)
         /\ unposted' = {}

(* MainFrame::PersistTransferQueue, with either outcome.                   *)
SaveSucceeds ==
    /\ saved' = [j \in Jobs |-> DurableView(state[j])]
    /\ saveFailed' = FALSE
SaveFails ==
    /\ saveFailed' = TRUE
    /\ UNCHANGED saved

(* CurrentControl: a request of the user first, else the stop token.       *)
CurrentControl(w) ==
    LET c == control[jobOf[w]]
    IN  IF c # "Continue" THEN c ELSE IF stop[w] THEN "Cancel" ELSE "Continue"

(* transferActionMutex, kept by the interface thread from the first look   *)
(* at a job to the end of its request.                                     *)
UiHoldsAction ==
    uiPc \in {"pauseApply", "pauseQueued", "cancelApply", "cancelQueued", "retryPersist",
              "retryFailed", "retryDialog", "retryActivate", "selfBlocked", "shutPause",
              "shutQueued"}

Leased == {w \in Workers : pc[w] \in {"take", "claimed", "connect", "plan", "running",
                                      "work", "asking", "finalize", "post"}}

-----------------------------------------------------------------------------
(* TransferLoop                                                            *)

HasQueuedTransfer == \E j \in Jobs : state[j] = "Queued"

Goto(w, label) == pc' = [pc EXCEPT ![w] = label]
WorkerOnly == UNCHANGED <<queueVars, control, diskVars, eventVars, lifeVars, uiVars>>

(* The head of the loop and the predicate of transferCv.wait.  A worker    *)
(* that found nothing is not yet a waiter: no lock is shared with the      *)
(* thread that notifies.                                                   *)
CheckQueue(w) ==
    /\ pc[w] = "check"
    /\ Goto(w, IF stop[w] THEN "off" ELSE IF HasQueuedTransfer THEN "lease" ELSE "drowsy")
    /\ UNCHANGED <<jobOf, result, stop>> /\ WorkerOnly

FallAsleep(w) ==
    /\ pc[w] = "drowsy"
    /\ Goto(w, IF stop[w] THEN "check" ELSE "asleep")
    /\ UNCHANGED <<jobOf, result, stop>> /\ WorkerOnly

WakeOnStop(w) ==
    /\ pc[w] = "asleep" /\ stop[w]
    /\ Goto(w, "check")
    /\ UNCHANGED <<jobOf, result, stop>> /\ WorkerOnly

WakeSpuriously(w) ==
    /\ pc[w] = "asleep"
    /\ Goto(w, "check")
    /\ UNCHANGED <<jobOf, result, stop>> /\ WorkerOnly

AcquireTransfer(w) ==
    /\ pc[w] = "lease"
    /\ \/ stop[w] /\ Goto(w, "off")
       \/ ~stop[w] /\ Cardinality(Leased) < Limit /\ Goto(w, "take")
    /\ UNCHANGED <<jobOf, result, stop>> /\ WorkerOnly

(* Which queued job comes first is TransferQueue's matter.                 *)
TakeNext(w) ==
    /\ pc[w] = "take"
    /\ \/ /\ ~HasQueuedTransfer
          /\ Goto(w, "check")
          /\ UNCHANGED <<queueVars, jobOf>>
       \/ \E j \in Jobs :
             /\ state[j] = "Queued"
             /\ SetState(j, "Enumerating")
             /\ jobOf' = [jobOf EXCEPT ![w] = j]
             /\ Goto(w, "claimed")
    /\ UNCHANGED <<control, diskVars, eventVars, result, stop, lifeVars, uiVars>>

PostClaimNothing(w) ==                                             \* mutant
    /\ pc[w] = "claimed" /\ Goto(w, "connect")
    /\ UNCHANGED <<jobOf, result, stop>> /\ WorkerOnly

PostClaim(w) ==
    /\ pc[w] = "claimed"
    /\ Post(FALSE)
    /\ Goto(w, "connect")
    /\ UNCHANGED <<state, control, diskVars, jobOf, result, stop, lifeVars, uiVars>>

EndWith(w, r) ==
    /\ result' = [result EXCEPT ![w] = r]
    /\ Goto(w, "finalize")
    /\ UNCHANGED <<jobOf, stop>> /\ WorkerOnly

(* The session is reused, connects, or does not: the error code of a       *)
(* failed connection is not looked at.                                     *)
Connect(w) ==
    /\ pc[w] = "connect"
    /\ \/ EndWith(w, "failed")
       \/ Goto(w, "plan") /\ UNCHANGED <<jobOf, result, stop>> /\ WorkerOnly

(* ProcessTransfer.  While it plans and works it looks at the control      *)
(* between steps and in every progress callback (CheckJobControl).         *)
ReadControl(w) ==
    /\ pc[w] \in {"plan", "work"}
    /\ CurrentControl(w) # "Continue"
    /\ EndWith(w, IF CurrentControl(w) = "Pause" THEN "paused" ELSE "cancelled")

MarkRunning(w) ==
    /\ pc[w] = "plan"
    /\ SetState(jobOf[w], "Running")
    /\ Goto(w, "running")
    /\ UNCHANGED <<control, diskVars, eventVars, jobOf, result, stop, lifeVars, uiVars>>

PostRunning(w) ==
    /\ pc[w] = "running"
    /\ Post(FALSE)
    /\ Goto(w, "work")
    /\ UNCHANGED <<state, control, diskVars, jobOf, result, stop, lifeVars, uiVars>>

(* A session may succeed after a request arrived: it may have committed    *)
(* its final rename before.                                                *)
FinishWork(w) ==
    \/ pc[w] = "plan" /\ EndWith(w, "failed")
    \/ pc[w] = "work" /\ \E r \in {"ok", "failed"} : EndWith(w, r)

(* InvokeUi, for a conflict question or a save of the queue: refused when  *)
(* the dispatcher is disabled or its generation is over.                   *)
GenerationCurrent == uiPc \notin {"stopTell", "stopJoin"}

Ask(w) ==
    /\ pc[w] = "work"
    /\ IF stop[w] \/ ~enabled \/ ~GenerationCurrent
       THEN EndWith(w, "cancelled")
       ELSE Goto(w, "asking") /\ UNCHANGED <<jobOf, result, stop>> /\ WorkerOnly

AbandonAtExit(w) ==                                                \* mutant
    /\ pc[w] = "asking" /\ stop[w] /\ ~enabled
    /\ EndWith(w, "cancelled")

AbandonAsk(w) ==
    /\ pc[w] = "asking" /\ stop[w]
    /\ EndWith(w, "cancelled")

(* The finalizer, under transferActionMutex.  Success wins, then what the  *)
(* user asked for, then the result; a state set in the meantime stays.  A  *)
(* completed upload also asks the browser thread to list again: its        *)
(* commands are not kept here, and RemoteFiles has the user refresh at any *)
(* time.                                                                   *)
ResultState(r) ==
    CASE r = "ok" -> "Completed"
      [] r \in {"cancelled", "declined"} -> "Cancelled"
      [] r = "paused" -> "Paused"
      [] OTHER -> "Failed"

OutcomeByResult(w) == ResultState(result[w])                       \* mutant

Outcome(w) ==
    IF result[w] = "ok" \/ CurrentControl(w) = "Continue" THEN ResultState(result[w])
    ELSE IF CurrentControl(w) = "Cancel" THEN "Cancelled" ELSE "Paused"

Finalize(w) ==
    LET j == jobOf[w]
    IN  /\ pc[w] = "finalize" /\ ~UiHoldsAction
        /\ IF /\ state[j] \notin {"Paused", "Cancelled"}
              /\ IsTransferTransitionAllowed(state[j], Outcome(w))
           THEN SetState(j, Outcome(w))
           ELSE UNCHANGED queueVars
        /\ jobOf' = [jobOf EXCEPT ![w] = None]
        /\ result' = [result EXCEPT ![w] = "none"]
        /\ Goto(w, "post")
        /\ UNCHANGED <<control, diskVars, eventVars, stop, lifeVars, uiVars>>

PostResultPlainly(w) ==                                            \* mutant
    /\ pc[w] = "post" /\ Post(FALSE) /\ Goto(w, "check")
    /\ UNCHANGED <<state, control, diskVars, jobOf, result, stop, lifeVars, uiVars>>

PostResult(w) ==
    /\ pc[w] = "post"
    /\ Post(TRUE)
    /\ Goto(w, "check")
    /\ UNCHANGED <<state, control, diskVars, jobOf, result, stop, lifeVars, uiVars>>

WorkerStep(w) ==
    \/ CheckQueue(w) \/ FallAsleep(w) \/ WakeOnStop(w)
    \/ AcquireTransfer(w) \/ TakeNext(w) \/ PostClaim(w) \/ Connect(w)
    \/ ReadControl(w) \/ MarkRunning(w) \/ PostRunning(w) \/ FinishWork(w)
    \/ Ask(w) \/ AbandonAsk(w) \/ Finalize(w) \/ PostResult(w)

-----------------------------------------------------------------------------
(* The interface thread: Enqueue                                           *)

Loop(label) == uiPc = "loop" /\ uiPc' = label
UiIdle == uiPc' = "loop" /\ uiJob' = None /\ uiSeen' = "absent" /\ uiJobs' = {}
UiKeeps == UNCHANGED <<uiJob, uiSeen, uiJobs>>

EnqueueAs(j, s) ==
    /\ Loop("enqueuePersist") /\ link # "none"
    /\ state[j] = "absent" /\ saved[j] = "gone"         \* a new id
    /\ SetState(j, s)
    /\ control' = [control EXCEPT ![j] = "Continue"]
    /\ uiJob' = j
    /\ UNCHANGED <<diskVars, eventVars, workerVars, lifeVars, uiSeen, uiJobs>>

EnqueueQueued(j) == EnqueueAs(j, "Queued")                         \* mutant
Enqueue(j) == EnqueueAs(j, "Paused")

(* PersistQueueDirect.  The first failed save is reported in a modal       *)
(* dialog before it returns.                                               *)
PersistNewTransfer ==
    /\ uiPc = "enqueuePersist"
    /\ \/ SaveSucceeds /\ uiPc' = "enqueueActivate"
       \/ SaveFails /\ uiPc' \in {"enqueueFailed", "enqueueDialog"}
    /\ UNCHANGED <<queueVars, control, eventVars, workerVars, lifeVars>> /\ UiKeeps

EnqueueStaysPaused ==
    /\ uiPc \in {"enqueueFailed", "enqueueDialog"}
    /\ control' = [control EXCEPT ![uiJob] = "Pause"]
    /\ Post(FALSE)
    /\ UiIdle
    /\ UNCHANGED <<state, diskVars, workerVars, lifeVars>>

(* TransferQueue::Retry, the end of Enqueue and of Retry.                  *)
Activate ==
    /\ uiPc \in {"enqueueActivate", "retryActivate"}
    /\ IsTransferTransitionAllowed(state[uiJob], "Queued")
    /\ SetState(uiJob, "Queued")
    /\ uiPc' = "notify"
    /\ UNCHANGED <<control, diskVars, eventVars, workerVars, lifeVars>> /\ UiKeeps

(* PostQueue and transferCv.notify_one: one of the workers that wait.      *)
PostAndNotify ==
    /\ uiPc = "notify"
    /\ Post(FALSE)
    /\ \/ \E w \in Workers : pc[w] = "asleep" /\ Goto(w, "check")
       \/ (\A w \in Workers : pc[w] # "asleep") /\ UNCHANGED pc
    /\ UiIdle
    /\ UNCHANGED <<state, control, diskVars, jobOf, result, stop, lifeVars>>

(* Pause, Cancel, Retry: look at the job under transferActionMutex, then   *)
(* act on what was seen.  Workers can claim the job or move it to Running  *)
(* in between; only the finalizer waits.                                   *)
Look(j, label) ==
    /\ Loop(label)
    /\ uiJob' = j /\ uiSeen' = state[j]
    /\ UNCHANGED <<queueVars, control, diskVars, eventVars, workerVars, lifeVars, uiJobs>>

Pause(j) ==
    /\ IsTransferTransitionAllowed(state[j], "Paused")
    /\ control[j] # "Cancel"
    /\ Look(j, "pauseApply")

PauseWhateverItIs(j) == SetState(j, "Paused")                      \* mutant

PauseIfQueued(j) ==
    IF state[j] = "Queued" THEN SetState(j, "Paused") ELSE UNCHANGED queueVars

(* The request is visible in the control map before the queue changes, so  *)
(* a worker may still claim the job, request and all, in between.          *)
PauseApply ==
    /\ uiPc = "pauseApply"
    /\ control' = [control EXCEPT ![uiJob] = "Pause"]
    /\ uiPc' = IF uiSeen = "Queued" THEN "pauseQueued" ELSE "postDurable"
    /\ UNCHANGED <<queueVars, diskVars, eventVars, workerVars, lifeVars>> /\ UiKeeps

(* queue.PauseIfQueued, of Pause and of Shutdown.                          *)
PauseInQueue ==
    /\ uiPc \in {"pauseQueued", "shutQueued"}
    /\ PauseIfQueued(uiJob)
    /\ uiPc' = IF uiPc = "pauseQueued" THEN "postDurable" ELSE "shutPause"
    /\ UNCHANGED <<control, diskVars, eventVars, workerVars, lifeVars>> /\ UiKeeps

Cancel(j) ==
    /\ state[j] # "absent"
    /\ IsTransferTransitionAllowed(state[j], "Cancelled")
    /\ Look(j, "cancelApply")

CancelIfInactive(j) ==
    IF state[j] \in {"Queued", "Paused", "Failed"}
    THEN SetState(j, "Cancelled")
    ELSE UNCHANGED queueVars

CancelApply ==
    /\ uiPc = "cancelApply"
    /\ control' = [control EXCEPT ![uiJob] = "Cancel"]
    /\ uiPc' = IF uiSeen \in ActiveStates THEN "postDurable" ELSE "cancelQueued"
    /\ UNCHANGED <<queueVars, diskVars, eventVars, workerVars, lifeVars>> /\ UiKeeps

CancelInQueue ==
    /\ uiPc = "cancelQueued"
    /\ CancelIfInactive(uiJob)
    /\ uiPc' = "postDurable"
    /\ UNCHANGED <<control, diskVars, eventVars, workerVars, lifeVars>> /\ UiKeeps

RemoveTerminal(j) ==
    /\ Loop("postDurable")
    /\ state[j] \in TerminalStates
    /\ SetState(j, "absent")
    /\ control' = [control EXCEPT ![j] = "Continue"]
    /\ UNCHANGED <<diskVars, eventVars, workerVars, lifeVars>> /\ UiKeeps

PostDurable ==
    /\ uiPc = "postDurable"
    /\ Post(TRUE)
    /\ UiIdle
    /\ UNCHANGED <<state, control, diskVars, workerVars, lifeVars>>

RetryKeepsRequest(j) ==                                            \* mutant
    /\ state[j] \in {"Paused", "Failed"} /\ link = "connected"
    /\ Look(j, "retryPersist")

Retry(j) ==
    /\ IsTransferTransitionAllowed(state[j], "Queued")
    /\ link = "connected"
    /\ Loop("retryPersist")
    /\ control' = [control EXCEPT ![j] = "Continue"]
    /\ uiJob' = j
    /\ UNCHANGED <<queueVars, diskVars, eventVars, workerVars, lifeVars, uiSeen, uiJobs>>

PersistRetry ==
    /\ uiPc = "retryPersist"
    /\ \/ SaveSucceeds /\ uiPc' = "retryActivate"
       \/ SaveFails /\ uiPc' \in {"retryFailed", "retryDialog"}
    /\ UNCHANGED <<queueVars, control, eventVars, workerVars, lifeVars>> /\ UiKeeps

RetryRefused ==
    /\ uiPc \in {"retryFailed", "retryDialog"}
    /\ control' = [control EXCEPT ![uiJob] = "Pause"]
    /\ UiIdle
    /\ UNCHANGED <<queueVars, diskVars, eventVars, workerVars, lifeVars>>

(* A QueueEvent is handled by the event loop, or by the nested loop of a   *)
(* modal dialog.  The handler ends in UpdateQueueActionState, which asks   *)
(* TransferActions about the selected job, which locks transferActionMutex *)
(* (here the job being retried, whose button was pressed).                 *)
HandleQueueEvent ==
    /\ eventPending
    /\ IF uiPc = "retryDialog"
       THEN uiPc' = "selfBlocked" /\ UNCHANGED <<eventVars, diskVars>>
       ELSE /\ uiPc \in {"loop", "enqueueDialog"} /\ UNCHANGED uiPc
            /\ eventPending' = FALSE /\ durablePending' = FALSE
            /\ IF durablePending THEN SaveSucceeds \/ SaveFails ELSE UNCHANGED diskVars
    /\ UNCHANGED <<queueVars, control, workerVars, lifeVars>> /\ UiKeeps

(* The callback of a waiting worker, in any loop that dispatches events.   *)
AnswerWorker(w) ==
    /\ pc[w] = "asking"
    /\ uiPc \in {"loop", "enqueueDialog", "retryDialog"}
    /\ \/ EndWith(w, "declined")
       \/ /\ Goto(w, "work")
          /\ SaveSucceeds \/ SaveFails \/ UNCHANGED diskVars
          /\ UNCHANGED <<queueVars, control, eventVars, jobOf, result, stop, lifeVars, uiVars>>

-----------------------------------------------------------------------------
(* Start, StopWorkers and Shutdown                                         *)

Start ==
    /\ Loop("loop") /\ link = "none"
    /\ pc' = [w \in Workers |-> "check"]
    /\ stop' = [w \in Workers |-> FALSE]
    /\ enabled' = TRUE
    /\ link' = "selected"
    /\ UNCHANGED <<queueVars, control, diskVars, eventVars, jobOf, result, shuttingDown>>
    /\ UiKeeps

(* The browser thread publishes connectedGeneration, and takes it back     *)
(* when its connection fails or is lost; it does not connect again.        *)
BrowserPublishes ==
    /\ \/ link = "selected" /\ GenerationCurrent /\ link' = "connected"
       \/ link \in {"selected", "connected"} /\ link' = "lost"
    /\ UNCHANGED <<queueVars, control, diskVars, eventVars, workerVars, enabled,
                   shuttingDown, uiVars>>

Disconnect ==
    /\ Loop("stopTell") /\ link # "none"
    /\ UNCHANGED <<queueVars, control, diskVars, eventVars, workerVars, lifeVars>>
    /\ UiKeeps

RequestStop(w) ==
    /\ uiPc = "stopTell" /\ ~stop[w] /\ pc[w] # "off"
    /\ stop' = [stop EXCEPT ![w] = TRUE]
    /\ UNCHANGED <<queueVars, control, diskVars, eventVars, pc, jobOf, result, lifeVars,
                   uiVars>>

AllTold ==
    /\ uiPc = "stopTell" /\ \A w \in Workers : stop[w] \/ pc[w] = "off"
    /\ uiPc' = "stopJoin"
    /\ UNCHANGED <<queueVars, control, diskVars, eventVars, workerVars, lifeVars>>
    /\ UiKeeps

JoinWorkers ==
    /\ uiPc = "stopJoin" /\ \A w \in Workers : pc[w] = "off"
    /\ link' = "none"
    /\ uiPc' = IF shuttingDown THEN "exitSave" ELSE "loop"
    /\ UNCHANGED <<queueVars, control, diskVars, eventVars, workerVars, enabled,
                   shuttingDown>>
    /\ UiKeeps

BeginShutdown ==
    /\ Loop("shutLock")
    /\ shuttingDown' = TRUE /\ enabled' = FALSE
    /\ UNCHANGED <<queueVars, control, diskVars, eventVars, workerVars, link>> /\ UiKeeps

LockForShutdown ==
    /\ uiPc = "shutLock" /\ uiPc' = "shutPause"
    /\ uiJobs' = {j \in Jobs : state[j] \in {"Queued"} \cup ActiveStates}
    /\ UNCHANGED <<queueVars, control, diskVars, eventVars, workerVars, lifeVars, uiJob,
                   uiSeen>>

PauseForExit ==
    /\ uiPc = "shutPause"
    /\ \/ \E j \in uiJobs :
             /\ control' = [control EXCEPT ![j] = "Pause"]
             /\ uiJobs' = uiJobs \ {j} /\ uiJob' = j
             /\ uiPc' = "shutQueued"
       \/ /\ uiJobs = {} /\ uiPc' = "stopTell"
          /\ UNCHANGED <<control, uiJob, uiJobs>>
    /\ UNCHANGED <<queueVars, diskVars, eventVars, workerVars, lifeVars, uiSeen>>

(* MainFrame::OnClose saves the queue once the workers are gone.           *)
SaveAtExit ==
    /\ uiPc = "exitSave" /\ uiPc' = "exited"
    /\ SaveSucceeds \/ SaveFails
    /\ UNCHANGED <<queueVars, control, eventVars, workerVars, lifeVars>> /\ UiKeeps

NoJobs == [w \in Workers |-> None]
NoResults == [w \in Workers |-> "none"]
AllOff == [w \in Workers |-> "off"]
NoRequests == [j \in Jobs |-> "Continue"]

Init ==
    /\ state = [j \in Jobs |-> "absent"] /\ control = NoRequests
    /\ saved = [j \in Jobs |-> "gone"] /\ saveFailed = FALSE
    /\ unposted = {} /\ eventPending = FALSE /\ durablePending = FALSE
    /\ pc = AllOff /\ jobOf = NoJobs /\ result = NoResults
    /\ stop = [w \in Workers |-> FALSE]
    /\ enabled = FALSE /\ shuttingDown = FALSE /\ link = "none"
    /\ uiPc = "loop" /\ uiJob = None /\ uiSeen = "absent" /\ uiJobs = {}

(* The process ends, in order or not, and a new one restores the queue.    *)
Restart ==
    /\ state' = [j \in Jobs |-> RestoredState(saved[j])] /\ control' = NoRequests
    /\ saveFailed' = FALSE
    /\ unposted' = {} /\ eventPending' = FALSE /\ durablePending' = FALSE
    /\ pc' = AllOff /\ jobOf' = NoJobs /\ result' = NoResults
    /\ stop' = [w \in Workers |-> FALSE]
    /\ enabled' = FALSE /\ shuttingDown' = FALSE /\ link' = "none"
    /\ UiIdle
    /\ UNCHANGED saved

UserStep ==
    \/ Start \/ Disconnect \/ BeginShutdown
    \/ \E j \in Jobs : \/ Enqueue(j) \/ Pause(j) \/ Cancel(j) \/ Retry(j)
                       \/ RemoveTerminal(j)

(* What the interface thread does without being asked.                     *)
UiStep ==
    \/ PersistNewTransfer \/ EnqueueStaysPaused \/ Activate \/ PostAndNotify
    \/ PauseApply \/ PauseInQueue \/ CancelApply \/ CancelInQueue \/ PostDurable
    \/ PersistRetry \/ RetryRefused \/ HandleQueueEvent
    \/ AllTold \/ JoinWorkers \/ LockForShutdown \/ PauseForExit \/ SaveAtExit
    \/ \E w \in Workers : RequestStop(w)

Next ==
    \/ UserStep \/ UiStep \/ BrowserPublishes \/ Restart
    \/ \E w \in Workers : WorkerStep(w) \/ WakeSpuriously(w) \/ AnswerWorker(w)

Spec == Init /\ [][Next]_vars

(* Threads run; sessions return (they poll their stop token and time out); *)
(* nobody has to press a button, answer a question or crash.               *)
Fairness == WF_vars(UiStep) /\ \A w \in Workers : WF_vars(WorkerStep(w))
FairSpec == Spec /\ Fairness
-----------------------------------------------------------------------------
Places == {"off", "check", "drowsy", "asleep", "lease", "take", "claimed", "connect",
           "plan", "running", "work", "asking", "finalize", "post"}
UiPlaces == {"loop", "enqueuePersist", "enqueueFailed", "enqueueDialog",
             "enqueueActivate", "notify", "pauseApply", "pauseQueued", "cancelApply",
             "cancelQueued", "postDurable", "retryPersist", "retryFailed", "retryDialog",
             "retryActivate", "selfBlocked", "stopTell", "stopJoin", "shutLock",
             "shutPause", "shutQueued", "exitSave", "exited"}
AnyState == TransferState \cup {"absent"}
Results  == {"none", "ok", "paused", "cancelled", "declined", "failed"}

TypeOK ==
    /\ state \in [Jobs -> AnyState]
    /\ control \in [Jobs -> TransferControl]
    /\ saved \in [Jobs -> {"gone", "unfinished", "failed"}]
    /\ saveFailed \in BOOLEAN
    /\ unposted \subseteq Jobs
    /\ eventPending \in BOOLEAN /\ durablePending \in BOOLEAN
    /\ pc \in [Workers -> Places]
    /\ jobOf \in [Workers -> Jobs \cup {None}]
    /\ result \in [Workers -> Results]
    /\ stop \in [Workers -> BOOLEAN]
    /\ enabled \in BOOLEAN /\ shuttingDown \in BOOLEAN
    /\ link \in {"none", "selected", "connected", "lost"}
    /\ uiPc \in UiPlaces /\ uiJob \in Jobs \cup {None}
    /\ uiSeen \in AnyState /\ uiJobs \subseteq Jobs

(* Claims, requests, retries and restarts never leave an active job with   *)
(* no worker, or with two, and a worker never loses the job it works on    *)
(* to somebody else's transition (TakeNext, PauseIfQueued,                 *)
(* CancelIfInactive, the finalizer).                                       *)
OwnedOnce ==
    /\ \A j \in Jobs : state[j] \in ActiveStates <=> \E w \in Workers : jobOf[w] = j
    /\ \A v, w \in Workers : jobOf[v] = jobOf[w] /\ jobOf[v] # None => v = w

(* The interface thread has written a request for the job and is about to  *)
(* carry it into the queue.                                                *)
BeingApplied(j) == uiPc \in {"pauseQueued", "cancelQueued", "shutQueued"} /\ uiJob = j

(* A cancellation the controller accepted holds: whatever pause, failure,  *)
(* claim or stale result arrives around it, once the request is carried    *)
(* out the job is cancelled, or its worker will end it so, or it completed *)
(* when it had already succeeded (Cancel and the finalizer).               *)
CancelHolds ==
    \A j \in Jobs : control[j] = "Cancel" /\ ~BeingApplied(j) =>
        state[j] \in ActiveStates \cup {"Cancelled", "Completed"}

(* Work a worker may claim carries no old request that would stop it at    *)
(* once, except while that request is on its way into the queue (Retry and *)
(* Enqueue clear the control first; Pause, Cancel and Shutdown make the    *)
(* job inert right after their request).                                   *)
QueuedIsWanted ==
    \A j \in Jobs : state[j] = "Queued" /\ ~BeingApplied(j) => control[j] = "Continue"

(* No job is claimable or running before the queue file knows it, so a     *)
(* crash at any moment loses no transfer that may have touched a server    *)
(* (Enqueue: "Keep new work inert until its complete identity has been     *)
(* committed").                                                            *)
InertUntilSaved ==
    \A j \in Jobs : state[j] \in {"Queued"} \cup ActiveStates => saved[j] # "gone"

AtRest ==
    /\ uiPc = "loop" /\ ~shuttingDown
    /\ \A w \in Workers : pc[w] \notin {"claimed", "running", "post"}

(* Whoever changes the queue posts an event after it, and no older         *)
(* snapshot is posted after a newer one: when nobody is between a change   *)
(* and its event, the last event shows the queue as it is (PostQueue).     *)
LastEventCurrent == AtRest => unposted = {}

(* Once the events asking for a save are handled, the queue file tells     *)
(* what a restart should restore, unless the last save failed.             *)
SavedCatchesUp ==
    AtRest /\ ~durablePending /\ ~saveFailed =>
        \A j \in Jobs :
            \/ saved[j] = DurableView(state[j])
            \/ saved[j] = "failed" /\ state[j] \in {"Queued"} \cup ActiveStates

(* Stopping the workers from the interface thread always returns: nobody   *)
(* waits for an answer, a slot, a job or a lock that this thread would     *)
(* have to provide (StopWorkers, InvokeUi, AcquireTransfer).               *)
StopReturns == uiPc = "stopJoin" ~> uiPc # "stopJoin"

(* The controller implements the life of a transfer.                       *)
StatusOf(s) ==
    CASE s = "absent" -> "none"
      [] s = "Paused" -> "held"
      [] s = "Queued" -> "waiting"
      [] s \in ActiveStates -> "working"
      [] s = "Completed" -> "done"
      [] s = "Failed" -> "failed"
      [] s = "Cancelled" -> "cancelled"

Lifecycle == INSTANCE TransferLifecycle WITH
    status <- [j \in Jobs |-> StatusOf(state[j])],
    holders <- [j \in Jobs |-> {w \in Workers : jobOf[w] = j}]

ImplementsLifecycle == Lifecycle!Spec

(* "Save them for later and exit?": leaving the application never cancels  *)
(* a transfer nobody asked to cancel (Shutdown, docs/configuration.md).    *)
ExitCancelsNothing ==
    [][\A j \in Jobs :
          shuttingDown /\ state[j] # "Cancelled" /\ state'[j] = "Cancelled" =>
              \/ control[j] = "Cancel"
              \/ \E w \in Workers : jobOf[w] = j /\ result[w] = "declined"]_vars

(* "Implementations may safely show dialogs": the interface thread never   *)
(* waits for a mutex it holds itself (Retry, PersistQueueDirect).          *)
DialogsAreSafe == uiPc # "selfBlocked"

(* A job retried on a connected tab is claimed, as the controller's tests  *)
(* wait for it to be.                                                      *)
RetriedWorkStarts ==
    \A j \in Jobs :
        state[j] = "Queued" /\ link = "connected" ~>
            state[j] # "Queued" \/ link # "connected"
=============================================================================
