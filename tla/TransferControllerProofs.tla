----------------------- MODULE TransferControllerProofs -----------------------
(***************************************************************************)
(* Proofs about TransferController for any number of workers and jobs.     *)
(*                                                                         *)
(* The inductive invariant adds to the safety properties where each worker *)
(* is with its job (Working) and what the interface thread may rely on     *)
(* between two steps of a request (Requesting): a job it looked at under   *)
(* transferActionMutex can at most be claimed or move to Running.          *)
(***************************************************************************)
EXTENDS TransferController, TLAPS

Live == {"Queued"} \cup ActiveStates

WorkingAt(w) ==
    /\ pc[w] \in {"claimed", "connect", "plan"} =>
           jobOf[w] \in Jobs /\ state[jobOf[w]] = "Enumerating"
    /\ pc[w] \in {"running", "work", "asking"} =>
           jobOf[w] \in Jobs /\ state[jobOf[w]] = "Running"
    /\ pc[w] = "finalize" =>
           /\ jobOf[w] \in Jobs /\ state[jobOf[w]] \in ActiveStates
           /\ result[w] = "ok" => state[jobOf[w]] = "Running"
    /\ pc[w] \in {"off", "check", "drowsy", "asleep", "lease", "take", "post"} =>
           jobOf[w] = None

Working == \A w \in Workers : WorkingAt(w)

(* Workers exist only while a site is selected.                            *)
StoppedWithoutSite == link = "none" => \A w \in Workers : pc[w] = "off"

Requesting ==
    /\ uiPc \in {"pauseApply", "cancelApply"} =>
           /\ uiJob \in Jobs
           /\ uiSeen \in ActiveStates => state[uiJob] \in ActiveStates
           /\ uiSeen = "Queued" => state[uiJob] \in Live
           /\ uiSeen \in {"Paused", "Failed"} => state[uiJob] = uiSeen
    /\ uiPc = "pauseApply" => uiSeen \in Live
    /\ uiPc = "cancelApply" => uiSeen \in Live \cup {"Paused", "Failed"}
    /\ uiPc \in {"pauseQueued", "shutQueued"} =>
           uiJob \in Jobs /\ control[uiJob] = "Pause"
    /\ uiPc = "cancelQueued" =>
           uiJob \in Jobs /\ state[uiJob] \in Live \cup {"Paused", "Failed"}
    /\ uiPc \in {"enqueuePersist", "enqueueFailed", "enqueueDialog", "enqueueActivate"} =>
           uiJob \in Jobs /\ state[uiJob] = "Paused"
    /\ uiPc \in {"retryPersist", "retryFailed", "retryDialog", "retryActivate"} =>
           uiJob \in Jobs /\ state[uiJob] \in {"Paused", "Failed"}
    /\ uiPc \in {"enqueuePersist", "enqueueActivate", "retryPersist", "retryActivate"} =>
           control[uiJob] = "Continue"
    /\ uiPc \in {"enqueueActivate", "retryActivate"} => saved[uiJob] # "gone"

(* The queue file knows the live jobs and the failed ones: a failed job    *)
(* was live, and saves keep it until it is removed.                        *)
Kept == Live \cup {"Failed"}
NothingForgotten == \A j \in Jobs : state[j] \in Kept => saved[j] # "gone"

(* The inductive invariant.                                                *)
IInv ==
    /\ TypeOK
    /\ OwnedOnce /\ Working /\ StoppedWithoutSite
    /\ Requesting
    /\ CancelHolds /\ QueuedIsWanted
    /\ NothingForgotten

-----------------------------------------------------------------------------
(* The inductive invariant holds initially.                                *)
THEOREM InitIInv == Init => IInv
  <1> SUFFICES ASSUME Init PROVE IInv
    OBVIOUS
  <1>1. TypeOK
    BY DEF Init, TypeOK, NoRequests, AllOff, NoJobs, NoResults, TransferControl,
           Places, UiPlaces, AnyState, Results
  <1>2. OwnedOnce /\ Working /\ StoppedWithoutSite
    BY ControllerAssumption
       DEF Init, OwnedOnce, Working, WorkingAt, StoppedWithoutSite, NoJobs, AllOff, ActiveStates, ControllerAssumption
  <1>3. Requesting
    BY DEF Init, Requesting
  <1>4. CancelHolds /\ QueuedIsWanted /\ NothingForgotten
    BY DEF Init, CancelHolds, QueuedIsWanted, BeingApplied, NothingForgotten, NoRequests, Kept, Live,
           ActiveStates
  <1> QED BY <1>1, <1>2, <1>3, <1>4 DEF IInv

(* What the shared helpers leave in the variables they write.              *)
LEMMA SetStateTypes ==
    ASSUME TypeOK, NEW j \in Jobs, NEW s \in AnyState, SetState(j, s)
    PROVE  state' \in [Jobs -> AnyState] /\ unposted' \subseteq Jobs
  BY DEF TypeOK, SetState

LEMMA PostTypes ==
    ASSUME TypeOK, NEW durable \in BOOLEAN, Post(durable)
    PROVE  /\ unposted' \subseteq Jobs
           /\ eventPending' \in BOOLEAN /\ durablePending' \in BOOLEAN
  <1>1. CASE shuttingDown
    BY <1>1 DEF TypeOK, Post, eventVars
  <1>2. CASE ~shuttingDown
    <2>1. (durablePending \/ durable) \in BOOLEAN
      OBVIOUS
    <2> QED BY <1>2, <2>1 DEF TypeOK, Post
  <1> QED BY <1>1, <1>2

LEMMA DurableViewType ==
    \A s \in AnyState : DurableView(s) \in {"gone", "unfinished", "failed"}
  BY DEF DurableView, AnyState, TransferState, ActiveStates, TerminalStates

LEMMA SaveTypes ==
    ASSUME TypeOK, SaveSucceeds \/ SaveFails \/ UNCHANGED diskVars
    PROVE  saved' \in [Jobs -> {"gone", "unfinished", "failed"}] /\ saveFailed' \in BOOLEAN
  <1>1. CASE SaveSucceeds
    <2>1. \A j \in Jobs : DurableView(state[j]) \in {"gone", "unfinished", "failed"}
      BY DurableViewType DEF TypeOK
    <2> QED BY <1>1, <2>1 DEF SaveSucceeds
  <1>2. CASE SaveFails
    BY <1>2 DEF SaveFails, TypeOK
  <1>3. CASE UNCHANGED diskVars
    BY <1>3 DEF diskVars, TypeOK
  <1> QED BY <1>1, <1>2, <1>3

(* Every action keeps the types.                                           *)
LEMMA TypingStep == ASSUME TypeOK, Working, Requesting, [Next]_vars PROVE TypeOK'
  <1> USE DEF TypeOK, queueVars, diskVars, eventVars, workerVars, lifeVars, uiVars
  <1> USE DEF AnyState, TransferState, TransferControl, ActiveStates, TerminalStates, Places,
          UiPlaces, Results
  <1>1. ASSUME NEW w \in Workers, CheckQueue(w) PROVE TypeOK'
    BY <1>1 DEF CheckQueue, WorkerOnly, Goto
  <1>2. ASSUME NEW w \in Workers, FallAsleep(w) PROVE TypeOK'
    BY <1>2 DEF FallAsleep, WorkerOnly, Goto
  <1>3. ASSUME NEW w \in Workers, WakeOnStop(w) PROVE TypeOK'
    BY <1>3 DEF WakeOnStop, WorkerOnly, Goto
  <1>4. ASSUME NEW w \in Workers, WakeSpuriously(w) PROVE TypeOK'
    BY <1>4 DEF WakeSpuriously, WorkerOnly, Goto
  <1>5. ASSUME NEW w \in Workers, AcquireTransfer(w) PROVE TypeOK'
    BY <1>5 DEF AcquireTransfer, WorkerOnly, Goto
  <1>6. ASSUME NEW w \in Workers, TakeNext(w) PROVE TypeOK'
    BY <1>6 DEF TakeNext, SetState, Goto
  <1>7. ASSUME NEW w \in Workers, PostClaim(w) PROVE TypeOK'
    <2>1. Post(FALSE)
      BY <1>7 DEF PostClaim
    <2>2. unposted' \subseteq Jobs /\ eventPending' \in BOOLEAN /\ durablePending' \in BOOLEAN
      BY <2>1, PostTypes
    <2>3. /\ pc' \in [Workers -> Places]
          /\ UNCHANGED <<state, control, diskVars, jobOf, result, stop, lifeVars, uiVars>>
      BY <1>7 DEF PostClaim, Goto
    <2> QED BY <2>2, <2>3
  <1>8. ASSUME NEW w \in Workers, Connect(w) PROVE TypeOK'
    BY <1>8 DEF Connect, EndWith, WorkerOnly, Goto
  <1>9. ASSUME NEW w \in Workers, ReadControl(w) PROVE TypeOK'
    BY <1>9 DEF ReadControl, EndWith, WorkerOnly, Goto
  <1>10. ASSUME NEW w \in Workers, MarkRunning(w) PROVE TypeOK'
    <2>1. jobOf[w] \in Jobs /\ SetState(jobOf[w], "Running")
      BY <1>10 DEF MarkRunning, Working, WorkingAt
    <2> QED BY <1>10, <2>1, SetStateTypes DEF MarkRunning, Goto
  <1>11. ASSUME NEW w \in Workers, PostRunning(w) PROVE TypeOK'
    <2>1. Post(FALSE)
      BY <1>11 DEF PostRunning
    <2>2. unposted' \subseteq Jobs /\ eventPending' \in BOOLEAN /\ durablePending' \in BOOLEAN
      BY <2>1, PostTypes
    <2>3. /\ pc' \in [Workers -> Places]
          /\ UNCHANGED <<state, control, diskVars, jobOf, result, stop, lifeVars, uiVars>>
      BY <1>11 DEF PostRunning, Goto
    <2> QED BY <2>2, <2>3
  <1>12. ASSUME NEW w \in Workers, FinishWork(w) PROVE TypeOK'
    BY <1>12 DEF FinishWork, EndWith, WorkerOnly, Goto
  <1>13. ASSUME NEW w \in Workers, Ask(w) PROVE TypeOK'
    BY <1>13 DEF Ask, EndWith, WorkerOnly, Goto
  <1>14. ASSUME NEW w \in Workers, AbandonAsk(w) PROVE TypeOK'
    BY <1>14 DEF AbandonAsk, EndWith, WorkerOnly, Goto
  <1>15. ASSUME NEW w \in Workers, Finalize(w) PROVE TypeOK'
    <2>1. jobOf[w] \in Jobs /\ Outcome(w) \in AnyState
      BY <1>15 DEF Finalize, Working, WorkingAt, Outcome, ResultState
    <2>2. SetState(jobOf[w], Outcome(w)) \/ UNCHANGED queueVars
      BY <1>15 DEF Finalize
    <2>3. state' \in [Jobs -> AnyState] /\ unposted' \subseteq Jobs
      BY <2>1, <2>2, SetStateTypes
    <2> QED BY <1>15, <2>3 DEF Finalize, Goto
  <1>16. ASSUME NEW w \in Workers, PostResult(w) PROVE TypeOK'
    <2>1. Post(TRUE)
      BY <1>16 DEF PostResult
    <2>2. unposted' \subseteq Jobs /\ eventPending' \in BOOLEAN /\ durablePending' \in BOOLEAN
      BY <2>1, PostTypes
    <2>3. /\ pc' \in [Workers -> Places]
          /\ UNCHANGED <<state, control, diskVars, jobOf, result, stop, lifeVars, uiVars>>
      BY <1>16 DEF PostResult, Goto
    <2> QED BY <2>2, <2>3
  <1>17. ASSUME NEW w \in Workers, AnswerWorker(w) PROVE TypeOK'
    <2>1. CASE EndWith(w, "declined")
      BY <2>1 DEF EndWith, WorkerOnly, Goto
    <2>2. CASE Goto(w, "work") /\ UNCHANGED <<queueVars, control, eventVars, jobOf, result,
                                              stop, lifeVars, uiVars>>
               /\ (SaveSucceeds \/ SaveFails \/ UNCHANGED diskVars)
      BY <2>2, SaveTypes DEF Goto
    <2> QED BY <1>17, <2>1, <2>2 DEF AnswerWorker
  <1>18. ASSUME NEW w \in Workers, RequestStop(w) PROVE TypeOK'
    BY <1>18 DEF RequestStop
  <1>19. ASSUME NEW j \in Jobs, Enqueue(j) PROVE TypeOK'
    BY <1>19 DEF Enqueue, EnqueueAs, Loop, SetState
  <1>20. ASSUME NEW j \in Jobs, Pause(j) PROVE TypeOK'
    BY <1>20 DEF Pause, Look, Loop
  <1>21. ASSUME NEW j \in Jobs, Cancel(j) PROVE TypeOK'
    BY <1>21 DEF Cancel, Look, Loop
  <1>22. ASSUME NEW j \in Jobs, Retry(j) PROVE TypeOK'
    BY <1>22 DEF Retry, Loop
  <1>23. ASSUME NEW j \in Jobs, RemoveTerminal(j) PROVE TypeOK'
    BY <1>23 DEF RemoveTerminal, Loop, SetState, UiKeeps
  <1>24. CASE PersistNewTransfer
    <2>1. SaveSucceeds \/ SaveFails
      BY <1>24 DEF PersistNewTransfer
    <2> QED BY <1>24, <2>1, SaveTypes DEF PersistNewTransfer, UiKeeps
  <1>25. CASE EnqueueStaysPaused
    BY <1>25 DEF EnqueueStaysPaused, Post, UiIdle
  <1>26. CASE Activate
    <2>1. uiJob \in Jobs /\ SetState(uiJob, "Queued")
      BY <1>26 DEF Activate, Requesting
    <2> QED BY <1>26, <2>1, SetStateTypes DEF Activate, UiKeeps
  <1>27. CASE PostAndNotify
    BY <1>27, ZenonT(30) DEF PostAndNotify, Post, Goto, UiIdle
  <1>28. CASE PauseApply \/ CancelApply
    BY <1>28 DEF PauseApply, CancelApply, UiKeeps
  <1>29. CASE PauseInQueue \/ CancelInQueue
    <2>1. /\ uiJob \in Jobs
          /\ \/ SetState(uiJob, "Paused") \/ SetState(uiJob, "Cancelled")
             \/ UNCHANGED queueVars
      BY <1>29 DEF PauseInQueue, PauseIfQueued, CancelInQueue, CancelIfInactive, Requesting
    <2>2. state' \in [Jobs -> AnyState] /\ unposted' \subseteq Jobs
      BY <2>1, SetStateTypes
    <2>3. /\ uiPc' \in {"postDurable", "shutPause"}
          /\ UNCHANGED <<control, diskVars, eventVars, workerVars, lifeVars>> /\ UiKeeps
      BY <1>29 DEF PauseInQueue, CancelInQueue
    <2> QED BY <2>2, <2>3 DEF UiKeeps
  <1>30. CASE PostDurable
    BY <1>30 DEF PostDurable, Post, UiIdle
  <1>31. CASE PersistRetry
    <2>1. SaveSucceeds \/ SaveFails
      BY <1>31 DEF PersistRetry
    <2> QED BY <1>31, <2>1, SaveTypes DEF PersistRetry, UiKeeps
  <1>32. CASE RetryRefused
    BY <1>32 DEF RetryRefused, UiIdle
  <1>33. CASE HandleQueueEvent
    <2>1. SaveSucceeds \/ SaveFails \/ UNCHANGED diskVars
      BY <1>33 DEF HandleQueueEvent
    <2>2. saved' \in [Jobs -> {"gone", "unfinished", "failed"}] /\ saveFailed' \in BOOLEAN
      BY <2>1, SaveTypes
    <2>3. /\ eventPending' \in BOOLEAN /\ durablePending' \in BOOLEAN /\ uiPc' \in UiPlaces
          /\ UNCHANGED <<queueVars, control, workerVars, lifeVars>> /\ UiKeeps
      BY <1>33 DEF HandleQueueEvent
    <2> QED BY <2>2, <2>3 DEF UiKeeps
  <1>34. CASE AllTold
    BY <1>34 DEF AllTold, UiKeeps
  <1>35. CASE JoinWorkers
    BY <1>35 DEF JoinWorkers, UiKeeps
  <1>36. CASE LockForShutdown
    BY <1>36 DEF LockForShutdown
  <1>37. CASE PauseForExit
    BY <1>37 DEF PauseForExit
  <1>38. CASE SaveAtExit
    <2>1. SaveSucceeds \/ SaveFails
      BY <1>38 DEF SaveAtExit
    <2> QED BY <1>38, <2>1, SaveTypes DEF SaveAtExit, UiKeeps
  <1>39. CASE Start
    BY <1>39 DEF Start, Loop, UiKeeps
  <1>40. CASE Disconnect
    BY <1>40 DEF Disconnect, Loop, UiKeeps
  <1>41. CASE BeginShutdown
    BY <1>41, ZenonT(30) DEF BeginShutdown, Loop, UiKeeps
  <1>42. CASE BrowserPublishes
    BY <1>42 DEF BrowserPublishes
  <1>43. CASE Restart
    BY <1>43 DEF Restart, UiIdle, RestoredState, NoRequests, AllOff, NoJobs,
        NoResults
  <1>44. CASE UNCHANGED vars
    BY <1>44 DEF vars
  <1> QED
    BY <1>1, <1>2, <1>3, <1>4, <1>5, <1>6, <1>7, <1>8, <1>9, <1>10, <1>11,
       <1>12, <1>13, <1>14, <1>15, <1>16, <1>17, <1>18, <1>19, <1>20, <1>21,
       <1>22, <1>23, <1>24, <1>25, <1>26, <1>27, <1>28, <1>29, <1>30, <1>31,
       <1>32, <1>33, <1>34, <1>35, <1>36, <1>37, <1>38, <1>39, <1>40, <1>41,
       <1>42, <1>43, <1>44
       DEF Next, UserStep, UiStep, WorkerStep

(* The worker's steps that touch neither the queue nor a request.          *)
Quiet(w) ==
    \/ CheckQueue(w) \/ FallAsleep(w) \/ WakeOnStop(w) \/ WakeSpuriously(w)
    \/ AcquireTransfer(w) \/ PostClaim(w) \/ Connect(w) \/ ReadControl(w)
    \/ PostRunning(w) \/ FinishWork(w) \/ Ask(w) \/ AbandonAsk(w) \/ PostResult(w)

LEMMA QuietKeeps ==
    ASSUME NEW w \in Workers, Quiet(w)
    PROVE  UNCHANGED <<state, control, saved, jobOf, uiPc, uiJob, uiSeen>>
  BY DEF Quiet, CheckQueue, FallAsleep, WakeOnStop, WakeSpuriously, AcquireTransfer,
         PostClaim, Connect, ReadControl, PostRunning, FinishWork, Ask, AbandonAsk,
         PostResult, EndWith, WorkerOnly, queueVars, diskVars, uiVars

(* A quiet step moves one worker, within the places where it has its job   *)
(* in the same state.                                                      *)
LEMMA QuietMoves ==
    ASSUME TypeOK, Working, NEW w \in Workers, Quiet(w)
    PROVE  Working'
  <1> USE DEF TypeOK
  <1>1. UNCHANGED <<state, jobOf>>
    BY QuietKeeps
  <1>2. \A v \in Workers : v # w => pc'[v] = pc[v] /\ result'[v] = result[v]
    BY DEF Quiet, CheckQueue, FallAsleep, WakeOnStop, WakeSpuriously, AcquireTransfer,
         PostClaim, Connect, ReadControl, PostRunning, FinishWork, Ask, AbandonAsk,
         PostResult, EndWith, Goto, WorkerOnly
  <1>3. WorkingAt(w)
    BY DEF Working
  <1>4. WorkingAt(w)'
    <2> USE <1>1, <1>3 DEF WorkingAt, Goto, EndWith, ActiveStates
    <2>1. CASE CheckQueue(w) \/ FallAsleep(w) \/ WakeOnStop(w) \/ WakeSpuriously(w)
      BY <2>1 DEF CheckQueue, FallAsleep, WakeOnStop, WakeSpuriously
    <2>2. CASE AcquireTransfer(w)
      BY <2>2 DEF AcquireTransfer
    <2>3. CASE PostClaim(w) \/ PostRunning(w) \/ PostResult(w)
      BY <2>3 DEF PostClaim, PostRunning, PostResult
    <2>4. CASE Connect(w)
      BY <2>4 DEF Connect
    <2>5. CASE ReadControl(w)
      BY <2>5 DEF ReadControl
    <2>6. CASE FinishWork(w)
      BY <2>6 DEF FinishWork
    <2>7. CASE Ask(w) \/ AbandonAsk(w)
      BY <2>7 DEF Ask, AbandonAsk
    <2> QED BY <2>1, <2>2, <2>3, <2>4, <2>5, <2>6, <2>7 DEF Quiet
  <1>5. \A v \in Workers : v # w => WorkingAt(v)'
    BY <1>1, <1>2 DEF Working, WorkingAt
  <1> QED BY <1>4, <1>5 DEF Working

(* The interface thread's transitions never touch a job that works.        *)
LEMMA OthersKeepOwnership ==
    ASSUME TypeOK, OwnedOnce, Working,
           UNCHANGED <<pc, jobOf, result>>,
           \A j \in Jobs : \/ state'[j] = state[j]
                           \/ state[j] \notin ActiveStates /\ state'[j] \notin ActiveStates
    PROVE  OwnedOnce' /\ Working'
  <1>1. OwnedOnce'
    BY DEF OwnedOnce
  <1>2. \A w \in Workers : WorkingAt(w)'
    <2> TAKE w \in Workers
    <2>1. WorkingAt(w)
      BY DEF Working
    <2>2. jobOf[w] \in Jobs /\ state[jobOf[w]] \in ActiveStates =>
             state'[jobOf[w]] = state[jobOf[w]]
      OBVIOUS
    <2> QED BY <2>1, <2>2 DEF WorkingAt, ActiveStates
  <1> QED BY <1>1, <1>2 DEF Working

(* Ownership.                                                              *)
LEMMA OwnershipStep ==
    ASSUME TypeOK, OwnedOnce, Working, StoppedWithoutSite, Requesting, [Next]_vars
    PROVE  OwnedOnce' /\ Working'
  <1> USE DEF TypeOK, queueVars, diskVars, eventVars, workerVars, lifeVars, uiVars
  <1>1. ASSUME NEW w \in Workers, Quiet(w) PROVE OwnedOnce' /\ Working'
    <2>1. UNCHANGED <<state, jobOf>>
      BY <1>1, QuietKeeps
    <2> QED BY <1>1, <2>1, QuietMoves DEF OwnedOnce
  <1>2. ASSUME NEW w \in Workers, TakeNext(w) PROVE OwnedOnce' /\ Working'
    <2>1. CASE Goto(w, "check") /\ UNCHANGED <<state, jobOf, result>>
      BY <1>2, <2>1 DEF TakeNext, Goto, OwnedOnce, Working, WorkingAt
    <2>2. ASSUME NEW j \in Jobs, state[j] = "Queued", SetState(j, "Enumerating"),
                 jobOf' = [jobOf EXCEPT ![w] = j], Goto(w, "claimed")
          PROVE  OwnedOnce' /\ Working'
      <3>1. \A v \in Workers : jobOf[v] # j
        BY <2>2 DEF OwnedOnce, ActiveStates
      <3>2. jobOf[w] = None /\ j # None
        BY <1>2, ControllerAssumption DEF TakeNext, Working, WorkingAt, ControllerAssumption
      <3>3. /\ state'[j] \in ActiveStates /\ \A i \in Jobs : i # j => state'[i] = state[i]
            /\ jobOf'[w] = j /\ \A v \in Workers : v # w => jobOf'[v] = jobOf[v]
        BY <2>2 DEF SetState, ActiveStates
      <3>4. OwnedOnce'
        <4>1. \A i \in Jobs : state'[i] \in ActiveStates <=> \E v \in Workers : jobOf'[v] = i
          <5> TAKE i \in Jobs
          <5>1. CASE i = j
            BY <5>1, <3>3
          <5>2. CASE i # j
            <6>1. i # None
              BY ControllerAssumption DEF ControllerAssumption
            <6> QED BY <5>2, <6>1, <3>2, <3>3 DEF OwnedOnce
          <5> QED BY <5>1, <5>2
        <4>2. \A u, v \in Workers : jobOf'[u] = jobOf'[v] /\ jobOf'[u] # None => u = v
          BY <3>1, <3>3 DEF OwnedOnce
        <4> QED BY <4>1, <4>2 DEF OwnedOnce
      <3>5. Working'
        BY <1>2, <2>2, <3>1 DEF TakeNext, Working, WorkingAt, SetState, Goto, ActiveStates
      <3> QED BY <3>4, <3>5
    <2> QED BY <1>2, <2>1, <2>2 DEF TakeNext
  <1>3. ASSUME NEW w \in Workers, MarkRunning(w) PROVE OwnedOnce' /\ Working'
    <2>1. jobOf[w] \in Jobs /\ state[jobOf[w]] = "Enumerating" /\ jobOf[w] # None
      BY <1>3, ControllerAssumption
         DEF MarkRunning, Working, WorkingAt, ControllerAssumption
    <2>2. \A v \in Workers : v # w => jobOf[v] # jobOf[w]
      BY <2>1 DEF OwnedOnce
    <2>3. OwnedOnce'
      BY <1>3, <2>1 DEF MarkRunning, SetState, OwnedOnce, ActiveStates
    <2>4. Working'
      BY <1>3, <2>1, <2>2 DEF MarkRunning, SetState, Goto, Working, WorkingAt, ActiveStates
    <2> QED BY <2>3, <2>4
  <1>4. ASSUME NEW w \in Workers, Finalize(w) PROVE OwnedOnce' /\ Working'
    <2> DEFINE j == jobOf[w]
    <2>1. /\ j \in Jobs /\ j # None /\ state[j] \in ActiveStates
          /\ result[w] = "ok" => state[j] = "Running"
      BY <1>4, ControllerAssumption DEF Finalize, Working, WorkingAt, ControllerAssumption
    <2>2. \A v \in Workers : v # w => jobOf[v] # j
      BY <2>1 DEF OwnedOnce
    <2>3. /\ Outcome(w) \in {"Completed", "Cancelled", "Paused", "Failed"}
          /\ Outcome(w) = "Completed" => result[w] = "ok"
      BY DEF Outcome, ResultState
    <2>4. SetState(j, Outcome(w))
      BY <1>4, <2>1, <2>3 DEF Finalize, IsTransferTransitionAllowed, ActiveStates
    <2>5. state'[j] \notin ActiveStates /\ \A i \in Jobs : i # j => state'[i] = state[i]
      BY <2>1, <2>3, <2>4 DEF SetState, ActiveStates
    <2>6. jobOf' = [jobOf EXCEPT ![w] = None] /\ Goto(w, "post")
          /\ result' = [result EXCEPT ![w] = "none"]
      BY <1>4 DEF Finalize
    <2>7. OwnedOnce'
      <3>1. jobOf'[w] = None /\ \A v \in Workers : v # w => jobOf'[v] = jobOf[v]
        BY <2>6
      <3>2. \A i \in Jobs : state'[i] \in ActiveStates <=> \E v \in Workers : jobOf'[v] = i
        <4> TAKE i \in Jobs
        <4>1. CASE i = j
          BY <4>1, <3>1, <2>1, <2>2, <2>5
        <4>2. CASE i # j
          <5>1. i # None
            BY ControllerAssumption DEF ControllerAssumption
          <5> QED BY <4>2, <5>1, <3>1, <2>5 DEF OwnedOnce
        <4> QED BY <4>1, <4>2
      <3>3. \A u, v \in Workers : jobOf'[u] = jobOf'[v] /\ jobOf'[u] # None => u = v
        BY <3>1 DEF OwnedOnce
      <3> QED BY <3>2, <3>3 DEF OwnedOnce
    <2>8. Working'
      BY <2>2, <2>5, <2>6 DEF Working, WorkingAt, Goto
    <2> QED BY <2>7, <2>8
  <1>5. ASSUME NEW w \in Workers, AnswerWorker(w) PROVE OwnedOnce' /\ Working'
    <2>1. UNCHANGED <<state, jobOf>>
      BY <1>5 DEF AnswerWorker, EndWith, WorkerOnly
    <2>2. Working'
      BY <1>5, <2>1 DEF AnswerWorker, EndWith, Goto, Working, WorkingAt, ActiveStates
    <2> QED BY <2>1, <2>2 DEF OwnedOnce
  <1>6. ASSUME NEW j \in Jobs, Enqueue(j) PROVE OwnedOnce' /\ Working'
    BY <1>6, OthersKeepOwnership DEF Enqueue, EnqueueAs, SetState, ActiveStates
  <1>7. ASSUME NEW j \in Jobs, Pause(j) \/ Cancel(j) PROVE OwnedOnce' /\ Working'
    BY <1>7, OthersKeepOwnership DEF Pause, Cancel, Look
  <1>8. ASSUME NEW j \in Jobs, Retry(j) PROVE OwnedOnce' /\ Working'
    BY <1>8, OthersKeepOwnership DEF Retry
  <1>9. ASSUME NEW j \in Jobs, RemoveTerminal(j) PROVE OwnedOnce' /\ Working'
    BY <1>9, OthersKeepOwnership
       DEF RemoveTerminal, SetState, ActiveStates, TerminalStates
  <1>10. CASE Activate
    <2>1. uiJob \in Jobs /\ state[uiJob] \in {"Paused", "Failed"}
      BY <1>10 DEF Activate, Requesting
    <2> QED BY <1>10, <2>1, OthersKeepOwnership DEF Activate, SetState, ActiveStates
  <1>11. CASE PostAndNotify
    <2>1. UNCHANGED <<state, jobOf, result>>
      BY <1>11 DEF PostAndNotify
    <2>2. Working'
      BY <1>11, <2>1 DEF PostAndNotify, Goto, Working, WorkingAt
    <2> QED BY <2>1, <2>2 DEF OwnedOnce
  <1>12. CASE PauseInQueue
    <2>1. UNCHANGED <<pc, jobOf, result>>
      BY <1>12 DEF PauseInQueue
    <2>2. uiJob \in Jobs /\ (\/ SetState(uiJob, "Paused") /\ state[uiJob] = "Queued"
                             \/ UNCHANGED state)
      BY <1>12 DEF PauseInQueue, PauseIfQueued, Requesting
    <2>3. \A j \in Jobs : \/ state'[j] = state[j]
                          \/ state[j] \notin ActiveStates /\ state'[j] \notin ActiveStates
      BY <2>2 DEF SetState, ActiveStates
    <2> QED BY <2>1, <2>3, OthersKeepOwnership
  <1>13. CASE CancelInQueue
    <2>1. UNCHANGED <<pc, jobOf, result>>
      BY <1>13 DEF CancelInQueue
    <2>2. uiJob \in Jobs /\ (\/ SetState(uiJob, "Cancelled") /\ state[uiJob] \notin ActiveStates
                             \/ UNCHANGED state)
      BY <1>13 DEF CancelInQueue, CancelIfInactive, Requesting, ActiveStates
    <2>3. \A j \in Jobs : \/ state'[j] = state[j]
                          \/ state[j] \notin ActiveStates /\ state'[j] \notin ActiveStates
      BY <2>2 DEF SetState, ActiveStates
    <2> QED BY <2>1, <2>3, OthersKeepOwnership
  <1>14. CASE PauseApply \/ CancelApply \/ PauseForExit
    <2>1. UNCHANGED <<state, pc, jobOf, result>>
      BY <1>14 DEF PauseApply, CancelApply, PauseForExit
    <2> QED BY <2>1, OthersKeepOwnership
  <1>15. CASE Start
    <2>1. UNCHANGED <<state, jobOf>>
      BY <1>15 DEF Start
    <2>2. \A w \in Workers : pc[w] = "off" /\ pc'[w] = "check"
      BY <1>15 DEF Start, StoppedWithoutSite
    <2>3. Working'
      BY <2>1, <2>2 DEF Working, WorkingAt
    <2> QED BY <2>1, <2>3 DEF OwnedOnce
  <1>16. CASE Restart
    <2>1. /\ state' = [j \in Jobs |-> RestoredState(saved[j])] /\ pc' = AllOff
          /\ jobOf' = NoJobs
      BY <1>16 DEF Restart
    <2>2. \A j \in Jobs : state'[j] \notin ActiveStates
      BY <2>1 DEF RestoredState, ActiveStates
    <2>3. \A w \in Workers : jobOf'[w] = None /\ pc'[w] = "off"
      BY <2>1 DEF AllOff, NoJobs
    <2> QED BY <2>2, <2>3, ControllerAssumption
            DEF OwnedOnce, Working, WorkingAt, ControllerAssumption
  <1>17. CASE \/ PersistNewTransfer \/ EnqueueStaysPaused \/ PostDurable \/ PersistRetry
              \/ RetryRefused \/ HandleQueueEvent \/ AllTold \/ JoinWorkers
              \/ LockForShutdown \/ SaveAtExit \/ Disconnect \/ BeginShutdown
              \/ BrowserPublishes \/ UNCHANGED vars
              \/ \E w \in Workers : RequestStop(w)
    <2>1. UNCHANGED <<state, pc, jobOf, result>>
      BY <1>17 DEF PersistNewTransfer, EnqueueStaysPaused, PostDurable, PersistRetry,
         RetryRefused, HandleQueueEvent, AllTold, JoinWorkers, LockForShutdown, SaveAtExit,
         Disconnect, BeginShutdown, BrowserPublishes, RequestStop, vars
    <2> QED BY <2>1, OthersKeepOwnership
  <1> QED
    BY <1>1, <1>2, <1>3, <1>4, <1>5, <1>6, <1>7, <1>8, <1>9, <1>10, <1>11, <1>12, <1>13,
       <1>14, <1>15, <1>16, <1>17
       DEF Next, UserStep, UiStep, WorkerStep, Quiet

LEMMA StoppedStep ==
    ASSUME TypeOK, StoppedWithoutSite, [Next]_vars PROVE StoppedWithoutSite'
  <1> USE DEF TypeOK, StoppedWithoutSite, queueVars, diskVars, eventVars, workerVars,
          lifeVars, uiVars
  <1>1. ASSUME NEW w \in Workers,
               Quiet(w) \/ TakeNext(w) \/ MarkRunning(w) \/ Finalize(w) \/ AnswerWorker(w)
        PROVE  StoppedWithoutSite'
    <2>1. pc[w] # "off" /\ UNCHANGED link
      BY <1>1 DEF Quiet, CheckQueue, FallAsleep, WakeOnStop, WakeSpuriously, AcquireTransfer,
         PostClaim, Connect, ReadControl, PostRunning, FinishWork, Ask, AbandonAsk,
         PostResult, EndWith, WorkerOnly, TakeNext, MarkRunning, Finalize, AnswerWorker
    <2> QED BY <2>1
  <1>2. CASE PostAndNotify
    BY <1>2 DEF PostAndNotify, Goto
  <1>3. CASE Start \/ BrowserPublishes
    BY <1>3 DEF Start, BrowserPublishes
  <1>4. CASE JoinWorkers \/ Restart
    BY <1>4 DEF JoinWorkers, Restart, AllOff
  <1>5. CASE \/ PersistNewTransfer \/ EnqueueStaysPaused \/ Activate \/ PauseApply
             \/ PauseInQueue \/ CancelApply \/ CancelInQueue \/ PostDurable
             \/ PersistRetry \/ RetryRefused
             \/ HandleQueueEvent \/ AllTold \/ LockForShutdown \/ PauseForExit
             \/ SaveAtExit \/ Disconnect \/ BeginShutdown \/ UNCHANGED vars
             \/ \E w \in Workers : RequestStop(w)
             \/ \E j \in Jobs : Enqueue(j) \/ Pause(j) \/ Cancel(j) \/ Retry(j)
                               \/ RemoveTerminal(j)
    <2>1. UNCHANGED <<pc, link>>
      BY <1>5 DEF PersistNewTransfer, EnqueueStaysPaused, Activate, PauseApply,
         PauseInQueue, CancelApply, CancelInQueue, PostDurable, PersistRetry, RetryRefused, HandleQueueEvent, AllTold,
         LockForShutdown, PauseForExit, SaveAtExit, Disconnect, BeginShutdown, RequestStop,
         Enqueue, EnqueueAs, Pause, Cancel, Look, Retry, RemoveTerminal, vars
    <2> QED BY <2>1
  <1> QED BY <1>1, <1>2, <1>3, <1>4, <1>5 DEF Next, UserStep, UiStep, WorkerStep, Quiet

(* Requests.  What the interface thread saw stays true enough while it     *)
(* holds transferActionMutex: others only claim the job or start it, and   *)
(* the finalizer waits.                                                    *)
LEMMA RequestingStep ==
    ASSUME TypeOK, OwnedOnce, Working, Requesting, [Next]_vars PROVE Requesting'
  <1> USE DEF TypeOK, queueVars, diskVars, eventVars, workerVars, lifeVars, uiVars
  <1>1. ASSUME NEW w \in Workers, Quiet(w) PROVE Requesting'
    BY <1>1, QuietKeeps DEF Requesting
  <1>2. ASSUME NEW w \in Workers, TakeNext(w) PROVE Requesting'
    BY <1>2 DEF TakeNext, SetState, Requesting, Live, ActiveStates
  <1>3. ASSUME NEW w \in Workers, MarkRunning(w) PROVE Requesting'
    <2>1. jobOf[w] \in Jobs /\ state[jobOf[w]] = "Enumerating"
      BY <1>3 DEF MarkRunning, Working, WorkingAt
    <2> QED BY <1>3, <2>1 DEF MarkRunning, SetState, Requesting, Live, ActiveStates
  <1>4. ASSUME NEW w \in Workers, Finalize(w) PROVE Requesting'
    <2>1. jobOf[w] \in Jobs /\ state[jobOf[w]] \in ActiveStates
      BY <1>4 DEF Finalize, Working, WorkingAt
    <2>2. /\ uiPc \notin {"pauseApply", "cancelApply", "pauseQueued", "shutQueued",
                          "cancelQueued", "retryPersist", "retryFailed", "retryDialog",
                          "retryActivate"}
          /\ UNCHANGED <<control, saved, uiPc, uiJob, uiSeen>>
          /\ \A i \in Jobs : i # jobOf[w] => state'[i] = state[i]
      BY <1>4, <2>1 DEF Finalize, UiHoldsAction, SetState
    <2> QED BY <2>1, <2>2 DEF Requesting, ActiveStates
  <1>5. ASSUME NEW w \in Workers, AnswerWorker(w) PROVE Requesting'
    <2>1. /\ uiPc \in {"loop", "enqueueDialog", "retryDialog"}
          /\ UNCHANGED <<state, control, uiPc, uiJob, uiSeen>>
      BY <1>5 DEF AnswerWorker, EndWith, WorkerOnly
    <2> QED BY <2>1 DEF Requesting
  <1>6. ASSUME NEW j \in Jobs, Enqueue(j) PROVE Requesting'
    BY <1>6 DEF Enqueue, EnqueueAs, Loop, SetState, Requesting
  <1>7. ASSUME NEW j \in Jobs, Pause(j) PROVE Requesting'
    <2>1. state[j] \in Live
      BY <1>7 DEF Pause, IsTransferTransitionAllowed, Live, ActiveStates
    <2> QED BY <1>7, <2>1 DEF Pause, Look, Loop, Requesting
  <1>8. ASSUME NEW j \in Jobs, Cancel(j) PROVE Requesting'
    <2>1. state[j] \in Live \cup {"Paused", "Failed"}
      BY <1>8 DEF Cancel, IsTransferTransitionAllowed, Live, ActiveStates
    <2> QED BY <1>8, <2>1 DEF Cancel, Look, Loop, Requesting, Live
  <1>9. ASSUME NEW j \in Jobs, Retry(j) PROVE Requesting'
    <2>1. state[j] \in {"Paused", "Failed"}
      BY <1>9 DEF Retry, IsTransferTransitionAllowed
    <2> QED BY <1>9, <2>1 DEF Retry, Loop, Requesting
  <1>10. CASE PersistNewTransfer
    <2>1. uiJob \in Jobs /\ state[uiJob] = "Paused" /\ control[uiJob] = "Continue"
      BY <1>10 DEF PersistNewTransfer, Requesting
    <2>2. UNCHANGED <<state, control, uiJob, uiSeen>>
      BY <1>10 DEF PersistNewTransfer, UiKeeps
    <2>3. CASE SaveSucceeds /\ uiPc' = "enqueueActivate"
      <3>1. saved'[uiJob] # "gone"
        BY <2>1, <2>3 DEF SaveSucceeds, DurableView
      <3> QED BY <2>1, <2>2, <2>3, <3>1 DEF Requesting
    <2>4. CASE uiPc' \in {"enqueueFailed", "enqueueDialog"}
      BY <2>1, <2>2, <2>4 DEF Requesting
    <2> QED BY <1>10, <2>3, <2>4 DEF PersistNewTransfer
  <1>11. CASE PersistRetry
    <2>1. uiJob \in Jobs /\ state[uiJob] \in {"Paused", "Failed"}
             /\ control[uiJob] = "Continue"
      BY <1>11 DEF PersistRetry, Requesting
    <2>2. UNCHANGED <<state, control, uiJob, uiSeen>>
      BY <1>11 DEF PersistRetry, UiKeeps
    <2>3. CASE SaveSucceeds /\ uiPc' = "retryActivate"
      <3>1. saved'[uiJob] # "gone"
        BY <2>1, <2>3 DEF SaveSucceeds, DurableView, ActiveStates
      <3> QED BY <2>1, <2>2, <2>3, <3>1 DEF Requesting
    <2>4. CASE uiPc' \in {"retryFailed", "retryDialog"}
      BY <2>1, <2>2, <2>4 DEF Requesting
    <2> QED BY <1>11, <2>3, <2>4 DEF PersistRetry
  <1>12. CASE HandleQueueEvent
    <2>1. UNCHANGED <<state, control, uiJob, uiSeen>>
      BY <1>12 DEF HandleQueueEvent, UiKeeps
    <2>2. CASE uiPc = "retryDialog"
      <3>1. uiPc' = "selfBlocked"
        BY <1>12, <2>2 DEF HandleQueueEvent
      <3> QED BY <3>1 DEF Requesting
    <2>3. CASE uiPc # "retryDialog"
      <3>1. uiPc \in {"loop", "enqueueDialog"} /\ UNCHANGED uiPc
        BY <1>12, <2>3 DEF HandleQueueEvent
      <3> QED BY <2>1, <3>1 DEF Requesting
    <2> QED BY <2>2, <2>3
  <1>13. CASE \/ EnqueueStaysPaused \/ Activate \/ PostAndNotify \/ PauseInQueue
              \/ CancelInQueue
              \/ PostDurable \/ RetryRefused \/ AllTold \/ JoinWorkers \/ LockForShutdown
              \/ SaveAtExit \/ Start \/ Disconnect \/ BeginShutdown \/ Restart
              \/ \E w \in Workers : RequestStop(w)
              \/ \E j \in Jobs : RemoveTerminal(j)
    <2>1. uiPc' \in {"loop", "notify", "postDurable", "stopTell", "stopJoin", "shutLock",
                    "shutPause", "exitSave", "exited"}
      BY <1>13 DEF EnqueueStaysPaused, Activate, PostAndNotify, PauseInQueue,
         CancelInQueue, PostDurable, RetryRefused, AllTold, JoinWorkers, LockForShutdown,
         SaveAtExit, Start, Disconnect, BeginShutdown, Restart, RequestStop,
         RemoveTerminal, UiIdle, Loop
    <2> QED BY <2>1 DEF Requesting
  <1>14. CASE BrowserPublishes \/ UNCHANGED vars
    <2>1. UNCHANGED <<state, control, saved, uiPc, uiJob, uiSeen>>
      BY <1>14 DEF BrowserPublishes, vars
    <2> QED BY <2>1 DEF Requesting
  <1>15. CASE PauseApply
    <2>1. uiJob \in Jobs /\ UNCHANGED uiJob
      BY <1>15 DEF PauseApply, Requesting, UiKeeps
    <2>2. /\ uiPc' \in {"pauseQueued", "postDurable"}
          /\ control' = [control EXCEPT ![uiJob] = "Pause"]
      BY <1>15 DEF PauseApply
    <2> QED BY <2>1, <2>2 DEF Requesting
  <1>16. CASE CancelApply
    <2>1. /\ uiJob \in Jobs
          /\ uiSeen \notin ActiveStates => state[uiJob] \in Live \cup {"Paused", "Failed"}
      BY <1>16 DEF CancelApply, Requesting, Live
    <2>2. /\ uiPc' \in {"cancelQueued", "postDurable"}
          /\ uiPc' = "cancelQueued" => uiSeen \notin ActiveStates
          /\ UNCHANGED <<state, uiJob>>
      BY <1>16 DEF CancelApply, UiKeeps
    <2> QED BY <2>1, <2>2 DEF Requesting
  <1>17. CASE PauseForExit
    <2>1. ASSUME NEW j \in uiJobs, control' = [control EXCEPT ![j] = "Pause"],
                 uiJob' = j, uiPc' = "shutQueued"
          PROVE  Requesting'
      BY <2>1 DEF Requesting
    <2>2. CASE uiPc' = "stopTell"
      BY <2>2 DEF Requesting
    <2> QED BY <1>17, <2>1, <2>2 DEF PauseForExit
  <1> QED
    BY <1>1, <1>2, <1>3, <1>4, <1>5, <1>6, <1>7, <1>8, <1>9, <1>10, <1>11, <1>12, <1>13,
       <1>14, <1>15, <1>16, <1>17 DEF Next, UserStep, UiStep, WorkerStep, Quiet

(* Accepted requests: what a control entry says about its job.             *)
LEMMA RequestsHoldStep ==
    ASSUME TypeOK, OwnedOnce, Working, Requesting, CancelHolds, QueuedIsWanted, [Next]_vars
    PROVE  CancelHolds' /\ QueuedIsWanted'
  <1> USE DEF TypeOK, queueVars, diskVars, eventVars, workerVars, lifeVars, uiVars,
          CancelHolds, QueuedIsWanted
  <1>0. ASSUME UNCHANGED <<state, control>>,
               \/ UNCHANGED <<uiPc, uiJob>>
               \/ uiPc \notin {"pauseQueued", "cancelQueued", "shutQueued"}
        PROVE  CancelHolds' /\ QueuedIsWanted'
    BY <1>0 DEF BeingApplied
  <1>1. ASSUME NEW w \in Workers, Quiet(w) PROVE CancelHolds' /\ QueuedIsWanted'
    BY <1>0, <1>1, QuietKeeps
  <1>2. ASSUME NEW w \in Workers, TakeNext(w) PROVE CancelHolds' /\ QueuedIsWanted'
    BY <1>2 DEF TakeNext, SetState, ActiveStates, BeingApplied
  <1>3. ASSUME NEW w \in Workers, MarkRunning(w) PROVE CancelHolds' /\ QueuedIsWanted'
    <2>1. jobOf[w] \in Jobs /\ state[jobOf[w]] = "Enumerating"
      BY <1>3 DEF MarkRunning, Working, WorkingAt
    <2> QED BY <1>3, <2>1 DEF MarkRunning, SetState, ActiveStates, BeingApplied
  <1>4. ASSUME NEW w \in Workers, Finalize(w) PROVE CancelHolds' /\ QueuedIsWanted'
    <2>1. jobOf[w] \in Jobs /\ UNCHANGED <<control, uiPc, uiJob>>
      BY <1>4 DEF Finalize, Working, WorkingAt
    <2>2. Outcome(w) # "Queued"
      BY DEF Outcome, ResultState
    <2>3. control[jobOf[w]] = "Cancel" => Outcome(w) \in {"Completed", "Cancelled"}
      BY DEF Outcome, ResultState, CurrentControl
    <2>4. SetState(jobOf[w], Outcome(w)) \/ UNCHANGED state
      BY <1>4 DEF Finalize
    <2> QED BY <2>1, <2>2, <2>3, <2>4 DEF SetState, BeingApplied
  <1>5. ASSUME NEW w \in Workers, AnswerWorker(w) PROVE CancelHolds' /\ QueuedIsWanted'
    BY <1>0, <1>5 DEF AnswerWorker, EndWith, WorkerOnly
  <1>6. ASSUME NEW j \in Jobs, Enqueue(j) PROVE CancelHolds' /\ QueuedIsWanted'
    BY <1>6 DEF Enqueue, EnqueueAs, Loop, SetState, BeingApplied
  <1>7. ASSUME NEW j \in Jobs, Retry(j) PROVE CancelHolds' /\ QueuedIsWanted'
    BY <1>7 DEF Retry, Loop, BeingApplied
  <1>8. ASSUME NEW j \in Jobs, RemoveTerminal(j) PROVE CancelHolds' /\ QueuedIsWanted'
    BY <1>8 DEF RemoveTerminal, Loop, SetState, BeingApplied
  <1>9. CASE EnqueueStaysPaused \/ RetryRefused
    <2>1. uiJob \in Jobs /\ state[uiJob] \in {"Paused", "Failed"}
      BY <1>9 DEF EnqueueStaysPaused, RetryRefused, Requesting
    <2>2. /\ UNCHANGED state /\ control' = [control EXCEPT ![uiJob] = "Pause"]
          /\ uiPc \notin {"pauseQueued", "cancelQueued", "shutQueued"}
      BY <1>9 DEF EnqueueStaysPaused, RetryRefused
    <2> QED BY <2>1, <2>2 DEF BeingApplied
  <1>10. CASE Activate
    <2>1. uiJob \in Jobs /\ control[uiJob] = "Continue"
      BY <1>10 DEF Activate, Requesting
    <2> QED BY <1>10, <2>1 DEF Activate, SetState, BeingApplied
  <1>11. CASE PauseApply
    <2>1. /\ uiJob \in Jobs /\ uiSeen \in {"Queued"} \cup ActiveStates
          /\ uiSeen \in ActiveStates => state[uiJob] \in ActiveStates
      BY <1>11 DEF PauseApply, Requesting, Live
    <2>2. /\ control' = [control EXCEPT ![uiJob] = "Pause"] /\ UNCHANGED <<state, uiJob>>
          /\ uiPc = "pauseApply" /\ (uiSeen = "Queued" => uiPc' = "pauseQueued")
      BY <1>11 DEF PauseApply, UiKeeps
    <2> QED BY <2>1, <2>2 DEF BeingApplied, ActiveStates
  <1>12. CASE CancelApply
    <2>1. uiJob \in Jobs /\ (uiSeen \in ActiveStates => state[uiJob] \in ActiveStates)
      BY <1>12 DEF CancelApply, Requesting
    <2>2. /\ control' = [control EXCEPT ![uiJob] = "Cancel"] /\ UNCHANGED <<state, uiJob>>
          /\ uiPc = "cancelApply" /\ (uiSeen \notin ActiveStates => uiPc' = "cancelQueued")
      BY <1>12 DEF CancelApply, UiKeeps
    <2> QED BY <2>1, <2>2 DEF BeingApplied, ActiveStates
  <1>13. CASE PauseInQueue
    <2>1. uiJob \in Jobs /\ control[uiJob] = "Pause" /\ UNCHANGED control
      BY <1>13 DEF PauseInQueue, Requesting
    <2>2. \A j \in Jobs : j # uiJob => state'[j] = state[j] /\ ~BeingApplied(j)
      BY <1>13, <2>1 DEF PauseInQueue, PauseIfQueued, SetState, BeingApplied
    <2>3. state'[uiJob] # "Queued"
      BY <1>13, <2>1 DEF PauseInQueue, PauseIfQueued, SetState
    <2> QED BY <2>1, <2>2, <2>3
  <1>14. CASE CancelInQueue
    <2>1. uiJob \in Jobs /\ state[uiJob] \in Live \cup {"Paused", "Failed"}
      BY <1>14 DEF CancelInQueue, Requesting
    <2>2. /\ UNCHANGED control
          /\ \A j \in Jobs : j # uiJob => state'[j] = state[j] /\ ~BeingApplied(j)
      BY <1>14, <2>1 DEF CancelInQueue, CancelIfInactive, SetState, BeingApplied
    <2>3. state'[uiJob] \in ActiveStates \cup {"Cancelled"}
      BY <1>14, <2>1 DEF CancelInQueue, CancelIfInactive, SetState, Live, ActiveStates
    <2> QED BY <2>2, <2>3 DEF ActiveStates
  <1>15. CASE PauseForExit
    <2>1. CASE UNCHANGED <<state, control>>
      BY <1>0, <1>15, <2>1 DEF PauseForExit
    <2>2. ASSUME NEW k \in Jobs, control' = [control EXCEPT ![k] = "Pause"],
                 uiJob' = k, uiPc' = "shutQueued", uiPc = "shutPause", UNCHANGED state
          PROVE  CancelHolds' /\ QueuedIsWanted'
      BY <2>2 DEF BeingApplied
    <2> QED BY <1>15, <2>1, <2>2 DEF PauseForExit
  <1>16. CASE Restart
    <2>1. \A j \in Jobs : control'[j] = "Continue"
      BY <1>16 DEF Restart, NoRequests
    <2> QED BY <2>1
  <1>17. CASE \/ PersistNewTransfer \/ PostAndNotify \/ PostDurable \/ PersistRetry
              \/ HandleQueueEvent \/ AllTold \/ JoinWorkers \/ LockForShutdown \/ SaveAtExit
              \/ Start \/ Disconnect \/ BeginShutdown \/ BrowserPublishes \/ UNCHANGED vars
              \/ \E w \in Workers : RequestStop(w)
              \/ \E j \in Jobs : Pause(j) \/ Cancel(j)
    <2>1. UNCHANGED <<state, control>>
      BY <1>17 DEF PersistNewTransfer, PostAndNotify, PostDurable, PersistRetry,
         HandleQueueEvent, AllTold, JoinWorkers, LockForShutdown, SaveAtExit, Start,
         Disconnect, BeginShutdown, BrowserPublishes, RequestStop, Pause, Cancel, Look, vars
    <2>2. \/ UNCHANGED <<uiPc, uiJob>>
          \/ uiPc \notin {"pauseQueued", "cancelQueued", "shutQueued"}
      BY <1>17 DEF PersistNewTransfer, PostAndNotify, PostDurable, PersistRetry,
         HandleQueueEvent, AllTold, JoinWorkers, LockForShutdown, SaveAtExit, Start, Loop,
         Disconnect, BeginShutdown, BrowserPublishes, RequestStop, Pause, Cancel, Look, vars
    <2> QED BY <1>0, <2>1, <2>2
  <1> QED
    BY <1>1, <1>2, <1>3, <1>4, <1>5, <1>6, <1>7, <1>8, <1>9, <1>10, <1>11, <1>12, <1>13,
       <1>14, <1>15, <1>16, <1>17 DEF Next, UserStep, UiStep, WorkerStep, Quiet

(* The queue file knows every job that may be claimed, or failed.          *)
LEMMA KeptIsSaved ==
    ASSUME TypeOK, SaveSucceeds
    PROVE  \A j \in Jobs : state[j] \in Kept => saved'[j] # "gone"
  BY DEF SaveSucceeds, DurableView, Kept, Live, ActiveStates

LEMMA SavedStep ==
    ASSUME TypeOK, OwnedOnce, Working, Requesting, NothingForgotten, [Next]_vars
    PROVE  NothingForgotten'
  <1> USE DEF TypeOK, queueVars, diskVars, eventVars, workerVars, lifeVars, uiVars,
          NothingForgotten, Kept
  <1>1. ASSUME UNCHANGED state, SaveSucceeds \/ SaveFails \/ UNCHANGED saved
        PROVE  NothingForgotten'
    BY <1>1, KeptIsSaved DEF SaveFails, Live
  <1>2. ASSUME UNCHANGED saved,
               \A j \in Jobs : state'[j] \in Kept => state[j] \in Kept
        PROVE  NothingForgotten'
    BY <1>2 DEF Live
  <1>3. ASSUME NEW w \in Workers, Quiet(w) PROVE NothingForgotten'
    BY <1>1, <1>3, QuietKeeps
  <1>4. ASSUME NEW w \in Workers, TakeNext(w) PROVE NothingForgotten'
    BY <1>2, <1>4 DEF TakeNext, SetState, Live
  <1>5. ASSUME NEW w \in Workers, MarkRunning(w) PROVE NothingForgotten'
    <2>1. jobOf[w] \in Jobs /\ state[jobOf[w]] = "Enumerating"
      BY <1>5 DEF MarkRunning, Working, WorkingAt
    <2> QED BY <1>2, <1>5, <2>1 DEF MarkRunning, SetState, Live, ActiveStates
  <1>6. ASSUME NEW w \in Workers, Finalize(w) PROVE NothingForgotten'
    <2>1. jobOf[w] \in Jobs /\ state[jobOf[w]] \in ActiveStates /\ UNCHANGED saved
      BY <1>6 DEF Finalize, Working, WorkingAt
    <2>2. SetState(jobOf[w], Outcome(w)) \/ UNCHANGED state
      BY <1>6 DEF Finalize
    <2> QED BY <1>2, <2>1, <2>2 DEF SetState, Live
  <1>7. ASSUME NEW w \in Workers, AnswerWorker(w) PROVE NothingForgotten'
    BY <1>1, <1>7 DEF AnswerWorker, EndWith, WorkerOnly
  <1>8. ASSUME NEW j \in Jobs, Enqueue(j) \/ RemoveTerminal(j) PROVE NothingForgotten'
    BY <1>2, <1>8 DEF Enqueue, EnqueueAs, RemoveTerminal, SetState, Live, ActiveStates
  <1>9. CASE PersistNewTransfer \/ PersistRetry \/ HandleQueueEvent \/ SaveAtExit
    <2>1. UNCHANGED state /\ (SaveSucceeds \/ SaveFails \/ UNCHANGED saved)
      BY <1>9 DEF PersistNewTransfer, PersistRetry, HandleQueueEvent, SaveAtExit
    <2> QED BY <1>1, <2>1
  <1>10. CASE Activate
    <2>1. uiJob \in Jobs /\ saved[uiJob] # "gone"
      BY <1>10 DEF Activate, Requesting
    <2> QED BY <1>10, <2>1 DEF Activate, SetState
  <1>11. CASE PauseInQueue \/ CancelInQueue
    <2>1. UNCHANGED saved
      BY <1>11 DEF PauseInQueue, CancelInQueue
    <2>2. \A j \in Jobs : state'[j] \in Kept => state[j] \in Kept
      BY <1>11 DEF PauseInQueue, CancelInQueue, PauseIfQueued, CancelIfInactive, SetState,
         Live, ActiveStates
    <2> QED BY <1>2, <2>1, <2>2
  <1>12. CASE Restart
    <2>1. \A j \in Jobs : state'[j] \in Kept => saved[j] = "failed"
      BY <1>12 DEF Restart, RestoredState, Live, ActiveStates
    <2> QED BY <1>12, <2>1 DEF Restart
  <1>13. CASE \/ EnqueueStaysPaused \/ PostAndNotify \/ PostDurable \/ RetryRefused
              \/ PauseApply \/ CancelApply \/ PauseForExit \/ AllTold \/ JoinWorkers \/ LockForShutdown \/ Start \/ Disconnect
              \/ BeginShutdown \/ BrowserPublishes \/ UNCHANGED vars
              \/ \E w \in Workers : RequestStop(w)
              \/ \E j \in Jobs : Pause(j) \/ Cancel(j) \/ Retry(j)
    <2>1. UNCHANGED <<state, saved>>
      BY <1>13 DEF EnqueueStaysPaused, PostAndNotify, PostDurable, RetryRefused,
         PauseApply, CancelApply, PauseForExit, AllTold,
         JoinWorkers, LockForShutdown, Start, Disconnect, BeginShutdown, BrowserPublishes,
         RequestStop, Pause, Cancel, Look, Retry, vars
    <2> QED BY <1>1, <2>1
  <1> QED
    BY <1>3, <1>4, <1>5, <1>6, <1>7, <1>8, <1>9, <1>10, <1>11, <1>12, <1>13
       DEF Next, UserStep, UiStep, WorkerStep, Quiet

-----------------------------------------------------------------------------
(* The inductive invariant holds of the specification.                     *)
THEOREM IInvHolds == Spec => []IInv
  <1>1. IInv /\ [Next]_vars => IInv'
    <2> SUFFICES ASSUME IInv, [Next]_vars PROVE IInv'
      OBVIOUS
    <2> USE DEF IInv
    <2>1. TypeOK'
      BY TypingStep
    <2>2. OwnedOnce' /\ Working'
      BY OwnershipStep
    <2>3. StoppedWithoutSite'
      BY StoppedStep
    <2>4. Requesting'
      BY RequestingStep
    <2>5. CancelHolds' /\ QueuedIsWanted'
      BY RequestsHoldStep
    <2>6. NothingForgotten'
      BY SavedStep
    <2> QED BY <2>1, <2>2, <2>3, <2>4, <2>5, <2>6
  <1> QED BY InitIInv, <1>1, PTL DEF Spec

(* TypeOK for any number of workers and jobs.                              *)
THEOREM TypeCorrect == Spec => []TypeOK
  <1>1. IInv => TypeOK
    BY DEF IInv
  <1> QED BY <1>1, IInvHolds, PTL

(* Claims, requests, retries, stops and restarts never leave an active job *)
(* without a worker, or with two.                                          *)
THEOREM JobsOwnedOnce == Spec => []OwnedOnce
  <1>1. IInv => OwnedOnce
    BY DEF IInv
  <1> QED BY <1>1, IInvHolds, PTL

(* An accepted cancellation is never undone by a pause, a failure or a     *)
(* stale result.                                                           *)
THEOREM CancellationsHold == Spec => []CancelHolds
  <1>1. IInv => CancelHolds
    BY DEF IInv
  <1> QED BY <1>1, IInvHolds, PTL

(* A claimable job carries no old request that would stop it at once.      *)
THEOREM QueuedWorkIsWanted == Spec => []QueuedIsWanted
  <1>1. IInv => QueuedIsWanted
    BY DEF IInv
  <1> QED BY <1>1, IInvHolds, PTL

(* No job is claimable or running before the queue file knows it.          *)
THEOREM NothingRunsUnsaved == Spec => []InertUntilSaved
  <1>1. IInv => InertUntilSaved
    BY DEF IInv, NothingForgotten, InertUntilSaved, Kept, Live
  <1> QED BY <1>1, IInvHolds, PTL

-----------------------------------------------------------------------------
(* Who owes an event, and who owes a save.                                 *)

WorkersOwing == {w \in Workers : pc[w] \in {"claimed", "running", "post"}}
UiOwing == {"enqueuePersist", "enqueueFailed", "enqueueDialog", "enqueueActivate",
            "notify", "postDurable"}
UiExiting == {"shutLock", "shutPause", "shutQueued"}

(* A change that no event shows yet has somebody who is about to post.     *)
EventOwed ==
    /\ unposted # {} => shuttingDown \/ WorkersOwing # {} \/ uiPc \in UiOwing
    /\ uiPc \in UiExiting => shuttingDown

(* The queue file tells what a restart should restore of a job.            *)
FileKnows(j) ==
    \/ saved[j] = DurableView(state[j])
    \/ saved[j] = "failed" /\ state[j] \in Live

(* Where it does not, a save failed, or one is asked for, or is about to   *)
(* be asked for or made.                                                   *)
SaveOwed ==
    \/ \A j \in Jobs : FileKnows(j)
    \/ durablePending \/ saveFailed \/ shuttingDown
    \/ \E w \in Workers : pc[w] = "post"
    \/ uiPc \in {"enqueuePersist", "postDurable"}

(* Post either shows every change or is dropped because of the shutdown.   *)
LEMMA PostPays ==
    ASSUME NEW durable \in BOOLEAN, Post(durable)
    PROVE  shuttingDown \/ (unposted' = {} /\ (durablePending' <=> durablePending \/ durable))
  BY DEF Post

(* A step that changes no job, and moves nobody who owes an event, owes    *)
(* nothing new.                                                            *)
LEMMA StillOwed ==
    ASSUME EventOwed, UNCHANGED <<unposted, shuttingDown>>,
           \A w \in WorkersOwing : pc'[w] = pc[w],
           uiPc \in UiOwing => uiPc' \in UiOwing,
           uiPc' \in UiExiting => uiPc \in UiExiting
    PROVE  EventOwed'
  BY DEF EventOwed, WorkersOwing

LEMMA EventOwedStep == ASSUME IInv, EventOwed, [Next]_vars PROVE EventOwed'
  <1> USE DEF queueVars, diskVars, eventVars, workerVars, lifeVars, uiVars
  <1>1. pc \in [Workers -> Places] /\ uiPc \in UiPlaces /\ shuttingDown \in BOOLEAN
    BY DEF IInv, TypeOK
  <1>2. ASSUME NEW w \in Workers,
               \/ CheckQueue(w) \/ FallAsleep(w) \/ WakeOnStop(w) \/ WakeSpuriously(w)
               \/ AcquireTransfer(w) \/ Connect(w) \/ ReadControl(w) \/ FinishWork(w)
               \/ Ask(w) \/ AbandonAsk(w) \/ AnswerWorker(w)
        PROVE  EventOwed'
    <2>1. /\ pc[w] \notin {"claimed", "running", "post"}
          /\ \A v \in Workers : v # w => pc'[v] = pc[v]
          /\ UNCHANGED <<unposted, shuttingDown, uiPc>>
      BY <1>1, <1>2
         DEF CheckQueue, FallAsleep, WakeOnStop, WakeSpuriously, AcquireTransfer, Connect,
             ReadControl, FinishWork, Ask, AbandonAsk, AnswerWorker, EndWith, Goto,
             WorkerOnly
    <2> QED BY <2>1, StillOwed DEF WorkersOwing
  <1>3. ASSUME NEW w \in Workers, PostClaim(w) \/ PostRunning(w) \/ PostResult(w)
        PROVE  EventOwed'
    <2>1. Post(FALSE) \/ Post(TRUE)
      BY <1>3 DEF PostClaim, PostRunning, PostResult
    <2>2. shuttingDown \/ unposted' = {}
      BY <2>1, PostPays
    <2>3. UNCHANGED <<shuttingDown, uiPc>>
      BY <1>3 DEF PostClaim, PostRunning, PostResult
    <2> QED BY <2>2, <2>3 DEF EventOwed
  <1>4. ASSUME NEW w \in Workers, TakeNext(w) PROVE EventOwed'
    <2>1. CASE UNCHANGED queueVars /\ Goto(w, "check")
      <3>1. \A v \in WorkersOwing : pc'[v] = pc[v]
        BY <1>1, <1>4, <2>1 DEF TakeNext, WorkersOwing, Goto
      <3> QED BY <1>4, <2>1, <3>1, StillOwed DEF TakeNext
    <2>2. CASE Goto(w, "claimed")
      <3>1. w \in WorkersOwing'
        BY <1>1, <2>2 DEF WorkersOwing, Goto
      <3> QED BY <1>4, <3>1 DEF TakeNext, EventOwed
    <2> QED BY <1>4, <2>1, <2>2 DEF TakeNext
  <1>5. ASSUME NEW w \in Workers, MarkRunning(w) \/ Finalize(w) PROVE EventOwed'
    <2>1. w \in WorkersOwing'
      BY <1>1, <1>5 DEF MarkRunning, Finalize, WorkersOwing, Goto
    <2> QED BY <1>5, <2>1 DEF MarkRunning, Finalize, EventOwed
  <1>6. ASSUME NEW j \in Jobs, Enqueue(j) \/ RemoveTerminal(j) PROVE EventOwed'
    BY <1>6 DEF Enqueue, EnqueueAs, RemoveTerminal, Loop, EventOwed, UiOwing, UiExiting
  <1>7. CASE Activate \/ PauseInQueue \/ CancelInQueue
    BY <1>7 DEF Activate, PauseInQueue, CancelInQueue, EventOwed, UiOwing, UiExiting
  <1>8. CASE EnqueueStaysPaused \/ PostAndNotify \/ PostDurable
    <2>1. Post(FALSE) \/ Post(TRUE)
      BY <1>8 DEF EnqueueStaysPaused, PostAndNotify, PostDurable
    <2>2. shuttingDown \/ unposted' = {}
      BY <2>1, PostPays
    <2>3. UNCHANGED shuttingDown /\ uiPc' = "loop"
      BY <1>8 DEF EnqueueStaysPaused, PostAndNotify, PostDurable, UiIdle
    <2> QED BY <2>2, <2>3 DEF EventOwed, UiExiting
  <1>9. CASE LockForShutdown
    BY <1>9 DEF LockForShutdown, EventOwed, UiExiting
  <1>10. CASE PauseForExit \/ BeginShutdown
    BY <1>10 DEF PauseForExit, BeginShutdown, EventOwed, UiExiting
  <1>11. CASE Restart
    BY <1>11 DEF Restart, UiIdle, EventOwed, UiExiting
  <1>12. CASE Start
    <2>1. WorkersOwing = {}
      BY <1>12 DEF IInv, StoppedWithoutSite, Start, WorkersOwing
    <2>2. UNCHANGED <<unposted, shuttingDown, uiPc>>
      BY <1>12 DEF Start, Loop
    <2> QED BY <2>1, <2>2, StillOwed
  <1>13. CASE \/ PersistNewTransfer \/ PersistRetry \/ RetryRefused \/ HandleQueueEvent
              \/ PauseApply \/ CancelApply
              \/ AllTold \/ JoinWorkers \/ SaveAtExit \/ Disconnect \/ BrowserPublishes
              \/ UNCHANGED vars
              \/ \E w \in Workers : RequestStop(w)
              \/ \E j \in Jobs : Pause(j) \/ Cancel(j) \/ Retry(j)
    <2>1. UNCHANGED <<unposted, shuttingDown, pc>>
      BY <1>13 DEF PersistNewTransfer, PersistRetry, RetryRefused, HandleQueueEvent,
         PauseApply, CancelApply, AllTold, JoinWorkers, SaveAtExit, Disconnect, BrowserPublishes, RequestStop,
         Pause, Cancel, Look, Retry, vars
    <2>2. /\ uiPc \in UiOwing => uiPc' \in UiOwing
          /\ uiPc' \in UiExiting => uiPc \in UiExiting
      BY <1>13 DEF PersistNewTransfer, PersistRetry, RetryRefused, HandleQueueEvent,
         PauseApply, CancelApply, AllTold, JoinWorkers, SaveAtExit, Disconnect, BrowserPublishes, RequestStop,
         Pause, Cancel, Look, Retry, vars, Loop, UiIdle, UiOwing, UiExiting
    <2> QED BY <2>1, <2>2, StillOwed
  <1> QED
    BY <1>2, <1>3, <1>4, <1>5, <1>6, <1>7, <1>8, <1>9, <1>10, <1>11, <1>12, <1>13
       DEF Next, UserStep, UiStep, WorkerStep

(* Whoever changes the queue posts an event after it, and no older         *)
(* snapshot is posted after a newer one, for any number of workers.        *)
THEOREM EventsAreCurrent == Spec => []LastEventCurrent
  <1>1. Init => EventOwed
    BY DEF Init, EventOwed, UiExiting
  <1>2. IInv /\ EventOwed /\ [Next]_vars => EventOwed'
    BY EventOwedStep
  <1>3. EventOwed => LastEventCurrent
    BY DEF EventOwed, LastEventCurrent, AtRest, WorkersOwing, UiOwing
  <1> QED BY <1>1, <1>2, <1>3, IInvHolds, PTL DEF Spec

(* A save leaves a file that knows every job, or a failure on record.      *)
LEMMA SavePays ==
    ASSUME TypeOK, UNCHANGED state, SaveSucceeds \/ SaveFails
    PROVE  (\A j \in Jobs : FileKnows(j)') \/ saveFailed'
  BY DEF SaveSucceeds, SaveFails, FileKnows, TypeOK

(* A step that neither changes a job nor saves owes nothing new, unless it *)
(* moves somebody who was about to ask for a save.                         *)
LEMMA StillUnsaved ==
    ASSUME SaveOwed, UNCHANGED <<saved, saveFailed, shuttingDown>>,
           \A j \in Jobs : FileKnows(j) => FileKnows(j)',
           durablePending => durablePending',
           \A w \in Workers : pc[w] = "post" => pc'[w] = "post",
           uiPc \in {"enqueuePersist", "postDurable"} => uiPc' = uiPc
    PROVE  SaveOwed'
  BY DEF SaveOwed

LEMMA SaveOwedStep == ASSUME IInv, EventOwed, SaveOwed, [Next]_vars PROVE SaveOwed'
  <1> USE DEF queueVars, diskVars, eventVars, workerVars, lifeVars, uiVars
  <1>1. /\ pc \in [Workers -> Places] /\ state \in [Jobs -> AnyState] /\ TypeOK
        /\ durablePending \in BOOLEAN
    BY DEF IInv, TypeOK
  <1>2. ASSUME UNCHANGED <<state, saved>>
        PROVE  \A j \in Jobs : FileKnows(j) => FileKnows(j)'
    BY <1>2 DEF FileKnows
  <1>3. ASSUME NEW w \in Workers,
               \/ CheckQueue(w) \/ FallAsleep(w) \/ WakeOnStop(w) \/ WakeSpuriously(w)
               \/ AcquireTransfer(w) \/ Connect(w) \/ ReadControl(w) \/ FinishWork(w)
               \/ Ask(w) \/ AbandonAsk(w)
        PROVE  SaveOwed'
    <2>1. /\ \A v \in Workers : pc[v] = "post" => pc'[v] = "post"
          /\ UNCHANGED <<state, saved, saveFailed, shuttingDown, durablePending, uiPc>>
      BY <1>1, <1>3
         DEF CheckQueue, FallAsleep, WakeOnStop, WakeSpuriously, AcquireTransfer, Connect,
             ReadControl, FinishWork, Ask, AbandonAsk, EndWith, Goto, WorkerOnly
    <2> QED BY <1>2, <2>1, StillUnsaved
  <1>4. ASSUME NEW w \in Workers, PostClaim(w) \/ PostRunning(w) PROVE SaveOwed'
    <2>1. Post(FALSE)
      BY <1>4 DEF PostClaim, PostRunning
    <2>2. durablePending => durablePending'
      BY <2>1 DEF Post
    <2>3. /\ \A v \in Workers : pc[v] = "post" => pc'[v] = "post"
          /\ UNCHANGED <<state, saved, saveFailed, shuttingDown, uiPc>>
      BY <1>1, <1>4 DEF PostClaim, PostRunning, Goto
    <2> QED BY <1>2, <2>2, <2>3, StillUnsaved
  <1>5. ASSUME NEW w \in Workers, PostResult(w) PROVE SaveOwed'
    <2>1. Post(TRUE) /\ UNCHANGED shuttingDown
      BY <1>5 DEF PostResult
    <2>2. shuttingDown \/ durablePending'
      BY <2>1, PostPays
    <2> QED BY <2>1, <2>2 DEF SaveOwed
  <1>6. ASSUME NEW w \in Workers, AnswerWorker(w) PROVE SaveOwed'
    <2>1. /\ \A v \in Workers : pc[v] = "post" => pc'[v] = "post"
          /\ UNCHANGED <<state, durablePending, shuttingDown, uiPc>>
      BY <1>1, <1>6 DEF AnswerWorker, EndWith, Goto, WorkerOnly
    <2>2. CASE SaveSucceeds \/ SaveFails
      BY <1>1, <2>1, <2>2, SavePays DEF SaveOwed
    <2>3. CASE UNCHANGED diskVars
      BY <1>2, <2>1, <2>3, StillUnsaved
    <2> QED BY <1>6, <2>2, <2>3 DEF AnswerWorker, EndWith, WorkerOnly
  <1>7. ASSUME NEW w \in Workers, TakeNext(w) \/ MarkRunning(w) PROVE SaveOwed'
    <2>1. \A j \in Jobs : FileKnows(j) => FileKnows(j)'
      <3>1. UNCHANGED saved
        BY <1>7 DEF TakeNext, MarkRunning
      <3>2. \A j \in Jobs : state'[j] # state[j] => state[j] \in Live /\ state'[j] \in Live
        <4>1. CASE TakeNext(w)
          BY <1>1, <4>1 DEF TakeNext, SetState, Live, ActiveStates
        <4>2. CASE MarkRunning(w)
          <5>1. jobOf[w] \in Jobs /\ state[jobOf[w]] = "Enumerating"
            BY <4>2 DEF IInv, Working, WorkingAt, MarkRunning
          <5> QED BY <1>1, <4>2, <5>1 DEF MarkRunning, SetState, Live, ActiveStates
        <4> QED BY <1>7, <4>1, <4>2
      <3>3. \A s \in Live : DurableView(s) = "unfinished"
        BY DEF DurableView, Live, ActiveStates
      <3> QED BY <3>1, <3>2, <3>3 DEF FileKnows
    <2>2. /\ \A v \in Workers : pc[v] = "post" => pc'[v] = "post"
          /\ UNCHANGED <<saved, saveFailed, shuttingDown, durablePending, uiPc>>
      BY <1>1, <1>7 DEF TakeNext, MarkRunning, Goto
    <2> QED BY <2>1, <2>2, StillUnsaved
  <1>8. ASSUME NEW w \in Workers, Finalize(w) PROVE SaveOwed'
    BY <1>1, <1>8 DEF Finalize, Goto, SaveOwed
  <1>9. ASSUME NEW j \in Jobs, Enqueue(j) \/ RemoveTerminal(j) PROVE SaveOwed'
    BY <1>9 DEF Enqueue, EnqueueAs, RemoveTerminal, Loop, SaveOwed
  <1>10. CASE PauseInQueue \/ CancelInQueue
    <2>1. CASE uiPc = "shutQueued"
      BY <1>10, <2>1 DEF PauseInQueue, CancelInQueue, SaveOwed, EventOwed, UiExiting
    <2>2. CASE uiPc # "shutQueued"
      BY <1>10, <2>2 DEF PauseInQueue, CancelInQueue, SaveOwed
    <2> QED BY <2>1, <2>2
  <1>11. CASE Activate
    <2>1. PICK k \in Jobs :
             /\ state[k] \in {"Paused", "Failed"} /\ SetState(k, "Queued")
             /\ uiPc \notin {"enqueuePersist", "postDurable"}
             /\ UNCHANGED <<saved, saveFailed, shuttingDown, durablePending, pc>>
      BY <1>11 DEF IInv, Requesting, Activate
    <2>2. \A j \in Jobs : FileKnows(j) => FileKnows(j)'
      <3>1. ASSUME NEW j \in Jobs, j # k, FileKnows(j) PROVE FileKnows(j)'
        BY <1>1, <2>1, <3>1 DEF SetState, FileKnows
      <3>2. FileKnows(k) => saved[k] \in {"unfinished", "failed"}
        BY <2>1 DEF FileKnows, DurableView, Live, ActiveStates
      <3>3. state'[k] = "Queued" /\ saved'[k] = saved[k]
        BY <1>1, <2>1 DEF SetState
      <3>4. FileKnows(k) => FileKnows(k)'
        BY <3>2, <3>3 DEF FileKnows, DurableView, Live, ActiveStates
      <3> QED BY <3>1, <3>4
    <2> QED BY <2>1, <2>2, StillUnsaved
  <1>12. CASE PersistNewTransfer \/ PersistRetry \/ SaveAtExit
    <2>1. UNCHANGED state /\ (SaveSucceeds \/ SaveFails)
      BY <1>12 DEF PersistNewTransfer, PersistRetry, SaveAtExit
    <2> QED BY <1>1, <2>1, SavePays DEF SaveOwed
  <1>13. CASE HandleQueueEvent
    <2>1. CASE SaveSucceeds \/ SaveFails
      BY <1>1, <1>13, <2>1, SavePays DEF HandleQueueEvent, SaveOwed
    <2>2. CASE UNCHANGED diskVars /\ (durablePending => durablePending')
      <3>1. uiPc \in {"enqueuePersist", "postDurable"} => uiPc' = uiPc
        BY <1>13 DEF HandleQueueEvent
      <3> QED BY <1>2, <1>13, <2>2, <3>1, StillUnsaved DEF HandleQueueEvent
    <2> QED BY <1>1, <1>13, <2>1, <2>2 DEF HandleQueueEvent
  <1>14. CASE EnqueueStaysPaused \/ PostAndNotify
    <2>1. Post(FALSE) /\ uiPc \notin {"enqueuePersist", "postDurable"}
      BY <1>14 DEF EnqueueStaysPaused, PostAndNotify
    <2>2. durablePending => durablePending'
      BY <2>1 DEF Post
    <2>3. /\ \A v \in Workers : pc[v] = "post" => pc'[v] = "post"
          /\ UNCHANGED <<state, saved, saveFailed, shuttingDown>>
      BY <1>1, <1>14 DEF EnqueueStaysPaused, PostAndNotify, Goto
    <2> QED BY <1>2, <2>1, <2>2, <2>3, StillUnsaved
  <1>15. CASE PostDurable
    <2>1. Post(TRUE) /\ UNCHANGED shuttingDown
      BY <1>15 DEF PostDurable
    <2>2. shuttingDown \/ durablePending'
      BY <2>1, PostPays
    <2> QED BY <2>1, <2>2 DEF SaveOwed
  <1>16. CASE PauseForExit \/ BeginShutdown
    BY <1>16 DEF PauseForExit, BeginShutdown, SaveOwed, EventOwed, UiExiting
  <1>17. CASE Restart
    <2>1. \A j \in Jobs : saved[j] \in {"gone", "unfinished", "failed"}
      BY DEF IInv, TypeOK
    <2>2. \A j \in Jobs : FileKnows(j)'
      BY <1>17, <2>1 DEF Restart, FileKnows, RestoredState, DurableView, ActiveStates
    <2> QED BY <2>2 DEF SaveOwed
  <1>18. CASE Start
    <2>1. /\ \A w \in Workers : pc[w] # "post"
          /\ UNCHANGED <<state, saved, saveFailed, shuttingDown, durablePending, uiPc>>
      BY <1>18 DEF IInv, StoppedWithoutSite, Start, Loop
    <2> QED BY <1>2, <2>1, StillUnsaved
  <1>19. CASE \/ RetryRefused \/ PauseApply \/ CancelApply \/ AllTold \/ JoinWorkers \/ LockForShutdown \/ Disconnect
              \/ BrowserPublishes \/ UNCHANGED vars
              \/ \E w \in Workers : RequestStop(w)
              \/ \E j \in Jobs : Pause(j) \/ Cancel(j) \/ Retry(j)
    <2>1. UNCHANGED <<state, saved, saveFailed, shuttingDown, durablePending, pc>>
      BY <1>19 DEF RetryRefused, PauseApply, CancelApply, AllTold, JoinWorkers, LockForShutdown, Disconnect,
         BrowserPublishes, RequestStop, Pause, Cancel, Look, Retry, vars
    <2>2. uiPc \in {"enqueuePersist", "postDurable"} => uiPc' = uiPc
      BY <1>19 DEF RetryRefused, PauseApply, CancelApply, AllTold, JoinWorkers, LockForShutdown, Disconnect,
         BrowserPublishes, RequestStop, Pause, Cancel, Look, Retry, vars, Loop, UiIdle
    <2> QED BY <1>2, <2>1, <2>2, StillUnsaved
  <1> QED
    BY <1>3, <1>4, <1>5, <1>6, <1>7, <1>8, <1>9, <1>10, <1>11, <1>12, <1>13, <1>14,
       <1>15, <1>16, <1>17, <1>18, <1>19
       DEF Next, UserStep, UiStep, WorkerStep

(* Once the events asking for a save are handled, the queue file tells     *)
(* what a restart should restore, unless the last save failed.             *)
THEOREM QueueFileCatchesUp == Spec => []SavedCatchesUp
  <1>1. Init => EventOwed /\ SaveOwed
    BY DEF Init, EventOwed, UiExiting, SaveOwed, FileKnows, DurableView, ActiveStates
  <1>2. IInv /\ EventOwed /\ SaveOwed /\ [Next]_vars => EventOwed' /\ SaveOwed'
    BY EventOwedStep, SaveOwedStep
  <1>3. SaveOwed => SavedCatchesUp
    BY DEF SaveOwed, SavedCatchesUp, AtRest, FileKnows, Live
  <1> QED BY <1>1, <1>2, <1>3, IInvHolds, PTL DEF Spec

-----------------------------------------------------------------------------
(* The controller implements TransferLifecycle.                            *)

Status  == [j \in Jobs |-> StatusOf(state[j])]
Holders == [j \in Jobs |-> {w \in Workers : jobOf[w] = j}]

(* A queue transition moves the status of its job only.                    *)
LEMMA StatusMoves ==
    ASSUME TypeOK, NEW j \in Jobs, NEW s \in AnyState, SetState(j, s)
    PROVE  Status' = [Status EXCEPT ![j] = StatusOf(s)]
  BY DEF TypeOK, SetState, Status

(* ... and a transition of the interface thread is one move of the         *)
(* lifecycle when it goes from a status to another this way.               *)
LEMMA UiTransition ==
    ASSUME TypeOK, UNCHANGED jobOf, NEW j \in Jobs, NEW s \in AnyState, SetState(j, s),
           \/ state[j] = "absent" /\ s = "Paused"
           \/ state[j] \in {"Paused", "Failed"} /\ s = "Queued"
           \/ state[j] = "Queued" /\ s = "Paused"
           \/ state[j] \in {"Queued", "Paused", "Failed"} /\ s = "Cancelled"
           \/ state[j] \in TerminalStates /\ s = "absent"
    PROVE  Lifecycle!Next
  <1>1. Status' = [Status EXCEPT ![j] = StatusOf(s)] /\ Status[j] = StatusOf(state[j])
    BY StatusMoves DEF Status
  <1>2. UNCHANGED Holders
    BY DEF Holders
  <1>3. \/ Lifecycle!Submit(j) \/ Lifecycle!Release(j) \/ Lifecycle!Hold(j)
        \/ Lifecycle!Withdraw(j) \/ Lifecycle!Forget(j)
    BY <1>1, <1>2
       DEF Lifecycle!Submit, Lifecycle!Release, Lifecycle!Hold, Lifecycle!Withdraw,
           Lifecycle!Forget, Lifecycle!Move, Status, Holders, StatusOf, ActiveStates,
           TerminalStates
  <1> QED BY <1>3 DEF Lifecycle!Next

LEMMA LifecycleStep == ASSUME IInv, [Next]_vars PROVE [Lifecycle!Next]_(Lifecycle!vars)
  <1> USE DEF IInv, queueVars, diskVars, eventVars, workerVars, lifeVars, uiVars
  <1>1. ASSUME UNCHANGED <<state, jobOf>> PROVE UNCHANGED Lifecycle!vars
    BY <1>1 DEF Lifecycle!vars
  <1>2. ASSUME NEW w \in Workers, Quiet(w) PROVE UNCHANGED Lifecycle!vars
    BY <1>1, <1>2, QuietKeeps
  <1>3. ASSUME NEW w \in Workers, TakeNext(w) PROVE [Lifecycle!Next]_(Lifecycle!vars)
    <2>1. CASE UNCHANGED <<state, jobOf>>
      BY <1>1, <2>1
    <2>2. ASSUME NEW j \in Jobs, state[j] = "Queued", SetState(j, "Enumerating"),
                 jobOf' = [jobOf EXCEPT ![w] = j]
          PROVE  Lifecycle!Claim(w, j)
      <3>1. jobOf[w] = None /\ \A k \in Jobs : k # None
        BY <1>3, ControllerAssumption DEF TakeNext, Working, WorkingAt, ControllerAssumption
      <3>2. Status' = [Status EXCEPT ![j] = "working"] /\ Status[j] = "waiting"
        BY <2>2, StatusMoves DEF Status, StatusOf, AnyState, TransferState, ActiveStates
      <3>3. \A k \in Jobs : w \notin Holders[k]
        BY <3>1 DEF Holders
      <3>4. \A v \in Workers : jobOf[v] # j
        BY <2>2 DEF OwnedOnce, ActiveStates
      <3>5. Holders' = [Holders EXCEPT ![j] = {w}]
        <4>1. jobOf'[w] = j /\ \A v \in Workers : v # w => jobOf'[v] = jobOf[v]
          BY <2>2 DEF TypeOK
        <4>2. Holders'[j] = {w}
          BY <3>4, <4>1 DEF Holders
        <4>3. ASSUME NEW k \in Jobs, k # j PROVE Holders'[k] = Holders[k]
          BY <3>1, <4>1, <4>3 DEF Holders
        <4> QED BY <4>2, <4>3 DEF Holders
      <3> QED BY <3>2, <3>3, <3>5
              DEF Lifecycle!Claim, Lifecycle!Move, Status, Holders
    <2> QED BY <1>3, <2>1, <2>2 DEF TakeNext, Lifecycle!Next
  <1>4. ASSUME NEW w \in Workers, MarkRunning(w) PROVE UNCHANGED Lifecycle!vars
    <2>1. /\ jobOf[w] \in Jobs /\ state[jobOf[w]] = "Enumerating"
          /\ SetState(jobOf[w], "Running") /\ UNCHANGED jobOf
      BY <1>4 DEF MarkRunning, Working, WorkingAt
    <2>2. \A j \in Jobs : StatusOf(state'[j]) = StatusOf(state[j])
      BY <2>1 DEF SetState, StatusOf, ActiveStates, TypeOK
    <2> QED BY <2>1, <2>2 DEF Lifecycle!vars
  <1>5. ASSUME NEW w \in Workers, Finalize(w) PROVE Lifecycle!Next
    <2>0. PICK j \in Jobs : j = jobOf[w]
      BY <1>5 DEF Finalize, Working, WorkingAt
    <2>1. /\ j # None /\ state[j] \in ActiveStates
          /\ result[w] = "ok" => state[j] = "Running"
      BY <1>5, <2>0, ControllerAssumption
         DEF Finalize, Working, WorkingAt, ControllerAssumption
    <2>2. \A v \in Workers : v # w => jobOf[v] # j
      BY <2>0, <2>1 DEF OwnedOnce
    <2>3. /\ Outcome(w) \in {"Completed", "Cancelled", "Paused", "Failed"}
          /\ Outcome(w) = "Completed" => result[w] = "ok"
      BY DEF Outcome, ResultState
    <2>4. SetState(j, Outcome(w))
      BY <1>5, <2>0, <2>1, <2>3 DEF Finalize, IsTransferTransitionAllowed, ActiveStates
    <2>5. Status' = [Status EXCEPT ![j] = StatusOf(Outcome(w))] /\ Status[j] = "working"
      BY <2>1, <2>3, <2>4, StatusMoves
         DEF Status, StatusOf, AnyState, TransferState, ActiveStates, TerminalStates
    <2>6. StatusOf(Outcome(w)) \in {"held", "done", "failed", "cancelled"}
      BY <2>3 DEF StatusOf, ActiveStates
    <2>7. Holders[j] = {w}
      BY <2>0, <2>1, <2>2 DEF Holders
    <2>8. Holders' = [Holders EXCEPT ![j] = {}]
      <3>1. jobOf' = [jobOf EXCEPT ![w] = None]
        BY <1>5 DEF Finalize
      <3>2. \A k \in Jobs : k # None
        BY ControllerAssumption DEF ControllerAssumption
      <3>3. jobOf'[w] = None /\ \A v \in Workers : v # w => jobOf'[v] = jobOf[v]
        BY <3>1 DEF TypeOK
      <3>4. Holders'[j] = {}
        BY <2>0, <2>1, <2>2, <3>3 DEF Holders
      <3>5. ASSUME NEW k \in Jobs, k # j PROVE Holders'[k] = Holders[k]
        BY <2>0, <3>2, <3>3, <3>5 DEF Holders
      <3> QED BY <2>1, <3>4, <3>5 DEF Holders
    <2>9. Lifecycle!Settle(w, j)
      <3>1. Lifecycle!Move(j, {"working"}, StatusOf(Outcome(w)))
        BY <2>5 DEF Lifecycle!Move, Status
      <3>2. \E s \in {"held", "done", "failed", "cancelled"} : Lifecycle!Move(j, {"working"}, s)
        BY <2>6, <3>1
      <3>3. Holders[j] = {w} /\ Holders' = [Holders EXCEPT ![j] = {}]
        BY <2>7, <2>8
      <3> QED BY ONLY <3>2, <3>3 DEF Lifecycle!Settle, Holders
    <2> QED BY <2>9 DEF Lifecycle!Next
  <1>6. ASSUME NEW w \in Workers, AnswerWorker(w) PROVE UNCHANGED Lifecycle!vars
    BY <1>1, <1>6 DEF AnswerWorker, EndWith, WorkerOnly
  <1>7. ASSUME NEW j \in Jobs, Enqueue(j) \/ RemoveTerminal(j) PROVE Lifecycle!Next
    BY <1>7, UiTransition
       DEF Enqueue, EnqueueAs, RemoveTerminal, AnyState, TransferState
  <1>8. CASE Activate
    <2>1. uiJob \in Jobs /\ state[uiJob] \in {"Paused", "Failed"}
      BY <1>8 DEF Activate, Requesting
    <2> QED BY <1>8, <2>1, UiTransition DEF Activate, AnyState, TransferState
  <1>9. CASE PauseInQueue
    <2>1. uiJob \in Jobs /\ UNCHANGED jobOf
      BY <1>9 DEF PauseInQueue, Requesting
    <2>2. CASE SetState(uiJob, "Paused") /\ state[uiJob] = "Queued"
      BY <2>1, <2>2, UiTransition DEF AnyState, TransferState
    <2>3. CASE UNCHANGED state
      BY <1>1, <2>1, <2>3
    <2> QED BY <1>9, <2>2, <2>3 DEF PauseInQueue, PauseIfQueued
  <1>10. CASE CancelInQueue
    <2>1. uiJob \in Jobs /\ UNCHANGED jobOf
      BY <1>10 DEF CancelInQueue, Requesting
    <2>2. CASE SetState(uiJob, "Cancelled") /\ state[uiJob] \in {"Queued", "Paused", "Failed"}
      BY <2>1, <2>2, UiTransition DEF AnyState, TransferState, TerminalStates
    <2>3. CASE UNCHANGED state
      BY <1>1, <2>1, <2>3
    <2> QED BY <1>10, <2>2, <2>3 DEF CancelInQueue, CancelIfInactive
  <1>11. CASE PauseApply \/ CancelApply \/ PauseForExit
    BY <1>1, <1>11 DEF PauseApply, CancelApply, PauseForExit
  <1>12. CASE Restart
    <2>1. \A j \in Jobs : state'[j] = RestoredState(saved[j])
      BY <1>12 DEF Restart
    <2>2. Status' \in [Jobs -> {"none", "held", "failed"}]
      BY <2>1 DEF Status, StatusOf, RestoredState, ActiveStates
    <2>3. ASSUME NEW j \in Jobs, Status[j] \in {"waiting", "working", "failed"}
          PROVE  Status'[j] # "none"
      <3>1. state[j] \in Kept
        BY <2>3 DEF Status, StatusOf, Kept, Live, ActiveStates, TypeOK, AnyState,
           TransferState, TerminalStates
      <3>2. saved[j] \in {"unfinished", "failed"}
        BY <3>1 DEF NothingForgotten, TypeOK
      <3> QED BY <2>1, <3>2 DEF Status, StatusOf, RestoredState, ActiveStates
    <2>4. Holders' = [j \in Jobs |-> {}]
      <3>1. \A w \in Workers : jobOf'[w] = None
        BY <1>12 DEF Restart, NoJobs
      <3> QED BY <3>1, ControllerAssumption DEF Holders, ControllerAssumption
    <2>5. Lifecycle!Restart
      BY <2>2, <2>3, <2>4 DEF Lifecycle!Restart, Lifecycle!Kept, Status, Holders
    <2> QED BY <2>5 DEF Lifecycle!Next
  <1>13. CASE \/ PersistNewTransfer \/ EnqueueStaysPaused \/ PostAndNotify \/ PostDurable
              \/ PersistRetry \/ RetryRefused \/ HandleQueueEvent \/ AllTold \/ JoinWorkers
              \/ LockForShutdown \/ SaveAtExit \/ Start \/ Disconnect \/ BeginShutdown
              \/ BrowserPublishes \/ UNCHANGED vars
              \/ \E w \in Workers : RequestStop(w)
              \/ \E j \in Jobs : Pause(j) \/ Cancel(j) \/ Retry(j)
    <2>1. UNCHANGED <<state, jobOf>>
      BY <1>13 DEF PersistNewTransfer, EnqueueStaysPaused, PostAndNotify, PostDurable,
         PersistRetry, RetryRefused, HandleQueueEvent, AllTold, JoinWorkers,
         LockForShutdown, SaveAtExit, Start, Disconnect, BeginShutdown, BrowserPublishes,
         RequestStop, Pause, Cancel, Look, Retry, vars
    <2> QED BY <1>1, <2>1
  <1> QED
    BY <1>2, <1>3, <1>4, <1>5, <1>6, <1>7, <1>8, <1>9, <1>10, <1>11, <1>12, <1>13
       DEF Next, UserStep, UiStep, WorkerStep, Quiet

(* The controller implements TransferLifecycle: jobs run one worker at a   *)
(* time and only when released, only their worker ends them, and a restart *)
(* runs nothing and loses nothing that was waiting, running or failed.     *)
THEOREM LifecycleImplemented == Spec => ImplementsLifecycle
  <1>1. Init => Lifecycle!Init
    <2> SUFFICES ASSUME Init PROVE Lifecycle!Init
      OBVIOUS
    <2>1. \A j \in Jobs : state[j] = "absent" /\ \A w \in Workers : jobOf[w] # j
      BY ControllerAssumption DEF Init, NoJobs, ControllerAssumption
    <2>2. \A j \in Jobs : StatusOf(state[j]) = "none"
      BY <2>1 DEF StatusOf, ActiveStates
    <2>3. \A j \in Jobs : {w \in Workers : jobOf[w] = j} = {}
      BY <2>1
    <2> QED BY <2>2, <2>3 DEF Lifecycle!Init
  <1>2. IInv /\ [Next]_vars => [Lifecycle!Next]_(Lifecycle!vars)
    BY LifecycleStep
  <1> QED BY <1>1, <1>2, IInvHolds, PTL DEF Spec, ImplementsLifecycle, Lifecycle!Spec
=============================================================================
