------------------------- MODULE TransferQueueProofs -------------------------
(***************************************************************************)
(* Proofs about TransferQueue for every set of ids, sites and paths.  All  *)
(* the invariants speak of one job at a time, so the inductive invariant   *)
(* is a predicate on a job, GoodJob, lifted to the list; each operation    *)
(* then only has to turn a good job into a good job.                       *)
(***************************************************************************)
EXTENDS TransferQueue, TLAPS

GoodJob(job) ==
    /\ job \in Job
    /\ job.state = "Failed" => job.error
    /\ job.error => job.state \in {"Failed", "Cancelled"}
    /\ job.total # NoTotal => job.bytes <= job.total
    /\ job.active <= job.bytes
    /\ ValidateTransferDestinations(job)
    /\ ~(job.guarded /\ job.recursive)

(* The inductive invariant.                                                *)
IInv ==
    /\ jobs = [id \in DOMAIN jobs |-> jobs[id]]
    /\ DOMAIN jobs \subseteq JobIds
    /\ \A id \in DOMAIN jobs : GoodJob(jobs[id])
    /\ nextRank \in 0 .. MaxRank

(* Replacing one job of the list by a good job keeps the list good; every  *)
(* operation on a single job is an Update.                                 *)
LEMMA UpdateKeepsIInv ==
    ASSUME IInv, NEW id \in DOMAIN jobs, NEW job, GoodJob(job), Update(id, job)
    PROVE  IInv'
  <1>1. /\ DOMAIN jobs' = DOMAIN jobs
        /\ jobs' = [i \in DOMAIN jobs' |-> jobs'[i]]
        /\ \A i \in DOMAIN jobs : jobs'[i] = IF i = id THEN job ELSE jobs[i]
    BY DEF IInv, Update
  <1>2. \A i \in DOMAIN jobs' : GoodJob(jobs'[i])
    BY <1>1 DEF IInv
  <1>3. nextRank' \in 0 .. MaxRank /\ DOMAIN jobs' \subseteq JobIds
    BY <1>1 DEF IInv, Update
  <1> QED BY <1>1, <1>2, <1>3 DEF IInv

(* A job that only changed its state and error, to an inactive or active   *)
(* state without an error, stays good (Transition, PauseIfQueued, ...).    *)
LEMMA StateChangeKeepsGood ==
    ASSUME NEW job, GoodJob(job), NEW s \in TransferState, NEW e \in BOOLEAN,
           s = "Failed" => e, e => s \in {"Failed", "Cancelled"}
    PROVE  GoodJob([job EXCEPT !.state = s, !.error = e])
  BY DEF GoodJob, Job, ValidateTransferDestinations,
         ValidateDestinationResolution, Overridden

(* The same for an operation that does not touch the error.                *)
LEMMA PlainStateChangeKeepsGood ==
    ASSUME NEW job, GoodJob(job), NEW s \in TransferState, s # "Failed",
           job.error => s = "Cancelled"
    PROVE  GoodJob([job EXCEPT !.state = s])
  <1>1. [job EXCEPT !.state = s] = [job EXCEPT !.state = s, !.error = job.error]
    BY DEF GoodJob, Job
  <1>2. job.error \in BOOLEAN
    BY DEF GoodJob, Job
  <1>3. GoodJob([job EXCEPT !.state = s, !.error = job.error])
    BY <1>2, StateChangeKeepsGood
  <1> QED BY <1>1, <1>3

LEMMA InitIInv == ASSUME Init PROVE IInv
  BY QueueAssumption DEF Init, IInv

(* A new job is well formed and carries no mapping, error or progress.     *)
LEMMA EnqueueKeepsIInv ==
    ASSUME IInv, NEW id \in JobIds, NEW site \in Sites,
           NEW recursive \in BOOLEAN, NEW guarded \in BOOLEAN,
           NEW path \in Paths, NEW s \in {"Queued", "Paused"},
           EnqueueWithState(id, site, recursive, guarded, path, s)
    PROVE  IInv'
  <1> DEFINE new == NewTransfer(site, recursive, guarded, path, s)
  <1>1. nextRank \in 0 .. MaxRank /\ nextRank' \in 0 .. MaxRank
    BY QueueAssumption DEF IInv, EnqueueWithState
  <1>2. new \in Job
    BY <1>1, QueueAssumption
       DEF NewTransfer, Job, TransferState, ActiveStates, TerminalStates
  <1>3. Overridden(new) = {}
    BY DEF Overridden, NewTransfer
  <1>4. GoodJob(new)
    <2>1. /\ new.state = s /\ new.error = FALSE
          /\ new.total = NoTotal /\ new.active = 0 /\ new.bytes = 0
          /\ new.guarded = guarded /\ new.recursive = recursive
      BY DEF NewTransfer
    <2>2. ~(guarded /\ recursive)
      BY DEF EnqueueWithState
    <2>3. ValidateTransferDestinations(new)
      BY <1>3 DEF ValidateTransferDestinations
    <2> HIDE DEF new
    <2> QED BY <1>2, <2>1, <2>2, <2>3 DEF GoodJob
  <1>5. /\ DOMAIN jobs' = DOMAIN jobs \cup {id}
        /\ \A i \in DOMAIN jobs' : jobs'[i] = IF i = id THEN new ELSE jobs[i]
        /\ jobs' = [i \in DOMAIN jobs' |-> jobs'[i]]
    BY DEF EnqueueWithState
  <1> HIDE DEF new
  <1>6. \A i \in DOMAIN jobs' : GoodJob(jobs'[i])
    BY <1>4, <1>5 DEF IInv
  <1> QED BY <1>1, <1>5, <1>6 DEF IInv

LEMMA TakeNextKeepsIInv ==
    ASSUME IInv, NEW id, NEW filter, TakeNext(id, filter)
    PROVE  IInv'
  <1> DEFINE new == [jobs[id] EXCEPT !.state = "Enumerating",
                                     !.attempt = @ + 1, !.error = FALSE]
  <1>1. id \in DOMAIN jobs /\ GoodJob(jobs[id]) /\ Update(id, new)
    BY DEF TakeNext, IInv
  <1>2. jobs[id].attempt + 1 \in 0 .. MaxAttempt
    BY <1>1, QueueAssumption DEF GoodJob, Job, TakeNext
  <1>3. new \in Job
    BY <1>1, <1>2 DEF GoodJob, Job, TransferState, ActiveStates
  <1>4. /\ new.state = "Enumerating" /\ new.error = FALSE
        /\ new.recursive = jobs[id].recursive /\ new.guarded = jobs[id].guarded
        /\ new.path = jobs[id].path /\ new.overrides = jobs[id].overrides
        /\ new.bytes = jobs[id].bytes /\ new.active = jobs[id].active
        /\ new.total = jobs[id].total
    BY <1>1 DEF GoodJob, Job
  <1> HIDE DEF new
  <1>5. ValidateTransferDestinations(new)
    BY <1>1, <1>4 DEF GoodJob, ValidateTransferDestinations,
       ValidateDestinationResolution, Overridden
  <1>6. GoodJob(new)
    BY <1>1, <1>3, <1>4, <1>5 DEF GoodJob
  <1> QED BY <1>1, <1>6, UpdateKeepsIInv

LEMMA ResolveDestinationKeepsIInv ==
    ASSUME IInv, NEW id, NEW original \in Paths, NEW resolved \in Paths,
           ResolveDestination(id, original, resolved)
    PROVE  IInv'
  <1> DEFINE new == ResolvedJob(jobs[id], original, resolved)
  <1>1. id \in DOMAIN jobs /\ GoodJob(jobs[id]) /\ Update(id, new)
    BY DEF ResolveDestination, IInv
  <1>2. ValidateTransferDestinations(new)
    BY DEF ResolveDestination
  <1>3. /\ new \in Job
        /\ \A f \in {"site", "recursive", "guarded", "state", "attempt",
                     "error", "bytes", "active", "total", "rank"} :
               new[f] = jobs[id][f]
    BY <1>1 DEF GoodJob, Job, ResolvedJob
  <1>4. GoodJob(new)
    <2> HIDE DEF new
    <2> QED BY <1>1, <1>2, <1>3 DEF GoodJob, Job
  <1> HIDE DEF new
  <1> QED BY <1>1, <1>4, UpdateKeepsIInv

(* Only a failed job carries an error, and the single transition that      *)
(* leaves Failed without clearing it is the cancellation.                  *)
LEMMA TransitionKeepsIInv ==
    ASSUME IInv, NEW id, NEW target, Transition(id, target)
    PROVE  IInv'
  <1>1. id \in DOMAIN jobs /\ GoodJob(jobs[id])
    BY DEF Transition, IInv
  <1>2. target \in TransferState /\ target # "Failed"
    BY DEF Transition, TransferState, ActiveStates, TerminalStates
  <1>3. jobs[id].error => target = "Cancelled"
    BY <1>1 DEF Transition, GoodJob, IsTransferTransitionAllowed
  <1>4. GoodJob([jobs[id] EXCEPT !.state = target])
    BY <1>1, <1>2, <1>3, PlainStateChangeKeepsGood
  <1> QED BY <1>1, <1>4, UpdateKeepsIInv DEF Transition

LEMMA PauseIfQueuedKeepsIInv ==
    ASSUME IInv, NEW id, PauseIfQueued(id)
    PROVE  IInv'
  <1>1. id \in DOMAIN jobs /\ GoodJob(jobs[id])
    BY DEF PauseIfQueued, IInv
  <1>2. ~jobs[id].error
    BY <1>1 DEF PauseIfQueued, GoodJob
  <1>3. GoodJob([jobs[id] EXCEPT !.state = "Paused"])
    BY <1>1, <1>2, PlainStateChangeKeepsGood DEF TransferState
  <1> QED BY <1>1, <1>3, UpdateKeepsIInv DEF PauseIfQueued

LEMMA FailKeepsIInv ==
    ASSUME IInv, NEW id, Fail(id)
    PROVE  IInv'
  <1>1. id \in DOMAIN jobs /\ GoodJob(jobs[id])
    BY DEF Fail, IInv
  <1>2. GoodJob([jobs[id] EXCEPT !.state = "Failed", !.error = TRUE])
    BY <1>1, StateChangeKeepsGood DEF TransferState, TerminalStates
  <1> QED BY <1>1, <1>2, UpdateKeepsIInv DEF Fail

LEMMA CancelIfInactiveKeepsIInv ==
    ASSUME IInv, NEW id, CancelIfInactive(id)
    PROVE  IInv'
  <1>1. id \in DOMAIN jobs /\ GoodJob(jobs[id])
    BY DEF CancelIfInactive, IInv
  <1>2. GoodJob([jobs[id] EXCEPT !.state = "Cancelled"])
    BY <1>1, PlainStateChangeKeepsGood DEF TransferState, TerminalStates
  <1> QED BY <1>1, <1>2, UpdateKeepsIInv DEF CancelIfInactive

(* Progress is replaced by values that satisfy AcceptableProgress.         *)
LEMMA UpdateProgressKeepsIInv ==
    ASSUME IInv, NEW id, NEW bytes \in 0 .. MaxBytes, NEW active \in 0 .. MaxBytes,
           NEW total \in (0 .. MaxBytes) \cup {NoTotal},
           UpdateProgress(id, bytes, active, total)
    PROVE  IInv'
  <1> DEFINE new == [jobs[id] EXCEPT !.bytes = bytes, !.active = active,
                                     !.total = total]
  <1>1. id \in DOMAIN jobs /\ GoodJob(jobs[id]) /\ Update(id, new)
    BY DEF UpdateProgress, IInv
  <1>2. new \in Job
    BY <1>1 DEF GoodJob, Job
  <1>3. /\ new.state = jobs[id].state /\ new.error = jobs[id].error
        /\ new.recursive = jobs[id].recursive /\ new.guarded = jobs[id].guarded
        /\ new.path = jobs[id].path /\ new.overrides = jobs[id].overrides
        /\ new.bytes = bytes /\ new.active = active /\ new.total = total
    BY <1>1 DEF GoodJob, Job
  <1>4. (total # NoTotal => bytes <= total) /\ active <= bytes
    BY DEF UpdateProgress, AcceptableProgress
  <1> HIDE DEF new
  <1>5. ValidateTransferDestinations(new)
    BY <1>1, <1>3 DEF GoodJob, ValidateTransferDestinations,
       ValidateDestinationResolution, Overridden
  <1>6. GoodJob(new)
    BY <1>1, <1>2, <1>3, <1>4, <1>5 DEF GoodJob
  <1> QED BY <1>1, <1>6, UpdateKeepsIInv

LEMMA RetryKeepsIInv ==
    ASSUME IInv, NEW id, Retry(id)
    PROVE  IInv'
  <1> DEFINE new == RetriedTransfer(jobs[id])
  <1>1. id \in DOMAIN jobs /\ GoodJob(jobs[id]) /\ Update(id, new)
    BY DEF Retry, IInv
  <1>2. new \in Job
    <2>1. "Queued" \in TransferState /\ 0 \in 0 .. MaxBytes
      BY QueueAssumption DEF TransferState
    <2> QED BY <1>1, <2>1 DEF GoodJob, Job, RetriedTransfer
  <1>3. /\ new.state = "Queued" /\ new.error = FALSE
        /\ new.recursive = jobs[id].recursive /\ new.guarded = jobs[id].guarded
        /\ new.path = jobs[id].path /\ new.overrides = jobs[id].overrides
        /\ new.bytes = 0 /\ new.active = 0 /\ new.total = NoTotal
    BY <1>1 DEF GoodJob, Job, RetriedTransfer
  <1> HIDE DEF new
  <1>4. ValidateTransferDestinations(new)
    BY <1>1, <1>3 DEF GoodJob, ValidateTransferDestinations,
       ValidateDestinationResolution, Overridden
  <1>5. GoodJob(new)
    BY <1>1, <1>2, <1>3, <1>4 DEF GoodJob
  <1> QED BY <1>1, <1>5, UpdateKeepsIInv

LEMMA RemoveTerminalKeepsIInv ==
    ASSUME IInv, NEW ids, RemoveTerminal(ids)
    PROVE  IInv'
  <1>1. /\ DOMAIN jobs' \subseteq DOMAIN jobs
        /\ \A i \in DOMAIN jobs' : jobs'[i] = jobs[i]
        /\ jobs' = [i \in DOMAIN jobs' |-> jobs'[i]]
    BY DEF RemoveTerminal
  <1>2. \A i \in DOMAIN jobs' : GoodJob(jobs'[i])
    BY <1>1 DEF IInv
  <1> QED BY <1>1, <1>2 DEF IInv, RemoveTerminal

(* What a good, unfinished job is restored as.                             *)
LEMMA RestoredIsGood ==
    ASSUME NEW job, GoodJob(job), job.state \notin {"Completed", "Cancelled"}
    PROVE  /\ GoodJob(RestoredTransfer(job))
           /\ NormalizeRestoredTransfer(RestoredTransfer(job))
  <1> DEFINE new == RestoredTransfer(job)
  <1>1. new \in Job
    <2> DEFINE s == IF job.state = "Failed" THEN "Failed" ELSE "Paused"
    <2>1. s \in TransferState /\ 0 \in 0 .. MaxBytes
      BY QueueAssumption DEF TransferState, TerminalStates
    <2>2. new = [job EXCEPT !.state = s, !.active = 0]
      BY DEF RestoredTransfer
    <2> HIDE DEF s, new
    <2> QED BY <2>1, <2>2 DEF GoodJob, Job
  <1>2. /\ new.state = IF job.state = "Failed" THEN "Failed" ELSE "Paused"
        /\ new.error = job.error
        /\ new.recursive = job.recursive /\ new.guarded = job.guarded
        /\ new.path = job.path /\ new.overrides = job.overrides
        /\ new.bytes = job.bytes /\ new.active = 0 /\ new.total = job.total
    BY DEF GoodJob, Job, RestoredTransfer
  <1>3. job.error <=> job.state = "Failed"
    BY DEF GoodJob
  <1>4. 0 <= job.bytes
    BY DEF GoodJob, Job
  <1> HIDE DEF new
  <1>5. ValidateTransferDestinations(new)
    BY <1>2 DEF GoodJob, ValidateTransferDestinations,
       ValidateDestinationResolution, Overridden
  <1>6. GoodJob(new)
    BY <1>1, <1>2, <1>3, <1>4, <1>5 DEF GoodJob
  <1>7. NormalizeRestoredTransfer(new)
    BY <1>2, <1>3, <1>5 DEF GoodJob, NormalizeRestoredTransfer
  <1> QED BY <1>6, <1>7 DEF new

LEMMA RestoreKeepsIInv ==
    ASSUME IInv, Restore
    PROVE  IInv'
  <1>1. /\ DOMAIN jobs' \subseteq DOMAIN jobs
        /\ \A i \in DOMAIN jobs' :
              /\ jobs'[i] = RestoredTransfer(jobs[i])
              /\ jobs[i].state \notin {"Completed", "Cancelled"}
        /\ jobs' = [i \in DOMAIN jobs' |-> jobs'[i]]
    BY DEF Restore, PersistentQueueItems
  <1>2. \A i \in DOMAIN jobs' : GoodJob(jobs'[i])
    BY <1>1, RestoredIsGood DEF IInv
  <1> QED BY <1>1, <1>2 DEF IInv, Restore

-----------------------------------------------------------------------------
(* Every operation of the queue preserves the inductive invariant.         *)
LEMMA NextKeepsIInv == ASSUME IInv, [Next]_vars PROVE IInv'
  <1>1. ASSUME NEW id \in JobIds, NEW site \in Sites, NEW recursive \in BOOLEAN,
               NEW guarded \in BOOLEAN, NEW path \in Paths,
               NEW s \in {"Queued", "Paused"},
               EnqueueWithState(id, site, recursive, guarded, path, s)
        PROVE  IInv'
    BY <1>1, EnqueueKeepsIInv
  <1>2. ASSUME NEW id \in JobIds, NEW filter, TakeNext(id, filter) PROVE IInv'
    BY <1>2, TakeNextKeepsIInv
  <1>3. ASSUME NEW id \in JobIds, NEW original \in Paths, NEW resolved \in Paths,
               ResolveDestination(id, original, resolved)
        PROVE  IInv'
    BY <1>3, ResolveDestinationKeepsIInv
  <1>4. ASSUME NEW id \in JobIds, NEW target, Transition(id, target) PROVE IInv'
    BY <1>4, TransitionKeepsIInv
  <1>5. ASSUME NEW id \in JobIds, NEW bytes \in 0 .. MaxBytes,
               NEW active \in 0 .. MaxBytes,
               NEW total \in (0 .. MaxBytes) \cup {NoTotal},
               UpdateProgress(id, bytes, active, total)
        PROVE  IInv'
    BY <1>5, UpdateProgressKeepsIInv
  <1>6. ASSUME NEW id \in JobIds, PauseIfQueued(id) PROVE IInv'
    BY <1>6, PauseIfQueuedKeepsIInv
  <1>7. ASSUME NEW id \in JobIds, Fail(id) PROVE IInv'
    BY <1>7, FailKeepsIInv
  <1>8. ASSUME NEW id \in JobIds, CancelIfInactive(id) PROVE IInv'
    BY <1>8, CancelIfInactiveKeepsIInv
  <1>9. ASSUME NEW id \in JobIds, Retry(id) PROVE IInv'
    BY <1>9, RetryKeepsIInv
  <1>10. ASSUME NEW ids, RemoveTerminal(ids) PROVE IInv'
    BY <1>10, RemoveTerminalKeepsIInv
  <1>11. CASE Restore
    BY <1>11, RestoreKeepsIInv
  <1>12. CASE UNCHANGED vars
    BY <1>12 DEF vars, IInv
  <1> QED
    BY <1>1, <1>2, <1>3, <1>4, <1>5, <1>6, <1>7, <1>8, <1>9, <1>10, <1>11, <1>12
       DEF Next

(* The inductive invariant holds of the specification.                     *)
THEOREM IInvHolds == Spec => []IInv
  <1>1. Init => IInv
    BY InitIInv
  <1>2. IInv /\ [Next]_vars => IInv'
    BY NextKeepsIInv
  <1> QED BY <1>1, <1>2, PTL DEF Spec

(* The list holds well-formed jobs at all times.                           *)
THEOREM TypeCorrect == Spec => []TypeOK
  <1>1. IInv => TypeOK
    BY DEF IInv, TypeOK, GoodJob
  <1> QED BY <1>1, IInvHolds, PTL

(* Errors belong to failed or cancelled jobs only.                         *)
THEOREM ErrorsMatchStates == Spec => []ErrorMatchesState
  <1>1. IInv => ErrorMatchesState
    BY DEF IInv, ErrorMatchesState, GoodJob
  <1> QED BY <1>1, IInvHolds, PTL

(* Progress stays within its total.                                        *)
THEOREM ProgressIsBounded == Spec => []ProgressBounded
  <1>1. IInv => ProgressBounded
    BY DEF IInv, ProgressBounded, GoodJob
  <1> QED BY <1>1, IInvHolds, PTL

(* Renamed files of one job never collide or escape.                       *)
THEOREM RenamesNeverCollide == Spec => []DestinationsCollisionFree
  <1>1. IInv => DestinationsCollisionFree
    BY DEF IInv, DestinationsCollisionFree, GoodJob, ValidateTransferDestinations,
           ValidateDestinationResolution, Overridden
  <1> QED BY <1>1, IInvHolds, PTL

(* Every snapshot can be restored.                                         *)
THEOREM SnapshotsAreRestorable == Spec => []SnapshotRestorable
  <1>1. IInv => SnapshotRestorable
    BY RestoredIsGood DEF IInv, SnapshotRestorable, PersistentQueueItems
  <1> QED BY <1>1, IInvHolds, PTL
=============================================================================
