---------------------------- MODULE TransferQueue ----------------------------
(***************************************************************************)
(* The thread-safe job list of one connection tab                          *)
(* (src/core/transferQueue.cpp).  Every public operation takes the queue's *)
(* mutex for its whole body, so an operation is one atomic action.         *)
(*                                                                         *)
(* jobs maps the ids in mJobs to their QueuedTransfer; the position of a   *)
(* job in the vector is its rank.  A (site id, endpoint) pair is one       *)
(* member of Sites.  Of a job's paths only the destination side is kept:   *)
(* the source side may never change (ValidateDestinationResolution).       *)
(* "elapsed" moves with "active" and is left out.                          *)
(***************************************************************************)
EXTENDS Integers, FiniteSets, TransferStates

CONSTANTS
    JobIds,         \* transfer ids
    Sites,          \* site id together with its immutable endpoint identity
    AnySite,        \* the empty filter of TakeNext
    Paths,          \* destination paths
    NoPath,         \* "no override recorded for this file"
    ParentOf,       \* directory of each path
    InsideRoot,     \* the paths inside the roots of recursive jobs
    NoTotal,        \* std::nullopt in TransferProgress::totalBytes
    MaxBytes,       \* bound on byte counts
    MaxAttempt,     \* bound on QueuedTransfer::attempt
    MaxRank         \* bound on the number of enqueued jobs

ASSUME QueueAssumption ==
    /\ MaxBytes \in Nat /\ MaxAttempt \in Nat /\ MaxRank \in Nat
    /\ AnySite \notin Sites /\ NoPath \notin Paths
    /\ NoTotal \notin Nat
    /\ InsideRoot \subseteq Paths

VARIABLES
    jobs,           \* mJobs
    nextRank        \* the position the next job is appended at

vars == <<jobs, nextRank>>

Job == [ site      : Sites,
         recursive : BOOLEAN,
         guarded   : BOOLEAN,                  \* expectedRemoteRevision is set
         path      : Paths,                    \* destination of a single file
         overrides : [Paths -> Paths \cup {NoPath}],
         state     : TransferState,
         attempt   : 0 .. MaxAttempt,
         error     : BOOLEAN,
         bytes     : 0 .. MaxBytes,
         active    : 0 .. MaxBytes,
         total     : (0 .. MaxBytes) \cup {NoTotal},
         rank      : 0 .. MaxRank ]

(***************************************************************************)
(* Destinations.  A resolution maps the original destination of one file   *)
(* to the destination a conflict rename chose.                             *)
(***************************************************************************)
ValidateDestinationResolution(job, original, resolved) ==
    /\ ParentOf[original] = ParentOf[resolved]
    /\ IF job.recursive THEN {original, resolved} \subseteq InsideRoot
                        ELSE original = job.path

Overridden(job) == {p \in Paths : job.overrides[p] # NoPath}

DestinationsWithoutUniqueness(job) ==                              \* mutant
    /\ job.recursive \/ Overridden(job) = {}
    /\ \A p \in Overridden(job) :
           ValidateDestinationResolution(job, p, job.overrides[p])

ValidateTransferDestinations(job) ==
    /\ job.recursive \/ Overridden(job) = {}
    /\ \A p \in Overridden(job) :
           ValidateDestinationResolution(job, p, job.overrides[p])
    /\ \A p, q \in Overridden(job) :
           p # q => job.overrides[p] # job.overrides[q]

ResolvedJob(job, original, resolved) ==
    IF job.recursive
    THEN [job EXCEPT !.overrides[original] = resolved]
    ELSE [job EXCEPT !.path = resolved]

(***************************************************************************)
(* Restore.  RestoredState is applied after DecodeItem of the queue file   *)
(* has already made queued work inert.                                     *)
(***************************************************************************)
NormalizeRestoredTransfer(job) ==
    /\ ValidateTransferDestinations(job)
    /\ ~(job.guarded /\ job.recursive)
    /\ job.total # NoTotal => job.bytes <= job.total
    /\ job.state \notin {"Completed", "Cancelled"}
    /\ job.error <=> job.state = "Failed"

PersistentQueueItems ==
    {id \in DOMAIN jobs : jobs[id].state \notin {"Completed", "Cancelled"}}

RestoredTransfer(job) ==
    [job EXCEPT !.state  = IF job.state = "Failed" THEN "Failed" ELSE "Paused",
                !.active = 0]

-----------------------------------------------------------------------------
Init == jobs = <<>> /\ nextRank = 0

Update(id, job) == jobs' = [jobs EXCEPT ![id] = job] /\ UNCHANGED nextRank

NewTransfer(site, recursive, guarded, path, initialState) ==
    [site |-> site, recursive |-> recursive, guarded |-> guarded,
     path |-> path, overrides |-> [p \in Paths |-> NoPath],
     state |-> initialState, attempt |-> 0, error |-> FALSE,
     bytes |-> 0, active |-> 0, total |-> NoTotal, rank |-> nextRank]

(* RemoteController::Enqueue refuses an expected revision on a recursive   *)
(* job before it reaches the queue.                                        *)
EnqueueWithState(id, site, recursive, guarded, path, initialState) ==
    /\ id \notin DOMAIN jobs
    /\ ~(guarded /\ recursive)
    /\ nextRank < MaxRank
    /\ jobs' = [i \in DOMAIN jobs \cup {id} |->
                  IF i = id
                  THEN NewTransfer(site, recursive, guarded, path, initialState)
                  ELSE jobs[i]]
    /\ nextRank' = nextRank + 1

Claimable(id, filter) ==
    jobs[id].state = "Queued" /\ filter \in {AnySite, jobs[id].site}

TakeNext(id, filter) ==
    /\ id \in DOMAIN jobs
    /\ Claimable(id, filter)
    /\ \A other \in DOMAIN jobs :
           Claimable(other, filter) => jobs[id].rank <= jobs[other].rank
    /\ jobs[id].attempt < MaxAttempt
    /\ Update(id, [jobs[id] EXCEPT !.state = "Enumerating",
                                   !.attempt = @ + 1,
                                   !.error = FALSE])

ResolveDestination(id, original, resolved) ==
    LET updated == ResolvedJob(jobs[id], original, resolved) IN
    /\ id \in DOMAIN jobs
    /\ jobs[id].state \in ActiveStates
    /\ ValidateDestinationResolution(jobs[id], original, resolved)
    /\ ValidateTransferDestinations(updated)
    /\ Update(id, updated)

(* MarkEnumerating, MarkRunning, Pause, Complete and Cancel.               *)
Transition(id, target) ==
    /\ id \in DOMAIN jobs
    /\ target \in {"Enumerating", "Running", "Paused", "Completed", "Cancelled"}
    /\ IsTransferTransitionAllowed(jobs[id].state, target)
    /\ Update(id, [jobs[id] EXCEPT !.state = target])

ProgressMayExceedTotal(job, bytes, active, total) ==               \* mutant
    /\ bytes >= job.bytes
    /\ active <= bytes
    /\ active >= job.active

AcceptableProgress(job, bytes, active, total) ==
    /\ bytes >= job.bytes
    /\ total # NoTotal => bytes <= total
    /\ active <= bytes
    /\ active >= job.active

UpdateProgress(id, bytes, active, total) ==
    /\ id \in DOMAIN jobs
    /\ jobs[id].state \in ActiveStates
    /\ AcceptableProgress(jobs[id], bytes, active, total)
    /\ Update(id, [jobs[id] EXCEPT !.bytes = bytes, !.active = active, !.total = total])

PauseIfQueued(id) ==
    /\ id \in DOMAIN jobs
    /\ jobs[id].state = "Queued"
    /\ Update(id, [jobs[id] EXCEPT !.state = "Paused"])

Fail(id) ==
    /\ id \in DOMAIN jobs
    /\ IsTransferTransitionAllowed(jobs[id].state, "Failed")
    /\ Update(id, [jobs[id] EXCEPT !.state = "Failed", !.error = TRUE])

CancelIfInactive(id) ==
    /\ id \in DOMAIN jobs
    /\ jobs[id].state \in {"Queued", "Paused", "Failed"}
    /\ Update(id, [jobs[id] EXCEPT !.state = "Cancelled"])

RetriedTransfer(job) ==
    [job EXCEPT !.state = "Queued", !.error = FALSE,
                !.bytes = 0, !.active = 0, !.total = NoTotal]

Retry(id) ==
    /\ id \in DOMAIN jobs
    /\ IsTransferTransitionAllowed(jobs[id].state, "Queued")
    /\ Update(id, RetriedTransfer(jobs[id]))

Removable(ids) ==
    \A id \in ids : id \in DOMAIN jobs /\ jobs[id].state \in TerminalStates

RemoveTerminal(ids) ==
    /\ ids # {}
    /\ Removable(ids)
    /\ jobs' = [i \in DOMAIN jobs \ ids |-> jobs[i]]
    /\ UNCHANGED nextRank

(* The process ends and the next one restores the snapshot of the moment   *)
(* it was saved.  Restore accepts the snapshot as a whole or not at all;   *)
(* the controller's constructor throws when it does not.                   *)
Restore ==
    /\ \A id \in PersistentQueueItems :
           NormalizeRestoredTransfer(RestoredTransfer(jobs[id]))
    /\ jobs' = [id \in PersistentQueueItems |-> RestoredTransfer(jobs[id])]
    /\ UNCHANGED nextRank

Next ==
    \/ \E id \in JobIds, site \in Sites, recursive, guarded \in BOOLEAN,
          path \in Paths, initialState \in {"Queued", "Paused"} :
           EnqueueWithState(id, site, recursive, guarded, path, initialState)
    \/ \E id \in JobIds, filter \in Sites \cup {AnySite} : TakeNext(id, filter)
    \/ \E id \in JobIds, original, resolved \in Paths :
           ResolveDestination(id, original, resolved)
    \/ \E id \in JobIds, target \in TransferState : Transition(id, target)
    \/ \E id \in JobIds, bytes, active \in 0 .. MaxBytes,
          total \in (0 .. MaxBytes) \cup {NoTotal} :
           UpdateProgress(id, bytes, active, total)
    \/ \E id \in JobIds : PauseIfQueued(id)
    \/ \E id \in JobIds : Fail(id)
    \/ \E id \in JobIds : CancelIfInactive(id)
    \/ \E id \in JobIds : Retry(id)
    \/ \E ids \in SUBSET JobIds : RemoveTerminal(ids)
    \/ Restore

Spec == Init /\ [][Next]_vars

-----------------------------------------------------------------------------
(* The list holds well-formed jobs; positions are below the append         *)
(* position.                                                               *)
TypeOK ==
    /\ jobs = [id \in DOMAIN jobs |-> jobs[id]]
    /\ DOMAIN jobs \subseteq JobIds
    /\ \A id \in DOMAIN jobs : jobs[id] \in Job
    /\ nextRank \in 0 .. MaxRank

(* A failed job always carries the error the Failed view shows, and an     *)
(* error left over from an earlier attempt never follows a job that was    *)
(* retried, claimed or paused (TakeNext, Fail, Retry).                     *)
ErrorMatchesState ==
    \A id \in DOMAIN jobs :
        /\ jobs[id].state = "Failed" => jobs[id].error
        /\ jobs[id].error => jobs[id].state \in {"Failed", "Cancelled"}

(* However per-file, aggregate and restored progress reports interleave    *)
(* with retries, logical progress stays within the announced total and the *)
(* throughput sample within logical progress (UpdateProgress, Retry,       *)
(* NormalizeRestoredTransfer).                                             *)
ProgressBounded ==
    \A id \in DOMAIN jobs :
        /\ jobs[id].total # NoTotal => jobs[id].bytes <= jobs[id].total
        /\ jobs[id].active <= jobs[id].bytes

(* No sequence of conflict renames makes two renamed files of one job      *)
(* share a destination, moves a file to another directory or out of the    *)
(* job's root, or leaves a mapping on a single-file job                    *)
(* (ResolveDestination, ValidateTransferDestinations).                     *)
DestinationsCollisionFree ==
    \A id \in DOMAIN jobs : \A p \in Overridden(jobs[id]) :
        LET destination == jobs[id].overrides[p] IN
        /\ jobs[id].recursive
        /\ destination \in InsideRoot
        /\ ParentOf[destination] = ParentOf[p]
        /\ \A q \in Paths \ {p} : jobs[id].overrides[q] # destination

(* Whatever the queue was doing when it was saved, the next start can      *)
(* restore it: no job the program itself created is refused, which would   *)
(* refuse the whole snapshot (PersistentQueueItems, Restore).              *)
SnapshotRestorable ==
    \A id \in PersistentQueueItems :
        NormalizeRestoredTransfer(RestoredTransfer(jobs[id]))

(* Progress moves backwards only when the user retries: no late report of  *)
(* a file or of an earlier attempt can lower it (UpdateProgress).          *)
ProgressMonotone ==
    [][\A id \in DOMAIN jobs \cap DOMAIN jobs' :
          jobs'[id].bytes < jobs[id].bytes =>
              /\ jobs[id].state \in {"Paused", "Failed"}
              /\ jobs'[id].state = "Queued"]_vars

(* Work disappears from the list only after it ended, and work that was    *)
(* completed or cancelled never becomes active again (RemoveTerminal,      *)
(* IsTransferTransitionAllowed, Restore).                                  *)
OnlyEndedWorkLeaves ==
    [][\A id \in DOMAIN jobs :
          \/ id \notin DOMAIN jobs' /\ jobs[id].state \in TerminalStates
          \/ /\ id \in DOMAIN jobs'
             /\ jobs[id].state \in {"Completed", "Cancelled"} =>
                    jobs'[id].state = jobs[id].state]_vars
=============================================================================
