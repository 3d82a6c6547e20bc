----------------------------- MODULE DownloadFile -----------------------------
(***************************************************************************)
(* The download of one file, from plan to commit: ProcessTransfer in       *)
(* src/ui/remoteController.cpp and Download in the two sessions.           *)
(*                                                                         *)
(* A download writes a partial file beside its destination and renames it  *)
(* at the end.  When it stops early the controller keeps a checkpoint (the *)
(* source's modification time as planned, the partial file's size and      *)
(* time), which queue.cson carries over a restart; a later attempt resumes *)
(* when the checkpoint still fits.  Several jobs may have the same         *)
(* destination, the source may change at any time, and the user may put a  *)
(* file of his own at the destination.                                     *)
(*                                                                         *)
(* Content is a sequence of chunks, each named by the job whose source it  *)
(* came from and that source's version.  Every version has the same size:  *)
(* changes of size are easier to notice.  The source is edited in place;   *)
(* its modification time tells its versions apart, and so do those of a    *)
(* partial file (stamp).                                                   *)
(***************************************************************************)
EXTENDS Naturals, Sequences, Functions

CONSTANTS
    Jobs,
    SftpJobs,           \* the jobs of an SFTP site; the others are of FTP
    Files,              \* local names; First is the destination of every job
    First,
    Size,               \* chunks of every source
    MaxRuns,            \* bound: attempts of a job (QueuedTransfer::attempt)
    MaxAttempts,        \* bound: attempts of all jobs
    MaxForeign          \* bound: changes of sources, and files the user creates

ASSUME DownloadAssumption ==
    /\ First \in Files /\ SftpJobs \subseteq Jobs
    /\ Size \in Nat \ {0}
    /\ MaxRuns \in Nat /\ MaxAttempts \in Nat /\ MaxForeign \in Nat

VARIABLES
    source,             \* the remote files: their versions
    foreign,            \* changes others made
    file,               \* the local destinations
    part,               \* their partial files
    target,             \* a job's destination, as renamed
    checkpoint,         \* downloadResumes
    saved,              \* queue.cson: target, checkpoint and whether it is done
    pc,                 \* where each job is
    runs,
    plan,               \* the version of the source the plan saw
    seen,               \* ... and the one the session saw
    offer,              \* what the conflict question was about
    options,            \* TransferOptions
    vouched             \* the session began the partial file, or went on with the very
                        \* one that a sound checkpoint describes

vars == <<source, foreign, file, part, target, checkpoint, saved, pc, runs, plan, seen, offer,
          options, vouched>>
world == <<source, foreign>>
localVars == <<file, part>>
jobVars == <<target, checkpoint>>
attemptVars == <<plan, seen, offer, options, vouched>>

Absent == [there |-> FALSE, bytes |-> <<>>]
UserFile == [there |-> TRUE, bytes |-> <<>>]
NoPart == [there |-> FALSE, bytes |-> <<>>, stamp |-> 0]
NoCheckpoint == [there |-> FALSE, version |-> 0, size |-> 0, stamp |-> 0, sound |-> FALSE]
NoOffer == [asked |-> FALSE, exists |-> FALSE, safe |-> FALSE, size |-> 0]
NoOptions == [offset |-> 0, overwrite |-> FALSE]

Goto(j, label) == pc' = [pc EXCEPT ![j] = label]

(* What the attempt knew ends with it.                                     *)
Leave(j, label) ==
    /\ Goto(j, label)
    /\ plan' = [plan EXCEPT ![j] = 0] /\ seen' = [seen EXCEPT ![j] = 0]
    /\ offer' = [offer EXCEPT ![j] = NoOffer]
    /\ options' = [options EXCEPT ![j] = NoOptions]
    /\ vouched' = [vouched EXCEPT ![j] = FALSE]

(* The reservations of the destination and of its partial file live as     *)
(* long as the session works on them.                                      *)
InSession == {j \in Jobs : pc[j] \in {"attributes", "open", "read", "finalize", "committed"}}
Reserved == {target[j] : j \in InSession}

-----------------------------------------------------------------------------
Init ==
    /\ source = [j \in Jobs |-> 1] /\ foreign = 0
    /\ file = [f \in Files |-> Absent] /\ part = [f \in Files |-> NoPart]
    /\ target = [j \in Jobs |-> First]
    /\ checkpoint = [j \in Jobs |-> NoCheckpoint]
    /\ saved = [j \in Jobs |-> [target |-> First, checkpoint |-> NoCheckpoint,
                                done |-> FALSE]]
    /\ pc = [j \in Jobs |-> "idle"] /\ runs = [j \in Jobs |-> 0]
    /\ plan = [j \in Jobs |-> 0] /\ seen = [j \in Jobs |-> 0]
    /\ offer = [j \in Jobs |-> NoOffer] /\ options = [j \in Jobs |-> NoOptions]
    /\ vouched = [j \in Jobs |-> FALSE]

(* An attempt begins: the source is listed.                                *)
PlanDownload(j) ==
    /\ pc[j] = "idle" /\ runs[j] < MaxRuns /\ SumFunction(runs) < MaxAttempts
    /\ runs' = [runs EXCEPT ![j] = @ + 1]
    /\ plan' = [plan EXCEPT ![j] = source[j]]
    /\ Goto(j, "inspect")
    /\ UNCHANGED <<world, localVars, jobVars, saved, seen, offer, options, vouched>>

SafeResumeBySize(j) ==                                             \* mutant
    LET p == part[target[j]] c == checkpoint[j]
    IN  p.there /\ c.there /\ c.size = Len(p.bytes)

(* The checkpoint fits the plan and the partial file.                      *)
SafeResume(j) ==
    LET p == part[target[j]] c == checkpoint[j]
    IN  /\ p.there /\ c.there
        /\ c.version = plan[j]
        /\ c.size = Len(p.bytes) /\ c.stamp = p.stamp
        /\ Len(p.bytes) <= Size

Inspect(j) ==
    LET f == target[j]
    IN  /\ pc[j] = "inspect"
        /\ IF file[f].there \/ part[f].there
           THEN /\ offer' = [offer EXCEPT ![j] =
                       [asked |-> TRUE, exists |-> file[f].there, safe |-> SafeResume(j),
                        size |-> Len(part[f].bytes)]]
                /\ Goto(j, "asking")
           ELSE Goto(j, "reserve") /\ UNCHANGED offer
        /\ UNCHANGED <<world, localVars, jobVars, saved, runs, plan, seen, options, vouched>>

(* ResolveTransferConflict: an answer of the user, or his default policy.  *)
Decide(j, label, offset, overwrite) ==
    /\ pc[j] = "asking"
    /\ options' = [options EXCEPT ![j] = [offset |-> offset, overwrite |-> overwrite]]
    /\ Goto(j, label)
    /\ UNCHANGED <<world, localVars, saved, runs, plan, seen, offer, vouched>>

AnswerOverwrite(j) == Decide(j, "reserve", 0, TRUE) /\ UNCHANGED jobVars

AnswerResume(j) ==
    /\ offer[j].safe
    /\ Decide(j, "reserve", offer[j].size, offer[j].exists)
    /\ UNCHANGED jobVars

(* A cancelled question, or a resume that is not safe, or no name is free. *)
GiveUp(j) ==
    /\ pc[j] = "asking" /\ Leave(j, "idle")
    /\ UNCHANGED <<world, localVars, jobVars, saved, runs>>

AnswerSkip(j) ==
    /\ pc[j] = "asking" /\ Leave(j, "done")
    /\ UNCHANGED <<world, localVars, jobVars, saved, runs>>

(* RememberResolvedDestination: the name and the loss of the checkpoints   *)
(* for the former name are one step, before the queue is saved.            *)
AnswerRename(j) ==
    /\ \E f \in Files : /\ ~file[f].there /\ ~part[f].there
                        /\ target' = [target EXCEPT ![j] = f]
    /\ checkpoint' = [checkpoint EXCEPT ![j] = NoCheckpoint]
    /\ Decide(j, "persist", 0, FALSE)

SaveQueue ==
    saved' = [i \in Jobs |-> [target |-> target[i], checkpoint |-> checkpoint[i],
                              done |-> pc[i] = "done"]]

PersistRename(j) ==
    /\ pc[j] = "persist"
    /\ \/ SaveQueue /\ Goto(j, "reserve") /\ UNCHANGED attemptVars
       \/ UNCHANGED saved /\ Leave(j, "idle")
    /\ UNCHANGED <<world, localVars, jobVars, runs>>

Reserve(j) ==
    /\ pc[j] = "reserve"
    /\ IF target[j] \in Reserved THEN Leave(j, "idle")
       ELSE Goto(j, "attributes") /\ UNCHANGED attemptVars
    /\ UNCHANGED <<world, localVars, jobVars, saved, runs>>

-----------------------------------------------------------------------------
(* The session                                                             *)

ReadAttributes(j) ==
    /\ pc[j] = "attributes"
    /\ seen' = [seen EXCEPT ![j] = source[j]]
    /\ Goto(j, "open")
    /\ UNCHANGED <<world, localVars, jobVars, saved, runs, plan, offer, options, vouched>>

StillResumable(j) ==
    LET p == part[target[j]] IN p.there /\ Len(p.bytes) = options[j].offset

OpenPart(j) ==
    LET f == target[j]
    IN  /\ pc[j] = "open"
        /\ IF options[j].offset = 0
           THEN /\ part' = [part EXCEPT ![f] = [there |-> TRUE, bytes |-> <<>>,
                                                stamp |-> @.stamp + 1]]
                /\ vouched' = [vouched EXCEPT ![j] = TRUE]
           ELSE /\ StillResumable(j) /\ UNCHANGED part
                /\ vouched' = [vouched EXCEPT ![j] = /\ checkpoint[j].sound
                                                     /\ checkpoint[j].stamp = part[f].stamp]
        /\ Goto(j, "read")
        /\ UNCHANGED <<world, file, jobVars, saved, runs, plan, seen, offer, options>>

ReadChunk(j) ==
    LET f == target[j]
    IN  /\ pc[j] = "read" /\ Len(part[f].bytes) < Size
        /\ part' = [part EXCEPT ![f].bytes = Append(@, <<j, source[j]>>),
                                ![f].stamp = @ + 1]
        /\ UNCHANGED <<world, file, jobVars, saved, pc, runs, attemptVars>>

UnchangedBySize(j) == TRUE                                         \* mutant

(* SFTP looks at the opened file once more; FTP has no such check.         *)
VerifiedUnchanged(j) == j \in SftpJobs => source[j] = seen[j]

FinishReading(j) ==
    /\ pc[j] = "read" /\ Len(part[target[j]].bytes) = Size
    /\ VerifiedUnchanged(j)
    /\ Goto(j, "finalize")
    /\ UNCHANGED <<world, localVars, jobVars, saved, runs, attemptVars>>

MayReplaceAlways(j) == TRUE                                        \* mutant
MayReplace(j) == options[j].overwrite \/ ~file[target[j]].there

(* FinalizeLocalDownload                                                   *)
Finalize(j) ==
    LET f == target[j]
    IN  /\ pc[j] = "finalize" /\ MayReplace(j)
        /\ file' = [file EXCEPT ![f] = [there |-> TRUE, bytes |-> part[f].bytes]]
        /\ part' = [part EXCEPT ![f].there = FALSE, ![f].bytes = <<>>]
        /\ Goto(j, "committed")
        /\ UNCHANGED <<world, jobVars, saved, runs, attemptVars>>

(* Whatever stopped the session, the controller describes the partial file *)
(* it finds as one of the planned source.                                  *)
RecordCheckpoint(j) ==
    LET p == part[target[j]]
    IN  [there |-> TRUE, version |-> plan[j], size |-> Len(p.bytes), stamp |-> p.stamp,
         sound |-> vouched[j]]

StopSession(j) ==
    /\ checkpoint' = IF part[target[j]].there
                     THEN [checkpoint EXCEPT ![j] = RecordCheckpoint(j)]
                     ELSE checkpoint
    /\ Leave(j, "idle")
    /\ UNCHANGED <<world, localVars, target, saved, runs>>

(* A pause, a cancellation, a lost connection, a full disk.                *)
Interrupt(j) ==
    /\ pc[j] \in {"attributes", "open", "read", "finalize"}
    /\ StopSession(j)

(* The checks of the session itself.                                       *)
Refuse(j) ==
    /\ \/ pc[j] = "open" /\ options[j].offset # 0 /\ ~StillResumable(j)
       \/ pc[j] = "read" /\ Len(part[target[j]].bytes) = Size /\ ~VerifiedUnchanged(j)
       \/ pc[j] = "finalize" /\ ~MayReplace(j)
    /\ StopSession(j)

EraseCheckpoint(j) ==
    /\ pc[j] = "committed"
    /\ checkpoint' = [checkpoint EXCEPT ![j] = NoCheckpoint]
    /\ Leave(j, "done")
    /\ UNCHANGED <<world, localVars, target, saved, runs>>

-----------------------------------------------------------------------------
(* Around it: the main window saves the queue, the process ends, the       *)
(* source changes, the user creates a file.                                *)
PersistQueue ==
    /\ SaveQueue
    /\ UNCHANGED <<world, localVars, jobVars, pc, runs, attemptVars>>

Restart ==
    /\ target' = [j \in Jobs |-> saved[j].target]
    /\ checkpoint' = [j \in Jobs |-> saved[j].checkpoint]
    /\ pc' = [j \in Jobs |-> IF saved[j].done THEN "done" ELSE "idle"]
    /\ plan' = [j \in Jobs |-> 0] /\ seen' = [j \in Jobs |-> 0]
    /\ offer' = [j \in Jobs |-> NoOffer] /\ options' = [j \in Jobs |-> NoOptions]
    /\ vouched' = [j \in Jobs |-> FALSE]
    /\ UNCHANGED <<world, localVars, saved, runs>>

ChangeSource(j) ==
    /\ foreign < MaxForeign /\ foreign' = foreign + 1
    /\ source' = [source EXCEPT ![j] = @ + 1]
    /\ UNCHANGED <<localVars, jobVars, saved, pc, runs, attemptVars>>

CreateFile(f) ==
    /\ foreign < MaxForeign /\ foreign' = foreign + 1
    /\ ~file[f].there
    /\ file' = [file EXCEPT ![f] = UserFile]
    /\ UNCHANGED <<source, part, jobVars, saved, pc, runs, attemptVars>>

JobStep(j) ==
    \/ PlanDownload(j) \/ Inspect(j)
    \/ AnswerOverwrite(j) \/ AnswerResume(j) \/ GiveUp(j) \/ AnswerSkip(j)
    \/ AnswerRename(j) \/ PersistRename(j) \/ Reserve(j)
    \/ ReadAttributes(j) \/ OpenPart(j) \/ ReadChunk(j) \/ FinishReading(j)
    \/ Finalize(j) \/ Interrupt(j) \/ Refuse(j) \/ EraseCheckpoint(j)

Next ==
    \/ PersistQueue \/ Restart
    \/ \E j \in Jobs : JobStep(j) \/ ChangeSource(j)
    \/ \E f \in Files : CreateFile(f)

Spec == Init /\ [][Next]_vars

-----------------------------------------------------------------------------
Versions == 1 .. (1 + MaxForeign)
Chunk == Jobs \X Versions

CheckpointType ==
    [there: BOOLEAN, version: Versions \cup {0}, size: 0 .. Size, stamp: Nat, sound: BOOLEAN]

TypeOK ==
    /\ source \in [Jobs -> Versions] /\ foreign \in 0 .. MaxForeign
    /\ \A f \in Files :
          /\ file[f].there \in BOOLEAN /\ file[f].bytes \in Seq(Chunk)
          /\ part[f].there \in BOOLEAN /\ part[f].bytes \in Seq(Chunk)
          /\ Len(part[f].bytes) <= Size /\ part[f].stamp \in Nat
          /\ ~part[f].there => part[f].bytes = <<>>
    /\ target \in [Jobs -> Files]
    /\ checkpoint \in [Jobs -> CheckpointType]
    /\ saved \in [Jobs -> [target: Files, checkpoint: CheckpointType, done: BOOLEAN]]
    /\ pc \in [Jobs -> {"idle", "inspect", "asking", "persist", "reserve", "attributes",
                        "open", "read", "finalize", "committed", "done"}]
    /\ runs \in [Jobs -> 0 .. MaxRuns]
    /\ plan \in [Jobs -> Versions \cup {0}] /\ seen \in [Jobs -> Versions \cup {0}]
    /\ offer \in [Jobs -> [asked: BOOLEAN, exists: BOOLEAN, safe: BOOLEAN, size: 0 .. Size]]
    /\ options \in [Jobs -> [offset: 0 .. Size, overwrite: BOOLEAN]]
    /\ vouched \in [Jobs -> BOOLEAN]

ComesFrom(bytes, first, j, versions) ==
    \A i \in first .. Len(bytes) : bytes[i][1] = j /\ bytes[i][2] \in versions

(* While a session reads, everything after its offset is its own: no other *)
(* download of the same destination truncates, extends or commits the      *)
(* partial file, though both may have planned, asked and been answered     *)
(* before either reserved it (ReserveLocalDestination).                    *)
OwnBytesOnly ==
    \A j \in Jobs : pc[j] \in {"read", "finalize"} =>
        LET p == part[target[j]]
        IN  /\ p.there /\ Len(p.bytes) >= options[j].offset
            /\ ComesFrom(p.bytes, options[j].offset + 1, j, seen[j] .. source[j])

(* A download commits one version of its source, whole, however often it   *)
(* was stopped, restarted and resumed on the way and whatever other        *)
(* downloads did to the partial file, unless it went on with bytes that no *)
(* sound checkpoint describes, or with a source that changed between the   *)
(* plan and the opening: the checkpoint is compared with the plan only,    *)
(* before the question is asked (SafeResume; SftpSession::Download,        *)
(* "Recheck the opened file ... to detect growth").                        *)
CommitsAreWhole ==
    \A j \in SftpJobs :
        /\ pc[j] = "committed" /\ vouched[j]
        /\ options[j].offset = 0 \/ plan[j] = seen[j]
        => LET bytes == file[target[j]].bytes
           IN  Len(bytes) = Size /\ ComesFrom(bytes, 1, j, {seen[j]})

(* What a session writes is its own, and what it commits is whole.         *)
DownloadsAreWhole == TypeOK /\ OwnBytesOnly /\ CommitsAreWhole

(* No file that exists is replaced by a download that asked nothing: it    *)
(* may have appeared since the download looked (FinalizeLocalDownload).    *)
ReplacesWhenAsked ==
    \A f \in Files : file[f].there /\ file'[f] # file[f] =>
        \E j \in Jobs : target[j] = f /\ pc[j] = "finalize" /\ offer[j].asked
NothingReplacedUnasked == [][ReplacesWhenAsked]_vars

(* A checkpoint that fits tells the truth: when the source is still the    *)
(* one it names and the partial file has its size and time, every byte     *)
(* there came from that source.                                            *)
Honest(j, c, p) ==
    /\ c.there /\ c.version = source[j]
    /\ p.there /\ c.size = Len(p.bytes) /\ c.stamp = p.stamp
    => ComesFrom(p.bytes, 1, j, {source[j]})

(* So does every checkpoint, in this process or the next, that a session   *)
(* left which had opened the partial file, to begin it or to go on with    *)
(* what a checkpoint like this one describes; whatever other downloads     *)
(* with this destination did in between.                                   *)
CheckpointsAreHonest ==
    \A j \in Jobs :
        /\ checkpoint[j].sound => Honest(j, checkpoint[j], part[target[j]])
        /\ saved[j].checkpoint.sound =>
              Honest(j, saved[j].checkpoint, part[saved[j].target])

(* The help's "verified partial transfer" asks for more: that any          *)
(* checkpoint does, one left by a session that failed before it opened the *)
(* file included (README, "Findings").                                     *)
ResumesAreVerified == \A j \in Jobs : Honest(j, checkpoint[j], part[target[j]])
=============================================================================
