------------------------------ MODULE UploadFile ------------------------------
(***************************************************************************)
(* The upload of one file, from plan to commit: ProcessTransfer in         *)
(* src/ui/remoteController.cpp, Upload and Rename in the two sessions.     *)
(*                                                                         *)
(* An upload writes a temporary file of a name of its own beside the       *)
(* destination and renames it at the end.  Name and source are remembered  *)
(* (uploadResumes) and saved before the first byte is written, so that a   *)
(* later attempt, of this process or the next, can resume.  An upload that *)
(* saves an external edit is guarded: it may only replace the revision the *)
(* edit started from, or one the user was shown.                           *)
(*                                                                         *)
(* Several jobs may have one destination; the source is edited in place at *)
(* any time; others change the server.  Content is a sequence of chunks    *)
(* <<job, version of its source>>; every version has the same size.  A     *)
(* revision of a destination is a number, 0 when there is no file.         *)
(***************************************************************************)
EXTENDS Naturals, Sequences, Functions

CONSTANTS
    Jobs,
    Guarded,            \* the jobs with an expectedRemoteRevision
    Files,              \* remote names; First is the destination of every job
    First,
    Size,               \* chunks of every source
    MaxVersion,         \* bound: versions of a source
    MaxRuns,            \* bound: attempts of a job
    MaxAttempts,        \* bound: attempts of all jobs
    MaxForeign          \* bound: changes others make on the server

ASSUME UploadAssumption ==
    /\ First \in Files /\ Guarded \subseteq Jobs
    /\ Size \in Nat \ {0} /\ MaxVersion \in Nat \ {0}
    /\ MaxRuns \in Nat /\ MaxAttempts \in Nat /\ MaxForeign \in Nat

VARIABLES
    source,             \* versions of the local files
    remote,             \* the destinations: revision and content
    clock,              \* the last revision the server gave
    foreign,            \* changes others made
    temp,               \* temporary files, by job and attempt that named them
    target,             \* a job's destination, as renamed
    checkpoint,         \* uploadResumes: version and temporary name (0: none)
    saved,              \* queue.cson
    pc,
    runs,
    looked,             \* the version of the source this attempt saw
    offer,              \* what the destination and the temporary file looked like
    options,            \* TransferOptions and the authorized revision
    touched             \* others changed the destination after the last look at it

vars == <<source, remote, clock, foreign, temp, target, checkpoint, saved, pc, runs,
          looked, offer, options, touched>>
server == <<remote, clock, foreign, temp>>
attemptVars == <<looked, offer, options>>

NoTemp == [there |-> FALSE, bytes |-> <<>>]
NoCheckpoint == [version |-> 0, temp |-> 0]
NoOffer == [revision |-> 0, safe |-> FALSE, size |-> 0]
NoOptions == [offset |-> 0, temp |-> 0, overwrite |-> FALSE, authorized |-> 0]

Goto(j, label) == pc' = [pc EXCEPT ![j] = label]

(* What the attempt knew ends with it.                                     *)
Leave(j, label) ==
    /\ Goto(j, label)
    /\ looked' = [looked EXCEPT ![j] = 0] /\ offer' = [offer EXCEPT ![j] = NoOffer]
    /\ options' = [options EXCEPT ![j] = NoOptions]
    /\ touched' = [touched EXCEPT ![j] = FALSE]

InSession == {"open", "write", "settle", "confirm", "check", "rename", "committed"}
Reserved == {target[j] : j \in {i \in Jobs : pc[i] \in InSession}}

-----------------------------------------------------------------------------
Init ==
    /\ source = [j \in Jobs |-> 1]
    /\ remote = [f \in Files |-> [revision |-> IF f = First THEN 1 ELSE 0, bytes |-> <<>>]]
    /\ clock = 1 /\ foreign = 0
    /\ temp = [t \in Jobs \X (1 .. MaxRuns) |-> NoTemp]
    /\ target = [j \in Jobs |-> First]
    /\ checkpoint = [j \in Jobs |-> NoCheckpoint]
    /\ saved = [j \in Jobs |-> [target |-> First, checkpoint |-> NoCheckpoint,
                                done |-> FALSE]]
    /\ pc = [j \in Jobs |-> "idle"] /\ runs = [j \in Jobs |-> 0]
    /\ looked = [j \in Jobs |-> 0] /\ offer = [j \in Jobs |-> NoOffer]
    /\ options = [j \in Jobs |-> NoOptions] /\ touched = [j \in Jobs |-> FALSE]

SafeResumeBySize(j) ==                                             \* mutant
    LET c == checkpoint[j] IN c.temp # 0 /\ temp[<<j, c.temp>>].there

(* The checkpoint is of this source as it is now, and its temporary file   *)
(* is still there.                                                         *)
SafeResume(j) ==
    LET c == checkpoint[j]
    IN  /\ c.temp # 0 /\ c.version = source[j]
        /\ temp[<<j, c.temp>>].there /\ Len(temp[<<j, c.temp>>].bytes) <= Size

(* An attempt begins: the source and the destination are looked at.  An    *)
(* edit whose revision still matches needs no question.                    *)
Inspect(j) ==
    LET revision == remote[target[j]].revision
        size == IF SafeResume(j) THEN Len(temp[<<j, checkpoint[j].temp>>].bytes) ELSE 0
        resumed == IF SafeResume(j) THEN checkpoint[j].temp ELSE 0
    IN  /\ pc[j] = "idle" /\ runs[j] < MaxRuns /\ SumFunction(runs) < MaxAttempts
        /\ runs' = [runs EXCEPT ![j] = @ + 1]
        /\ looked' = [looked EXCEPT ![j] = source[j]]
        /\ offer' = [offer EXCEPT ![j] = [revision |-> revision, safe |-> SafeResume(j),
                                          size |-> size]]
        /\ options' = [options EXCEPT ![j] =
               IF j \in Guarded
               THEN [offset |-> size, temp |-> resumed, overwrite |-> revision # 0,
                     authorized |-> revision]
               ELSE NoOptions]
        /\ Goto(j, CASE j \in Guarded -> IF revision = 1 THEN "remember" ELSE "changed"
                     [] j \notin Guarded -> IF revision # 0 \/ SafeResume(j)
                                            THEN "asking" ELSE "remember")
        /\ UNCHANGED <<source, server, target, checkpoint, saved, touched>>

(* ConfirmRemoteChangedOverwrite, before the session.                      *)
AcceptChanged(j) ==
    /\ pc[j] = "changed" /\ Goto(j, "remember")
    /\ UNCHANGED <<source, server, target, checkpoint, saved, runs, attemptVars, touched>>

GiveUp(j) ==
    /\ pc[j] \in {"changed", "asking"} /\ Leave(j, "idle")
    /\ UNCHANGED <<source, server, target, checkpoint, saved, runs>>

(* ResolveTransferConflict                                                 *)
Decide(j, label, chosen) ==
    /\ pc[j] = "asking"
    /\ options' = [options EXCEPT ![j] = chosen]
    /\ Goto(j, label)
    /\ UNCHANGED <<source, server, saved, runs, looked, offer, touched>>

AnswerOverwrite(j) ==
    /\ Decide(j, "remember", [NoOptions EXCEPT !.overwrite = offer[j].revision # 0])
    /\ UNCHANGED <<target, checkpoint>>

AnswerResume(j) ==
    /\ offer[j].safe
    /\ Decide(j, "remember", [NoOptions EXCEPT !.offset = offer[j].size,
                                               !.temp = checkpoint[j].temp,
                                               !.overwrite = offer[j].revision # 0])
    /\ UNCHANGED <<target, checkpoint>>

AnswerSkip(j) ==
    /\ pc[j] = "asking" /\ Leave(j, "done")
    /\ UNCHANGED <<source, server, target, checkpoint, saved, runs>>

AnswerRename(j) ==
    /\ \E f \in Files : remote[f].revision = 0 /\ target' = [target EXCEPT ![j] = f]
    /\ checkpoint' = [checkpoint EXCEPT ![j] = NoCheckpoint]
    /\ Decide(j, "persistName", NoOptions)

SaveQueue ==
    saved' = [i \in Jobs |-> [target |-> target[i], checkpoint |-> checkpoint[i],
                              done |-> pc[i] = "done"]]

(* The temporary name is new, or the one resumed; source and name become   *)
(* the checkpoint.                                                         *)
Remember(j) ==
    LET t == IF options[j].temp # 0 THEN options[j].temp ELSE runs[j]
    IN  /\ pc[j] = "remember"
        /\ options' = [options EXCEPT ![j].temp = t]
        /\ checkpoint' = [checkpoint EXCEPT ![j] = [version |-> looked[j], temp |-> t]]
        /\ Goto(j, "persist") /\ offer' = [offer EXCEPT ![j] = NoOffer]
        /\ UNCHANGED <<source, server, target, saved, runs, looked, touched>>

(* PersistQueueOnUi: the save may fail, and then the attempt ends.         *)
Persist(j) ==
    /\ pc[j] \in {"persistName", "persist"}
    /\ \/ /\ SaveQueue
          /\ Goto(j, IF pc[j] = "persist" THEN "reserve" ELSE "remember")
          /\ UNCHANGED <<attemptVars, touched>>
       \/ UNCHANGED saved /\ Leave(j, "idle")
    /\ UNCHANGED <<source, server, target, checkpoint, runs>>

Reserve(j) ==
    /\ pc[j] = "reserve"
    /\ IF target[j] \in Reserved
       THEN Leave(j, "idle")
       ELSE Goto(j, "open") /\ UNCHANGED <<attemptVars, touched>>
    /\ UNCHANGED <<source, server, target, checkpoint, saved, runs>>

-----------------------------------------------------------------------------
(* The session                                                             *)

OwnTemp(j) == <<j, options[j].temp>>

StillResumable(j) ==
    temp[OwnTemp(j)].there /\ Len(temp[OwnTemp(j)].bytes) = options[j].offset

Step(j, label) ==
    /\ Goto(j, label)
    /\ UNCHANGED <<source, remote, clock, foreign, target, checkpoint, saved, runs, looked>>

OpenTemp(j) ==
    LET t == OwnTemp(j)
    IN  /\ pc[j] = "open"
        /\ IF options[j].offset = 0
           THEN temp' = [temp EXCEPT ![t] = [there |-> TRUE, bytes |-> <<>>]]
           ELSE StillResumable(j) /\ UNCHANGED temp
        /\ Step(j, "write") /\ UNCHANGED <<offer, options, touched>>

WriteChunk(j) ==
    LET t == OwnTemp(j)
    IN  /\ pc[j] = "write" /\ Len(temp[t].bytes) < Size
        /\ temp' = [temp EXCEPT ![t].bytes = Append(@, <<j, source[j]>>)]
        /\ Step(j, "write") /\ UNCHANGED <<offer, options, touched>>

FinishShort(j) ==                                                  \* mutant
    /\ pc[j] = "write"
    /\ Step(j, CASE j \in Guarded -> "settle"
                 [] j \notin Guarded -> IF options[j].overwrite THEN "rename" ELSE "check")
    /\ touched' = [touched EXCEPT ![j] = FALSE]
    /\ UNCHANGED <<temp, offer, options>>

(* Close, and one look at the control before the rename.                   *)
FinishWriting(j) ==
    /\ pc[j] = "write" /\ Len(temp[OwnTemp(j)].bytes) = Size
    /\ Step(j, CASE j \in Guarded -> "settle"
                 [] j \notin Guarded -> IF options[j].overwrite THEN "rename" ELSE "check")
    /\ touched' = [touched EXCEPT ![j] = FALSE]
    /\ UNCHANGED <<temp, offer, options>>

ObserveOnce(j) ==                                                  \* mutant
    /\ pc[j] = "settle"
    /\ options' = [options EXCEPT ![j].overwrite = remote[target[j]].revision # 0]
    /\ touched' = [touched EXCEPT ![j] = FALSE]
    /\ Step(j, IF remote[target[j]].revision # 0 THEN "rename" ELSE "check")
    /\ UNCHANGED <<temp, offer>>

(* beforeFinalize: the destination must be the authorized one; any other   *)
(* is shown to the user, and looked at once more if he accepts it.         *)
Observe(j) ==
    LET revision == remote[target[j]].revision
    IN  /\ pc[j] = "settle"
        /\ touched' = [touched EXCEPT ![j] = FALSE]
        /\ IF revision = options[j].authorized
           THEN /\ options' = [options EXCEPT ![j].overwrite = revision # 0]
                /\ Step(j, IF revision # 0 THEN "rename" ELSE "check")
                /\ UNCHANGED offer
           ELSE /\ offer' = [offer EXCEPT ![j].revision = revision]
                /\ Step(j, "confirm") /\ UNCHANGED options
        /\ UNCHANGED temp

ConfirmOverwrite(j) ==
    /\ pc[j] = "confirm"
    /\ options' = [options EXCEPT ![j].authorized = offer[j].revision]
    /\ offer' = [offer EXCEPT ![j] = NoOffer]
    /\ Step(j, "settle") /\ UNCHANGED <<temp, touched>>

CheckNothing(j) ==                                                 \* mutant
    /\ pc[j] = "check"
    /\ touched' = [touched EXCEPT ![j] = FALSE]
    /\ Step(j, "rename") /\ UNCHANGED <<temp, offer, options>>

(* Rename without overwrite stats the destination first.                   *)
CheckAbsent(j) ==
    /\ pc[j] = "check" /\ remote[target[j]].revision = 0
    /\ touched' = [touched EXCEPT ![j] = FALSE]
    /\ Step(j, "rename") /\ UNCHANGED <<temp, offer, options>>

(* The server renames.  It may or may not replace what is there; when it   *)
(* did, its reply may still be lost and the attempt count as failed.       *)
Rename(j) ==
    LET t == OwnTemp(j)
    IN  /\ pc[j] = "rename" /\ temp[t].there
        /\ remote' = [remote EXCEPT ![target[j]] =
               [revision |-> clock + 1, bytes |-> temp[t].bytes]]
        /\ clock' = clock + 1
        /\ temp' = [temp EXCEPT ![t] = NoTemp]
        /\ \/ Goto(j, "committed") /\ UNCHANGED <<attemptVars, touched>>
           \/ Leave(j, "idle")
        /\ UNCHANGED <<source, foreign, target, checkpoint, saved, runs>>

(* A pause, a cancellation, a lost connection, a refusal of the server or  *)
(* of the session's own checks: the temporary file stays as it is.         *)
Stop(j) ==
    /\ \/ pc[j] \in {"open", "write", "settle", "confirm", "check", "rename"}
       \/ pc[j] = "committed" /\ j \in Guarded       \* the Stat that learns the revision
    /\ Leave(j, "idle")
    /\ UNCHANGED <<source, server, target, checkpoint, saved, runs>>

EraseCheckpoint(j) ==
    /\ pc[j] = "committed"
    /\ checkpoint' = [checkpoint EXCEPT ![j] = NoCheckpoint]
    /\ Leave(j, "done")
    /\ UNCHANGED <<source, server, target, saved, runs>>

-----------------------------------------------------------------------------
PersistQueue ==
    /\ SaveQueue
    /\ UNCHANGED <<source, server, target, checkpoint, pc, runs, attemptVars, touched>>

Restart ==
    /\ target' = [j \in Jobs |-> saved[j].target]
    /\ checkpoint' = [j \in Jobs |-> saved[j].checkpoint]
    /\ pc' = [j \in Jobs |-> IF saved[j].done THEN "done" ELSE "idle"]
    /\ looked' = [j \in Jobs |-> 0] /\ offer' = [j \in Jobs |-> NoOffer]
    /\ options' = [j \in Jobs |-> NoOptions] /\ touched' = [j \in Jobs |-> FALSE]
    /\ UNCHANGED <<source, server, saved, runs>>

EditSource(j) ==
    /\ source[j] < MaxVersion
    /\ source' = [source EXCEPT ![j] = @ + 1]
    /\ UNCHANGED <<server, target, checkpoint, saved, pc, runs, attemptVars, touched>>

(* Others replace, create or delete a destination, or clean up a temporary *)
(* file nobody writes.                                                     *)
ChangeRemote(f) ==
    /\ foreign < MaxForeign /\ foreign' = foreign + 1
    /\ clock' = clock + 1
    /\ \E revision \in {0, clock + 1} :
          /\ revision # remote[f].revision
          /\ remote' = [remote EXCEPT ![f] = [revision |-> revision, bytes |-> <<>>]]
    /\ touched' = [j \in Jobs |-> touched[j] \/ (pc[j] \in {"check", "rename"} /\ target[j] = f)]
    /\ UNCHANGED <<source, temp, target, checkpoint, saved, pc, runs, attemptVars>>

RemoveTemp(t) ==
    /\ foreign < MaxForeign /\ foreign' = foreign + 1
    /\ temp[t].there /\ pc[t[1]] \notin InSession
    /\ temp' = [temp EXCEPT ![t] = NoTemp]
    /\ UNCHANGED <<source, remote, clock, target, checkpoint, saved, pc, runs, attemptVars,
                   touched>>

JobStep(j) ==
    \/ Inspect(j) \/ AcceptChanged(j) \/ GiveUp(j)
    \/ AnswerOverwrite(j) \/ AnswerResume(j) \/ AnswerSkip(j) \/ AnswerRename(j)
    \/ Remember(j) \/ Persist(j) \/ Reserve(j)
    \/ OpenTemp(j) \/ WriteChunk(j) \/ FinishWriting(j) \/ Observe(j)
    \/ ConfirmOverwrite(j) \/ CheckAbsent(j) \/ Rename(j) \/ Stop(j) \/ EraseCheckpoint(j)

Next ==
    \/ PersistQueue \/ Restart
    \/ \E j \in Jobs : JobStep(j) \/ EditSource(j)
    \/ \E f \in Files : ChangeRemote(f)
    \/ \E t \in DOMAIN temp : RemoveTemp(t)

Spec == Init /\ [][Next]_vars

-----------------------------------------------------------------------------
Chunk == Jobs \X (1 .. MaxVersion)
CheckpointType == [version: 0 .. MaxVersion, temp: 0 .. MaxRuns]

TypeOK ==
    /\ source \in [Jobs -> 1 .. MaxVersion]
    /\ clock \in Nat /\ foreign \in 0 .. MaxForeign
    /\ \A f \in Files : remote[f].revision \in 0 .. clock /\ remote[f].bytes \in Seq(Chunk)
    /\ \A t \in DOMAIN temp :
          /\ temp[t].bytes \in Seq(Chunk) /\ Len(temp[t].bytes) <= Size
          /\ ~temp[t].there => temp[t].bytes = <<>>
    /\ target \in [Jobs -> Files]
    /\ checkpoint \in [Jobs -> CheckpointType]
    /\ saved \in [Jobs -> [target: Files, checkpoint: CheckpointType, done: BOOLEAN]]
    /\ pc \in [Jobs -> InSession \cup {"idle", "changed", "asking", "remember", "persistName",
                                       "persist", "reserve", "done"}]
    /\ runs \in [Jobs -> 0 .. MaxRuns] /\ looked \in [Jobs -> 0 .. MaxVersion]
    /\ offer \in [Jobs -> [revision: Nat, safe: BOOLEAN, size: 0 .. Size]]
    /\ options \in [Jobs -> [offset: 0 .. Size, temp: 0 .. MaxRuns, overwrite: BOOLEAN,
                             authorized: Nat]]
    /\ touched \in [Jobs -> BOOLEAN]

AllFrom(bytes, j, version) == \A i \in 1 .. Len(bytes) : bytes[i] = <<j, version>>

(* A checkpoint that fits, in memory or in queue.cson, tells the truth: if *)
(* the source is still the version it names, every byte on the server came *)
(* from that version, whatever stopped the attempts before (uploadResumes, *)
(* localModified).                                                         *)
CheckpointsAreHonest ==
    \A j \in Jobs : \A c \in {checkpoint[j], saved[j].checkpoint} :
        c.temp # 0 /\ c.version = source[j] => AllFrom(temp[<<j, c.temp>>].bytes, j, source[j])

(* No byte is on the server in a temporary file that a crash would leave   *)
(* unknown: while a session works, queue.cson names its file ("Do not      *)
(* begin writing the remote temporary file until its exact identity has    *)
(* reached the atomic queue repository"), whatever other jobs save.        *)
TemporariesAreKnown ==
    \A j \in Jobs : pc[j] \in InSession =>
        saved[j].checkpoint = [version |-> looked[j], temp |-> options[j].temp]

(* Every temporary file on the server is known to the queue, and what a    *)
(* checkpoint that fits says of one is true.                               *)
TemporariesAreAccounted == TypeOK /\ TemporariesAreKnown /\ CheckpointsAreHonest

Commits(j) == pc[j] = "rename" /\ pc'[j] # "rename" /\ remote' # remote

(* What an upload commits is its source, whole, as the attempt saw it,     *)
(* however often it was stopped and resumed, unless the source changed     *)
(* during the attempt (the sessions do not look at it again).              *)
CommitsWhole ==
    \A j \in Jobs : Commits(j) /\ source[j] = looked[j] =>
        LET bytes == remote'[target[j]].bytes
        IN  Len(bytes) = Size /\ AllFrom(bytes, j, looked[j])
UploadsAreWhole == [][CommitsWhole]_vars

(* An upload that nobody allowed to replace its destination replaces only  *)
(* what others put there after its last look at it, never what another     *)
(* job of the program committed meanwhile (reservation, Stat in Rename).   *)
ReplacesWhenAsked ==
    \A j \in Jobs :
        Commits(j) /\ remote[target[j]].revision # 0 /\ ~options[j].overwrite => touched[j]
NothingReplacedUnasked == [][ReplacesWhenAsked]_vars

(* A guarded upload replaces exactly the revision its edit started from or *)
(* the user was last shown, unless others changed it after the last look:  *)
(* not one that another job of the program committed while it was open.    *)
ReplacesWhatWasSeen ==
    \A j \in Guarded :
        Commits(j) => touched[j] \/ remote[target[j]].revision = options[j].authorized
EditsReplaceWhatWasSeen == [][ReplacesWhatWasSeen]_vars
=============================================================================
