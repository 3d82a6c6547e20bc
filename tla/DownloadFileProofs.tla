-------------------------- MODULE DownloadFileProofs --------------------------
(***************************************************************************)
(* Proofs about DownloadFile for any number of jobs, of either protocol,   *)
(* any number of files, attempts and chunks.                               *)
(*                                                                         *)
(* A partial file belongs to its destination and not to a job, so what a   *)
(* checkpoint says of it may be overtaken by another job at any time.  The *)
(* proof rests on the partial file's time: whoever changes the file sets   *)
(* it to one no checkpoint knows (Moves).  The inductive invariant says of *)
(* each job what its sound checkpoints claim (SoundAt), what its attempt   *)
(* carries from the plan to the opening (PlannedAt, ResumeAt, AskedAt),    *)
(* and what its session has read and committed (ReadingAt, WholeAt).       *)
(***************************************************************************)
EXTENDS DownloadFile, TLAPS

Fits(c, p) == p.there /\ c.size = Len(p.bytes) /\ c.stamp = p.stamp

(* The bytes came from the job's source, not before the given version.     *)
From(j, bytes, version) == ComesFrom(bytes, 1, j, version .. source[j])

Claim(j, c, f) ==
    c.sound => /\ c.stamp <= part[f].stamp
               /\ Fits(c, part[f]) => From(j, part[f].bytes, c.version)

(* A sound checkpoint is never ahead of the partial file, and while it     *)
(* fits, every byte is at least as new as the version it names.            *)
SoundAt(j) ==
    /\ Claim(j, checkpoint[j], target[j])
    /\ Claim(j, saved[j].checkpoint, saved[j].target)

(* What was planned or seen is not newer than the source.                  *)
PlannedAt(j) ==
    /\ plan[j] <= source[j] /\ seen[j] <= source[j]
    /\ pc[j] \in {"open", "read", "finalize", "committed"} => plan[j] <= seen[j]

(* A resume is of what the checkpoint describes, and the checkpoint stays  *)
(* as it was when the question was asked until the session opens the file. *)
ResumeAt(j) ==
    /\ pc[j] \in {"idle", "inspect", "asking", "persist"} => options[j].offset = 0
    /\ pc[j] = "asking" /\ offer[j].safe =>
           checkpoint[j].version = plan[j] /\ checkpoint[j].size = offer[j].size
    /\ pc[j] \in {"reserve", "attributes", "open"} /\ options[j].offset # 0 =>
           checkpoint[j].version = plan[j] /\ checkpoint[j].size = options[j].offset
    /\ vouched[j] => pc[j] \in {"read", "finalize", "committed"}

AskedAt(j) == pc[j] = "asking" \/ options[j].overwrite => offer[j].asked

(* The partial file of a session that reads: the bytes behind its offset   *)
(* are its own, and all of them are if it may vouch for the file.          *)
ReadingAt(j) ==
    pc[j] \in {"read", "finalize"} =>
        LET p == part[target[j]]
        IN  /\ p.there /\ options[j].offset <= Len(p.bytes)
            /\ ComesFrom(p.bytes, options[j].offset + 1, j, seen[j] .. source[j])
            /\ vouched[j] => From(j, p.bytes, plan[j])

Whole(j, bytes) ==
    /\ Len(bytes) = Size
    /\ j \in SftpJobs /\ vouched[j] /\ (options[j].offset = 0 \/ plan[j] = seen[j]) =>
           ComesFrom(bytes, 1, j, {seen[j]})

(* What is about to be committed is whole, and so is what was.             *)
WholeAt(j) ==
    /\ pc[j] = "finalize" => Whole(j, part[target[j]].bytes)
    /\ pc[j] = "committed" => file[target[j]].there /\ Whole(j, file[target[j]].bytes)

(* ReserveLocalDestination                                                 *)
ReservedOnce ==
    \A i, j \in Jobs : i # j /\ i \in InSession /\ j \in InSession => target[i] # target[j]

Labels == {"idle", "inspect", "asking", "persist", "reserve", "attributes", "open", "read",
           "finalize", "committed", "done"}
FileType    == [there: BOOLEAN, bytes: Seq(Chunk)]
PartType    == [there: BOOLEAN, bytes: Seq(Chunk), stamp: Nat]
SavedType   == [target: Files, checkpoint: CheckpointType, done: BOOLEAN]
OfferType   == [asked: BOOLEAN, exists: BOOLEAN, safe: BOOLEAN, size: 0 .. Size]
OptionsType == [offset: 0 .. Size, overwrite: BOOLEAN]

WorldTyped ==
    /\ foreign \in 0 .. MaxForeign /\ source \in [Jobs -> Versions]
    /\ \A j \in Jobs : source[j] <= 1 + foreign
FilesTyped == file \in [Files -> FileType]
PartsTyped ==
    /\ part \in [Files -> PartType]
    /\ \A f \in Files :
          Len(part[f].bytes) <= Size /\ (~part[f].there => part[f].bytes = <<>>)
QueueTyped ==
    /\ target \in [Jobs -> Files] /\ checkpoint \in [Jobs -> CheckpointType]
    /\ saved \in [Jobs -> SavedType]
AttemptTyped ==
    /\ plan \in [Jobs -> Versions \cup {0}] /\ seen \in [Jobs -> Versions \cup {0}]
    /\ offer \in [Jobs -> OfferType] /\ options \in [Jobs -> OptionsType]
    /\ vouched \in [Jobs -> BOOLEAN]
RunTyped == pc \in [Jobs -> Labels] /\ runs \in [Jobs -> 0 .. MaxRuns]

Typed == WorldTyped /\ FilesTyped /\ PartsTyped /\ QueueTyped /\ AttemptTyped /\ RunTyped

AttemptInv(j) ==
    PlannedAt(j) /\ ResumeAt(j) /\ AskedAt(j) /\ ReadingAt(j) /\ WholeAt(j)

(* The inductive invariant.                                                *)
IInv ==
    /\ Typed
    /\ \A j \in Jobs : AttemptInv(j) /\ SoundAt(j)
    /\ ReservedOnce

-----------------------------------------------------------------------------
LEMMA TypedIsTypeOK == Typed => TypeOK
  <1> SUFFICES ASSUME Typed PROVE TypeOK
    OBVIOUS
  <1>1. \A f \in Files :
          /\ file[f].there \in BOOLEAN /\ file[f].bytes \in Seq(Chunk)
          /\ part[f].there \in BOOLEAN /\ part[f].bytes \in Seq(Chunk)
          /\ Len(part[f].bytes) <= Size /\ part[f].stamp \in Nat
          /\ ~part[f].there => part[f].bytes = <<>>
    BY DEF Typed, FilesTyped, PartsTyped, FileType, PartType
  <1> QED BY <1>1 DEF Typed, WorldTyped, QueueTyped, AttemptTyped, RunTyped, TypeOK, SavedType,
             OfferType, OptionsType, Labels

LEMMA NoEntryTypes ==
    /\ UserFile \in FileType
    /\ NoCheckpoint \in CheckpointType /\ NoOffer \in OfferType /\ NoOptions \in OptionsType
  BY DownloadAssumption
     DEF UserFile, NoCheckpoint, NoOffer, NoOptions, FileType, OfferType, OptionsType,
         CheckpointType, DownloadAssumption

LEMMA LeaveTypes ==
    ASSUME AttemptTyped, RunTyped, NEW j \in Jobs, NEW label \in Labels, Leave(j, label)
    PROVE  AttemptTyped' /\ pc' \in [Jobs -> Labels]
  BY NoEntryTypes DEF AttemptTyped, RunTyped, Leave, Goto

LEMMA GotoTypes ==
    ASSUME RunTyped, NEW j \in Jobs, NEW label \in Labels, Goto(j, label)
    PROVE  pc' \in [Jobs -> Labels]
  BY DEF Goto, RunTyped

LEMMA LabelsAre ==
    /\ "idle" \in Labels /\ "inspect" \in Labels /\ "asking" \in Labels /\ "persist" \in Labels
    /\ "reserve" \in Labels /\ "attributes" \in Labels /\ "open" \in Labels
    /\ "read" \in Labels /\ "finalize" \in Labels /\ "committed" \in Labels /\ "done" \in Labels
  BY DEF Labels

-----------------------------------------------------------------------------
(* What the steps of a session do to the partial file of its destination.  *)
LEMMA OpenResult ==
    ASSUME PartsTyped, QueueTyped, AttemptTyped, NEW j \in Jobs, OpenPart(j)
    PROVE  /\ part' \in [Files -> PartType]
           /\ \A f \in Files \ {target[j]} : part'[f] = part[f]
           /\ part'[target[j]].there
           /\ options[j].offset = 0 => /\ part'[target[j]].bytes = <<>>
                                       /\ part'[target[j]].stamp = part[target[j]].stamp + 1
           /\ options[j].offset # 0 => UNCHANGED part /\ StillResumable(j)
  <1>1. target[j] \in Files /\ part[target[j]].stamp \in Nat
    BY DEF PartsTyped, QueueTyped, PartType
  <1>2. CASE options[j].offset = 0
    <2>1. part' = [part EXCEPT ![target[j]] =
                      [there |-> TRUE, bytes |-> <<>>, stamp |-> part[target[j]].stamp + 1]]
      BY <1>2 DEF OpenPart
    <2>2. [there |-> TRUE, bytes |-> <<>>, stamp |-> part[target[j]].stamp + 1] \in PartType
      BY <1>1 DEF PartType
    <2> QED BY <1>1, <1>2, <2>1, <2>2 DEF PartsTyped
  <1>3. CASE options[j].offset # 0
    BY <1>3 DEF OpenPart, PartsTyped, StillResumable
  <1> QED BY <1>2, <1>3

LEMMA ReadResult ==
    ASSUME WorldTyped, PartsTyped, QueueTyped, NEW j \in Jobs, ReadChunk(j)
    PROVE  /\ part' \in [Files -> PartType]
           /\ \A f \in Files \ {target[j]} : part'[f] = part[f]
           /\ part'[target[j]].there = part[target[j]].there
           /\ part'[target[j]].bytes = Append(part[target[j]].bytes, <<j, source[j]>>)
           /\ part'[target[j]].stamp = part[target[j]].stamp + 1
  <1>1. PICK f \in Files : f = target[j]
    BY DEF QueueTyped
  <1>2. PICK old \in PartType : old = part[f]
    BY DEF PartsTyped
  <1>3. /\ Append(old.bytes, <<j, source[j]>>) \in Seq(Chunk) /\ old.stamp + 1 \in Nat
    BY DEF PartType, Chunk, WorldTyped
  <1> DEFINE new == [old EXCEPT !.bytes = Append(old.bytes, <<j, source[j]>>),
                                !.stamp = old.stamp + 1]
  <1>4. part' = [part EXCEPT ![f] = new]
    BY <1>1, <1>2 DEF ReadChunk
  <1>5. /\ new \in PartType /\ new.there = old.there
        /\ new.bytes = Append(old.bytes, <<j, source[j]>>) /\ new.stamp = old.stamp + 1
    BY <1>3 DEF PartType
  <1> HIDE DEF new
  <1> QED BY <1>1, <1>2, <1>4, <1>5 DEF PartsTyped

LEMMA FinalResult ==
    ASSUME PartsTyped, FilesTyped, QueueTyped, NEW j \in Jobs, Finalize(j)
    PROVE  /\ part' \in [Files -> PartType] /\ file' \in [Files -> FileType]
           /\ \A f \in Files \ {target[j]} : part'[f] = part[f] /\ file'[f] = file[f]
           /\ ~part'[target[j]].there /\ part'[target[j]].bytes = <<>>
           /\ part'[target[j]].stamp = part[target[j]].stamp
           /\ file'[target[j]] = [there |-> TRUE, bytes |-> part[target[j]].bytes]
  <1>1. PICK f \in Files : f = target[j]
    BY DEF QueueTyped
  <1>2. PICK old \in PartType : old = part[f]
    BY DEF PartsTyped
  <1> DEFINE new == [old EXCEPT !.there = FALSE, !.bytes = <<>>]
  <1>3. /\ part' = [part EXCEPT ![f] = new]
        /\ file' = [file EXCEPT ![f] = [there |-> TRUE, bytes |-> old.bytes]]
    BY <1>1, <1>2 DEF Finalize
  <1>4. new \in PartType /\ ~new.there /\ new.bytes = <<>> /\ new.stamp = old.stamp
    <2>1. <<>> \in Seq(Chunk)
      OBVIOUS
    <2> QED BY <2>1 DEF PartType
  <1>5. [there |-> TRUE, bytes |-> old.bytes] \in FileType
    BY DEF PartType, FileType
  <1> HIDE DEF new
  <1> QED BY <1>1, <1>2, <1>3, <1>4, <1>5 DEF PartsTyped, FilesTyped

-----------------------------------------------------------------------------
(* Each action keeps the types, one group of variables at a time.          *)
LEMMA TypingStep ==
    ASSUME Typed, \A j \in Jobs : AttemptInv(j), [Next]_vars
    PROVE  Typed'
  <1> USE DEF Typed, world, localVars, jobVars, attemptVars
  <1>1. ASSUME NEW j \in Jobs, PlanDownload(j) PROVE Typed'
    <2>1. AttemptTyped'
      BY <1>1 DEF PlanDownload, AttemptTyped, WorldTyped
    <2>2. RunTyped'
      <3>1. pc' \in [Jobs -> Labels]
        BY <1>1, GotoTypes, LabelsAre DEF PlanDownload
      <3>2. runs' \in [Jobs -> 0 .. MaxRuns]
        BY <1>1, DownloadAssumption DEF PlanDownload, RunTyped, DownloadAssumption
      <3> QED BY <3>1, <3>2 DEF RunTyped
    <2> QED BY <1>1, <2>1, <2>2 DEF PlanDownload, WorldTyped, FilesTyped, PartsTyped, QueueTyped
  <1>2. ASSUME NEW j \in Jobs, Inspect(j) PROVE Typed'
    <2>1. offer' \in [Jobs -> OfferType]
      <3>1. /\ file[target[j]].there \in BOOLEAN /\ SafeResume(j) \in BOOLEAN
            /\ Len(part[target[j]].bytes) \in 0 .. Size
        <4>1. part[target[j]].bytes \in Seq(Chunk) /\ Len(part[target[j]].bytes) <= Size
          BY DEF PartsTyped, QueueTyped, PartType
        <4>2. Len(part[target[j]].bytes) \in 0 .. Size
          BY <4>1, DownloadAssumption DEF DownloadAssumption
        <4> QED BY <4>2 DEF FilesTyped, QueueTyped, FileType, SafeResume
      <3>2. [asked |-> TRUE, exists |-> file[target[j]].there, safe |-> SafeResume(j),
             size |-> Len(part[target[j]].bytes)] \in OfferType
        BY <3>1 DEF OfferType
      <3>3. \/ UNCHANGED offer
            \/ offer' = [offer EXCEPT ![j] =
                  [asked |-> TRUE, exists |-> file[target[j]].there, safe |-> SafeResume(j),
                   size |-> Len(part[target[j]].bytes)]]
        BY <1>2 DEF Inspect
      <3> QED BY <3>2, <3>3 DEF AttemptTyped
    <2>2. pc' \in [Jobs -> Labels]
      BY <1>2, GotoTypes, LabelsAre DEF Inspect
    <2> QED BY <1>2, <2>1, <2>2
            DEF Inspect, WorldTyped, FilesTyped, PartsTyped, QueueTyped, AttemptTyped, RunTyped
  <1>3. ASSUME NEW j \in Jobs, NEW label \in Labels, NEW offset \in 0 .. Size,
               NEW overwrite \in BOOLEAN, Decide(j, label, offset, overwrite)
        PROVE  /\ WorldTyped' /\ FilesTyped' /\ PartsTyped' /\ AttemptTyped' /\ RunTyped'
               /\ UNCHANGED saved
    <2>1. [offset |-> offset, overwrite |-> overwrite] \in OptionsType
      BY DEF OptionsType
    <2>2. pc' \in [Jobs -> Labels]
      BY <1>3, GotoTypes DEF Decide
    <2> QED BY <1>3, <2>1, <2>2
            DEF Decide, WorldTyped, FilesTyped, PartsTyped, AttemptTyped, RunTyped
  <1>4. 0 \in 0 .. Size
    BY DownloadAssumption DEF DownloadAssumption
  <1>5. ASSUME NEW j \in Jobs, AnswerOverwrite(j) PROVE Typed'
    BY <1>3, <1>4, <1>5, LabelsAre DEF AnswerOverwrite, QueueTyped
  <1>6. ASSUME NEW j \in Jobs, AnswerResume(j) PROVE Typed'
    <2>1. offer[j].size \in 0 .. Size /\ offer[j].exists \in BOOLEAN
      BY DEF AttemptTyped, OfferType
    <2> QED BY <1>3, <1>6, <2>1, LabelsAre DEF AnswerResume, QueueTyped
  <1>7. ASSUME NEW j \in Jobs, AnswerRename(j) PROVE Typed'
    <2>1. QueueTyped'
      BY <1>7, NoEntryTypes DEF AnswerRename, Decide, QueueTyped
    <2> QED BY <1>3, <1>4, <1>7, <2>1, LabelsAre DEF AnswerRename
  <1>8. ASSUME NEW j \in Jobs, GiveUp(j) \/ AnswerSkip(j) PROVE Typed'
    <2>1. AttemptTyped' /\ pc' \in [Jobs -> Labels]
      BY <1>8, LeaveTypes, LabelsAre DEF GiveUp, AnswerSkip
    <2> QED BY <1>8, <2>1
            DEF GiveUp, AnswerSkip, WorldTyped, FilesTyped, PartsTyped, QueueTyped, RunTyped
  <1>9. ASSUME SaveQueue PROVE saved' \in [Jobs -> SavedType]
    <2>1. \A i \in Jobs : [target |-> target[i], checkpoint |-> checkpoint[i],
                           done |-> pc[i] = "done"] \in SavedType
      BY DEF QueueTyped, SavedType
    <2> QED BY <1>9, <2>1 DEF SaveQueue
  <1>10. ASSUME NEW j \in Jobs, PersistRename(j) PROVE Typed'
    <2>1. saved' \in [Jobs -> SavedType]
      BY <1>9, <1>10 DEF PersistRename, QueueTyped
    <2>2. AttemptTyped' /\ pc' \in [Jobs -> Labels]
      <3>1. CASE Leave(j, "idle")
        BY <3>1, LeaveTypes, LabelsAre
      <3>2. CASE Goto(j, "reserve") /\ UNCHANGED attemptVars
        BY <3>2, GotoTypes, LabelsAre DEF AttemptTyped
      <3> QED BY <1>10, <3>1, <3>2 DEF PersistRename
    <2> QED BY <1>10, <2>1, <2>2
            DEF PersistRename, WorldTyped, FilesTyped, PartsTyped, QueueTyped, RunTyped
  <1>11. ASSUME NEW j \in Jobs, Reserve(j) PROVE Typed'
    <2>1. AttemptTyped' /\ pc' \in [Jobs -> Labels]
      <3>1. CASE Leave(j, "idle")
        BY <3>1, LeaveTypes, LabelsAre
      <3>2. CASE Goto(j, "attributes") /\ UNCHANGED attemptVars
        BY <3>2, GotoTypes, LabelsAre DEF AttemptTyped
      <3> QED BY <1>11, <3>1, <3>2 DEF Reserve
    <2> QED BY <1>11, <2>1
            DEF Reserve, WorldTyped, FilesTyped, PartsTyped, QueueTyped, RunTyped
  <1>12. ASSUME NEW j \in Jobs, ReadAttributes(j) PROVE Typed'
    <2>1. pc' \in [Jobs -> Labels]
      BY <1>12, GotoTypes, LabelsAre DEF ReadAttributes
    <2>2. AttemptTyped'
      BY <1>12 DEF ReadAttributes, AttemptTyped, WorldTyped
    <2> QED BY <1>12, <2>1, <2>2
            DEF ReadAttributes, WorldTyped, FilesTyped, PartsTyped, QueueTyped, RunTyped
  <1>13. ASSUME NEW j \in Jobs, OpenPart(j) PROVE Typed'
    <2>1. PartsTyped'
      <3>1. Len(<<>>) <= Size
        BY DownloadAssumption DEF DownloadAssumption
      <3>2. CASE options[j].offset = 0
        <4>1. \A f \in Files : part'[f] = part[f] \/ (part'[f].there /\ part'[f].bytes = <<>>)
          BY <1>13, <3>2, OpenResult
        <4> QED BY <1>13, <3>1, <4>1, OpenResult DEF PartsTyped
      <3>3. CASE options[j].offset # 0
        BY <1>13, <3>3, OpenResult DEF PartsTyped
      <3> QED BY <3>2, <3>3
    <2>2. pc' \in [Jobs -> Labels]
      BY <1>13, GotoTypes, LabelsAre DEF OpenPart
    <2>3. AttemptTyped'
      <3>1. \E b \in BOOLEAN : vouched' = [vouched EXCEPT ![j] = b]
        BY <1>13 DEF OpenPart
      <3> QED BY <1>13, <3>1 DEF OpenPart, AttemptTyped
    <2> QED BY <1>13, <2>1, <2>2, <2>3
            DEF OpenPart, WorldTyped, FilesTyped, QueueTyped, RunTyped
  <1>14. ASSUME NEW j \in Jobs, ReadChunk(j) PROVE Typed'
    <2>1. PICK f \in Files : f = target[j]
      BY DEF QueueTyped
    <2>2. part[f].there
      BY <1>14, <2>1 DEF ReadChunk, AttemptInv, ReadingAt
    <2>3. Len(part'[f].bytes) <= Size
      <3>1. part[f].bytes \in Seq(Chunk) /\ <<j, source[j]>> \in Chunk
        BY DEF PartsTyped, PartType, Chunk, WorldTyped
      <3>2. Len(Append(part[f].bytes, <<j, source[j]>>)) = Len(part[f].bytes) + 1
        BY <3>1
      <3>3. Len(part[f].bytes) < Size /\ Len(part[f].bytes) \in Nat
        BY <1>14, <2>1, <3>1 DEF ReadChunk
      <3>4. part'[f].bytes = Append(part[f].bytes, <<j, source[j]>>)
        BY <1>14, <2>1, ReadResult
      <3>5. Len(part[f].bytes) + 1 <= Size
        BY <3>3, DownloadAssumption DEF DownloadAssumption
      <3> QED BY <3>2, <3>4, <3>5
    <2>4. PartsTyped'
      BY <1>14, <2>1, <2>2, <2>3, ReadResult DEF PartsTyped
    <2> QED BY <1>14, <2>4
            DEF ReadChunk, WorldTyped, FilesTyped, QueueTyped, AttemptTyped, RunTyped
  <1>15. ASSUME NEW j \in Jobs, FinishReading(j) PROVE Typed'
    <2>1. pc' \in [Jobs -> Labels]
      BY <1>15, GotoTypes, LabelsAre DEF FinishReading
    <2> QED BY <1>15, <2>1
            DEF FinishReading, WorldTyped, FilesTyped, PartsTyped, QueueTyped, AttemptTyped,
                RunTyped
  <1>16. ASSUME NEW j \in Jobs, Finalize(j) PROVE Typed'
    <2>1. pc' \in [Jobs -> Labels]
      BY <1>16, GotoTypes, LabelsAre DEF Finalize
    <2>2. FilesTyped'
      BY <1>16, FinalResult DEF FilesTyped
    <2>3. PartsTyped'
      <3>1. Len(<<>>) <= Size
        BY DownloadAssumption DEF DownloadAssumption
      <3>2. \A f \in Files : part'[f] = part[f] \/ part'[f].bytes = <<>>
        BY <1>16, FinalResult
      <3> QED BY <1>16, <3>1, <3>2, FinalResult DEF PartsTyped
    <2> QED BY <1>16, <2>1, <2>2, <2>3
            DEF Finalize, WorldTyped, QueueTyped, AttemptTyped, RunTyped
  <1>17. ASSUME NEW j \in Jobs PROVE RecordCheckpoint(j) \in CheckpointType
    <2>1. part[target[j]] \in PartType /\ Len(part[target[j]].bytes) <= Size
      BY DEF PartsTyped, QueueTyped
    <2>2. Len(part[target[j]].bytes) \in 0 .. Size /\ part[target[j]].stamp \in Nat
      BY <2>1, DownloadAssumption DEF PartType, DownloadAssumption
    <2>3. plan[j] \in Versions \cup {0} /\ vouched[j] \in BOOLEAN
      BY DEF AttemptTyped
    <2> QED BY <2>2, <2>3 DEF RecordCheckpoint, CheckpointType
  <1>18. ASSUME NEW j \in Jobs, StopSession(j) PROVE Typed'
    <2>1. AttemptTyped' /\ pc' \in [Jobs -> Labels]
      BY <1>18, LeaveTypes, LabelsAre DEF StopSession
    <2>2. checkpoint' \in [Jobs -> CheckpointType]
      BY <1>17, <1>18 DEF StopSession, QueueTyped
    <2> QED BY <1>18, <2>1, <2>2
            DEF StopSession, WorldTyped, FilesTyped, PartsTyped, QueueTyped, RunTyped
  <1>19. ASSUME NEW j \in Jobs, EraseCheckpoint(j) PROVE Typed'
    <2>1. AttemptTyped' /\ pc' \in [Jobs -> Labels]
      BY <1>19, LeaveTypes, LabelsAre DEF EraseCheckpoint
    <2> QED BY <1>19, <2>1, NoEntryTypes
            DEF EraseCheckpoint, WorldTyped, FilesTyped, PartsTyped, QueueTyped, RunTyped
  <1>20. CASE PersistQueue
    BY <1>9, <1>20
       DEF PersistQueue, WorldTyped, FilesTyped, PartsTyped, QueueTyped, AttemptTyped, RunTyped
  <1>21. CASE Restart
    <2>1. QueueTyped'
      BY <1>21 DEF Restart, QueueTyped, SavedType
    <2>2. AttemptTyped'
      BY <1>21, NoEntryTypes DEF Restart, AttemptTyped
    <2>3. RunTyped'
      BY <1>21, LabelsAre DEF Restart, RunTyped
    <2> QED BY <1>21, <2>1, <2>2, <2>3 DEF Restart, WorldTyped, FilesTyped, PartsTyped
  <1>22. ASSUME NEW j \in Jobs, ChangeSource(j) PROVE Typed'
    <2>1. WorldTyped'
      <3>1. /\ foreign \in Nat /\ foreign < MaxForeign /\ foreign' = foreign + 1
            /\ source[j] + 1 \in Versions
        BY <1>22, DownloadAssumption
           DEF ChangeSource, WorldTyped, Versions, DownloadAssumption
      <3>2. source' = [source EXCEPT ![j] = source[j] + 1]
        BY <1>22 DEF ChangeSource
      <3>3. \A i \in Jobs : source[i] \in Nat /\ source[i] <= 1 + foreign
        BY DEF WorldTyped, Versions
      <3>4. \A i \in Jobs : source'[i] <= 1 + foreign'
        BY <3>1, <3>2, <3>3 DEF WorldTyped
      <3> QED BY <3>1, <3>2, <3>4, DownloadAssumption DEF WorldTyped, DownloadAssumption
    <2> QED BY <1>22, <2>1
            DEF ChangeSource, FilesTyped, PartsTyped, QueueTyped, AttemptTyped, RunTyped
  <1>23. ASSUME NEW f \in Files, CreateFile(f) PROVE Typed'
    <2>1. WorldTyped'
      BY <1>23, DownloadAssumption DEF CreateFile, WorldTyped, Versions, DownloadAssumption
    <2> QED BY <1>23, <2>1, NoEntryTypes
            DEF CreateFile, FilesTyped, PartsTyped, QueueTyped, AttemptTyped, RunTyped
  <1>24. CASE UNCHANGED vars
    BY <1>24
       DEF vars, WorldTyped, FilesTyped, PartsTyped, QueueTyped, AttemptTyped, RunTyped
  <1> QED
    BY <1>1, <1>2, <1>5, <1>6, <1>7, <1>8, <1>10, <1>11, <1>12, <1>13, <1>14, <1>15, <1>16,
       <1>18, <1>19, <1>20, <1>21, <1>22, <1>23, <1>24
       DEF Next, JobStep, Interrupt, Refuse

-----------------------------------------------------------------------------
(* What a job has of its own: no step of another job changes it.           *)
SameAttempt(j) ==
    /\ pc'[j] = pc[j] /\ plan'[j] = plan[j] /\ seen'[j] = seen[j] /\ offer'[j] = offer[j]
    /\ options'[j] = options[j] /\ vouched'[j] = vouched[j]
    /\ target'[j] = target[j] /\ checkpoint'[j] = checkpoint[j]
SameSaved(j) ==
    \/ saved'[j] = saved[j]
    \/ saved'[j].checkpoint = checkpoint[j] /\ saved'[j].target = target[j]

(* A partial file that changes gets a time of its own, or goes.            *)
Moves(f) ==
    \/ part'[f] = part[f]
    \/ part'[f].stamp > part[f].stamp
    \/ part'[f].stamp = part[f].stamp /\ ~part'[f].there

SessionLabels == {"attributes", "open", "read", "finalize", "committed"}
LEMMA Sessions == \A j \in Jobs : (j \in InSession <=> pc[j] \in SessionLabels)
  BY DEF InSession, SessionLabels

LEMMA Domains ==
    ASSUME Typed
    PROVE  /\ Jobs = DOMAIN pc /\ Jobs = DOMAIN plan /\ Jobs = DOMAIN seen
           /\ Jobs = DOMAIN offer /\ Jobs = DOMAIN options /\ Jobs = DOMAIN vouched
           /\ Jobs = DOMAIN target /\ Jobs = DOMAIN checkpoint /\ Jobs = DOMAIN source
           /\ Files = DOMAIN file /\ Files = DOMAIN part
  BY DEF Typed, WorldTyped, FilesTyped, PartsTyped, QueueTyped, AttemptTyped, RunTyped

LEMMA Bystander ==
    ASSUME Typed, NEW i \in Jobs, NEW j \in Jobs, i # j, JobStep(i)
    PROVE  SameAttempt(j) /\ SameSaved(j)
  <1> USE DEF world, localVars, jobVars, attemptVars
  <1>1. /\ Jobs = DOMAIN pc /\ Jobs = DOMAIN plan /\ Jobs = DOMAIN seen
        /\ Jobs = DOMAIN offer /\ Jobs = DOMAIN options /\ Jobs = DOMAIN vouched
        /\ Jobs = DOMAIN target /\ Jobs = DOMAIN checkpoint
    BY Domains
  <1>2. \A label : Goto(i, label) => pc'[j] = pc[j]
    BY <1>1 DEF Goto
  <1>3. \A label : Leave(i, label) =>
            /\ pc'[j] = pc[j] /\ plan'[j] = plan[j] /\ seen'[j] = seen[j]
            /\ offer'[j] = offer[j] /\ options'[j] = options[j] /\ vouched'[j] = vouched[j]
    BY <1>1 DEF Leave, Goto
  <1> USE DEF SameAttempt, SameSaved
  <1>4. CASE PlanDownload(i) \/ Inspect(i) \/ ReadAttributes(i) \/ FinishReading(i)
    BY <1>1, <1>2, <1>4 DEF PlanDownload, Inspect, ReadAttributes, FinishReading
  <1>5. CASE AnswerOverwrite(i) \/ AnswerResume(i) \/ AnswerRename(i)
    BY <1>1, <1>2, <1>5 DEF AnswerOverwrite, AnswerResume, AnswerRename, Decide
  <1>6. CASE GiveUp(i) \/ AnswerSkip(i) \/ Reserve(i)
    BY <1>2, <1>3, <1>6 DEF GiveUp, AnswerSkip, Reserve
  <1>7. CASE PersistRename(i)
    <2>1. SameSaved(j)
      BY <1>7 DEF PersistRename, SaveQueue
    <2> QED BY <1>2, <1>3, <1>7, <2>1 DEF PersistRename
  <1>8. CASE OpenPart(i)
    <2>1. vouched'[j] = vouched[j]
      BY <1>1, <1>8 DEF OpenPart
    <2> QED BY <1>2, <1>8, <2>1 DEF OpenPart
  <1>9. CASE ReadChunk(i) \/ Finalize(i)
    BY <1>2, <1>9 DEF ReadChunk, Finalize
  <1>10. CASE StopSession(i) \/ EraseCheckpoint(i)
    BY <1>1, <1>3, <1>10 DEF StopSession, EraseCheckpoint
  <1> QED
    BY <1>4, <1>5, <1>6, <1>7, <1>8, <1>9, <1>10 DEF JobStep, Interrupt, Refuse

(* Only the session that has the destination touches its files.            *)
LEMMA FilesStep ==
    ASSUME Typed, NEW i \in Jobs, JobStep(i)
    PROVE  \/ UNCHANGED localVars
           \/ /\ i \in InSession
              /\ \A f \in Files \ {target[i]} : part'[f] = part[f] /\ file'[f] = file[f]
              /\ Moves(target[i])
  <1>1. CASE OpenPart(i)
    <2>1. i \in InSession /\ UNCHANGED file
      BY <1>1 DEF OpenPart, InSession
    <2>2. part[target[i]].stamp \in Nat
      BY DEF Typed, PartsTyped, QueueTyped, PartType
    <2>3. Moves(target[i])
      BY <1>1, <2>2, OpenResult DEF Typed, Moves
    <2> QED BY <1>1, <2>1, <2>3, OpenResult DEF Typed
  <1>2. CASE ReadChunk(i)
    <2>1. i \in InSession /\ UNCHANGED file
      BY <1>2 DEF ReadChunk, InSession
    <2>2. part[target[i]].stamp \in Nat
      BY DEF Typed, PartsTyped, QueueTyped, PartType
    <2>3. Moves(target[i])
      BY <1>2, <2>2, ReadResult DEF Typed, Moves
    <2> QED BY <1>2, <2>1, <2>3, ReadResult DEF Typed
  <1>3. CASE Finalize(i)
    <2>1. i \in InSession
      BY <1>3 DEF Finalize, InSession
    <2> QED BY <1>3, <2>1, FinalResult DEF Typed, Moves
  <1>4. CASE ~OpenPart(i) /\ ~ReadChunk(i) /\ ~Finalize(i)
    BY <1>4
       DEF JobStep, PlanDownload, Inspect, AnswerOverwrite, AnswerResume, GiveUp, AnswerSkip,
           AnswerRename, PersistRename, Reserve, ReadAttributes, FinishReading, Interrupt,
           Refuse, EraseCheckpoint, StopSession, Decide, localVars
  <1> QED BY <1>1, <1>2, <1>3, <1>4

(* A step of the user, of the server or of the process.                    *)
OtherStep ==
    \/ PersistQueue \/ Restart \/ UNCHANGED vars
    \/ \E j \in Jobs : ChangeSource(j)
    \/ \E f \in Files : CreateFile(f)

LEMMA PartsMove == ASSUME Typed, [Next]_vars PROVE \A f \in Files : Moves(f)
  <1>1. ASSUME NEW i \in Jobs, JobStep(i) PROVE \A f \in Files : Moves(f)
    BY <1>1, FilesStep DEF Moves, localVars
  <1>2. CASE OtherStep
    BY <1>2
       DEF OtherStep, PersistQueue, Restart, vars, ChangeSource, CreateFile, Moves, localVars
  <1> QED BY <1>1, <1>2 DEF Next, OtherStep

LEMMA SourcesAge ==
    ASSUME Typed, [Next]_vars
    PROVE  \A j \in Jobs : source[j] <= source'[j] /\ source[j] \in Nat
  <1>1. \A j \in Jobs : source[j] \in Nat
    BY DEF Typed, WorldTyped, Versions
  <1>2. ASSUME NEW i \in Jobs, JobStep(i) PROVE UNCHANGED source
    BY <1>2
       DEF JobStep, PlanDownload, Inspect, AnswerOverwrite, AnswerResume, GiveUp, AnswerSkip,
           AnswerRename, PersistRename, Reserve, ReadAttributes, OpenPart, ReadChunk,
           FinishReading, Finalize, Interrupt, Refuse, EraseCheckpoint, StopSession, Decide,
           world
  <1>3. ASSUME NEW i \in Jobs, ChangeSource(i) PROVE \A j \in Jobs : source[j] <= source'[j]
    BY <1>1, <1>3 DEF ChangeSource, Typed, WorldTyped
  <1>4. UNCHANGED source => \A j \in Jobs : source[j] <= source'[j]
    BY <1>1
  <1>5. PersistQueue \/ Restart \/ (\E f \in Files : CreateFile(f)) \/ UNCHANGED vars
            => UNCHANGED source
    BY DEF PersistQueue, Restart, CreateFile, vars, world
  <1> QED BY <1>1, <1>2, <1>3, <1>4, <1>5 DEF Next

(* A destination gets into a session by a reservation only.                *)
LEMMA ReservationStep == ASSUME Typed, ReservedOnce, [Next]_vars PROVE ReservedOnce'
  <1> USE DEF world, localVars, jobVars, attemptVars
  <1>1. Jobs = DOMAIN pc
    BY Domains
  <1>2. \A j \in Jobs : (j \in InSession)' <=> pc'[j] \in SessionLabels
    BY DEF InSession, SessionLabels
  <1>3. ASSUME \A j \in Jobs : pc'[j] \in SessionLabels =>
                  pc[j] \in SessionLabels /\ target'[j] = target[j]
        PROVE  ReservedOnce'
    BY <1>2, <1>3, Sessions DEF ReservedOnce
  <1>4. ASSUME NEW i \in Jobs, JobStep(i) PROVE ReservedOnce'
    <2>1. \A j \in Jobs : j # i => pc'[j] = pc[j] /\ target'[j] = target[j]
      BY <1>4, Bystander DEF SameAttempt
    <2>2. CASE Reserve(i) /\ target[i] \notin Reserved
      <3>1. UNCHANGED target
        BY <2>2 DEF Reserve
      <3>2. \A j \in Jobs : j \in InSession => target[j] # target[i]
        BY <2>2 DEF Reserved, InSession
      <3> QED BY <1>2, <2>1, <3>1, <3>2, Sessions DEF ReservedOnce
    <2>3. CASE pc'[i] \notin SessionLabels
      BY <1>3, <2>1, <2>3
    <2>4. CASE pc[i] \in SessionLabels /\ target'[i] = target[i]
      BY <1>3, <2>1, <2>4
    <2>5. CASE \/ PlanDownload(i) \/ Inspect(i) \/ AnswerOverwrite(i) \/ AnswerResume(i)
               \/ GiveUp(i) \/ AnswerSkip(i) \/ AnswerRename(i) \/ PersistRename(i)
               \/ StopSession(i) \/ EraseCheckpoint(i)
               \/ Reserve(i) /\ target[i] \in Reserved
      <3>1. pc'[i] \in {"inspect", "asking", "persist", "reserve", "idle", "done"}
        BY <1>1, <2>5
           DEF PlanDownload, Inspect, AnswerOverwrite, AnswerResume, GiveUp, AnswerSkip,
               AnswerRename, PersistRename, StopSession, EraseCheckpoint, Reserve, Decide,
               Leave, Goto
      <3> QED BY <2>3, <3>1 DEF SessionLabels
    <2>6. CASE ReadAttributes(i) \/ OpenPart(i) \/ ReadChunk(i) \/ FinishReading(i) \/ Finalize(i)
      BY <2>4, <2>6
         DEF ReadAttributes, OpenPart, ReadChunk, FinishReading, Finalize, SessionLabels
    <2> QED BY <1>4, <2>2, <2>5, <2>6 DEF JobStep, Interrupt, Refuse
  <1>5. CASE OtherStep
    <2>1. \/ UNCHANGED <<pc, target>>
          \/ \A j \in Jobs : pc'[j] \in {"idle", "done"}
      BY <1>5 DEF OtherStep, PersistQueue, Restart, vars, ChangeSource, CreateFile
    <2> QED BY <1>3, <2>1 DEF SessionLabels
  <1> QED BY <1>4, <1>5 DEF Next, OtherStep

-----------------------------------------------------------------------------
LEMMA WiderVersions ==
    ASSUME NEW bytes, NEW first, NEW j, NEW S, NEW T, S \subseteq T,
           ComesFrom(bytes, first, j, S)
    PROVE  ComesFrom(bytes, first, j, T)
  BY DEF ComesFrom

(* What a checkpoint claims of a partial file is true for good: what       *)
(* changes the file changes its time.                                      *)
LEMMA ClaimStands ==
    ASSUME Typed, Typed', [Next]_vars, NEW j \in Jobs, NEW c \in CheckpointType,
           NEW f \in Files, Claim(j, c, f)
    PROVE  Claim(j, c, f)'
  <1> SUFFICES ASSUME c.sound
               PROVE  /\ c.stamp <= part'[f].stamp
                      /\ Fits(c, part'[f]) =>
                            ComesFrom(part'[f].bytes, 1, j, c.version .. source'[j])
    BY DEF Claim, From
  <1>1. c.stamp <= part[f].stamp /\ (Fits(c, part[f]) => From(j, part[f].bytes, c.version))
    BY DEF Claim
  <1>2. c.stamp \in Nat /\ part[f].stamp \in Nat /\ part'[f].stamp \in Nat
    BY DEF CheckpointType, Typed, PartsTyped, PartType
  <1>3. c.version \in Nat
    BY DownloadAssumption DEF CheckpointType, Versions, DownloadAssumption
  <1>4. source[j] \in Nat /\ source'[j] \in Nat /\ source[j] <= source'[j]
    BY SourcesAge DEF Typed, WorldTyped, Versions
  <1>5. Moves(f)
    BY PartsMove
  <1>6. CASE part'[f] = part[f]
    <2>1. \A v \in c.version .. source[j] : v \in c.version .. source'[j]
      BY <1>3, <1>4
    <2>2. Fits(c, part[f]) => ComesFrom(part[f].bytes, 1, j, c.version .. source'[j])
      BY <1>1, <2>1, WiderVersions DEF From
    <2> QED BY <1>1, <1>6, <2>2
  <1>7. CASE part'[f].stamp > part[f].stamp
    BY <1>1, <1>2, <1>7 DEF Fits
  <1>8. CASE part'[f].stamp = part[f].stamp /\ ~part'[f].there
    BY <1>1, <1>8 DEF Fits
  <1> QED BY <1>5, <1>6, <1>7, <1>8 DEF Moves

(* Where the checkpoint of a job comes from, after any step.               *)
Records(j) ==
    /\ pc[j] # "committed" /\ StopSession(j) /\ part[target[j]].there
    /\ checkpoint'[j] = RecordCheckpoint(j) /\ target'[j] = target[j]

LEMMA CheckpointsCome ==
    ASSUME Typed, [Next]_vars, NEW j \in Jobs
    PROVE  /\ \/ checkpoint'[j] = checkpoint[j] /\ target'[j] = target[j]
              \/ checkpoint'[j] = saved[j].checkpoint /\ target'[j] = saved[j].target
              \/ checkpoint'[j] = NoCheckpoint
              \/ Records(j)
           /\ SameSaved(j)
  <1> USE DEF world, localVars, jobVars, attemptVars
  <1>1. Jobs = DOMAIN checkpoint /\ Jobs = DOMAIN target
    BY Domains
  <1>2. ASSUME NEW i \in Jobs, JobStep(i), i # j
        PROVE  SameAttempt(j) /\ SameSaved(j)
    BY <1>2, Bystander
  <1>3. CASE JobStep(j)
    <2>1. CASE Interrupt(j) \/ Refuse(j)
      <3>0. StopSession(j) /\ pc[j] # "committed"
        BY <2>1 DEF Interrupt, Refuse
      <3>1. UNCHANGED saved /\ target'[j] = target[j]
        BY <3>0 DEF StopSession
      <3>2. \/ part[target[j]].there /\ checkpoint'[j] = RecordCheckpoint(j)
            \/ checkpoint'[j] = checkpoint[j]
        BY <1>1, <3>0 DEF StopSession
      <3> QED BY <3>0, <3>1, <3>2 DEF Records, SameSaved
    <2>2. CASE AnswerRename(j) \/ EraseCheckpoint(j)
      BY <1>1, <2>2 DEF AnswerRename, EraseCheckpoint, Decide, SameSaved
    <2>3. CASE PersistRename(j)
      BY <2>3 DEF PersistRename, SaveQueue, SameSaved
    <2>4. CASE \/ PlanDownload(j) \/ Inspect(j) \/ AnswerOverwrite(j) \/ AnswerResume(j)
               \/ GiveUp(j) \/ AnswerSkip(j) \/ Reserve(j) \/ ReadAttributes(j)
               \/ OpenPart(j) \/ ReadChunk(j) \/ FinishReading(j) \/ Finalize(j)
      BY <2>4
         DEF PlanDownload, Inspect, AnswerOverwrite, AnswerResume, GiveUp, AnswerSkip, Reserve,
             ReadAttributes, OpenPart, ReadChunk, FinishReading, Finalize, Decide, SameSaved
    <2> QED BY <1>3, <2>1, <2>2, <2>3, <2>4 DEF JobStep
  <1>4. CASE Restart
    BY <1>4 DEF Restart, SameSaved
  <1>5. CASE PersistQueue
    BY <1>5 DEF PersistQueue, SaveQueue, SameSaved
  <1>6. CASE \/ UNCHANGED vars \/ (\E i \in Jobs : ChangeSource(i))
             \/ \E f \in Files : CreateFile(f)
    BY <1>6 DEF vars, ChangeSource, CreateFile, SameSaved
  <1> QED BY <1>2, <1>3, <1>4, <1>5, <1>6 DEF Next, SameAttempt

LEMMA SoundStep ==
    ASSUME Typed, Typed', [Next]_vars, NEW j \in Jobs, AttemptInv(j), SoundAt(j)
    PROVE  SoundAt(j)'
  <1>1. /\ checkpoint[j] \in CheckpointType /\ target[j] \in Files
        /\ saved[j].checkpoint \in CheckpointType /\ saved[j].target \in Files
    BY DEF Typed, QueueTyped, SavedType
  <1>2. PICK c1 \in CheckpointType, f1 \in Files : c1 = checkpoint[j] /\ f1 = target[j]
    BY <1>1
  <1>3. PICK c2 \in CheckpointType, f2 \in Files :
            c2 = saved[j].checkpoint /\ f2 = saved[j].target
    BY <1>1
  <1>4. Claim(j, c1, f1)' /\ Claim(j, c2, f2)'
    BY <1>2, <1>3, ClaimStands DEF SoundAt
  <1>5. PICK c3 \in CheckpointType, f3 \in Files : c3 = checkpoint'[j] /\ f3 = target'[j]
    BY DEF Typed, QueueTyped
  <1>6. PICK c4 \in CheckpointType, f4 \in Files :
            c4 = saved'[j].checkpoint /\ f4 = saved'[j].target
    BY DEF Typed, QueueTyped, SavedType
  <1>7. Claim(j, c4, f4)'
    BY <1>2, <1>3, <1>4, <1>6, CheckpointsCome DEF SameSaved
  <1>8. Claim(j, c3, f3)'
    <2>1. CASE (c3 = c1 /\ f3 = f1) \/ (c3 = c2 /\ f3 = f2)
      BY <1>4, <2>1
    <2>2. CASE c3 = NoCheckpoint
      BY <2>2 DEF Claim, NoCheckpoint
    <2>3. CASE Records(j)
      <3>1. /\ c3 = RecordCheckpoint(j) /\ f3 = target[j] /\ UNCHANGED <<part, source>>
        BY <1>5, <2>3 DEF Records, StopSession, localVars, world
      <3>2. vouched[j] => From(j, part[f3].bytes, plan[j])
        <4>1. pc[j] # "committed"
          BY <2>3 DEF Records
        <4> QED BY <3>1, <4>1 DEF AttemptInv, ResumeAt, ReadingAt
      <3>3. part[f3].stamp \in Nat
        BY DEF Typed, PartsTyped, PartType
      <3> QED BY <3>1, <3>2, <3>3 DEF Claim, From, RecordCheckpoint
    <2> QED BY <1>2, <1>3, <1>5, <2>1, <2>2, <2>3, CheckpointsCome
  <1>9. SoundAt(j)' <=> /\ Claim(j, checkpoint[j], target[j])'
                       /\ Claim(j, saved[j].checkpoint, saved[j].target)'
    BY DEF SoundAt
  <1> QED BY <1>5, <1>6, <1>7, <1>8, <1>9 DEF Claim, Fits, From

-----------------------------------------------------------------------------
(* A job whose own state a step leaves alone keeps what it relies on.      *)
LEMMA OwnIsOwn ==
    ASSUME Typed, Typed', [Next]_vars, NEW j \in Jobs, AttemptInv(j), SameAttempt(j),
           pc[j] \in {"read", "finalize"} => part'[target[j]] = part[target[j]],
           pc[j] = "committed" => file'[target[j]] = file[target[j]]
    PROVE  AttemptInv(j)'
  <1> USE DEF AttemptInv, SameAttempt
  <1>1. source[j] \in Nat /\ source'[j] \in Nat /\ source[j] <= source'[j]
    BY SourcesAge DEF Typed, WorldTyped, Versions
  <1>2. plan[j] \in Nat /\ seen[j] \in Nat
    BY DEF Typed, AttemptTyped, Versions
  <1>3. PlannedAt(j)'
    BY <1>1, <1>2 DEF PlannedAt
  <1>4. ResumeAt(j)' /\ AskedAt(j)'
    BY DEF ResumeAt, AskedAt
  <1>5. ReadingAt(j)'
    <2>1. \A v \in seen[j] .. source[j] : v \in seen[j] .. source'[j]
      BY <1>1, <1>2
    <2>2. \A v \in plan[j] .. source[j] : v \in plan[j] .. source'[j]
      BY <1>1, <1>2
    <2>3. \A bytes, first :
             /\ ComesFrom(bytes, first, j, seen[j] .. source[j]) =>
                   ComesFrom(bytes, first, j, seen[j] .. source'[j])
             /\ ComesFrom(bytes, first, j, plan[j] .. source[j]) =>
                   ComesFrom(bytes, first, j, plan[j] .. source'[j])
      BY <2>1, <2>2, WiderVersions
    <2> QED BY <2>3 DEF ReadingAt, From
  <1>6. WholeAt(j)'
    BY DEF WholeAt, Whole
  <1> QED BY <1>3, <1>4, <1>5, <1>6

(* An attempt that ends knows nothing.                                     *)
LEMMA AttemptEnds ==
    ASSUME Typed', NEW j \in Jobs, pc'[j] \in {"idle", "done"}, plan'[j] = 0, seen'[j] = 0,
           offer'[j] = NoOffer, options'[j] = NoOptions, vouched'[j] = FALSE
    PROVE  AttemptInv(j)'
  <1>1. source'[j] \in Nat /\ 0 <= source'[j]
    BY DEF Typed, WorldTyped, Versions
  <1> QED BY <1>1
          DEF AttemptInv, PlannedAt, ResumeAt, AskedAt, ReadingAt, WholeAt, NoOptions

(* Every step of the attempt keeps what the job relies on.                 *)
LEMMA AttemptStep ==
    ASSUME Typed, Typed', NEW j \in Jobs, AttemptInv(j), SoundAt(j), JobStep(j)
    PROVE  AttemptInv(j)'
  <1> USE DEF world, localVars, jobVars, attemptVars
  <1>1. /\ Jobs = DOMAIN pc /\ Jobs = DOMAIN plan /\ Jobs = DOMAIN seen
        /\ Jobs = DOMAIN offer /\ Jobs = DOMAIN options /\ Jobs = DOMAIN vouched
        /\ Jobs = DOMAIN target /\ Jobs = DOMAIN checkpoint
    BY Domains
  <1>2. source[j] \in Nat /\ plan[j] \in Nat /\ seen[j] \in Nat
    BY DEF Typed, WorldTyped, AttemptTyped, Versions
  <1>3. PlannedAt(j) /\ ResumeAt(j) /\ AskedAt(j) /\ ReadingAt(j) /\ WholeAt(j)
    BY DEF AttemptInv
  <1>4. \A label \in {"idle", "done"} : Leave(j, label) => AttemptInv(j)'
    BY <1>1, AttemptEnds DEF Leave, Goto
  <1>5. CASE \/ GiveUp(j) \/ AnswerSkip(j) \/ StopSession(j) \/ EraseCheckpoint(j)
             \/ Reserve(j) /\ target[j] \in Reserved
             \/ PersistRename(j) /\ Leave(j, "idle")
    BY <1>4, <1>5 DEF GiveUp, AnswerSkip, StopSession, EraseCheckpoint, Reserve
  (* Before the session.                                                   *)
  <1>6. ASSUME pc'[j] \in {"inspect", "asking", "persist", "reserve", "attributes"}
        PROVE  ReadingAt(j)' /\ WholeAt(j)'
    BY <1>6 DEF ReadingAt, WholeAt
  <1>7. ASSUME pc'[j] \in {"inspect", "asking", "persist", "reserve", "attributes"},
               UNCHANGED <<source, plan, seen>>
        PROVE  PlannedAt(j)'
    BY <1>3, <1>7 DEF PlannedAt
  <1>8. CASE PlanDownload(j)
    <2>1. /\ pc[j] = "idle" /\ pc'[j] = "inspect" /\ plan'[j] = source[j]
          /\ UNCHANGED <<source, seen, offer, options, vouched>>
      BY <1>1, <1>8 DEF PlanDownload, Goto
    <2>2. PlannedAt(j)'
      BY <1>2, <1>3, <2>1 DEF PlannedAt
    <2>3. ResumeAt(j)' /\ AskedAt(j)'
      BY <1>3, <2>1 DEF ResumeAt, AskedAt
    <2> QED BY <1>6, <2>1, <2>2, <2>3 DEF AttemptInv
  <1>9. CASE Inspect(j)
    <2>1. /\ pc[j] = "inspect"
          /\ \/ /\ pc'[j] = "asking" /\ offer'[j].asked
                /\ offer'[j].safe = SafeResume(j) /\ offer'[j].size = Len(part[target[j]].bytes)
             \/ pc'[j] = "reserve" /\ UNCHANGED offer
          /\ UNCHANGED <<source, plan, seen, options, vouched, checkpoint>>
      <3>1. CASE file[target[j]].there \/ part[target[j]].there
        <4>1. /\ offer' = [offer EXCEPT ![j] =
                  [asked |-> TRUE, exists |-> file[target[j]].there, safe |-> SafeResume(j),
                   size |-> Len(part[target[j]].bytes)]]
              /\ pc' = [pc EXCEPT ![j] = "asking"]
          BY <1>9, <3>1 DEF Inspect, Goto
        <4>2. /\ pc'[j] = "asking" /\ offer'[j].asked
              /\ offer'[j].safe = SafeResume(j)
              /\ offer'[j].size = Len(part[target[j]].bytes)
          BY <1>1, <4>1
        <4> QED BY <1>9, <4>2 DEF Inspect
      <3>2. CASE ~(file[target[j]].there \/ part[target[j]].there)
        BY <1>1, <1>9, <3>2 DEF Inspect, Goto
      <3> QED BY <3>1, <3>2
    <2>2. ResumeAt(j)' /\ AskedAt(j)'
      BY <1>3, <2>1 DEF ResumeAt, AskedAt, SafeResume
    <2> QED BY <1>6, <1>7, <2>1, <2>2 DEF AttemptInv
  <1>10. CASE AnswerOverwrite(j) \/ AnswerResume(j)
    <2>1. /\ pc[j] = "asking" /\ pc'[j] = "reserve"
          /\ UNCHANGED <<source, plan, seen, offer, vouched, checkpoint>>
          /\ \/ options'[j].offset = 0
             \/ offer[j].safe /\ options'[j].offset = offer[j].size
      <3>1. CASE AnswerOverwrite(j)
        BY <1>1, <3>1 DEF AnswerOverwrite, Decide, Goto
      <3>2. CASE AnswerResume(j)
        BY <1>1, <3>2 DEF AnswerResume, Decide, Goto
      <3> QED BY <1>10, <3>1, <3>2
    <2>2. ResumeAt(j)' /\ AskedAt(j)'
      BY <1>3, <2>1 DEF ResumeAt, AskedAt
    <2> QED BY <1>6, <1>7, <2>1, <2>2 DEF AttemptInv
  <1>11. CASE AnswerRename(j)
    <2>1. /\ pc[j] = "asking" /\ pc'[j] = "persist" /\ options'[j].offset = 0
          /\ UNCHANGED <<source, plan, seen, offer, vouched>>
      BY <1>1, <1>11 DEF AnswerRename, Decide, Goto
    <2>2. ResumeAt(j)' /\ AskedAt(j)'
      BY <1>3, <2>1 DEF ResumeAt, AskedAt
    <2> QED BY <1>6, <1>7, <2>1, <2>2 DEF AttemptInv
  <1>12. CASE PersistRename(j) /\ Goto(j, "reserve") /\ UNCHANGED attemptVars
    <2>1. /\ pc[j] = "persist" /\ pc'[j] = "reserve"
          /\ UNCHANGED <<source, plan, seen, offer, options, vouched, checkpoint>>
      BY <1>1, <1>12 DEF PersistRename, Goto
    <2>2. ResumeAt(j)' /\ AskedAt(j)'
      BY <1>3, <2>1 DEF ResumeAt, AskedAt
    <2> QED BY <1>6, <1>7, <2>1, <2>2 DEF AttemptInv
  <1>13. CASE Reserve(j) /\ target[j] \notin Reserved
    <2>1. /\ pc[j] = "reserve" /\ pc'[j] = "attributes"
          /\ UNCHANGED <<source, plan, seen, offer, options, vouched, checkpoint>>
      BY <1>1, <1>13 DEF Reserve, Goto
    <2>2. ResumeAt(j)' /\ AskedAt(j)'
      BY <1>3, <2>1 DEF ResumeAt, AskedAt
    <2> QED BY <1>6, <1>7, <2>1, <2>2 DEF AttemptInv
  (* The session.                                                          *)
  <1>14. CASE ReadAttributes(j)
    <2>1. /\ pc[j] = "attributes" /\ pc'[j] = "open" /\ seen'[j] = source[j]
          /\ UNCHANGED <<source, plan, offer, options, vouched, checkpoint>>
      BY <1>1, <1>14 DEF ReadAttributes, Goto
    <2>2. PlannedAt(j)'
      BY <1>2, <1>3, <2>1 DEF PlannedAt
    <2>3. ResumeAt(j)' /\ AskedAt(j)' /\ ReadingAt(j)' /\ WholeAt(j)'
      BY <1>3, <2>1 DEF ResumeAt, AskedAt, ReadingAt, WholeAt
    <2> QED BY <2>2, <2>3 DEF AttemptInv
  <1>15. WorldTyped /\ FilesTyped /\ PartsTyped /\ QueueTyped /\ AttemptTyped
    BY DEF Typed
  <1>16. target[j] \in Files /\ part[target[j]] \in PartType
    BY DEF Typed, QueueTyped, PartsTyped
  <1>17. CASE OpenPart(j)
    <2>1. /\ pc[j] = "open" /\ pc'[j] = "read"
          /\ UNCHANGED <<source, plan, seen, offer, options, checkpoint, target>>
      BY <1>1, <1>17 DEF OpenPart, Goto
    <2>2. PlannedAt(j)' /\ ResumeAt(j)' /\ AskedAt(j)' /\ WholeAt(j)'
      BY <1>3, <2>1 DEF PlannedAt, ResumeAt, AskedAt, WholeAt
    <2>3. ReadingAt(j)'
      <3>1. CASE options[j].offset = 0
        <4>1. part'[target[j]].there /\ part'[target[j]].bytes = <<>>
          BY <1>17, <1>15, <3>1, OpenResult
        <4>2. \A S : \A first \in {1, 0 + 1} : ComesFrom(<<>>, first, j, S)
          BY DEF ComesFrom
        <4> QED BY <2>1, <3>1, <4>1, <4>2 DEF ReadingAt, From
      <3>2. CASE options[j].offset # 0
        <4>1. UNCHANGED part /\ part[target[j]].there
              /\ Len(part[target[j]].bytes) = options[j].offset
          BY <1>17, <1>15, <3>2, OpenResult DEF StillResumable
        <4>2. vouched'[j] = (checkpoint[j].sound /\ checkpoint[j].stamp = part[target[j]].stamp)
          BY <1>1, <1>17, <3>2 DEF OpenPart
        <4>3. checkpoint[j].version = plan[j] /\ checkpoint[j].size = options[j].offset
          BY <1>3, <2>1, <3>2 DEF ResumeAt
        <4>4. vouched'[j] => From(j, part[target[j]].bytes, plan[j])
          BY <4>1, <4>2, <4>3 DEF SoundAt, Claim, Fits
        <4>5. options[j].offset \in Nat
          BY DEF Typed, AttemptTyped, OptionsType
        <4>6. ComesFrom(part[target[j]].bytes, options[j].offset + 1, j, seen[j] .. source[j])
          BY <4>1, <4>5 DEF ComesFrom
        <4> QED BY <2>1, <4>1, <4>4, <4>5, <4>6 DEF ReadingAt, From
      <3> QED BY <3>1, <3>2
    <2> QED BY <2>2, <2>3 DEF AttemptInv
  <1>18. CASE ReadChunk(j)
    <2>1. /\ pc[j] = "read" /\ UNCHANGED <<source, pc, plan, seen, offer, options, checkpoint>>
          /\ UNCHANGED <<target, vouched>>
      BY <1>18 DEF ReadChunk
    <2>2. PlannedAt(j)' /\ ResumeAt(j)' /\ AskedAt(j)' /\ WholeAt(j)'
      BY <1>3, <2>1 DEF PlannedAt, ResumeAt, AskedAt, WholeAt
    <2>3. ReadingAt(j)'
      <3> DEFINE bytes == part[target[j]].bytes
                 longer == part'[target[j]].bytes
      <3>1. part[target[j]].there /\ part'[target[j]].there
            /\ longer = Append(bytes, <<j, source[j]>>)
        <4>1. part[target[j]].there
          BY <1>3, <2>1 DEF ReadingAt
        <4> QED BY <1>18, <1>15, <4>1, ReadResult
      <3>2. bytes \in Seq(Chunk) /\ Len(bytes) \in Nat
        BY <1>16 DEF PartType
      <3>3. /\ Len(longer) = Len(bytes) + 1
            /\ \A i \in 1 .. Len(bytes) : longer[i] = bytes[i]
            /\ longer[Len(bytes) + 1] = <<j, source[j]>>
        BY <3>1, <3>2, SMTT(30)
      <3> HIDE DEF bytes, longer
      <3>4. source[j] \in seen[j] .. source[j] /\ source[j] \in plan[j] .. source[j]
        BY <1>2, <1>3 DEF PlannedAt
      <3>5. \A first \in Nat \ {0} : \A S :
                source[j] \in S /\ ComesFrom(bytes, first, j, S) => ComesFrom(longer, first, j, S)
        <4> SUFFICES ASSUME NEW first \in Nat \ {0}, NEW S, source[j] \in S,
                            ComesFrom(bytes, first, j, S), NEW i \in first .. Len(longer)
                     PROVE  longer[i][1] = j /\ longer[i][2] \in S
          BY DEF ComesFrom
        <4>1. CASE i = Len(bytes) + 1
          BY <3>3, <4>1
        <4>2. CASE i # Len(bytes) + 1
          <5>1. i \in first .. Len(bytes) /\ i \in 1 .. Len(bytes)
            BY <3>2, <3>3, <4>2
          <5> QED BY <3>3, <5>1 DEF ComesFrom
        <4> QED BY <4>1, <4>2
      <3>6. options[j].offset \in Nat
        BY DEF Typed, AttemptTyped, OptionsType
      <3>7. /\ options[j].offset <= Len(bytes)
            /\ ComesFrom(bytes, options[j].offset + 1, j, seen[j] .. source[j])
            /\ vouched[j] => ComesFrom(bytes, 1, j, plan[j] .. source[j])
        BY <1>3, <2>1 DEF ReadingAt, From, bytes
      <3>8. ComesFrom(longer, options[j].offset + 1, j, seen[j] .. source[j])
        <4>1. options[j].offset + 1 \in Nat \ {0}
          BY <3>6
        <4> QED BY <3>4, <3>5, <3>7, <4>1
      <3>9. vouched[j] => ComesFrom(longer, 1, j, plan[j] .. source[j])
        <4>1. 1 \in Nat \ {0}
          OBVIOUS
        <4> QED BY <3>4, <3>5, <3>7, <4>1
      <3>10. options[j].offset <= Len(longer)
        BY <3>2, <3>3, <3>6, <3>7
      <3> QED BY <2>1, <3>1, <3>8, <3>9, <3>10 DEF ReadingAt, From, longer
    <2> QED BY <2>2, <2>3 DEF AttemptInv
  <1>19. CASE FinishReading(j)
    <2>1. /\ pc[j] = "read" /\ pc'[j] = "finalize" /\ Len(part[target[j]].bytes) = Size
          /\ j \in SftpJobs => source[j] = seen[j]
          /\ UNCHANGED <<source, part, plan, seen, offer, options, checkpoint, target, vouched>>
      BY <1>1, <1>19 DEF FinishReading, VerifiedUnchanged, Goto
    <2>2. PlannedAt(j)' /\ ResumeAt(j)' /\ AskedAt(j)' /\ ReadingAt(j)'
      BY <1>3, <2>1 DEF PlannedAt, ResumeAt, AskedAt, ReadingAt, From
    <2>3. ASSUME j \in SftpJobs, vouched[j], options[j].offset = 0 \/ plan[j] = seen[j]
          PROVE  ComesFrom(part[target[j]].bytes, 1, j, {seen[j]})
      <3>1. \A v \in seen[j] .. source[j] : v \in {seen[j]}
        BY <1>2, <2>1, <2>3
      <3>2. ComesFrom(part[target[j]].bytes, 1, j, seen[j] .. source[j])
        <4>1. CASE options[j].offset = 0
          BY <1>3, <2>1, <4>1 DEF ReadingAt
        <4>2. CASE plan[j] = seen[j]
          BY <1>3, <2>1, <2>3, <4>2 DEF ReadingAt, From
        <4> QED BY <2>3, <4>1, <4>2
      <3> QED BY <3>1, <3>2, WiderVersions
    <2>4. WholeAt(j)'
      BY <2>1, <2>3 DEF WholeAt, Whole
    <2> QED BY <2>2, <2>4 DEF AttemptInv
  <1>20. CASE Finalize(j)
    <2>1. /\ pc[j] = "finalize" /\ pc'[j] = "committed"
          /\ UNCHANGED <<source, plan, seen, offer, options, checkpoint, target, vouched>>
      BY <1>1, <1>20 DEF Finalize, Goto
    <2>2. PlannedAt(j)' /\ ResumeAt(j)' /\ AskedAt(j)' /\ ReadingAt(j)'
      BY <1>3, <2>1 DEF PlannedAt, ResumeAt, AskedAt, ReadingAt
    <2>3. file'[target[j]].there /\ file'[target[j]].bytes = part[target[j]].bytes
      <3>1. file'[target[j]] = [there |-> TRUE, bytes |-> part[target[j]].bytes]
        BY <1>20, <1>15, FinalResult
      <3> QED BY <3>1
    <2>4. WholeAt(j)'
      BY <1>3, <2>1, <2>3 DEF WholeAt, Whole
    <2> QED BY <2>2, <2>4 DEF AttemptInv
  <1> QED
    BY <1>5, <1>8, <1>9, <1>10, <1>11, <1>12, <1>13, <1>14, <1>17, <1>18, <1>19, <1>20
       DEF JobStep, Interrupt, Refuse, PersistRename

(* Every step of the system does.                                          *)
LEMMA AttemptInvStep ==
    ASSUME Typed, Typed', ReservedOnce, \A j \in Jobs : AttemptInv(j) /\ SoundAt(j),
           [Next]_vars
    PROVE  \A j \in Jobs : AttemptInv(j)'
  <1> SUFFICES ASSUME NEW j \in Jobs PROVE AttemptInv(j)'
    OBVIOUS
  <1>1. target[j] \in Files
    BY DEF Typed, QueueTyped
  <1>2. CASE JobStep(j)
    BY <1>2, AttemptStep
  <1>3. ASSUME NEW i \in Jobs, i # j, JobStep(i) PROVE AttemptInv(j)'
    <2>1. SameAttempt(j)
      BY <1>3, Bystander
    <2>2. j \in InSession => part'[target[j]] = part[target[j]] /\ file'[target[j]] = file[target[j]]
      BY <1>1, <1>3, FilesStep DEF ReservedOnce, localVars
    <2>3. pc[j] \in {"read", "finalize", "committed"} => j \in InSession
      BY Sessions DEF SessionLabels
    <2> QED BY <1>3, <2>1, <2>2, <2>3, OwnIsOwn
  <1>4. CASE Restart
    BY <1>4, AttemptEnds DEF Restart
  <1>5. CASE PersistQueue \/ UNCHANGED vars
    BY <1>5, OwnIsOwn
       DEF PersistQueue, vars, SameAttempt, localVars, jobVars, attemptVars
  <1>6. ASSUME NEW i \in Jobs, ChangeSource(i) PROVE AttemptInv(j)'
    BY <1>6, OwnIsOwn DEF ChangeSource, SameAttempt, localVars, jobVars, attemptVars
  <1>7. ASSUME NEW f \in Files, CreateFile(f) PROVE AttemptInv(j)'
    <2>1. pc[j] = "committed" => file'[target[j]] = file[target[j]]
      BY <1>1, <1>7 DEF CreateFile, AttemptInv, WholeAt
    <2> QED BY <1>7, <2>1, OwnIsOwn DEF CreateFile, SameAttempt, jobVars, attemptVars
  <1> QED BY <1>2, <1>3, <1>4, <1>5, <1>6, <1>7 DEF Next

LEMMA InitHolds == Init => IInv
  <1> SUFFICES ASSUME Init PROVE IInv
    OBVIOUS
  <1>1. Typed
    <2>1. Absent \in FileType /\ NoPart \in PartType /\ 1 \in Versions
      BY DownloadAssumption DEF Absent, NoPart, FileType, PartType, Versions, DownloadAssumption
    <2>2. [target |-> First, checkpoint |-> NoCheckpoint, done |-> FALSE] \in SavedType
      BY NoEntryTypes, DownloadAssumption DEF SavedType, DownloadAssumption
    <2>3. WorldTyped /\ FilesTyped
      BY <2>1, DownloadAssumption DEF Init, WorldTyped, FilesTyped, DownloadAssumption
    <2>4. PartsTyped
      <3>1. Len(NoPart.bytes) <= Size /\ NoPart.bytes = <<>>
        BY DownloadAssumption DEF NoPart, DownloadAssumption
      <3> QED BY <2>1, <3>1 DEF Init, PartsTyped
    <2>5. QueueTyped
      BY <2>2, NoEntryTypes, DownloadAssumption DEF Init, QueueTyped, DownloadAssumption
    <2>6. AttemptTyped /\ RunTyped
      BY NoEntryTypes, LabelsAre, DownloadAssumption
         DEF Init, AttemptTyped, RunTyped, DownloadAssumption
    <2> QED BY <2>3, <2>4, <2>5, <2>6 DEF Typed
  <1>2. ASSUME NEW j \in Jobs PROVE AttemptInv(j) /\ SoundAt(j)
    <2>1. pc[j] = "idle" /\ plan[j] = 0 /\ seen[j] = 0 /\ source[j] = 1
          /\ options[j] = NoOptions /\ vouched[j] = FALSE
      BY DEF Init
    <2>2. AttemptInv(j)
      BY <2>1 DEF AttemptInv, PlannedAt, ResumeAt, AskedAt, ReadingAt, WholeAt, NoOptions
    <2>3. checkpoint[j] = NoCheckpoint /\ saved[j].checkpoint = NoCheckpoint
      BY DEF Init
    <2>4. SoundAt(j)
      BY <2>3 DEF SoundAt, Claim, NoCheckpoint
    <2> QED BY <2>2, <2>4
  <1>3. ReservedOnce
    BY DEF Init, ReservedOnce, InSession
  <1> QED BY <1>1, <1>2, <1>3 DEF IInv

(* The inductive invariant holds of the specification.                     *)
THEOREM IInvHolds == Spec => []IInv
  <1>1. IInv /\ [Next]_vars => IInv'
    <2> SUFFICES ASSUME IInv, [Next]_vars PROVE IInv'
      OBVIOUS
    <2>1. Typed /\ ReservedOnce /\ \A j \in Jobs : AttemptInv(j) /\ SoundAt(j)
      BY DEF IInv
    <2>2. Typed'
      BY <2>1, TypingStep
    <2>3. \A j \in Jobs : AttemptInv(j)'
      BY <2>1, <2>2, AttemptInvStep
    <2>4. \A j \in Jobs : SoundAt(j)'
      BY <2>1, <2>2, SoundStep
    <2>5. ReservedOnce'
      BY <2>1, ReservationStep
    <2> QED BY <2>2, <2>3, <2>4, <2>5 DEF IInv
  <1> QED BY InitHolds, <1>1, PTL DEF Spec

-----------------------------------------------------------------------------
(* A session writes the partial file it reserved and no other one does,    *)
(* and what it commits is one version of its source, whole, whatever other *)
(* jobs with the same destination do, and over any number of stops,        *)
(* restarts and resumes: ReserveLocalDestination, SftpSession::Download    *)
(* and FtpSession::Download.                                               *)
THEOREM DownloadsCommitWhole == Spec => []DownloadsAreWhole
  <1>1. IInv => DownloadsAreWhole
    <2> SUFFICES ASSUME IInv PROVE DownloadsAreWhole
      OBVIOUS
    <2>1. TypeOK
      BY TypedIsTypeOK DEF IInv
    <2>2. OwnBytesOnly
      <3> SUFFICES ASSUME NEW j \in Jobs, pc[j] \in {"read", "finalize"}
                   PROVE  LET p == part[target[j]]
                          IN  /\ p.there /\ Len(p.bytes) >= options[j].offset
                              /\ ComesFrom(p.bytes, options[j].offset + 1, j,
                                           seen[j] .. source[j])
        BY DEF OwnBytesOnly
      <3>1. /\ part[target[j]].there /\ options[j].offset <= Len(part[target[j]].bytes)
            /\ ComesFrom(part[target[j]].bytes, options[j].offset + 1, j,
                         seen[j] .. source[j])
        BY DEF IInv, AttemptInv, ReadingAt
      <3>2. part[target[j]].bytes \in Seq(Chunk) /\ options[j].offset \in Nat
        BY DEF IInv, Typed, PartsTyped, QueueTyped, AttemptTyped, PartType, OptionsType
      <3> QED BY <3>1, <3>2
    <2>3. CommitsAreWhole
      <3>1. \A j \in SftpJobs : j \in Jobs
        BY DownloadAssumption DEF DownloadAssumption
      <3> QED BY <3>1 DEF IInv, AttemptInv, WholeAt, Whole, CommitsAreWhole
    <2> QED BY <2>1, <2>2, <2>3 DEF DownloadsAreWhole
  <1> QED BY <1>1, IInvHolds, PTL

(* A sound checkpoint that fits describes the planned source's own bytes,  *)
(* in this process or the next one: what SafeResume may rely on            *)
(* (TransferJournal::Checkpoint, RememberDownloadResume).                  *)
THEOREM SoundCheckpointsAreHonest == Spec => []CheckpointsAreHonest
  <1>1. IInv => CheckpointsAreHonest
    <2> SUFFICES ASSUME IInv, NEW j \in Jobs
                 PROVE  /\ checkpoint[j].sound =>
                              Honest(j, checkpoint[j], part[target[j]])
                        /\ saved[j].checkpoint.sound =>
                              Honest(j, saved[j].checkpoint, part[saved[j].target])
      BY DEF CheckpointsAreHonest
    <2>1. source[j] \in Nat
      BY DEF IInv, Typed, WorldTyped, Versions
    <2>2. \A v \in source[j] .. source[j] : v \in {source[j]}
      BY <2>1
    <2>3. ASSUME NEW c, NEW f, c.sound, Claim(j, c, f) PROVE Honest(j, c, part[f])
      BY <2>2, <2>3, WiderVersions DEF Claim, Fits, From, Honest
    <2>4. SoundAt(j)
      BY DEF IInv
    <2> QED BY <2>3, <2>4 DEF SoundAt
  <1> QED BY <1>1, IInvHolds, PTL

(* A download replaces a file only when its user, or his policy, answered  *)
(* a question about it: FinalizeLocalDownload refuses the others.          *)
THEOREM DownloadsReplaceWhenAsked == Spec => NothingReplacedUnasked
  <1>1. ASSUME IInv, [Next]_vars PROVE [ReplacesWhenAsked]_vars
    <2> SUFFICES ASSUME NEW f \in Files, file[f].there, file'[f] # file[f]
                 PROVE  \E j \in Jobs : target[j] = f /\ pc[j] = "finalize" /\ offer[j].asked
      BY DEF ReplacesWhenAsked
    <2>1. Files = DOMAIN file
      BY <1>1, Domains DEF IInv
    <2>2. ASSUME NEW j \in Jobs, JobStep(j), ~Finalize(j) PROVE UNCHANGED file
      BY <2>2
         DEF JobStep, PlanDownload, Inspect, AnswerOverwrite, AnswerResume, GiveUp, AnswerSkip,
             AnswerRename, PersistRename, Reserve, ReadAttributes, OpenPart, ReadChunk,
             FinishReading, Interrupt, Refuse, EraseCheckpoint, StopSession, Decide, localVars
    <2>3. ASSUME OtherStep PROVE FALSE
      BY <2>1, <2>3
         DEF OtherStep, PersistQueue, Restart, vars, ChangeSource, CreateFile, localVars
    <2>4. PICK j \in Jobs : Finalize(j)
      BY <1>1, <2>2, <2>3 DEF Next, OtherStep
    <2>5. pc[j] = "finalize" /\ target[j] = f
      BY <2>1, <2>4 DEF Finalize
    <2>6. offer[j].asked
      BY <1>1, <2>4, <2>5 DEF Finalize, MayReplace, IInv, AttemptInv, AskedAt
    <2> QED BY <2>5, <2>6
  <1> QED BY <1>1, IInvHolds, PTL DEF Spec, NothingReplacedUnasked
=============================================================================
