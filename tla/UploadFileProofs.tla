--------------------------- MODULE UploadFileProofs ---------------------------
(***************************************************************************)
(* Proofs about UploadFile for any number of jobs, files, attempts and     *)
(* chunks.                                                                 *)
(*                                                                         *)
(* Every temporary file belongs to one job, and every destination in a     *)
(* session to one job, so the inductive invariant says of each job what it *)
(* may rely on: its checkpoints (RemembersAt, PastAt, HonestAt), the names *)
(* no attempt has used (FreshAt), what it is about to commit (WholeAt) and *)
(* what it saw of its destination (SeenAt).                                *)
(***************************************************************************)
EXTENDS UploadFile, TLAPS

Checkpoints(j) == {checkpoint[j], saved[j].checkpoint}
AttemptOf(j) == [version |-> looked[j], temp |-> options[j].temp]

(* From the moment it is made the checkpoint names the attempt, and from   *)
(* the reservation on so does queue.cson; before, the attempt resumes      *)
(* nothing, or what the checkpoint names.                                  *)
RemembersAt(j) ==
    /\ pc[j] \in InSession \cup {"persist", "reserve"} =>
           options[j].temp # 0 /\ checkpoint[j] = AttemptOf(j)
    /\ pc[j] \in InSession \cup {"reserve"} => saved[j].checkpoint = AttemptOf(j)
    /\ pc[j] \in {"changed", "remember"} /\ options[j].temp # 0 =>
           checkpoint[j] = AttemptOf(j)
    /\ pc[j] = "asking" /\ offer[j].safe =>
           checkpoint[j].temp # 0 /\ checkpoint[j].version = looked[j]
    /\ pc[j] = "persistName" => options[j].temp = 0

(* What was seen or remembered is not newer than the source, and no name   *)
(* is newer than the attempt.                                              *)
PastAt(j) ==
    /\ looked[j] <= source[j]
    /\ options[j].temp <= runs[j]
    /\ \A c \in Checkpoints(j) : c.version <= source[j] /\ c.temp <= runs[j]
    /\ pc[j] \notin {"idle", "done"} => runs[j] > 0

(* The names that no attempt has written under have no bytes.              *)
Preparing == {"changed", "asking", "remember", "persistName", "persist", "reserve", "open"}
FreshAt(j) ==
    \A k \in 1 .. MaxRuns :
        k > runs[j] \/ (k = runs[j] /\ pc[j] \in Preparing) => temp[<<j, k>>].bytes = <<>>

WholeAt(j) ==
    /\ pc[j] \in {"write", "settle", "confirm", "check", "rename"} => temp[OwnTemp(j)].there
    /\ pc[j] \in {"settle", "confirm", "check", "rename"} =>
           Len(temp[OwnTemp(j)].bytes) = Size

HonestAt(j) ==
    \A c \in Checkpoints(j) : c.temp # 0 /\ c.version = source[j] =>
        AllFrom(temp[<<j, c.temp>>].bytes, j, source[j])

(* What an attempt about to rename knows of its destination, unless others *)
(* changed that since.                                                     *)
SeenAt(j) ==
    /\ pc[j] = "rename" /\ ~options[j].overwrite /\ ~touched[j] =>
           remote[target[j]].revision = 0
    /\ j \in Guarded /\ pc[j] \in {"check", "rename"} /\ ~touched[j] =>
           remote[target[j]].revision = options[j].authorized
    /\ j \in Guarded /\ pc[j] = "check" => options[j].authorized = 0

(* ReserveDestination                                                      *)
ReservedOnce ==
    \A i, j \in Jobs : i # j /\ pc[i] \in InSession /\ pc[j] \in InSession =>
        target[i] # target[j]

Labels == InSession \cup {"idle", "changed", "asking", "remember", "persistName",
                          "persist", "reserve", "done"}
TempNames   == Jobs \X (1 .. MaxRuns)
TempType    == [there: BOOLEAN, bytes: Seq(Chunk)]
FileType    == [revision: Nat, bytes: Seq(Chunk)]
SavedType   == [target: Files, checkpoint: CheckpointType, done: BOOLEAN]
OfferType   == [revision: Nat, safe: BOOLEAN, size: 0 .. Size]
OptionsType == [offset: 0 .. Size, temp: 0 .. MaxRuns, overwrite: BOOLEAN, authorized: Nat]

TempsTyped ==
    /\ temp \in [TempNames -> TempType]
    /\ \A t \in TempNames :
          Len(temp[t].bytes) <= Size /\ (~temp[t].there => temp[t].bytes = <<>>)
ServerTyped ==
    /\ clock \in Nat /\ foreign \in 0 .. MaxForeign
    /\ remote \in [Files -> FileType] /\ \A f \in Files : remote[f].revision <= clock
QueueTyped ==
    /\ target \in [Jobs -> Files] /\ checkpoint \in [Jobs -> CheckpointType]
    /\ saved \in [Jobs -> SavedType]
AttemptTyped ==
    /\ looked \in [Jobs -> 0 .. MaxVersion] /\ offer \in [Jobs -> OfferType]
    /\ options \in [Jobs -> OptionsType] /\ touched \in [Jobs -> BOOLEAN]
RunTyped ==
    /\ source \in [Jobs -> 1 .. MaxVersion]
    /\ pc \in [Jobs -> Labels] /\ runs \in [Jobs -> 0 .. MaxRuns]

Typed == TempsTyped /\ ServerTyped /\ QueueTyped /\ AttemptTyped /\ RunTyped

JobInv(j) == RemembersAt(j) /\ PastAt(j) /\ FreshAt(j) /\ WholeAt(j) /\ HonestAt(j)

(* The inductive invariant.                                                *)
IInv ==
    /\ Typed
    /\ \A j \in Jobs : JobInv(j)
    /\ ReservedOnce
    /\ \A j \in Jobs : SeenAt(j)

-----------------------------------------------------------------------------
LEMMA TypedIsTypeOK == Typed => TypeOK
  <1> SUFFICES ASSUME Typed PROVE TypeOK
    OBVIOUS
  <1> USE DEF Typed
  <1>1. \A t \in DOMAIN temp : /\ temp[t].bytes \in Seq(Chunk) /\ Len(temp[t].bytes) <= Size
                               /\ ~temp[t].there => temp[t].bytes = <<>>
    BY DEF TempsTyped, TempType
  <1>2. /\ clock \in Nat /\ foreign \in 0 .. MaxForeign
        /\ \A f \in Files : remote[f].revision \in 0 .. clock /\ remote[f].bytes \in Seq(Chunk)
    BY DEF ServerTyped, FileType
  <1> QED BY <1>1, <1>2 DEF TypeOK, QueueTyped, AttemptTyped, RunTyped, SavedType, OfferType,
             OptionsType, Labels

LEMMA NoEntryTypes ==
    /\ NoTemp \in TempType /\ NoTemp.bytes = <<>> /\ ~NoTemp.there
    /\ NoCheckpoint \in CheckpointType /\ NoOffer \in OfferType /\ NoOptions \in OptionsType
  BY UploadAssumption
     DEF NoTemp, NoCheckpoint, NoOffer, NoOptions, TempType, OfferType, OptionsType,
         CheckpointType, UploadAssumption

LEMMA LeaveTypes ==
    ASSUME AttemptTyped, NEW j \in Jobs, NEW label, Leave(j, label)
    PROVE  AttemptTyped'
  BY NoEntryTypes, UploadAssumption DEF AttemptTyped, Leave, UploadAssumption

LEMMA GotoTypes ==
    ASSUME pc \in [Jobs -> Labels], NEW j \in Jobs, NEW label \in Labels, Goto(j, label)
    PROVE  pc' \in [Jobs -> Labels]
  BY DEF Goto

(* Each action keeps the types, one group of variables at a time.          *)
LEMMA TypingStep == ASSUME Typed, \A j \in Jobs : JobInv(j), [Next]_vars PROVE Typed'
  <1> USE DEF Typed, server, attemptVars
  <1>0. \A l \in InSession \cup {"idle", "changed", "asking", "remember", "persistName",
                                 "persist", "reserve", "done"} : l \in Labels
    BY DEF Labels
  <1>q. /\ \A j \in Jobs : offer[j].revision \in Nat /\ offer[j].size \in 0 .. Size
        /\ \A f \in Files : remote[f].revision \in Nat /\ remote[f].bytes \in Seq(Chunk)
        /\ \A j \in Jobs : checkpoint[j].temp \in 0 .. MaxRuns
        /\ \A j \in Jobs : options[j].temp \in 0 .. MaxRuns
    BY DEF AttemptTyped, ServerTyped, QueueTyped, OfferType, OptionsType, FileType,
           CheckpointType
  <1>1. ASSUME NEW j \in Jobs, Inspect(j) PROVE Typed'
    <2> DEFINE revision == remote[target[j]].revision
               size == IF SafeResume(j) THEN Len(temp[<<j, checkpoint[j].temp>>].bytes) ELSE 0
               resumed == IF SafeResume(j) THEN checkpoint[j].temp ELSE 0
    <2>1. revision \in Nat
      BY <1>q DEF QueueTyped
    <2>2. size \in 0 .. Size /\ resumed \in 0 .. MaxRuns
      <3>1. CASE ~SafeResume(j)
        BY <3>1, UploadAssumption DEF UploadAssumption
      <3>2. CASE SafeResume(j)
        <4>1. checkpoint[j].temp \in 1 .. MaxRuns
          BY <1>q, <3>2 DEF SafeResume
        <4>2. temp[<<j, checkpoint[j].temp>>].bytes \in Seq(Chunk)
          BY <4>1 DEF TempsTyped, TempNames, TempType
        <4>3. Len(temp[<<j, checkpoint[j].temp>>].bytes) \in 0 .. Size
          BY <3>2, <4>2, UploadAssumption DEF SafeResume, UploadAssumption
        <4> QED BY <3>2, <4>1, <4>3
      <3> QED BY <3>1, <3>2
    <2>3. SafeResume(j) \in BOOLEAN
      BY DEF SafeResume
    <2>4. [revision |-> revision, safe |-> SafeResume(j), size |-> size] \in OfferType
      BY <2>1, <2>2, <2>3 DEF OfferType
    <2>5. [offset |-> size, temp |-> resumed, overwrite |-> revision # 0,
           authorized |-> revision] \in OptionsType
      BY <2>1, <2>2 DEF OptionsType
    <2>6. /\ offer' = [offer EXCEPT ![j] = [revision |-> revision, safe |-> SafeResume(j),
                                            size |-> size]]
          /\ options' = [options EXCEPT ![j] =
               IF j \in Guarded
               THEN [offset |-> size, temp |-> resumed, overwrite |-> revision # 0,
                     authorized |-> revision]
               ELSE NoOptions]
          /\ looked' = [looked EXCEPT ![j] = source[j]] /\ UNCHANGED touched
      BY <1>1 DEF Inspect
    <2>7. AttemptTyped'
      <3> HIDE DEF size, resumed, revision
      <3>1. offer' \in [Jobs -> OfferType]
        BY <2>4, <2>6 DEF AttemptTyped
      <3>2. options' \in [Jobs -> OptionsType]
        BY <2>5, <2>6, NoEntryTypes DEF AttemptTyped
      <3> QED BY <2>6, <3>1, <3>2 DEF AttemptTyped, RunTyped
    <2>8. RunTyped'
      <3>1. pc' \in [Jobs -> Labels]
        BY <1>0, <1>1 DEF Inspect, Goto, RunTyped
      <3>2. runs' \in [Jobs -> 0 .. MaxRuns] /\ UNCHANGED source
        BY <1>1, UploadAssumption DEF Inspect, RunTyped, UploadAssumption
      <3> QED BY <3>1, <3>2 DEF RunTyped
    <2> QED BY <1>1, <2>7, <2>8 DEF Inspect, TempsTyped, ServerTyped, QueueTyped
  <1>2. ASSUME NEW j \in Jobs, AcceptChanged(j) PROVE Typed'
    BY <1>0, <1>2, GotoTypes
       DEF AcceptChanged, TempsTyped, ServerTyped, QueueTyped, AttemptTyped, RunTyped
  <1>3. ASSUME NEW j \in Jobs, NEW label \in Labels, Leave(j, label), RunTyped
        PROVE  AttemptTyped' /\ pc' \in [Jobs -> Labels]
    BY <1>3, LeaveTypes, GotoTypes DEF Leave, RunTyped
  <1>4. ASSUME NEW j \in Jobs, GiveUp(j) \/ AnswerSkip(j) \/ Stop(j) PROVE Typed'
    <2>1. PICK label \in Labels : Leave(j, label)
      BY <1>0, <1>4 DEF GiveUp, AnswerSkip, Stop
    <2>2. AttemptTyped' /\ pc' \in [Jobs -> Labels]
      BY <1>3, <2>1
    <2> QED BY <1>4, <2>2 DEF GiveUp, AnswerSkip, Stop, TempsTyped, ServerTyped, QueueTyped,
               RunTyped
  <1>5. ASSUME NEW j \in Jobs, NEW label \in Labels, NEW chosen \in OptionsType,
               Decide(j, label, chosen)
        PROVE  TempsTyped' /\ ServerTyped' /\ AttemptTyped' /\ RunTyped' /\ UNCHANGED saved
    BY <1>5, GotoTypes DEF Decide, TempsTyped, ServerTyped, AttemptTyped, RunTyped
  <1>6. ASSUME NEW j \in Jobs, AnswerOverwrite(j) PROVE Typed'
    <2>1. [NoOptions EXCEPT !.overwrite = offer[j].revision # 0] \in OptionsType
      BY NoEntryTypes DEF OptionsType
    <2> QED BY <1>0, <1>5, <1>6, <2>1 DEF AnswerOverwrite, QueueTyped
  <1>7. ASSUME NEW j \in Jobs, AnswerResume(j) PROVE Typed'
    <2>1. [NoOptions EXCEPT !.offset = offer[j].size, !.temp = checkpoint[j].temp,
                            !.overwrite = offer[j].revision # 0] \in OptionsType
      BY <1>q, NoEntryTypes DEF OptionsType
    <2> QED BY <1>0, <1>5, <1>7, <2>1 DEF AnswerResume, QueueTyped
  <1>8. ASSUME NEW j \in Jobs, AnswerRename(j) PROVE Typed'
    <2>1. QueueTyped'
      BY <1>8, NoEntryTypes DEF AnswerRename, Decide, QueueTyped
    <2> QED BY <1>0, <1>5, <1>8, <2>1, NoEntryTypes DEF AnswerRename
  <1>9. ASSUME NEW j \in Jobs, Remember(j) PROVE Typed'
    <2> DEFINE t == IF options[j].temp # 0 THEN options[j].temp ELSE runs[j]
    <2>1. t \in 0 .. MaxRuns
      BY <1>q DEF RunTyped
    <2>2. [version |-> looked[j], temp |-> t] \in CheckpointType
      BY <2>1 DEF AttemptTyped, CheckpointType
    <2>3. [options[j] EXCEPT !.temp = t] \in OptionsType
      BY <2>1 DEF AttemptTyped, OptionsType
    <2>4. /\ checkpoint' = [checkpoint EXCEPT ![j] = [version |-> looked[j], temp |-> t]]
          /\ options' = [options EXCEPT ![j] = [options[j] EXCEPT !.temp = t]]
          /\ offer' = [offer EXCEPT ![j] = NoOffer]
          /\ UNCHANGED <<source, server, target, saved, runs, looked, touched>>
          /\ Goto(j, "persist")
      BY <1>9 DEF Remember
    <2>5. QueueTyped'
      BY <2>2, <2>4 DEF QueueTyped
    <2>6. AttemptTyped'
      BY <2>3, <2>4, NoEntryTypes DEF AttemptTyped
    <2> QED BY <1>0, <2>4, <2>5, <2>6, GotoTypes DEF TempsTyped, ServerTyped, RunTyped
  <1>10. ASSUME SaveQueue PROVE saved' \in [Jobs -> SavedType]
    <2>1. \A i \in Jobs : [target |-> target[i], checkpoint |-> checkpoint[i],
                           done |-> pc[i] = "done"] \in SavedType
      BY DEF QueueTyped, SavedType
    <2> QED BY <1>10, <2>1 DEF SaveQueue
  <1>11. ASSUME NEW j \in Jobs, Persist(j) PROVE Typed'
    <2>1. saved' \in [Jobs -> SavedType]
      BY <1>10, <1>11 DEF Persist, QueueTyped
    <2>2. AttemptTyped' /\ pc' \in [Jobs -> Labels]
      <3>1. CASE Leave(j, "idle")
        BY <1>0, <1>3, <3>1
      <3>2. CASE UNCHANGED <<attemptVars, touched>> /\
                 Goto(j, IF pc[j] = "persist" THEN "reserve" ELSE "remember")
        BY <1>0, <3>2, GotoTypes DEF AttemptTyped, RunTyped
      <3> QED BY <1>11, <3>1, <3>2 DEF Persist
    <2> QED BY <1>11, <2>1, <2>2 DEF Persist, TempsTyped, ServerTyped, QueueTyped, RunTyped
  <1>12. ASSUME NEW j \in Jobs, Reserve(j) PROVE Typed'
    <2>1. AttemptTyped' /\ pc' \in [Jobs -> Labels]
      <3>1. CASE Leave(j, "idle")
        BY <1>0, <1>3, <3>1
      <3>2. CASE UNCHANGED <<attemptVars, touched>> /\ Goto(j, "open")
        BY <1>0, <3>2, GotoTypes DEF AttemptTyped, RunTyped, InSession
      <3> QED BY <1>12, <3>1, <3>2 DEF Reserve
    <2> QED BY <1>12, <2>1 DEF Reserve, TempsTyped, ServerTyped, QueueTyped, RunTyped
  <1>13. ASSUME NEW j \in Jobs, NEW label \in InSession, Step(j, label)
         PROVE  ServerTyped' /\ QueueTyped' /\ RunTyped' /\ UNCHANGED looked
    BY <1>0, <1>13, GotoTypes DEF Step, ServerTyped, QueueTyped, RunTyped
  <1>14. ASSUME NEW j \in Jobs, pc[j] \in InSession PROVE OwnTemp(j) \in TempNames
    BY <1>q, <1>14 DEF JobInv, RemembersAt, OwnTemp, TempNames
  <1>15. ASSUME NEW j \in Jobs, OpenTemp(j) PROVE Typed'
    <2>1. OwnTemp(j) \in TempNames
      BY <1>14, <1>15 DEF OpenTemp, InSession
    <2>2. [there |-> TRUE, bytes |-> <<>>] \in TempType
      BY DEF TempType
    <2>3. TempsTyped'
      <3>1. CASE UNCHANGED temp
        BY <3>1 DEF TempsTyped
      <3>2. CASE temp' = [temp EXCEPT ![OwnTemp(j)] = [there |-> TRUE, bytes |-> <<>>]]
        <4>1. Len(<<>>) <= Size
          BY UploadAssumption DEF UploadAssumption
        <4> QED BY <2>1, <2>2, <3>2, <4>1 DEF TempsTyped
      <3> QED BY <1>15, <3>1, <3>2 DEF OpenTemp
    <2> QED BY <1>13, <1>15, <2>3 DEF OpenTemp, InSession, AttemptTyped
  <1>16. ASSUME NEW j \in Jobs, WriteChunk(j) PROVE Typed'
    <2> DEFINE t == OwnTemp(j)
               longer == [temp[t] EXCEPT !.bytes = Append(@, <<j, source[j]>>)]
    <2>1. t \in TempNames /\ temp[t] \in TempType
      BY <1>14, <1>16 DEF WriteChunk, InSession, TempsTyped
    <2>2. <<j, source[j]>> \in Chunk
      BY DEF RunTyped, Chunk
    <2>3. /\ longer \in TempType /\ longer.there = temp[t].there
          /\ Len(longer.bytes) = Len(temp[t].bytes) + 1
      <3>1. PICK old \in TempType : old = temp[t]
        BY <2>1
      <3>2. old.bytes \in Seq(Chunk) /\ longer = [old EXCEPT !.bytes = Append(old.bytes, <<j, source[j]>>)]
        BY <3>1 DEF TempType
      <3>3. /\ Append(old.bytes, <<j, source[j]>>) \in Seq(Chunk)
            /\ Len(Append(old.bytes, <<j, source[j]>>)) = Len(old.bytes) + 1
        BY <2>2, <3>2
      <3> QED BY ONLY <3>1, <3>2, <3>3 DEF TempType
    <2>4. Len(temp[t].bytes) < Size /\ Len(temp[t].bytes) \in Nat
      BY <1>16, <2>1 DEF WriteChunk, TempType
    <2>5. temp' = [temp EXCEPT ![t] = longer]
      BY <1>16 DEF WriteChunk
    <2> HIDE DEF t, longer
    <2>6. Len(longer.bytes) <= Size
      BY <2>3, <2>4, UploadAssumption DEF UploadAssumption
    <2>7. ~longer.there => longer.bytes = <<>>
      BY <1>16, <2>3 DEF WriteChunk, JobInv, WholeAt, t
    <2>8. TempsTyped'
      BY <2>1, <2>3, <2>5, <2>6, <2>7 DEF TempsTyped
    <2> QED BY <1>13, <1>16, <2>8 DEF WriteChunk, InSession, AttemptTyped
  <1>17. ASSUME NEW j \in Jobs, FinishWriting(j) PROVE Typed'
    <2>1. PICK label \in InSession : Step(j, label)
      BY <1>17 DEF FinishWriting, InSession
    <2> QED BY <1>13, <1>17, <2>1 DEF FinishWriting, TempsTyped, AttemptTyped
  <1>18. ASSUME NEW j \in Jobs, Observe(j) PROVE Typed'
    <2>1. PICK label \in InSession : Step(j, label)
      BY <1>18 DEF Observe, InSession
    <2>2. options' \in [Jobs -> OptionsType]
      <3>1. \A b \in BOOLEAN : [options[j] EXCEPT !.overwrite = b] \in OptionsType
        BY DEF AttemptTyped, OptionsType
      <3>2. \/ UNCHANGED options
            \/ \E b \in BOOLEAN : options' = [options EXCEPT ![j] = [options[j] EXCEPT !.overwrite = b]]
        BY <1>18 DEF Observe
      <3> QED BY <3>1, <3>2 DEF AttemptTyped
    <2>3. offer' \in [Jobs -> OfferType]
      <3>1. \A n \in Nat : [offer[j] EXCEPT !.revision = n] \in OfferType
        BY DEF AttemptTyped, OfferType
      <3>2. remote[target[j]].revision \in Nat
        BY <1>q DEF QueueTyped
      <3>3. \/ UNCHANGED offer
            \/ offer' = [offer EXCEPT ![j] = [offer[j] EXCEPT !.revision = remote[target[j]].revision]]
        BY <1>18 DEF Observe
      <3> QED BY <3>1, <3>2, <3>3 DEF AttemptTyped
    <2> QED BY <1>13, <1>18, <2>1, <2>2, <2>3 DEF Observe, TempsTyped, AttemptTyped
  <1>19. ASSUME NEW j \in Jobs, ConfirmOverwrite(j) PROVE Typed'
    <2>1. options' \in [Jobs -> OptionsType]
      <3>1. \A n \in Nat : [options[j] EXCEPT !.authorized = n] \in OptionsType
        BY DEF AttemptTyped, OptionsType
      <3>2. options' = [options EXCEPT ![j] = [options[j] EXCEPT !.authorized = offer[j].revision]]
        BY <1>19 DEF ConfirmOverwrite
      <3> QED BY <1>q, <3>1, <3>2 DEF AttemptTyped
    <2> QED BY <1>13, <1>19, <2>1, NoEntryTypes
            DEF ConfirmOverwrite, InSession, TempsTyped, AttemptTyped
  <1>20. ASSUME NEW j \in Jobs, CheckAbsent(j) PROVE Typed'
    BY <1>13, <1>20 DEF CheckAbsent, InSession, TempsTyped, AttemptTyped
  <1>21. ASSUME NEW j \in Jobs, Rename(j) PROVE Typed'
    <2>1. OwnTemp(j) \in TempNames /\ temp[OwnTemp(j)].bytes \in Seq(Chunk)
      BY <1>14, <1>21 DEF Rename, InSession, TempsTyped, TempType
    <2>2. [revision |-> clock + 1, bytes |-> temp[OwnTemp(j)].bytes] \in FileType
      BY <2>1 DEF FileType, ServerTyped
    <2>3. ServerTyped'
      <3>1. /\ remote' = [remote EXCEPT ![target[j]] =
                  [revision |-> clock + 1, bytes |-> temp[OwnTemp(j)].bytes]]
            /\ clock' = clock + 1 /\ UNCHANGED foreign
        BY <1>21 DEF Rename
      <3>2. \A f \in Files : remote'[f] = remote[f] \/ remote'[f].revision = clock + 1
        BY <3>1 DEF ServerTyped
      <3>3. \A f \in Files : remote'[f].revision <= clock + 1
        <4>1. \A f \in Files : remote[f].revision <= clock + 1
          BY <1>q DEF ServerTyped
        <4>2. clock + 1 <= clock + 1
          BY DEF ServerTyped
        <4> QED BY <3>2, <4>1, <4>2
      <3>4. remote' \in [Files -> FileType]
        BY <2>2, <3>1 DEF ServerTyped
      <3>5. clock' \in Nat /\ foreign' \in 0 .. MaxForeign
        BY <3>1 DEF ServerTyped
      <3>6. \A f \in Files : remote'[f].revision <= clock'
        BY <3>1, <3>3
      <3> QED BY ONLY <3>4, <3>5, <3>6 DEF ServerTyped
    <2>4. TempsTyped'
      BY <1>21, <2>1, NoEntryTypes, UploadAssumption DEF Rename, TempsTyped, UploadAssumption
    <2>5. AttemptTyped' /\ pc' \in [Jobs -> Labels]
      <3>1. CASE Leave(j, "idle")
        BY <1>0, <1>3, <3>1
      <3>2. CASE UNCHANGED <<attemptVars, touched>> /\ Goto(j, "committed")
        BY <1>0, <3>2, GotoTypes DEF AttemptTyped, RunTyped, InSession
      <3> QED BY <1>21, <3>1, <3>2 DEF Rename
    <2> QED BY <1>21, <2>3, <2>4, <2>5 DEF Rename, QueueTyped, RunTyped
  <1>22. ASSUME NEW j \in Jobs, EraseCheckpoint(j) PROVE Typed'
    <2>1. AttemptTyped' /\ pc' \in [Jobs -> Labels]
      BY <1>0, <1>3, <1>22 DEF EraseCheckpoint
    <2> QED BY <1>22, <2>1, NoEntryTypes
            DEF EraseCheckpoint, TempsTyped, ServerTyped, QueueTyped, RunTyped
  <1>23. CASE PersistQueue
    BY <1>10, <1>23
       DEF PersistQueue, TempsTyped, ServerTyped, QueueTyped, AttemptTyped, RunTyped
  <1>24. CASE Restart
    <2>1. QueueTyped'
      BY <1>24 DEF Restart, QueueTyped, SavedType
    <2>2. AttemptTyped'
      BY <1>24, NoEntryTypes, UploadAssumption DEF Restart, AttemptTyped, UploadAssumption
    <2>3. RunTyped'
      BY <1>0, <1>24 DEF Restart, RunTyped
    <2> QED BY <1>24, <2>1, <2>2, <2>3 DEF Restart, TempsTyped, ServerTyped
  <1>25. ASSUME NEW j \in Jobs, EditSource(j) PROVE Typed'
    BY <1>25, UploadAssumption
       DEF EditSource, TempsTyped, ServerTyped, QueueTyped, AttemptTyped, RunTyped,
           UploadAssumption
  <1>26. ASSUME NEW f \in Files, ChangeRemote(f) PROVE Typed'
    <2>1. ServerTyped'
      <3>1. PICK revision \in {0, clock + 1} :
               remote' = [remote EXCEPT ![f] = [revision |-> revision, bytes |-> <<>>]]
        BY <1>26 DEF ChangeRemote
      <3>2. [revision |-> revision, bytes |-> <<>>] \in FileType
        BY DEF FileType, ServerTyped
      <3> QED BY <1>26, <3>1, <3>2, UploadAssumption
              DEF ChangeRemote, ServerTyped, FileType, UploadAssumption
    <2> QED BY <1>26, <2>1
            DEF ChangeRemote, TempsTyped, QueueTyped, AttemptTyped, RunTyped
  <1>27. ASSUME NEW t \in DOMAIN temp, RemoveTemp(t) PROVE Typed'
    BY <1>27, NoEntryTypes, UploadAssumption
       DEF RemoveTemp, TempsTyped, ServerTyped, QueueTyped, AttemptTyped, RunTyped,
           UploadAssumption
  <1>28. CASE UNCHANGED vars
    BY <1>28 DEF vars, TempsTyped, ServerTyped, QueueTyped, AttemptTyped, RunTyped
  <1> QED
    BY <1>1, <1>2, <1>4, <1>6, <1>7, <1>8, <1>9, <1>11, <1>12, <1>15, <1>16, <1>17, <1>18,
       <1>19, <1>20, <1>21, <1>22, <1>23, <1>24, <1>25, <1>26, <1>27, <1>28
       DEF Next, JobStep

-----------------------------------------------------------------------------
(* What a job has of its own: no step of another job changes it, but one   *)
(* may save the queue, and with it this job's checkpoint.                  *)
SameTemps(j) == \A k \in 1 .. MaxRuns : temp'[<<j, k>>] = temp[<<j, k>>]
SameQueue(j) == checkpoint'[j] = checkpoint[j] /\ saved'[j] = saved[j]
SameAttempt(j) ==
    /\ source'[j] = source[j] /\ runs'[j] = runs[j] /\ looked'[j] = looked[j]
    /\ pc'[j] = pc[j] /\ offer'[j] = offer[j] /\ options'[j] = options[j]

LEMMA OwnIsOwn ==
    ASSUME Typed, Typed', NEW j \in Jobs, JobInv(j), SameTemps(j), SameAttempt(j),
           checkpoint'[j] = checkpoint[j],
           saved'[j] = saved[j] \/ saved'[j].checkpoint = checkpoint[j]
    PROVE  JobInv(j)'
  <1> USE DEF JobInv, SameTemps, SameAttempt
  <1>1. /\ options[j].temp \in 0 .. MaxRuns
        /\ \A c \in Checkpoints(j) : c \in CheckpointType /\ c.temp \in 0 .. MaxRuns
    BY DEF Typed, AttemptTyped, QueueTyped, OptionsType, SavedType, CheckpointType, Checkpoints
  <1>2. Checkpoints(j)' \subseteq Checkpoints(j) /\ AttemptOf(j)' = AttemptOf(j)
    BY DEF Checkpoints, AttemptOf
  <1>3. RemembersAt(j)'
    BY <1>2 DEF RemembersAt, InSession
  <1>4. PastAt(j)'
    BY <1>2 DEF PastAt
  <1>5. FreshAt(j)'
    BY DEF FreshAt
  <1>6. WholeAt(j)'
    <2>1. pc[j] \in InSession => temp'[OwnTemp(j)'] = temp[OwnTemp(j)]
      BY <1>1 DEF RemembersAt, OwnTemp
    <2> QED BY <2>1 DEF WholeAt, InSession
  <1>7. HonestAt(j)'
    <2>1. \A c \in Checkpoints(j) : c.temp # 0 => temp'[<<j, c.temp>>] = temp[<<j, c.temp>>]
      BY <1>1
    <2> QED BY <1>2, <2>1 DEF HonestAt
  <1> QED BY <1>3, <1>4, <1>5, <1>6, <1>7

(* An attempt that ends leaves at most less than it knew.                  *)
FewerTemps(j) ==
    \A k \in 1 .. MaxRuns : temp'[<<j, k>>].bytes \in {temp[<<j, k>>].bytes, <<>>}

LEMMA NothingIsHonest == \A j, version : AllFrom(<<>>, j, version)
  BY DEF AllFrom

LEMMA HonestWithFewer ==
    ASSUME Typed, NEW j \in Jobs, HonestAt(j), source'[j] = source[j], FewerTemps(j),
           Checkpoints(j)' \subseteq Checkpoints(j) \cup {NoCheckpoint}
    PROVE  HonestAt(j)'
  <1>1. \A c \in Checkpoints(j) : c.temp \in 0 .. MaxRuns
    BY DEF Typed, QueueTyped, SavedType, CheckpointType, Checkpoints
  <1>2. ASSUME NEW c \in Checkpoints(j)', c.temp # 0, c.version = source'[j]
        PROVE  AllFrom(temp'[<<j, c.temp>>].bytes, j, source'[j])
    <2>1. c \in Checkpoints(j)
      BY <1>2 DEF NoCheckpoint
    <2>2. AllFrom(temp[<<j, c.temp>>].bytes, j, source[j])
      BY <1>2, <2>1 DEF HonestAt
    <2>3. temp'[<<j, c.temp>>].bytes \in {temp[<<j, c.temp>>].bytes, <<>>}
      BY <1>1, <1>2, <2>1 DEF FewerTemps
    <2> QED BY <2>2, <2>3, NothingIsHonest
  <1> QED BY <1>2 DEF HonestAt

LEMMA AttemptEnds ==
    ASSUME Typed, Typed', NEW j \in Jobs, JobInv(j),
           pc'[j] \in {"idle", "done"}, looked'[j] = 0, options'[j] = NoOptions,
           source'[j] = source[j], runs'[j] = runs[j], FewerTemps(j),
           Checkpoints(j)' \subseteq Checkpoints(j) \cup {NoCheckpoint}
    PROVE  JobInv(j)'
  <1> USE DEF JobInv
  <1>1. source[j] \in Nat /\ runs[j] \in Nat
    BY DEF Typed, RunTyped
  <1>2. RemembersAt(j)' /\ WholeAt(j)'
    BY DEF RemembersAt, WholeAt, InSession
  <1>3. PastAt(j)'
    BY <1>1 DEF PastAt, NoOptions, NoCheckpoint
  <1>4. FreshAt(j)'
    BY DEF FreshAt, FewerTemps, Preparing
  <1>5. HonestAt(j)'
    BY HonestWithFewer
  <1> QED BY <1>2, <1>3, <1>4, <1>5

(* Every step of the attempt keeps what the job may rely on.               *)
LEMMA AttemptStep ==
    ASSUME Typed, Typed', NEW j \in Jobs, JobInv(j), JobStep(j)
    PROVE  JobInv(j)'
  <1> USE DEF server, attemptVars
  <1>1. /\ source[j] \in 1 .. MaxVersion /\ runs[j] \in 0 .. MaxRuns /\ looked[j] \in Nat
        /\ options[j] \in OptionsType /\ options[j].temp \in 0 .. MaxRuns
        /\ checkpoint[j] \in CheckpointType /\ checkpoint[j].temp \in 0 .. MaxRuns
        /\ Jobs = DOMAIN pc /\ Jobs = DOMAIN options /\ Jobs = DOMAIN offer
        /\ Jobs = DOMAIN looked /\ Jobs = DOMAIN checkpoint /\ Jobs = DOMAIN runs
        /\ Jobs = DOMAIN touched /\ TempNames = DOMAIN temp /\ MaxRuns \in Nat
    <2>1. source[j] \in 1 .. MaxVersion /\ runs[j] \in 0 .. MaxRuns /\ MaxRuns \in Nat
      BY UploadAssumption DEF Typed, RunTyped, UploadAssumption
    <2>2. options[j] \in OptionsType /\ checkpoint[j] \in CheckpointType /\ looked[j] \in Nat
      BY DEF Typed, AttemptTyped, QueueTyped
    <2>3. options[j].temp \in 0 .. MaxRuns
      BY <2>2 DEF OptionsType
    <2>4. checkpoint[j].temp \in 0 .. MaxRuns
      BY <2>2 DEF CheckpointType
    <2>5. /\ Jobs = DOMAIN pc /\ Jobs = DOMAIN options /\ Jobs = DOMAIN offer
          /\ Jobs = DOMAIN looked /\ Jobs = DOMAIN checkpoint /\ Jobs = DOMAIN runs
          /\ Jobs = DOMAIN touched /\ TempNames = DOMAIN temp
      BY DEF Typed, RunTyped, AttemptTyped, QueueTyped, TempsTyped
    <2> QED BY <2>1, <2>2, <2>3, <2>4, <2>5
  <1>2. ASSUME NEW label \in {"idle", "done"}, Leave(j, label), FewerTemps(j),
               UNCHANGED <<source, runs>>,
               Checkpoints(j)' \subseteq Checkpoints(j) \cup {NoCheckpoint}
        PROVE  JobInv(j)'
    <2>1. pc'[j] = label /\ looked'[j] = 0 /\ options'[j] = NoOptions
      BY <1>1, <1>2 DEF Leave, Goto
    <2> QED BY <1>2, <2>1, AttemptEnds
  <1>3. UNCHANGED temp => FewerTemps(j)
    BY DEF FewerTemps
  <1>4. UNCHANGED <<checkpoint, saved>> => Checkpoints(j)' = Checkpoints(j)
    BY DEF Checkpoints
  <1>5. CASE GiveUp(j) \/ AnswerSkip(j) \/ Stop(j)
    BY <1>2, <1>3, <1>4, <1>5 DEF GiveUp, AnswerSkip, Stop
  <1>6. CASE EraseCheckpoint(j)
    <2>1. Checkpoints(j)' \subseteq Checkpoints(j) \cup {NoCheckpoint}
      BY <1>1, <1>6 DEF EraseCheckpoint, Checkpoints
    <2> QED BY <1>2, <1>3, <1>6, <2>1 DEF EraseCheckpoint
  (* A step that keeps the queue and the source and gives the attempt no   *)
  (* other temporary file.                                                 *)
  <1>7. ASSUME UNCHANGED <<source, checkpoint, saved, runs, looked>>, FewerTemps(j),
               options'[j].temp \in {options[j].temp, 0}, pc[j] \notin {"idle", "done"},
               pc'[j] \in Preparing => pc[j] \in Preparing
        PROVE  PastAt(j)' /\ FreshAt(j)' /\ HonestAt(j)'
    <2>1. Checkpoints(j)' = Checkpoints(j)
      BY <1>4, <1>7
    <2>2. PastAt(j)'
      BY <1>1, <1>7, <2>1 DEF JobInv, PastAt
    <2>3. FreshAt(j)'
      BY <1>7 DEF JobInv, FreshAt, FewerTemps
    <2>4. HonestAt(j)'
      BY <1>7, <2>1, HonestWithFewer DEF JobInv
    <2> QED BY <2>2, <2>3, <2>4
  <1>8. CASE Inspect(j)
    <2>1. /\ pc[j] = "idle" /\ runs'[j] = runs[j] + 1 /\ looked'[j] = source[j]
          /\ offer'[j].safe = SafeResume(j)
          /\ options'[j].temp = IF j \in Guarded /\ SafeResume(j) THEN checkpoint[j].temp ELSE 0
          /\ pc'[j] \in {"remember", "changed", "asking"}
          /\ UNCHANGED <<source, temp, checkpoint, saved>>
      BY <1>1, <1>8 DEF Inspect, Goto, NoOptions
    <2>2. Checkpoints(j)' = Checkpoints(j) /\ source'[j] = source[j]
      BY <1>4, <2>1
    <2>3. RemembersAt(j)'
      <3>1. SafeResume(j) => checkpoint[j].temp # 0 /\ checkpoint[j].version = source[j]
        BY DEF SafeResume
      <3>2. checkpoint[j] = [version |-> checkpoint[j].version, temp |-> checkpoint[j].temp]
        BY <1>1 DEF CheckpointType
      <3> QED BY <2>1, <3>1, <3>2 DEF RemembersAt, AttemptOf, InSession
    <2>4. PastAt(j)'
      <3>1. \A c \in Checkpoints(j) : c.version <= source[j] /\ c.temp <= runs[j] /\ c.temp \in Nat
        BY DEF JobInv, PastAt, Typed, QueueTyped, SavedType, CheckpointType, Checkpoints
      <3>2. \A c \in Checkpoints(j) : c.temp <= runs[j] + 1
        BY <1>1, <3>1
      <3>3. options'[j].temp <= runs[j] + 1
        BY <1>1, <2>1, <3>2 DEF Checkpoints
      <3> QED BY <1>1, <2>1, <2>2, <3>1, <3>2, <3>3 DEF PastAt
    <2>5. FreshAt(j)'
      BY <1>1, <2>1 DEF JobInv, FreshAt
    <2>6. WholeAt(j)'
      BY <2>1 DEF WholeAt
    <2>7. HonestAt(j)'
      BY <1>3, <2>1, <2>2, HonestWithFewer DEF JobInv
    <2> QED BY <2>3, <2>4, <2>5, <2>6, <2>7 DEF JobInv
  <1>9. CASE AcceptChanged(j) \/ AnswerOverwrite(j) \/ AnswerResume(j)
    <2>1. /\ pc[j] \in {"changed", "asking"} /\ pc'[j] = "remember"
          /\ UNCHANGED <<source, temp, checkpoint, saved, runs, looked>>
      BY <1>1, <1>9
         DEF AcceptChanged, AnswerOverwrite, AnswerResume, Decide, Goto
    <2>2. \/ pc[j] = "changed" /\ options'[j].temp = options[j].temp
          \/ options'[j].temp = 0
          \/ pc[j] = "asking" /\ offer[j].safe /\ options'[j].temp = checkpoint[j].temp
      <3>1. CASE AcceptChanged(j)
        BY <3>1 DEF AcceptChanged
      <3>2. CASE AnswerOverwrite(j)
        BY <1>1, <3>2 DEF AnswerOverwrite, Decide, NoOptions
      <3>3. CASE AnswerResume(j)
        BY <1>1, <3>3 DEF AnswerResume, Decide, NoOptions
      <3> QED BY <1>9, <3>1, <3>2, <3>3
    <2>3. RemembersAt(j)'
      <3>1. checkpoint[j] = [version |-> checkpoint[j].version, temp |-> checkpoint[j].temp]
        BY <1>1 DEF CheckpointType
      <3> QED BY <2>1, <2>2, <3>1 DEF JobInv, RemembersAt, AttemptOf, InSession
    <2>4. Checkpoints(j)' = Checkpoints(j) /\ FewerTemps(j)
      BY <1>3, <1>4, <2>1
    <2>5. PastAt(j)'
      BY <1>1, <2>1, <2>2, <2>4 DEF JobInv, PastAt, Checkpoints
    <2>6. FreshAt(j)' /\ WholeAt(j)'
      BY <2>1 DEF JobInv, FreshAt, WholeAt, Preparing
    <2>7. HonestAt(j)'
      BY <2>1, <2>4, HonestWithFewer DEF JobInv
    <2> QED BY <2>3, <2>5, <2>6, <2>7 DEF JobInv
  <1>10. CASE AnswerRename(j)
    <2>1. /\ pc[j] = "asking" /\ pc'[j] = "persistName" /\ options'[j].temp = 0
          /\ checkpoint'[j] = NoCheckpoint
          /\ UNCHANGED <<source, temp, saved, runs, looked>>
      BY <1>1, <1>10 DEF AnswerRename, Decide, Goto, NoOptions
    <2>2. Checkpoints(j)' \subseteq Checkpoints(j) \cup {NoCheckpoint} /\ FewerTemps(j)
      BY <1>3, <2>1 DEF Checkpoints
    <2>3. RemembersAt(j)' /\ WholeAt(j)' /\ FreshAt(j)'
      BY <2>1 DEF JobInv, RemembersAt, FreshAt, WholeAt, Preparing, InSession
    <2>4. PastAt(j)'
      BY <1>1, <2>1, <2>2 DEF JobInv, PastAt, NoCheckpoint
    <2>5. HonestAt(j)'
      BY <2>1, <2>2, HonestWithFewer DEF JobInv
    <2> QED BY <2>3, <2>4, <2>5 DEF JobInv
  <1>11. CASE Remember(j)
    <2> DEFINE t == IF options[j].temp # 0 THEN options[j].temp ELSE runs[j]
    <2>1. /\ pc[j] = "remember" /\ pc'[j] = "persist"
          /\ options'[j].temp = t /\ checkpoint'[j] = [version |-> looked[j], temp |-> t]
          /\ UNCHANGED <<source, temp, saved, runs, looked>>
      BY <1>1, <1>11 DEF Remember, Goto, OptionsType
    <2>2. t # 0 /\ t <= runs[j] /\ t \in 1 .. MaxRuns
      BY <1>1, <2>1 DEF JobInv, PastAt
    <2>3. AllFrom(temp[<<j, t>>].bytes, j, looked[j]) \/ looked[j] # source[j]
      <3>1. CASE options[j].temp # 0
        BY <2>1, <3>1 DEF JobInv, RemembersAt, HonestAt, Checkpoints, AttemptOf
      <3>2. CASE options[j].temp = 0
        <4>1. temp[<<j, t>>].bytes = <<>>
          BY <2>1, <2>2, <3>2 DEF JobInv, FreshAt, Preparing
        <4> QED BY <4>1, NothingIsHonest
      <3> QED BY <3>1, <3>2
    <2> HIDE DEF t
    <2>4. RemembersAt(j)' /\ WholeAt(j)' /\ FreshAt(j)'
      BY <2>1, <2>2
         DEF JobInv, RemembersAt, AttemptOf, FreshAt, WholeAt, Preparing, InSession
    <2>5. PastAt(j)'
      BY <1>1, <2>1, <2>2 DEF JobInv, PastAt, Checkpoints
    <2>6. HonestAt(j)'
      BY <2>1, <2>3 DEF JobInv, HonestAt, Checkpoints
    <2> QED BY <2>4, <2>5, <2>6 DEF JobInv
  <1>12. CASE Persist(j)
    <2>1. CASE UNCHANGED saved /\ Leave(j, "idle")
      BY <1>2, <1>3, <1>4, <1>12, <2>1 DEF Persist
    <2>2. CASE SaveQueue /\ Goto(j, IF pc[j] = "persist" THEN "reserve" ELSE "remember")
               /\ UNCHANGED <<attemptVars, touched>>
      <3>1. /\ saved'[j].checkpoint = checkpoint[j]
            /\ \/ pc[j] = "persist" /\ pc'[j] = "reserve"
               \/ pc[j] = "persistName" /\ pc'[j] = "remember" /\ options[j].temp = 0
            /\ UNCHANGED <<source, temp, checkpoint, runs, looked, options>>
        <4>1. pc[j] \in {"persist", "persistName"}
          BY <1>12 DEF Persist
        <4>2. saved'[j].checkpoint = checkpoint[j]
          BY <2>2 DEF SaveQueue
        <4>3. pc'[j] = IF pc[j] = "persist" THEN "reserve" ELSE "remember"
          BY <1>1, <2>2 DEF Goto
        <4> QED BY <1>12, <2>2, <4>1, <4>2, <4>3 DEF Persist, JobInv, RemembersAt
      <3>2. Checkpoints(j)' \subseteq Checkpoints(j) /\ FewerTemps(j)
        BY <1>3, <3>1 DEF Checkpoints
      <3>3. RemembersAt(j)'
        BY <3>1 DEF JobInv, RemembersAt, AttemptOf, InSession
      <3>4. PastAt(j)'
        BY <3>1, <3>2 DEF JobInv, PastAt
      <3>5. FreshAt(j)' /\ WholeAt(j)'
        BY <3>1 DEF JobInv, FreshAt, WholeAt, Preparing
      <3>6. HonestAt(j)'
        BY <3>1, <3>2, HonestWithFewer DEF JobInv
      <3> QED BY <3>3, <3>4, <3>5, <3>6 DEF JobInv
    <2> QED BY <1>12, <2>1, <2>2 DEF Persist
  <1>13. CASE Reserve(j)
    <2>1. CASE Leave(j, "idle")
      BY <1>2, <1>3, <1>4, <1>13, <2>1 DEF Reserve
    <2>2. CASE Goto(j, "open") /\ UNCHANGED <<attemptVars, touched>>
      <3>1. /\ pc[j] = "reserve" /\ pc'[j] = "open"
            /\ UNCHANGED <<source, temp, checkpoint, saved, runs, looked, options>>
        BY <1>1, <1>13, <2>2 DEF Reserve, Goto
      <3>2. RemembersAt(j)' /\ WholeAt(j)'
        BY <3>1 DEF JobInv, RemembersAt, AttemptOf, WholeAt, InSession
      <3> QED BY <1>3, <1>7, <3>1, <3>2 DEF JobInv, Preparing
    <2> QED BY <1>13, <2>1, <2>2 DEF Reserve
  <1>14. ASSUME pc[j] \in InSession PROVE options[j].temp \in 1 .. MaxRuns /\ OwnTemp(j) \in TempNames
    BY <1>1, <1>14 DEF JobInv, RemembersAt, OwnTemp, TempNames
  <1>15. CASE OpenTemp(j)
    <2>1. /\ pc[j] = "open" /\ pc'[j] = "write"
          /\ UNCHANGED <<source, checkpoint, saved, runs, looked, options>>
      BY <1>1, <1>15 DEF OpenTemp, Step, Goto
    <2>2. OwnTemp(j) \in TempNames /\ OwnTemp(j)' = OwnTemp(j)
      BY <1>14, <2>1 DEF InSession, OwnTemp
    <2>3. \/ UNCHANGED temp /\ temp[OwnTemp(j)].there
          \/ temp' = [temp EXCEPT ![OwnTemp(j)] = [there |-> TRUE, bytes |-> <<>>]]
      BY <1>15 DEF OpenTemp, StillResumable
    <2>4. FewerTemps(j)
      BY <1>1, <2>2, <2>3 DEF FewerTemps, TempNames
    <2>5. WholeAt(j)'
      BY <1>1, <2>1, <2>2, <2>3 DEF WholeAt
    <2>6. RemembersAt(j)'
      BY <2>1 DEF JobInv, RemembersAt, AttemptOf, InSession
    <2> QED BY <1>7, <2>1, <2>4, <2>5, <2>6 DEF JobInv, Preparing
  <1>16. CASE WriteChunk(j)
    <2>1. /\ pc[j] = "write" /\ pc'[j] = "write"
          /\ UNCHANGED <<source, checkpoint, saved, runs, looked, options>>
      BY <1>1, <1>16 DEF WriteChunk, Step, Goto
    <2>2. PICK own \in 1 .. MaxRuns :
             own = options[j].temp /\ OwnTemp(j) = <<j, own>> /\ OwnTemp(j)' = <<j, own>>
      BY <1>14, <2>1 DEF InSession, OwnTemp
    <2>3. PICK old \in TempType : old = temp[<<j, own>>]
      BY <2>2 DEF Typed, TempsTyped, TempNames
    <2>4. /\ temp' = [temp EXCEPT ![<<j, own>>] =
                         [old EXCEPT !.bytes = Append(old.bytes, <<j, source[j]>>)]]
          /\ old.there /\ old.bytes \in Seq(Chunk)
      BY <1>16, <2>1, <2>2, <2>3 DEF WriteChunk, JobInv, WholeAt, TempType
    <2>5. /\ temp'[<<j, own>>].bytes = Append(old.bytes, <<j, source[j]>>)
          /\ temp'[<<j, own>>].there
          /\ \A k \in 1 .. MaxRuns : k # own => temp'[<<j, k>>] = temp[<<j, k>>]
      BY <1>1, <2>3, <2>4 DEF TempNames, TempType
    <2>6. Checkpoints(j)' = Checkpoints(j) /\ AttemptOf(j)' = AttemptOf(j)
      BY <2>1 DEF Checkpoints, AttemptOf
    <2>7. RemembersAt(j)' /\ PastAt(j)'
      BY <2>1, <2>6 DEF JobInv, RemembersAt, PastAt, InSession
    <2>8. WholeAt(j)'
      BY <2>1, <2>2, <2>5 DEF WholeAt
    <2>9. FreshAt(j)'
      <3>1. own <= runs[j]
        BY <2>2 DEF JobInv, PastAt
      <3>2. ASSUME NEW k \in 1 .. MaxRuns, k > runs[j]
            PROVE  temp'[<<j, k>>].bytes = <<>>
        <4>1. k # own
          BY <1>1, <3>1, <3>2
        <4> QED BY <2>5, <3>2, <4>1 DEF JobInv, FreshAt
      <3> QED BY <2>1, <3>2 DEF FreshAt, Preparing
    <2>10. HonestAt(j)'
      <3>1. ASSUME NEW c \in Checkpoints(j), c.temp # 0, c.version = source[j]
            PROVE  AllFrom(temp'[<<j, c.temp>>].bytes, j, source[j])
        <4>1. AllFrom(temp[<<j, c.temp>>].bytes, j, source[j])
          BY <3>1 DEF JobInv, HonestAt
        <4>2. CASE c.temp = own
          <5>1. \A i \in 1 .. Len(old.bytes) : old.bytes[i] = <<j, source[j]>>
            BY <2>3, <4>1, <4>2 DEF AllFrom
          <5>2. \A i \in 1 .. Len(Append(old.bytes, <<j, source[j]>>)) :
                   Append(old.bytes, <<j, source[j]>>)[i] = <<j, source[j]>>
            BY <2>4, <5>1
          <5> QED BY <2>5, <4>2, <5>2 DEF AllFrom
        <4>3. CASE c.temp # own
          <5>1. c.temp \in 1 .. MaxRuns
            BY <3>1 DEF Typed, QueueTyped, SavedType, CheckpointType, Checkpoints
          <5> QED BY <2>5, <4>1, <4>3, <5>1
        <4> QED BY <4>2, <4>3
      <3> QED BY <2>1, <2>6, <3>1 DEF HonestAt
    <2> QED BY <2>7, <2>8, <2>9, <2>10 DEF JobInv
  <1>17. CASE \/ FinishWriting(j) \/ Observe(j) \/ ConfirmOverwrite(j) \/ CheckAbsent(j)
    <2>1. /\ pc[j] \in {"write", "settle", "confirm", "check"}
          /\ pc'[j] \in {"settle", "confirm", "check", "rename"}
          /\ UNCHANGED <<source, temp, checkpoint, saved, runs, looked>>
      BY <1>1, <1>17 DEF FinishWriting, Observe, ConfirmOverwrite, CheckAbsent, Step, Goto
    <2>2. options'[j].temp = options[j].temp
      <3>1. CASE FinishWriting(j) \/ CheckAbsent(j)
        BY <3>1 DEF FinishWriting, CheckAbsent
      <3>2. CASE Observe(j) \/ ConfirmOverwrite(j)
        <4>1. \/ options' = options
              \/ \E b : options' = [options EXCEPT ![j] = [options[j] EXCEPT !.overwrite = b]]
              \/ \E n : options' = [options EXCEPT ![j] = [options[j] EXCEPT !.authorized = n]]
          BY <3>2 DEF Observe, ConfirmOverwrite
        <4>2. \A b : [options[j] EXCEPT !.overwrite = b].temp = options[j].temp
          BY <1>1 DEF OptionsType
        <4>3. \A n : [options[j] EXCEPT !.authorized = n].temp = options[j].temp
          BY <1>1 DEF OptionsType
        <4> QED BY <1>1, <4>1, <4>2, <4>3, ZenonT(30)
      <3> QED BY <1>17, <3>1, <3>2
    <2>3. OwnTemp(j)' = OwnTemp(j) /\ AttemptOf(j)' = AttemptOf(j)
      BY <2>1, <2>2 DEF OwnTemp, AttemptOf
    <2>4. RemembersAt(j)'
      BY <2>1, <2>2, <2>3 DEF JobInv, RemembersAt, InSession
    <2>5. pc[j] = "write" => Len(temp[OwnTemp(j)].bytes) = Size
      BY <1>17 DEF FinishWriting, Observe, ConfirmOverwrite, CheckAbsent
    <2>6. WholeAt(j)'
      BY <2>1, <2>3, <2>5 DEF JobInv, WholeAt
    <2> QED BY <1>3, <1>7, <2>1, <2>2, <2>4, <2>6 DEF JobInv, Preparing
  <1>18. CASE Rename(j)
    <2>1. FewerTemps(j)
      <3>1. OwnTemp(j) \in TempNames
        BY <1>14, <1>18 DEF Rename, InSession
      <3> QED BY <1>1, <1>18, <3>1, NoEntryTypes DEF Rename, FewerTemps, TempNames
    <2>2. CASE Leave(j, "idle")
      BY <1>2, <1>4, <1>18, <2>1, <2>2 DEF Rename
    <2>3. CASE Goto(j, "committed") /\ UNCHANGED <<attemptVars, touched>>
      <3>1. /\ pc[j] = "rename" /\ pc'[j] = "committed"
            /\ UNCHANGED <<source, checkpoint, saved, runs, looked, options>>
        BY <1>1, <1>18, <2>3 DEF Rename, Goto
      <3>2. RemembersAt(j)' /\ WholeAt(j)'
        BY <3>1 DEF JobInv, RemembersAt, AttemptOf, WholeAt, InSession
      <3> QED BY <1>7, <2>1, <3>1, <3>2 DEF JobInv, Preparing
    <2> QED BY <1>18, <2>2, <2>3 DEF Rename
  <1> QED
    BY <1>5, <1>6, <1>8, <1>9, <1>10, <1>11, <1>12, <1>13, <1>15, <1>16, <1>17, <1>18
       DEF JobStep

-----------------------------------------------------------------------------
(* What the step of one job leaves alone of another.                       *)
LEMMA Bystander ==
    ASSUME Typed, NEW i \in Jobs, NEW j \in Jobs, i # j, JobStep(i)
    PROVE  /\ SameAttempt(j) /\ SameTemps(j) /\ checkpoint'[j] = checkpoint[j]
           /\ saved'[j] = saved[j] \/ saved'[j].checkpoint = checkpoint[j]
           /\ target'[j] = target[j] /\ touched'[j] = touched[j]
           /\ UNCHANGED remote \/ Rename(i)
  <1> USE DEF server, attemptVars
  <1>1. /\ Jobs = DOMAIN pc /\ Jobs = DOMAIN options /\ Jobs = DOMAIN offer
        /\ Jobs = DOMAIN looked /\ Jobs = DOMAIN checkpoint /\ Jobs = DOMAIN runs
        /\ Jobs = DOMAIN touched /\ Jobs = DOMAIN target /\ TempNames = DOMAIN temp
    BY DEF Typed, RunTyped, AttemptTyped, QueueTyped, TempsTyped
  <1>2. \A label : Goto(i, label) => pc'[j] = pc[j]
    BY <1>1 DEF Goto
  <1>3. \A label : Leave(i, label) =>
            /\ pc'[j] = pc[j] /\ looked'[j] = looked[j] /\ offer'[j] = offer[j]
            /\ options'[j] = options[j] /\ touched'[j] = touched[j]
    BY <1>1 DEF Leave, Goto
  <1>4. ASSUME UNCHANGED temp PROVE SameTemps(j)
    BY <1>4 DEF SameTemps
  <1>5. ASSUME NEW value, temp' = [temp EXCEPT ![OwnTemp(i)] = value] PROVE SameTemps(j)
    BY <1>1, <1>5 DEF SameTemps, OwnTemp, TempNames
  <1> USE DEF SameAttempt
  <1>6. CASE Inspect(i)
    BY <1>1, <1>2, <1>4, <1>6 DEF Inspect
  <1>7. CASE AcceptChanged(i) \/ GiveUp(i) \/ AnswerSkip(i) \/ Stop(i)
    BY <1>2, <1>3, <1>4, <1>7 DEF AcceptChanged, GiveUp, AnswerSkip, Stop
  <1>8. CASE AnswerOverwrite(i) \/ AnswerResume(i) \/ AnswerRename(i)
    BY <1>1, <1>2, <1>4, <1>8 DEF AnswerOverwrite, AnswerResume, AnswerRename, Decide
  <1>9. CASE Remember(i)
    BY <1>1, <1>2, <1>4, <1>9 DEF Remember
  <1>10. CASE Persist(i)
    <2>1. saved'[j] = saved[j] \/ saved'[j].checkpoint = checkpoint[j]
      BY <1>10 DEF Persist, SaveQueue
    <2> QED BY <1>2, <1>3, <1>4, <1>10, <2>1 DEF Persist
  <1>11. CASE Reserve(i)
    BY <1>2, <1>3, <1>4, <1>11 DEF Reserve
  <1>12. CASE OpenTemp(i)
    BY <1>2, <1>4, <1>5, <1>12 DEF OpenTemp, Step
  <1>13. CASE WriteChunk(i)
    <2>1. temp' = [temp EXCEPT ![OwnTemp(i)] =
                      [temp[OwnTemp(i)] EXCEPT !.bytes = Append(@, <<i, source[i]>>)]]
      BY <1>13 DEF WriteChunk
    <2> QED BY <1>2, <1>5, <1>13, <2>1 DEF WriteChunk, Step
  <1>14. CASE FinishWriting(i) \/ Observe(i) \/ ConfirmOverwrite(i) \/ CheckAbsent(i)
    BY <1>1, <1>2, <1>4, <1>14
       DEF FinishWriting, Observe, ConfirmOverwrite, CheckAbsent, Step
  <1>15. CASE Rename(i)
    BY <1>2, <1>3, <1>5, <1>15 DEF Rename
  <1>16. CASE EraseCheckpoint(i)
    BY <1>1, <1>3, <1>4, <1>16 DEF EraseCheckpoint
  <1> QED
    BY <1>6, <1>7, <1>8, <1>9, <1>10, <1>11, <1>12, <1>13, <1>14, <1>15, <1>16 DEF JobStep

(* A step of the server, of a user or of the process.                      *)
OtherStep ==
    \/ PersistQueue \/ Restart \/ UNCHANGED vars
    \/ \E j \in Jobs : EditSource(j)
    \/ \E f \in Files : ChangeRemote(f)
    \/ \E t \in DOMAIN temp : RemoveTemp(t)

LEMMA JobInvStep ==
    ASSUME Typed, Typed', \A j \in Jobs : JobInv(j), [Next]_vars
    PROVE  \A j \in Jobs : JobInv(j)'
  <1> TAKE j \in Jobs
  <1> USE DEF server, attemptVars
  <1>1. ASSUME NEW i \in Jobs, JobStep(i) PROVE JobInv(j)'
    BY <1>1, AttemptStep, Bystander, OwnIsOwn
  <1>2. CASE PersistQueue \/ UNCHANGED vars \/ \E f \in Files : ChangeRemote(f)
    <2>1. SameAttempt(j) /\ SameTemps(j) /\ checkpoint'[j] = checkpoint[j]
      BY <1>2 DEF PersistQueue, vars, ChangeRemote, SameAttempt, SameTemps
    <2>2. saved'[j] = saved[j] \/ saved'[j].checkpoint = checkpoint[j]
      BY <1>2 DEF PersistQueue, SaveQueue, vars, ChangeRemote
    <2> QED BY <2>1, <2>2, OwnIsOwn
  <1>3. CASE Restart
    <2>1. /\ pc'[j] \in {"idle", "done"} /\ looked'[j] = 0 /\ options'[j] = NoOptions
          /\ source'[j] = source[j] /\ runs'[j] = runs[j] /\ FewerTemps(j)
          /\ Checkpoints(j)' \subseteq Checkpoints(j) \cup {NoCheckpoint}
      BY <1>3 DEF Restart, FewerTemps, Checkpoints
    <2> QED BY <2>1, AttemptEnds
  <1>4. ASSUME NEW i \in Jobs, EditSource(i) PROVE JobInv(j)'
    <2>1. SameTemps(j) /\ SameQueue(j)
      BY <1>4 DEF EditSource, SameTemps, SameQueue
    <2>2. CASE i # j
      <3>1. SameAttempt(j)
        BY <1>4, <2>2 DEF EditSource, SameAttempt, Typed, RunTyped
      <3> QED BY <2>1, <3>1, OwnIsOwn DEF SameQueue
    <2>3. CASE i = j
      <3>1. /\ source'[j] = source[j] + 1 /\ source[j] \in Nat /\ looked[j] \in Nat
            /\ Checkpoints(j)' = Checkpoints(j)
            /\ UNCHANGED <<temp, checkpoint, saved, pc, runs, looked, offer, options>>
        BY <1>4, <2>3 DEF EditSource, Typed, RunTyped, AttemptTyped, Checkpoints
      <3>2. \A c \in Checkpoints(j) : c.version \in Nat /\ c.version <= source[j]
        BY DEF JobInv, PastAt, Typed, QueueTyped, SavedType, CheckpointType, Checkpoints
      <3>3. \A c \in Checkpoints(j) : c.version <= source'[j] /\ c.version # source'[j]
        BY <3>1, <3>2
      <3>4. RemembersAt(j)' /\ FreshAt(j)' /\ WholeAt(j)'
        BY <3>1 DEF JobInv, RemembersAt, AttemptOf, FreshAt, WholeAt, OwnTemp
      <3>5. PastAt(j)' /\ HonestAt(j)'
        BY <3>1, <3>3 DEF JobInv, PastAt, HonestAt
      <3> QED BY <3>4, <3>5 DEF JobInv
    <2> QED BY <2>2, <2>3
  <1>5. ASSUME NEW t \in DOMAIN temp, RemoveTemp(t) PROVE JobInv(j)'
    <2>1. PICK i \in Jobs, k \in 1 .. MaxRuns : t = <<i, k>>
      BY DEF Typed, TempsTyped, TempNames
    <2>2. /\ temp' = [temp EXCEPT ![t] = NoTemp] /\ pc[i] \notin InSession
          /\ UNCHANGED <<source, checkpoint, saved, pc, runs, looked, offer, options>>
      BY <1>5, <2>1 DEF RemoveTemp
    <2>3. CASE i # j
      <3>1. SameTemps(j)
        BY <2>1, <2>2, <2>3 DEF SameTemps, Typed, TempsTyped, TempNames
      <3> QED BY <2>2, <3>1, OwnIsOwn DEF SameAttempt
    <2>4. CASE i = j
      <3>1. FewerTemps(j)
        BY <2>1, <2>2, <2>4, NoEntryTypes DEF FewerTemps, Typed, TempsTyped, TempNames
      <3>2. Checkpoints(j)' = Checkpoints(j)
        BY <2>2 DEF Checkpoints
      <3>3. RemembersAt(j)' /\ PastAt(j)'
        BY <2>2, <3>2 DEF JobInv, RemembersAt, AttemptOf, PastAt
      <3>4. FreshAt(j)'
        BY <2>2, <3>1 DEF JobInv, FreshAt, FewerTemps
      <3>5. WholeAt(j)'
        BY <2>2, <2>4 DEF WholeAt, InSession
      <3>6. HonestAt(j)'
        BY <2>2, <3>1, <3>2, HonestWithFewer DEF JobInv
      <3> QED BY <3>3, <3>4, <3>5, <3>6 DEF JobInv
    <2> QED BY <2>3, <2>4
  <1> QED BY <1>1, <1>2, <1>3, <1>4, <1>5 DEF Next

(* A destination gets into a session by a reservation only.                *)
LEMMA ReservationStep == ASSUME Typed, ReservedOnce, [Next]_vars PROVE ReservedOnce'
  <1> USE DEF server, attemptVars
  <1>1. pc \in [Jobs -> Labels] /\ target \in [Jobs -> Files]
    BY DEF Typed, RunTyped, QueueTyped
  <1>2. ASSUME \A j \in Jobs : pc'[j] \in InSession =>
                  pc[j] \in InSession /\ target'[j] = target[j]
        PROVE  ReservedOnce'
    BY <1>2 DEF ReservedOnce
  <1>3. ASSUME NEW i \in Jobs, JobStep(i) PROVE ReservedOnce'
    <2>1. \A j \in Jobs : j # i => pc'[j] = pc[j] /\ target'[j] = target[j]
      BY <1>3, Bystander DEF SameAttempt
    <2>2. CASE Reserve(i) /\ target[i] \notin Reserved
      <3>1. UNCHANGED target
        BY <2>2 DEF Reserve
      <3>2. \A j \in Jobs : pc[j] \in InSession => target[j] # target[i]
        BY <2>2 DEF Reserved
      <3> QED BY <2>1, <3>1, <3>2 DEF ReservedOnce
    <2>3. CASE Reserve(i) /\ target[i] \in Reserved
      <3>1. pc'[i] \notin InSession
        BY <1>1, <2>3 DEF Reserve, Leave, Goto, InSession
      <3> QED BY <1>2, <2>1, <3>1
    <2>4. CASE ~Reserve(i)
      <3>1. CASE \/ Inspect(i) \/ AcceptChanged(i) \/ GiveUp(i) \/ AnswerOverwrite(i)
                 \/ AnswerResume(i) \/ AnswerSkip(i) \/ AnswerRename(i) \/ Remember(i)
                 \/ Persist(i) \/ Stop(i) \/ EraseCheckpoint(i)
        <4>1. pc'[i] \notin InSession
          BY <1>1, <3>1
             DEF Inspect, AcceptChanged, GiveUp, AnswerOverwrite, AnswerResume, AnswerSkip,
                 AnswerRename, Remember, Persist, Stop, EraseCheckpoint, Decide, Leave, Goto,
                 InSession
        <4> QED BY <1>2, <2>1, <4>1
      <3>2. CASE \/ OpenTemp(i) \/ WriteChunk(i) \/ FinishWriting(i) \/ Observe(i)
                 \/ ConfirmOverwrite(i) \/ CheckAbsent(i) \/ Rename(i)
        <4>1. pc[i] \in InSession /\ UNCHANGED target
          BY <3>2 DEF OpenTemp, WriteChunk, FinishWriting, Observe, ConfirmOverwrite,
             CheckAbsent, Rename, Step, InSession
        <4> QED BY <1>2, <2>1, <4>1
      <3> QED BY <1>3, <2>4, <3>1, <3>2 DEF JobStep
    <2> QED BY <2>2, <2>3, <2>4
  <1>4. CASE OtherStep
    <2>1. \/ UNCHANGED <<pc, target>>
          \/ \A j \in Jobs : pc'[j] \notin InSession
      BY <1>4
         DEF OtherStep, PersistQueue, Restart, vars, EditSource, ChangeRemote, RemoveTemp,
             InSession
    <2> QED BY <1>2, <2>1
  <1> QED BY <1>3, <1>4 DEF Next, OtherStep

LEMMA SeenStep ==
    ASSUME Typed, ReservedOnce, \A j \in Jobs : SeenAt(j), [Next]_vars
    PROVE  \A j \in Jobs : SeenAt(j)'
  <1> TAKE j \in Jobs
  <1> USE DEF server, attemptVars
  <1>1. /\ Jobs = DOMAIN pc /\ Jobs = DOMAIN options /\ Jobs = DOMAIN touched
        /\ options[j] \in OptionsType /\ Files = DOMAIN remote
        /\ target[j] \in Files
    BY DEF Typed, RunTyped, AttemptTyped, QueueTyped, ServerTyped
  <1>2. ASSUME pc'[j] \notin {"check", "rename"} PROVE SeenAt(j)'
    BY <1>2 DEF SeenAt
  <1>3. ASSUME pc'[j] = pc[j], options'[j] = options[j], touched'[j] = touched[j],
               target'[j] = target[j],
               pc[j] \in {"check", "rename"} => remote'[target[j]] = remote[target[j]]
        PROVE  SeenAt(j)'
    BY <1>3 DEF SeenAt
  <1>4. ASSUME NEW i \in Jobs, i # j, JobStep(i) PROVE SeenAt(j)'
    <2>1. /\ pc'[j] = pc[j] /\ options'[j] = options[j] /\ touched'[j] = touched[j]
          /\ target'[j] = target[j] /\ (UNCHANGED remote \/ Rename(i))
      BY <1>4, Bystander DEF SameAttempt
    <2>2. ASSUME Rename(i), pc[j] \in {"check", "rename"}
          PROVE  remote'[target[j]] = remote[target[j]]
      <3>1. target[i] # target[j]
        BY <1>4, <2>2 DEF ReservedOnce, Rename, InSession
      <3> QED BY <1>1, <2>2, <3>1 DEF Rename
    <2> QED BY <1>3, <2>1, <2>2
  <1>5. CASE JobStep(j)
    <2>1. CASE \/ Inspect(j) \/ AcceptChanged(j) \/ GiveUp(j) \/ AnswerOverwrite(j)
               \/ AnswerResume(j) \/ AnswerSkip(j) \/ AnswerRename(j) \/ Remember(j)
               \/ Persist(j) \/ Reserve(j) \/ OpenTemp(j) \/ WriteChunk(j)
               \/ ConfirmOverwrite(j) \/ Rename(j) \/ Stop(j) \/ EraseCheckpoint(j)
      <3>1. pc'[j] \notin {"check", "rename"}
        BY <1>1, <2>1
           DEF Inspect, AcceptChanged, GiveUp, AnswerOverwrite, AnswerResume, AnswerSkip,
               AnswerRename, Remember, Persist, Reserve, OpenTemp, WriteChunk,
               ConfirmOverwrite, Rename, Stop, EraseCheckpoint, Decide, Step, Leave, Goto
      <3> QED BY <1>2, <3>1
    <2>2. CASE FinishWriting(j)
      BY <1>1, <2>2 DEF FinishWriting, Step, Goto, SeenAt
    <2>3. CASE Observe(j)
      <3>1. CASE remote[target[j]].revision = options[j].authorized
        <4> DEFINE seen == remote[target[j]].revision
        <4>1. /\ options' = [options EXCEPT ![j] = [options[j] EXCEPT !.overwrite = seen # 0]]
              /\ UNCHANGED <<remote, target>>
              /\ pc'[j] = IF seen # 0 THEN "rename" ELSE "check"
          BY <1>1, <2>3, <3>1 DEF Observe, Step, Goto
        <4>2. /\ options'[j].overwrite = (seen # 0)
              /\ options'[j].authorized = options[j].authorized
          BY <1>1, <4>1 DEF OptionsType
        <4> QED BY <3>1, <4>1, <4>2 DEF SeenAt
      <3>2. CASE remote[target[j]].revision # options[j].authorized
        BY <1>1, <1>2, <2>3, <3>2 DEF Observe, Step, Goto
      <3> QED BY <3>1, <3>2
    <2>4. CASE CheckAbsent(j)
      BY <1>1, <2>4 DEF CheckAbsent, Step, Goto, SeenAt
    <2> QED BY <1>5, <2>1, <2>2, <2>3, <2>4 DEF JobStep
  <1>6. ASSUME NEW f \in Files, ChangeRemote(f) PROVE SeenAt(j)'
    <2>1. CASE pc[j] \in {"check", "rename"} /\ target[j] = f
      BY <1>6, <2>1 DEF ChangeRemote, SeenAt
    <2>2. CASE ~(pc[j] \in {"check", "rename"} /\ target[j] = f)
      <3>1. pc[j] \in {"check", "rename"} => remote'[target[j]] = remote[target[j]]
        BY <1>1, <1>6, <2>2 DEF ChangeRemote
      <3>2. touched'[j] = touched[j]
        BY <1>6, <2>2 DEF ChangeRemote, Typed, AttemptTyped
      <3> QED BY <1>3, <1>6, <3>1, <3>2 DEF ChangeRemote
    <2> QED BY <2>1, <2>2
  <1>7. CASE Restart
    BY <1>2, <1>7 DEF Restart
  <1>8. CASE \/ PersistQueue \/ UNCHANGED vars \/ \E i \in Jobs : EditSource(i)
             \/ \E t \in DOMAIN temp : RemoveTemp(t)
    BY <1>3, <1>8 DEF PersistQueue, vars, EditSource, RemoveTemp
  <1> QED BY <1>4, <1>5, <1>6, <1>7, <1>8 DEF Next

-----------------------------------------------------------------------------
(* The inductive invariant holds of the specification.                     *)
THEOREM IInvHolds == Spec => []IInv
  <1>1. Init => IInv
    <2> SUFFICES ASSUME Init PROVE IInv
      OBVIOUS
    <2> USE UploadAssumption DEF Init, UploadAssumption
    <2>1. Typed
      <3>1. TempsTyped
        BY NoEntryTypes DEF TempsTyped, TempNames
      <3>2. ServerTyped
        <4>1. \A f \in Files : [revision |-> IF f = First THEN 1 ELSE 0, bytes |-> <<>>] \in FileType
          BY DEF FileType
        <4> QED BY <4>1 DEF ServerTyped
      <3>3. QueueTyped
        BY NoEntryTypes DEF QueueTyped, SavedType
      <3>4. AttemptTyped
        BY NoEntryTypes DEF AttemptTyped
      <3>5. RunTyped
        BY DEF RunTyped, Labels
      <3> QED BY <3>1, <3>2, <3>3, <3>4, <3>5 DEF Typed
    <2>2. ASSUME NEW j \in Jobs PROVE JobInv(j) /\ SeenAt(j)
      <3>1. Checkpoints(j) = {NoCheckpoint} /\ pc[j] = "idle"
        BY DEF Checkpoints
      <3>2. FreshAt(j)
        BY NoEntryTypes DEF FreshAt
      <3> QED BY <3>1, <3>2
              DEF JobInv, RemembersAt, PastAt, WholeAt, HonestAt, SeenAt, InSession,
                  NoCheckpoint, NoOptions
    <2>3. ReservedOnce
      BY DEF ReservedOnce, InSession
    <2> QED BY <2>1, <2>2, <2>3 DEF IInv
  <1>2. IInv /\ [Next]_vars => IInv'
    <2> SUFFICES ASSUME IInv, [Next]_vars PROVE IInv'
      OBVIOUS
    <2> USE DEF IInv
    <2>1. Typed'
      BY TypingStep
    <2>2. \A j \in Jobs : JobInv(j)'
      BY <2>1, JobInvStep
    <2>3. ReservedOnce'
      BY ReservationStep
    <2>4. \A j \in Jobs : SeenAt(j)'
      BY SeenStep
    <2> QED BY <2>1, <2>2, <2>3, <2>4
  <1> QED BY <1>1, <1>2, PTL DEF Spec

(* Whatever stops, resumes, saves and restarts the attempts, queue.cson    *)
(* names the temporary file a session writes, and a checkpoint that fits   *)
(* the source is true of every byte on the server (uploadResumes).         *)
THEOREM TemporariesAccountedFor == Spec => []TemporariesAreAccounted
  <1>1. IInv => TemporariesAreAccounted
    <2> SUFFICES ASSUME IInv PROVE TemporariesAreAccounted
      OBVIOUS
    <2>1. TypeOK
      BY TypedIsTypeOK DEF IInv
    <2>2. TemporariesAreKnown
      BY DEF IInv, JobInv, RemembersAt, AttemptOf, TemporariesAreKnown
    <2>3. CheckpointsAreHonest
      BY DEF IInv, JobInv, HonestAt, Checkpoints, CheckpointsAreHonest
    <2> QED BY <2>1, <2>2, <2>3 DEF TemporariesAreAccounted
  <1> QED BY <1>1, IInvHolds, PTL

(* Only a job's own rename commits.                                        *)
LEMMA CommitIsRename ==
    ASSUME Typed, NEW j \in Jobs, [Next]_vars, Commits(j)
    PROVE  Rename(j)
  <1> USE DEF Commits, server, attemptVars
  <1>1. ASSUME NEW i \in Jobs, i # j, JobStep(i) PROVE FALSE
    BY <1>1, Bystander DEF SameAttempt
  <1>2. CASE JobStep(j)
    BY <1>2 DEF JobStep, Inspect, AcceptChanged, GiveUp, AnswerOverwrite, AnswerResume,
       AnswerSkip, AnswerRename, Decide, Remember, Persist, Reserve, OpenTemp, WriteChunk,
       FinishWriting, Observe, ConfirmOverwrite, CheckAbsent, Stop, EraseCheckpoint
  <1>3. CASE OtherStep
    BY <1>3 DEF OtherStep, PersistQueue, Restart, vars, EditSource, ChangeRemote, RemoveTemp
  <1> QED BY <1>1, <1>2, <1>3 DEF Next, OtherStep

(* An upload commits its source, whole, as the attempt saw it, unless the  *)
(* source changed during the attempt, for any number of jobs and attempts. *)
THEOREM UploadsCommitWhole == Spec => UploadsAreWhole
  <1>1. IInv /\ [Next]_vars => CommitsWhole
    <2> SUFFICES ASSUME IInv, [Next]_vars, NEW j \in Jobs, Commits(j), source[j] = looked[j]
                 PROVE  /\ Len(remote'[target[j]].bytes) = Size
                        /\ AllFrom(remote'[target[j]].bytes, j, looked[j])
      BY DEF CommitsWhole
    <2>1. Rename(j)
      BY CommitIsRename DEF IInv
    <2>2. remote'[target[j]].bytes = temp[<<j, options[j].temp>>].bytes
      BY <2>1 DEF IInv, Typed, ServerTyped, QueueTyped, Rename, OwnTemp
    <2>3. pc[j] = "rename" /\ JobInv(j)
      BY <2>1 DEF Rename, IInv
    <2>4. Len(temp[<<j, options[j].temp>>].bytes) = Size
      BY <2>3 DEF JobInv, WholeAt, OwnTemp
    <2>5. AllFrom(temp[<<j, options[j].temp>>].bytes, j, looked[j])
      BY <2>3 DEF JobInv, RemembersAt, HonestAt, Checkpoints, AttemptOf, InSession
    <2> QED BY <2>2, <2>4, <2>5
  <1> QED BY <1>1, IInvHolds, PTL DEF Spec, UploadsAreWhole

(* An upload that nobody allowed to replace its destination replaces only  *)
(* what others put there after its last look at it.                        *)
THEOREM UploadsReplaceWhenAsked == Spec => NothingReplacedUnasked
  <1>1. IInv /\ [Next]_vars => ReplacesWhenAsked
    <2> SUFFICES ASSUME IInv, [Next]_vars, NEW j \in Jobs, Commits(j),
                        remote[target[j]].revision # 0, ~options[j].overwrite
                 PROVE  touched[j]
      BY DEF ReplacesWhenAsked
    <2>1. Rename(j) /\ SeenAt(j)
      BY CommitIsRename DEF IInv
    <2> QED BY <2>1 DEF Rename, SeenAt
  <1> QED BY <1>1, IInvHolds, PTL DEF Spec, NothingReplacedUnasked

(* A guarded upload replaces exactly the revision its edit started from or *)
(* the user was last shown, unless others changed it after the last look.  *)
THEOREM EditsReplaceTheSeen == Spec => EditsReplaceWhatWasSeen
  <1>1. IInv /\ [Next]_vars => ReplacesWhatWasSeen
    <2> SUFFICES ASSUME IInv, [Next]_vars, NEW j \in Guarded, Commits(j), ~touched[j]
                 PROVE  remote[target[j]].revision = options[j].authorized
      BY DEF ReplacesWhatWasSeen
    <2>1. j \in Jobs
      BY UploadAssumption DEF UploadAssumption
    <2>2. Rename(j) /\ SeenAt(j)
      BY <2>1, CommitIsRename DEF IInv
    <2> QED BY <2>2 DEF Rename, SeenAt
  <1> QED BY <1>1, IInvHolds, PTL DEF Spec, EditsReplaceWhatWasSeen
=============================================================================
