-------------------------- MODULE ControllerProofs --------------------------
(***************************************************************************)
(* Proofs about what the threads of a controller do with the server and    *)
(* with each other: the commands of a remote pane (RemoteFiles) and the    *)
(* workers that meet destinations which exist (ConflictChoice).            *)
(*                                                                         *)
(* RemoteFiles: PaneInv says, for each place the browser thread can be at, *)
(* how many errors there are and which changes the command can have made   *)
(* by then.  A command of one change has done nothing before its request,  *)
(* and nothing after one whose error does not admit it; what is shown is   *)
(* out of date only by what the command has done.                          *)
(*                                                                         *)
(* ConflictChoice: ConflictInv says that the choice in force is what the   *)
(* user promised, for the promised jobs that are still unfinished, but     *)
(* while a worker carries the answer from the dialog to the choice; only   *)
(* one worker is inside the gate meanwhile.                                *)
(***************************************************************************)
EXTENDS RemoteFiles, ConflictChoice, FiniteSetTheorems, SequenceTheorems, TLAPS

-----------------------------------------------------------------------------
(* RemoteFiles: what holds at each place of the browser thread             *)

Attributes == [kind: EntryKinds, mode: {0, 1}]
Error == {e \in [cause: Causes, mayHave: BOOLEAN] : e.cause = "exists" => ~e.mayHave}
Operations == {"none", "list", "mkdir", "create", "rename", "remove", "permissions"}

MakingDirectories == {"mkdir", "made", "notMade"}
Creating == {"lookCreate", "open", "close", "ask", "openTemp", "closeTemp", "createdTemp", "cleanUp"}
Renaming == {"lookRename", "replace", "rename"}
Removing == {"lookRemove", "remove", "removed"}
ChangingModes == {"lookMode", "setMode", "modeSet", "modeFailed", "batchEnds"}
BetweenCommands == {"idle", "list", "failed", "lost"}

LastError == errors[Len(errors)]

FilesTyping ==
    /\ protocol \in {"sftp", "ftp"}
    /\ remote \in [Paths -> Attributes] /\ shown \in [Top -> Attributes]
    /\ There(Child) => remote[Parent].kind = "directory"
    /\ given \in 0 .. MaxCommands /\ foreign \in 0 .. MaxForeign
    /\ stop \in BOOLEAN /\ unseen \in BOOLEAN
    /\ did \subseteq Paths /\ touched \subseteq Paths
    /\ cmd \in [op: Operations, path: Top \cup {Child}, to: Top \cup {Child}, flag: BOOLEAN]

(* Where the thread is says which command it is about.                     *)
CommandAt ==
    /\ pc \in MakingDirectories \cup Creating \cup Renaming \cup Removing \cup ChangingModes
              \cup BetweenCommands
    /\ pc \in MakingDirectories => cmd.op = "mkdir"
    /\ pc \in Creating => cmd.op = "create"
    /\ pc \in Renaming => cmd.op \in {"create", "rename"}
    /\ pc \in Removing => cmd.op = "remove"
    /\ pc \in ChangingModes => cmd.op = "permissions"
    /\ cmd.op \in {"create", "rename"} => {cmd.path, cmd.to} \subseteq Top
    /\ pc = "replace" => cmd.flag

(* What is left to act on.                                                 *)
TodoAt ==
    /\ cmd.op # "remove" => todo \in Seq(Top \cup {Child})
    /\ cmd.op = "remove" => todo \in Seq((Top \cup {Child}) \X BOOLEAN)
    /\ Len(todo) <= 2
    /\ cmd.op \in {"mkdir", "remove"} /\ ~cmd.flag => Len(todo) <= 1
    /\ pc \in MakingDirectories \cup Removing \cup (ChangingModes \ {"batchEnds"}) => Len(todo) # 0

(* How many errors there are.                                              *)
ErrorsAt ==
    /\ errors \in Seq(Error) /\ Len(errors) <= 3
    /\ pc \in (MakingDirectories \cup Creating \cup Renaming \cup Removing)
              \ {"notMade", "ask", "cleanUp"} => Len(errors) = 0
    /\ pc \in {"notMade", "ask", "cleanUp"} => Len(errors) = 1
    /\ pc = "failed" => Len(errors) # 0 /\ Len(errors) <= 2
    /\ pc = "failed" /\ cmd.op = "create" /\ LastError.cause = "exists" => Len(errors) = 1
    /\ pc \in {"lookMode", "setMode", "modeSet"} => Len(errors) + Len(todo) <= 2
    /\ pc = "modeFailed" => Len(errors) # 0 /\ Len(errors) + Len(todo) <= 3
    /\ pc \in {"batchEnds", "list"} => Len(errors) <= 2

(* What a command of one change has done: nothing before its request, and  *)
(* nothing that its error does not admit.                                  *)
DoneAt ==
    /\ OneChange /\ pc \in {"mkdir", "lookRemove", "remove"} \cup Renaming \cup
                           (Creating \ {"close", "cleanUp"}) => did = {}
    /\ OneChange /\ pc \in {"notMade", "cleanUp", "failed"} /\ ~LastError.mayHave => did = {}
    /\ pc \in {"lookMode", "setMode", "batchEnds"} /\ ~cmd.flag => did = {}
    /\ pc = "modeFailed" /\ ~cmd.flag /\ ~LastError.mayHave => did = {}

(* What is shown is out of date only by what the command has done, or if   *)
(* others changed it or a listing failed.                                  *)
UpToDate == \A p \in Top : shown[p] = remote[p]
SeenAt ==
    /\ ~unseen /\ did = {} => UpToDate
    /\ pc = "idle" /\ ~stop /\ ~unseen => UpToDate

(* The destination was not there when the thread looked.                   *)
LookedAt == pc = "rename" /\ There(Target) /\ ~cmd.flag => Target \in touched

PaneInv ==
    FilesTyping /\ CommandAt /\ TodoAt /\ ErrorsAt /\ DoneAt /\ SeenAt /\ LookedAt

-----------------------------------------------------------------------------
(* What requests and their errors are                                      *)

LEMMA PathsAre == /\ Parent \in Top /\ Child \in Paths /\ Temp \in Paths /\ Top \subseteq Paths
                  /\ Child \notin Top /\ Temp \notin Top /\ Temp # Child
                  /\ Parent # Child /\ Parent # Temp
                  /\ MaxCommands \in Nat /\ MaxForeign \in Nat
  BY FilesAssumption DEF FilesAssumption, Paths

LEMMA ErrorsSay ==
    ASSUME NEW cause \in Causes, NEW mutating \in BOOLEAN
    PROVE  /\ ErrorOf(cause, mutating) \in Error
           /\ ErrorOf(cause, mutating).cause = cause
           /\ mutating /\ MayBeApplied(cause) => ErrorOf(cause, mutating).mayHave
           /\ ~mutating => ~ErrorOf(cause, mutating).mayHave
  BY DEF ErrorOf, OperationError, CurlError, MayBeApplied, Causes, Error

OneMoreError == errors' \in Seq(Error) /\ Len(errors') = Len(errors) + 1 /\ LastError' \in Error

LEMMA AppendedError ==
    ASSUME PaneInv, NEW e \in Error, errors' = Append(errors, e)
    PROVE  OneMoreError /\ LastError' = e
  <1>1. errors \in Seq(Error)
    BY DEF PaneInv, ErrorsAt
  <1>2. errors' \in Seq(Error) /\ Len(errors') = Len(errors) + 1 /\ errors'[Len(errors')] = e
    BY <1>1
  <1> QED BY <1>2 DEF OneMoreError, LastError

LEMMA ReadsFail ==
    ASSUME PaneInv, NEW label, ReadFails(label)
    PROVE  OneMoreError /\ ~LastError'.mayHave /\ LastError'.cause # "exists" /\ pc' = label
  <1>1. PICK cause \in Causes \ {"exists", "missing", "unsupported"} :
            errors' = Append(errors, ErrorOf(cause, FALSE)) /\ pc' = label
    BY DEF ReadFails, GoOn
  <1> QED BY <1>1, ErrorsSay, AppendedError

Rooted(r) == r[Child].kind # "none" => r[Parent].kind = "directory"

(* A request was carried out, or has an error that admits what it did.     *)
Requested(effect, can, paths, answered, failed) ==
    \/ /\ can /\ remote' = effect /\ did' = did \cup paths
       /\ pc' = answered /\ errors' = errors
    \/ /\ OneMoreError /\ pc' = failed
       /\ \/ remote' = remote /\ did' = did
          \/ LastError'.mayHave /\ can /\ remote' = effect /\ did' = did \cup paths

LEMMA RequestKeeps ==
    ASSUME PaneInv, NEW effect \in [Paths -> Attributes], NEW can \in BOOLEAN,
           NEW paths \in SUBSET Paths, NEW answered, NEW failed,
           Request(effect, can, paths, answered, failed),
           can => Rooted(effect), \A p \in Top \ paths : effect[p] = remote[p],
           answered \notin {"idle", "rename"}, failed \notin {"idle", "rename"},
           UNCHANGED <<quiet, touched>>
    PROVE  /\ FilesTyping' /\ SeenAt' /\ LookedAt'
           /\ Requested(effect, can, paths, answered, failed)
  <1>1. Requested(effect, can, paths, answered, failed)
    <2>1. CASE can /\ remote' = effect /\ did' = did \cup paths /\ pc' = answered /\ errors' = errors
      BY <2>1 DEF Requested
    <2>2. ASSUME NEW cause \in Causes, errors' = Append(errors, ErrorOf(cause, TRUE)), pc' = failed,
                 \/ UNCHANGED <<remote, did>>
                 \/ MayBeApplied(cause) /\ can /\ remote' = effect /\ did' = did \cup paths
          PROVE  Requested(effect, can, paths, answered, failed)
      BY <2>2, ErrorsSay, AppendedError DEF Requested
    <2> QED BY <2>1, <2>2 DEF Request, GoOn
  <1>2. \/ remote' = remote /\ did' = did
        \/ can /\ remote' = effect /\ did' = did \cup paths
    BY <1>1 DEF Requested
  <1>3. FilesTyping'
    BY <1>2 DEF PaneInv, FilesTyping, quiet, Rooted, There
  <1>4. pc' # "idle" /\ pc' # "rename"
    BY <1>1 DEF Requested
  <1>5. SeenAt'
    BY <1>2, <1>4 DEF PaneInv, SeenAt, UpToDate, quiet
  <1> QED BY <1>1, <1>3, <1>4, <1>5 DEF LookedAt

(* A step that asks the server for nothing that changes it.                *)
LEMMA LooksKeep ==
    ASSUME PaneInv, UNCHANGED <<remote, did, quiet>>, touched' \subseteq Paths,
           pc' # "idle", LookedAt', CommandAt', TodoAt', ErrorsAt', DoneAt'
    PROVE  PaneInv'
  <1>1. FilesTyping'
    BY DEF PaneInv, FilesTyping, quiet, There
  <1>2. SeenAt'
    BY DEF PaneInv, SeenAt, UpToDate, quiet
  <1> QED BY <1>1, <1>2 DEF PaneInv

(* A command is given: nothing is done yet, and no error.                  *)
LEMMA BeginKeeps ==
    ASSUME PaneInv, pc = "idle", ~stop, given < MaxCommands, given' = given + 1,
           errors' = <<>>, did' = {}, touched' = {},
           UNCHANGED <<protocol, remote, shown, stop, foreign, unseen>>,
           cmd' \in [op: Operations, path: Top \cup {Child}, to: Top \cup {Child}, flag: BOOLEAN],
           <<cmd'.op, pc'>> \in
               {<<"list", "list">>, <<"mkdir", "mkdir">>, <<"create", "lookCreate">>,
                <<"rename", "replace">>, <<"rename", "lookRename">>,
                <<"remove", "lookRemove">>, <<"permissions", "lookMode">>},
           pc' = "replace" => cmd'.flag,
           cmd'.op \in {"create", "rename"} => {cmd'.path, cmd'.to} \subseteq Top,
           TodoAt'
    PROVE  PaneInv'
  <1>1. /\ cmd'.op \in {"list", "mkdir", "create", "rename", "remove", "permissions"}
        /\ pc' \in {"list", "mkdir", "lookCreate", "replace", "lookRename", "lookRemove", "lookMode"}
    OBVIOUS
  <1>3. FilesTyping'
    BY PathsAre DEF PaneInv, FilesTyping, There
  <1>4. CommandAt' /\ LookedAt'
    BY DEF CommandAt, LookedAt, MakingDirectories, Creating, Renaming, Removing,
           ChangingModes, BetweenCommands
  <1>5. errors' \in Seq(Error) /\ Len(errors') = 0
    OBVIOUS
  <1>6. /\ Len(todo') <= 2 /\ Len(todo') \in Nat
    BY DEF TodoAt
  <1>7. ErrorsAt'
    BY <1>1, <1>5, <1>6 DEF ErrorsAt, MakingDirectories, Creating, Renaming, Removing
  <1>8. DoneAt' /\ SeenAt'
    BY <1>1 DEF PaneInv, DoneAt, SeenAt, UpToDate
  <1> QED BY <1>3, <1>4, <1>7, <1>8 DEF PaneInv

LEMMA MkdirKeeps == ASSUME PaneInv, NEW p \in Top \cup {Child}, NEW flag \in BOOLEAN, Mkdir(p, flag)
                    PROVE  PaneInv'
  <1>1. /\ pc = "idle" /\ ~stop /\ given < MaxCommands /\ given' = given + 1
        /\ errors' = <<>> /\ did' = {} /\ touched' = {} /\ pc' = "mkdir"
        /\ UNCHANGED <<protocol, remote, shown, stop, foreign, unseen>>
        /\ cmd' = [op |-> "mkdir", path |-> p, to |-> p, flag |-> flag]
        /\ todo' = IF flag THEN <<Parent, Child>> ELSE <<p>>
    BY DEF Mkdir, Begin, GoOn
  <1>2. /\ cmd'.op = "mkdir" /\ cmd'.flag = flag
        /\ cmd' \in [op: Operations, path: Top \cup {Child}, to: Top \cup {Child}, flag: BOOLEAN]
    BY <1>1 DEF Operations
  <1>3. todo' \in Seq(Top \cup {Child}) /\ Len(todo') # 0 /\ Len(todo') <= 2 /\ (~flag => Len(todo') = 1)
    <2>1. CASE flag
      <3>1. todo' = <<Parent, Child>> /\ Parent \in Top \cup {Child} /\ Child \in Top \cup {Child}
        BY <1>1, <2>1, PathsAre
      <3> QED BY <2>1, <3>1
    <2>2. CASE ~flag
      <3>1. todo' = <<p>>
        BY <1>1, <2>2
      <3> QED BY <2>2, <3>1
    <2> QED BY <2>1, <2>2
  <1>4. TodoAt'
    BY <1>1, <1>2, <1>3 DEF TodoAt, MakingDirectories, Removing, ChangingModes
  <1>5. <<cmd'.op, pc'>> = <<"mkdir", "mkdir">>
    BY <1>1, <1>2
  <1> QED BY <1>1, <1>2, <1>4, <1>5, BeginKeeps

LEMMA RemoveKeeps == ASSUME PaneInv, NEW p \in Top \cup {Child}, NEW flag \in BOOLEAN, Remove(p, flag)
                     PROVE  PaneInv'
  <1>1. /\ pc = "idle" /\ ~stop /\ given < MaxCommands /\ given' = given + 1
        /\ errors' = <<>> /\ did' = {} /\ touched' = {} /\ pc' = "lookRemove"
        /\ UNCHANGED <<protocol, remote, shown, stop, foreign, unseen>>
        /\ cmd' = [op |-> "remove", path |-> p, to |-> p, flag |-> flag]
        /\ todo' = << <<p, FALSE>> >>
    BY DEF Remove, Begin, GoOn
  <1>2. /\ cmd'.op = "remove" /\ cmd'.flag = flag
        /\ cmd' \in [op: Operations, path: Top \cup {Child}, to: Top \cup {Child}, flag: BOOLEAN]
    BY <1>1 DEF Operations
  <1>3. todo' \in Seq((Top \cup {Child}) \X BOOLEAN) /\ Len(todo') = 1
    <2>1. PICK item \in (Top \cup {Child}) \X BOOLEAN : item = <<p, FALSE>>
      OBVIOUS
    <2>2. todo' = <<item>>
      BY <1>1, <2>1
    <2> QED BY <2>2
  <1>4. TodoAt'
    BY <1>1, <1>2, <1>3 DEF TodoAt, MakingDirectories, Removing, ChangingModes
  <1>5. <<cmd'.op, pc'>> = <<"remove", "lookRemove">>
    BY <1>1, <1>2
  <1> QED BY <1>1, <1>2, <1>4, <1>5, BeginKeeps

LEMMA PermissionsKeep ==
    ASSUME PaneInv, NEW p \in Top, NEW q \in Top, SetPermissions(IF p = q THEN <<p>> ELSE <<p, q>>)
    PROVE  PaneInv'
  <1>1. /\ pc = "idle" /\ ~stop /\ given < MaxCommands /\ given' = given + 1
        /\ errors' = <<>> /\ did' = {} /\ touched' = {} /\ pc' = "lookMode"
        /\ UNCHANGED <<protocol, remote, shown, stop, foreign, unseen>>
        /\ cmd' = [op |-> "permissions", path |-> Parent, to |-> Parent, flag |-> FALSE]
        /\ todo' = IF p = q THEN <<p>> ELSE <<p, q>>
    BY DEF SetPermissions, Begin, GoOn
  <1>2. /\ cmd'.op = "permissions"
        /\ cmd' \in [op: Operations, path: Top \cup {Child}, to: Top \cup {Child}, flag: BOOLEAN]
    BY <1>1, PathsAre DEF Operations
  <1>3. todo' \in Seq(Top \cup {Child}) /\ Len(todo') # 0 /\ Len(todo') <= 2
    <2>1. CASE p = q
      <3>1. todo' = <<p>>
        BY <1>1, <2>1
      <3> QED BY <3>1
    <2>2. CASE p # q
      <3>1. todo' = <<p, q>>
        BY <1>1, <2>2
      <3> QED BY <3>1
    <2> QED BY <2>1, <2>2
  <1>4. TodoAt'
    BY <1>1, <1>2, <1>3 DEF TodoAt, MakingDirectories, Removing, ChangingModes
  <1>5. <<cmd'.op, pc'>> = <<"permissions", "lookMode">>
    BY <1>1, <1>2
  <1> QED BY <1>1, <1>2, <1>4, <1>5, BeginKeeps

LEMMA OneRequestKeeps ==
    ASSUME PaneInv, NEW p \in Top, NEW q \in Top, NEW flag \in BOOLEAN,
           Refresh \/ CreateFile(p) \/ RenameEntry(p, q, flag)
    PROVE  PaneInv'
  <1>1. /\ pc = "idle" /\ ~stop /\ given < MaxCommands /\ given' = given + 1
        /\ errors' = <<>> /\ did' = {} /\ touched' = {} /\ todo' = <<>>
        /\ UNCHANGED <<protocol, remote, shown, stop, foreign, unseen>>
    BY DEF Refresh, CreateFile, RenameEntry, Begin
  <1>2. PICK op \in {"list", "create", "rename"}, path \in Top, to \in Top, over \in BOOLEAN :
            /\ cmd' = [op |-> op, path |-> path, to |-> to, flag |-> over]
            /\ <<op, pc'>> \in {<<"list", "list">>, <<"create", "lookCreate">>,
                                <<"rename", "replace">>, <<"rename", "lookRename">>}
            /\ pc' = "replace" => over
    <2>1. CASE Refresh
      BY <2>1, PathsAre DEF Refresh, Begin, GoOn
    <2>2. CASE CreateFile(p)
      BY <2>2 DEF CreateFile, Begin, GoOn
    <2>3. CASE RenameEntry(p, q, flag)
      BY <2>3 DEF RenameEntry, Begin, GoOn
    <2> QED BY <2>1, <2>2, <2>3
  <1>3. /\ cmd'.op = op /\ cmd'.flag = over /\ cmd'.path = path /\ cmd'.to = to
        /\ cmd' \in [op: Operations, path: Top \cup {Child}, to: Top \cup {Child}, flag: BOOLEAN]
    BY <1>2 DEF Operations
  <1>4. TodoAt'
    <2>1. todo' \in Seq(Top \cup {Child}) /\ Len(todo') = 0
      BY <1>1, EmptySeq
    <2> QED BY <1>2, <1>3, <2>1 DEF TodoAt, MakingDirectories, Removing, ChangingModes
  <1>5. <<cmd'.op, pc'>> \in {<<"list", "list">>, <<"create", "lookCreate">>,
                              <<"rename", "replace">>, <<"rename", "lookRename">>}
    BY <1>2, <1>3
  <1> QED BY <1>1, <1>2, <1>3, <1>4, <1>5, BeginKeeps

(* The first error of a command, or none yet.                              *)
LEMMA FirstErrorAt ==
    ASSUME PaneInv, Len(errors) = 0,
           \/ /\ errors' = errors
              /\ pc' \in {"mkdir", "made", "lookCreate", "open", "close", "openTemp", "closeTemp",
                          "createdTemp", "lookRename", "replace", "rename", "lookRemove", "remove",
                          "removed", "list"}
           \/ OneMoreError /\ pc' \in {"notMade", "cleanUp", "failed"}
    PROVE  ErrorsAt'
  <1>1. errors \in Seq(Error) /\ Len(errors) = 0
    BY DEF PaneInv, ErrorsAt
  <1>2. CASE /\ errors' = errors
             /\ pc' \in {"mkdir", "made", "lookCreate", "open", "close", "openTemp", "closeTemp",
                         "createdTemp", "lookRename", "replace", "rename", "lookRemove", "remove",
                         "removed", "list"}
    <2>1. errors' \in Seq(Error) /\ Len(errors') = 0
      BY <1>1, <1>2
    <2> QED BY <1>2, <2>1 DEF ErrorsAt
  <1>3. CASE OneMoreError /\ pc' \in {"notMade", "cleanUp", "failed"}
    <2>1. errors' \in Seq(Error) /\ Len(errors') = 1
      BY <1>1, <1>3 DEF OneMoreError
    <2> QED BY <1>3, <2>1 DEF ErrorsAt, MakingDirectories, Creating, Renaming, Removing
  <1> QED BY <1>2, <1>3

Fits(label) ==
    /\ label \in MakingDirectories => cmd.op = "mkdir"
    /\ label \in Creating => cmd.op = "create"
    /\ label \in Removing => cmd.op = "remove"
    /\ label \in MakingDirectories \cup Removing => Len(todo) # 0

(* The one request of a command of one change: it was carried out, or its  *)
(* error is the first.                                                     *)
LEMMA FirstRequestKeeps ==
    ASSUME PaneInv, NEW effect \in [Paths -> Attributes], NEW can \in BOOLEAN,
           NEW paths \in SUBSET Paths, NEW answered, NEW failed,
           Request(effect, can, paths, answered, failed),
           can => Rooted(effect), \A p \in Top \ paths : effect[p] = remote[p],
           \/ answered \in {"made", "close", "list", "removed"}
           \/ paths = {} /\ answered \in {"closeTemp", "createdTemp"},
           failed \in {"notMade", "cleanUp", "failed"},
           Len(errors) = 0, OneChange => did = {}, Fits(answered), Fits(failed),
           UNCHANGED <<todo, quiet, touched>>
    PROVE  PaneInv'
  <1>1. /\ FilesTyping' /\ SeenAt' /\ LookedAt'
        /\ Requested(effect, can, paths, answered, failed)
    BY RequestKeeps
  <1>2. /\ \/ errors' = errors /\ pc' = answered
           \/ OneMoreError /\ pc' = failed
        /\ cmd' = cmd /\ todo' = todo
    BY <1>1 DEF Requested, quiet
  <1>3. pc' \in {"made", "close", "list", "removed", "closeTemp", "createdTemp",
                 "notMade", "cleanUp", "failed"}
    BY <1>2
  <1>4. CommandAt' /\ TodoAt'
    BY <1>2, <1>3 DEF PaneInv, Fits, CommandAt, TodoAt, MakingDirectories, Creating,
       Renaming, Removing, ChangingModes, BetweenCommands
  <1>5. ErrorsAt'
    BY <1>2, FirstErrorAt
  <1>6. DoneAt'
    <2>1. CASE pc' = answered
      BY <1>1, <1>2, <2>1 DEF Requested, DoneAt, OneChange, Renaming, Creating
    <2>2. CASE pc' = failed
      BY <1>1, <1>2, <2>2 DEF Requested, DoneAt, OneChange, Renaming, Creating
    <2> QED BY <1>2, <2>1, <2>2
  <1> QED BY <1>1, <1>4, <1>5, <1>6 DEF PaneInv

(* A look before it.                                                       *)
LEMMA FirstLookKeeps ==
    ASSUME PaneInv, UNCHANGED <<remote, did, quiet>>, touched' \subseteq Paths,
           Len(errors) = 0, OneChange => did = {},
           \/ /\ errors' = errors
              /\ pc' \in {"mkdir", "made", "lookCreate", "open", "close", "openTemp", "closeTemp",
                          "createdTemp", "lookRename", "replace", "rename", "lookRemove", "remove",
                          "removed", "list"}
           \/ OneMoreError /\ pc' \in {"notMade", "cleanUp", "failed"},
           LookedAt', CommandAt', TodoAt'
    PROVE  PaneInv'
  <1>1. ErrorsAt'
    BY FirstErrorAt
  <1>2. cmd' = cmd /\ did' = did
    BY DEF quiet
  <1>3. DoneAt'
    BY <1>2 DEF DoneAt, OneChange
  <1> QED BY <1>1, <1>3, LooksKeep

-----------------------------------------------------------------------------
(* Directories                                                             *)

LEMMA MakeDirectoryKeeps == ASSUME PaneInv, MakeDirectory PROVE PaneInv'
  <1>1. /\ pc = "mkdir" /\ cmd.op = "mkdir" /\ UNCHANGED <<todo, quiet, touched>>
        /\ todo \in Seq(Top \cup {Child}) /\ Len(todo) # 0 /\ Len(errors) = 0
        /\ OneChange => did = {}
    BY DEF MakeDirectory, PaneInv, CommandAt, TodoAt, ErrorsAt, DoneAt, MakingDirectories
  <1>2. PICK p \in Top \cup {Child} : p = Head(todo)
    BY <1>1
  <1>3. PICK can \in BOOLEAN :
            can = (~There(p) /\ (p = Child => remote[Parent].kind = "directory"))
    OBVIOUS
  <1>4. PICK effect : effect = [remote EXCEPT ![p] = NewDirectory]
    OBVIOUS
  <1>5. Request(effect, can, {p}, "made", "notMade")
    BY <1>2, <1>3, <1>4 DEF MakeDirectory
  <1>6. /\ effect \in [Paths -> Attributes] /\ (can => Rooted(effect)) /\ {p} \in SUBSET Paths
        /\ \A q \in Top \ {p} : effect[q] = remote[q]
    BY <1>3, <1>4, PathsAre DEF PaneInv, FilesTyping, NewDirectory, Attributes, EntryKinds,
                                Rooted, There
  <1>7. Fits("made") /\ Fits("notMade")
    BY <1>1 DEF Fits, Creating, Removing
  <1> QED BY <1>1, <1>5, <1>6, <1>7, FirstRequestKeeps

LEMMA NextComponentKeeps == ASSUME PaneInv, NextComponent PROVE PaneInv'
  <1>1. /\ pc = "made" /\ cmd.op = "mkdir" /\ todo \in Seq(Top \cup {Child}) /\ Len(todo) # 0
        /\ todo' = Tail(todo) /\ pc' = IF Len(todo) = 1 THEN "list" ELSE "mkdir"
        /\ UNCHANGED <<remote, errors, quiet, did, touched>> /\ Len(errors) = 0
        /\ Len(todo) <= 2 /\ (~cmd.flag => Len(todo) <= 1)
    BY DEF NextComponent, GoOn, PaneInv, CommandAt, TodoAt, ErrorsAt, MakingDirectories
  <1>2. /\ todo' \in Seq(Top \cup {Child}) /\ Len(todo') = Len(todo) - 1 /\ Len(todo) \in Nat
    BY <1>1
  <1>3. CommandAt' /\ TodoAt' /\ LookedAt'
    BY <1>1, <1>2 DEF PaneInv, CommandAt, TodoAt, LookedAt, quiet, MakingDirectories, Creating,
       Renaming, Removing, ChangingModes, BetweenCommands
  <1>4. ErrorsAt'
    BY <1>1, FirstErrorAt
  <1>5. DoneAt'
    BY <1>1, <1>2 DEF PaneInv, DoneAt, OneChange, quiet, Creating, Renaming
  <1>6. touched' \subseteq Paths /\ pc' # "idle"
    BY <1>1 DEF PaneInv, FilesTyping
  <1> QED BY <1>1, <1>3, <1>4, <1>5, <1>6, LooksKeep

LEMMA LookForDirectoryKeeps == ASSUME PaneInv, LookForDirectory PROVE PaneInv'
  <1>1. /\ pc = "notMade" /\ cmd.op = "mkdir" /\ Len(errors) = 1 /\ errors \in Seq(Error)
        /\ UNCHANGED <<remote, todo, quiet, did, touched>>
    BY DEF LookForDirectory, PaneInv, CommandAt, ErrorsAt, MakingDirectories
  <1>2. \/ errors' = <<>> /\ pc' = "made"
        \/ errors' = errors /\ pc' = "failed"
        \/ /\ cmd.flag /\ pc' = "failed"
           /\ OneMoreError
    <2>1. CASE errors' = SubSeq(errors, 1, Len(errors) - 1) /\ GoOn("made")
      BY <1>1, <2>1 DEF GoOn
    <2>2. CASE MayExist(errors[Len(errors)]) /\ protocol = "ftp" /\ ReadFails("failed")
      BY <2>2, ReadsFail DEF MayExist
    <2> QED BY <2>1, <2>2 DEF LookForDirectory, GoOn
  <1>3. CommandAt' /\ TodoAt' /\ LookedAt'
    BY <1>1, <1>2 DEF PaneInv, CommandAt, TodoAt, LookedAt, quiet, MakingDirectories, Creating,
       Renaming, Removing, ChangingModes, BetweenCommands
  <1>4. ErrorsAt'
    <2>1. cmd'.op = "mkdir"
      BY <1>1 DEF quiet
    <2>2. CASE errors' = <<>> /\ pc' = "made"
      <3>1. errors' \in Seq(Error) /\ Len(errors') = 0
        BY <2>2, EmptySeq
      <3> QED BY <2>1, <2>2, <3>1 DEF ErrorsAt, MakingDirectories, Creating, Renaming, Removing
    <2>3. ASSUME pc' = "failed", errors' = errors \/ OneMoreError
          PROVE  ErrorsAt'
      <3>1. errors' \in Seq(Error) /\ Len(errors') # 0 /\ Len(errors') <= 2
        <4>0. errors \in Seq(Error) /\ Len(errors) = 1
          BY <1>1
        <4>1. CASE UNCHANGED errors
          BY <4>0, <4>1
        <4>2. CASE OneMoreError
          BY <1>1, <4>2 DEF OneMoreError
        <4> QED BY <2>3, <4>1, <4>2
      <3> QED BY <2>1, <2>3, <3>1 DEF ErrorsAt, MakingDirectories, Creating, Renaming, Removing
    <2> QED BY <1>2, <2>2, <2>3
  <1>5. DoneAt'
    BY <1>1, <1>2 DEF PaneInv, DoneAt, OneChange, LastError, quiet, Creating, Renaming
  <1>6. touched' \subseteq Paths /\ pc' # "idle"
    BY <1>1, <1>2 DEF PaneInv, FilesTyping
  <1> QED BY <1>1, <1>3, <1>4, <1>5, <1>6, LooksKeep

-----------------------------------------------------------------------------
(* Creations                                                               *)

LEMMA LookForFileKeeps == ASSUME PaneInv, LookForFile PROVE PaneInv'
  <1>1. /\ pc = "lookCreate" /\ cmd.op = "create" /\ Len(errors) = 0 /\ (OneChange => did = {})
        /\ UNCHANGED <<remote, todo, quiet, did>> /\ touched' = {}
    BY DEF LookForFile, PaneInv, CommandAt, ErrorsAt, DoneAt, Creating
  <1>2. \/ errors' = errors /\ pc' \in {"open", "openTemp"}
        \/ OneMoreError /\ pc' = "failed"
    <2>1. CASE There(cmd.path) /\ GoOn("failed") /\ errors' = Append(errors, ErrorOf("exists", FALSE))
      BY <2>1, ErrorsSay, AppendedError DEF GoOn, Causes
    <2>2. CASE ReadFails("failed")
      BY <2>2, ReadsFail
    <2> QED BY <2>1, <2>2 DEF LookForFile, GoOn
  <1>3. CommandAt' /\ TodoAt' /\ LookedAt'
    BY <1>1, <1>2 DEF PaneInv, CommandAt, TodoAt, LookedAt, quiet, MakingDirectories, Creating,
       Renaming, Removing, ChangingModes, BetweenCommands
  <1> QED BY <1>1, <1>2, <1>3, FirstLookKeeps

LEMMA OpenExclusiveKeeps == ASSUME PaneInv, OpenExclusive PROVE PaneInv'
  <1>1. /\ pc = "open" /\ cmd.op = "create" /\ Len(errors) = 0 /\ (OneChange => did = {})
        /\ UNCHANGED <<todo, quiet, touched>> /\ cmd.path \in Top
    BY DEF OpenExclusive, PaneInv, CommandAt, ErrorsAt, DoneAt, Creating
  <1>2. PICK p \in Top : p = cmd.path
    BY <1>1
  <1>3. PICK can \in BOOLEAN : can = ~There(p)
    OBVIOUS
  <1>4. PICK effect : effect = [remote EXCEPT ![p] = NewFile]
    OBVIOUS
  <1>5. Request(effect, can, {p}, "close", "failed")
    BY <1>2, <1>3, <1>4 DEF OpenExclusive
  <1>6. /\ effect \in [Paths -> Attributes] /\ (can => Rooted(effect)) /\ {p} \in SUBSET Paths
        /\ \A q \in Top \ {p} : effect[q] = remote[q]
    BY <1>3, <1>4, PathsAre DEF PaneInv, FilesTyping, NewFile, Attributes, EntryKinds, Rooted, There
  <1>7. Fits("close") /\ Fits("failed")
    BY <1>1 DEF Fits, MakingDirectories, Creating, Removing
  <1> QED BY <1>1, <1>5, <1>6, <1>7, FirstRequestKeeps

LEMMA CloseCreatedFileKeeps == ASSUME PaneInv, CloseCreatedFile PROVE PaneInv'
  <1>1. /\ pc \in {"close", "closeTemp"} /\ cmd.op = "create" /\ Len(errors) = 0
        /\ UNCHANGED <<remote, todo, quiet, did, touched>>
        /\ pc = "closeTemp" => did = {}
    BY DEF CloseCreatedFile, PaneInv, CommandAt, ErrorsAt, DoneAt, OneChange, Creating
  <1>2. \/ /\ errors' = errors
           /\ \/ pc = "close" /\ pc' = "list"
              \/ pc = "closeTemp" /\ pc' = "createdTemp"
        \/ OneMoreError /\ LastError'.mayHave /\ pc' = "failed"
    <2>1. ASSUME NEW cause \in Causes \ {"exists", "missing", "unsupported"},
                 errors' = Append(errors, [ErrorOf(cause, TRUE) EXCEPT !.mayHave = TRUE]),
                 pc' = "failed"
          PROVE  OneMoreError /\ LastError'.mayHave /\ pc' = "failed"
      <3>1. PICK e : e = [ErrorOf(cause, TRUE) EXCEPT !.mayHave = TRUE]
        OBVIOUS
      <3>2. e \in Error /\ e.mayHave
        BY <3>1, ErrorsSay DEF Error
      <3> QED BY <2>1, <3>1, <3>2, AppendedError
    <2> QED BY <1>1, <2>1 DEF CloseCreatedFile, GoOn
  <1>3. CommandAt' /\ TodoAt' /\ LookedAt'
    BY <1>1, <1>2 DEF PaneInv, CommandAt, TodoAt, LookedAt, quiet, MakingDirectories, Creating,
       Renaming, Removing, ChangingModes, BetweenCommands
  <1>4. ErrorsAt'
    BY <1>1, <1>2, FirstErrorAt
  <1>5. DoneAt'
    BY <1>1, <1>2 DEF DoneAt, OneChange, quiet, Creating, Renaming
  <1>6. touched' \subseteq Paths /\ pc' # "idle"
    BY <1>1, <1>2 DEF PaneInv, FilesTyping
  <1> QED BY <1>1, <1>3, <1>4, <1>5, <1>6, LooksKeep

LEMMA AnswerCreateKeeps == ASSUME PaneInv, AnswerCreate PROVE PaneInv'
  <1>1. /\ pc = "ask" /\ cmd.op = "create" /\ Len(errors) = 1 /\ did = {}
        /\ UNCHANGED <<protocol, remote, shown, given, todo, stop, foreign, did, touched, unseen>>
    BY DEF AnswerCreate, PaneInv, CommandAt, ErrorsAt, DoneAt, OneChange, Creating
  <1>2. \/ errors' = <<>> /\ pc' \in {"lookCreate", "openTemp", "list", "idle"}
        \/ errors' = <<ErrorOf("refused", FALSE)>> /\ pc' = "failed"
        \/ errors' = <<ErrorOf("missing", FALSE)>> /\ pc' = "failed"
        \/ ReadFails("failed")
    BY DEF AnswerCreate, GoOn
  <1>3. /\ cmd' \in [op: Operations, path: Top \cup {Child}, to: Top \cup {Child}, flag: BOOLEAN]
        /\ cmd'.op = "create" /\ {cmd'.path, cmd'.to} \subseteq Top
    <2>1. /\ cmd \in [op: Operations, path: Top \cup {Child}, to: Top \cup {Child}, flag: BOOLEAN]
          /\ cmd.path \in Top /\ cmd.to \in Top
      BY <1>1 DEF PaneInv, FilesTyping, CommandAt
    <2>2. CASE cmd' = cmd
      BY <1>1, <2>1, <2>2
    <2>3. CASE cmd' = [cmd EXCEPT !.flag = TRUE]
      BY <1>1, <2>1, <2>3
    <2>4. ASSUME NEW p \in Top, cmd' = [cmd EXCEPT !.path = p]
          PROVE  /\ cmd' \in [op: Operations, path: Top \cup {Child}, to: Top \cup {Child},
                              flag: BOOLEAN]
                 /\ cmd'.op = "create" /\ {cmd'.path, cmd'.to} \subseteq Top
      BY <1>1, <2>1, <2>4
    <2> QED BY <2>2, <2>3, <2>4 DEF AnswerCreate, NextCandidate
  <1>4. /\ errors' \in Seq(Error) /\ Len(errors') <= 2
        /\ pc' \in {"lookCreate", "openTemp", "list", "idle", "failed"}
        /\ pc' # "failed" => Len(errors') = 0
        /\ pc' = "failed" => Len(errors') # 0 /\ LastError'.cause # "exists"
    <2>1. CASE errors' = <<>> /\ pc' \in {"lookCreate", "openTemp", "list", "idle"}
      <3>1. errors' \in Seq(Error) /\ Len(errors') = 0
        BY <2>1, EmptySeq
      <3> QED BY <2>1, <3>1
    <2>2. ASSUME pc' = "failed", NEW e \in Error, e.cause # "exists", errors' = <<e>>
          PROVE  /\ errors' \in Seq(Error) /\ Len(errors') = 1
                 /\ LastError'.cause # "exists" /\ pc' = "failed"
      <3>1. errors' \in Seq(Error) /\ Len(errors') = 1 /\ errors'[1] = e
        BY <2>2
      <3> QED BY <2>2, <3>1 DEF LastError
    <2>3. CASE ReadFails("failed")
      <3>1. OneMoreError /\ LastError'.cause # "exists" /\ pc' = "failed"
        BY <2>3, ReadsFail
      <3> QED BY <1>1, <3>1 DEF OneMoreError
    <2>4. CASE errors' = <<ErrorOf("refused", FALSE)>> /\ pc' = "failed"
      <3>1. PICK e : e = ErrorOf("refused", FALSE)
        OBVIOUS
      <3>2. e \in Error /\ e.cause = "refused"
        BY <3>1, ErrorsSay DEF Causes
      <3>3. errors' = <<e>> /\ pc' = "failed"
        BY <2>4, <3>1
      <3> QED BY <2>2, <3>2, <3>3
    <2>5. CASE errors' = <<ErrorOf("missing", FALSE)>> /\ pc' = "failed"
      <3>1. PICK e : e = ErrorOf("missing", FALSE)
        OBVIOUS
      <3>2. e \in Error /\ e.cause = "missing"
        BY <3>1, ErrorsSay DEF Causes
      <3>3. errors' = <<e>> /\ pc' = "failed"
        BY <2>5, <3>1
      <3> QED BY <2>2, <3>2, <3>3
    <2> QED BY <1>2, <2>1, <2>3, <2>4, <2>5
  <1>5. FilesTyping'
    BY <1>1, <1>3 DEF PaneInv, FilesTyping, There
  <1>6. CommandAt' /\ TodoAt' /\ LookedAt'
    BY <1>1, <1>3, <1>4 DEF PaneInv, CommandAt, TodoAt, LookedAt, MakingDirectories, Creating,
       Renaming, Removing, ChangingModes, BetweenCommands
  <1>7. ErrorsAt'
    BY <1>4 DEF ErrorsAt, MakingDirectories, Creating, Renaming, Removing
  <1>8. DoneAt' /\ SeenAt'
    BY <1>1, <1>4 DEF PaneInv, DoneAt, SeenAt, UpToDate
  <1> QED BY <1>5, <1>6, <1>7, <1>8 DEF PaneInv

LEMMA OpenTempKeeps == ASSUME PaneInv, OpenTemp PROVE PaneInv'
  <1>1. /\ pc = "openTemp" /\ cmd.op = "create" /\ Len(errors) = 0 /\ (OneChange => did = {})
        /\ UNCHANGED <<todo, quiet, touched>>
    BY DEF OpenTemp, PaneInv, CommandAt, ErrorsAt, DoneAt, Creating
  <1>2. PICK answered \in {"closeTemp", "createdTemp"} :
            answered = IF protocol = "sftp" THEN "closeTemp" ELSE "createdTemp"
    OBVIOUS
  <1>3. PICK can \in BOOLEAN : can = ~There(Temp)
    OBVIOUS
  <1>4. PICK effect : effect = [remote EXCEPT ![Temp] = NewFile]
    OBVIOUS
  <1>5. Request(effect, can, {}, answered, "failed")
    BY <1>2, <1>3, <1>4 DEF OpenTemp
  <1>6. /\ effect \in [Paths -> Attributes] /\ (can => Rooted(effect)) /\ {} \in SUBSET Paths
        /\ \A q \in Top \ {} : effect[q] = remote[q]
    BY <1>3, <1>4, PathsAre DEF PaneInv, FilesTyping, NewFile, Attributes, EntryKinds, Rooted, There
  <1>7. Fits(answered) /\ Fits("failed")
    BY <1>1 DEF Fits, MakingDirectories, Creating, Removing
  <1> QED BY <1>1, <1>5, <1>6, <1>7, FirstRequestKeeps

LEMMA CreatedTempKeeps == ASSUME PaneInv, CreatedTemp PROVE PaneInv'
  <1>1. /\ pc = "createdTemp" /\ cmd.op = "create" /\ Len(errors) = 0 /\ (OneChange => did = {})
        /\ UNCHANGED <<remote, todo, quiet, did, touched>> /\ touched' \subseteq Paths
    BY DEF CreatedTemp, PaneInv, FilesTyping, CommandAt, ErrorsAt, DoneAt, Creating
  <1>2. \/ errors' = errors /\ (pc' = "lookRename" \/ (pc' = "replace" /\ cmd.flag))
        \/ OneMoreError /\ pc' = "cleanUp"
    <2>1. CASE errors' = Append(errors, ErrorOf("stopped before", TRUE)) /\ pc' = "cleanUp"
      BY <2>1, ErrorsSay, AppendedError DEF Causes
    <2> QED BY <2>1 DEF CreatedTemp, GoOn
  <1>3. CommandAt' /\ TodoAt' /\ LookedAt'
    BY <1>1, <1>2 DEF PaneInv, CommandAt, TodoAt, LookedAt, quiet, MakingDirectories, Creating,
       Renaming, Removing, ChangingModes, BetweenCommands
  <1> QED BY <1>1, <1>2, <1>3, FirstLookKeeps

LEMMA CleanUpTempKeeps == ASSUME PaneInv, CleanUpTemp PROVE PaneInv'
  <1>1. /\ pc = "cleanUp" /\ cmd.op = "create" /\ pc' = "failed" /\ Len(errors) = 1
        /\ UNCHANGED <<todo, errors, quiet, did, touched>>
        /\ \/ remote' = remote
           \/ remote' = [remote EXCEPT ![Temp] = Nothing]
    BY DEF CleanUpTemp, GoOn, PaneInv, CommandAt, ErrorsAt, Creating
  <1>2. /\ remote' \in [Paths -> Attributes] /\ \A q \in Top \cup {Child} : remote'[q] = remote[q]
    BY <1>1, PathsAre DEF PaneInv, FilesTyping, Nothing, Attributes, EntryKinds
  <1>3. FilesTyping'
    BY <1>1, <1>2, PathsAre DEF PaneInv, FilesTyping, There, quiet
  <1>4. CommandAt' /\ TodoAt' /\ LookedAt'
    BY <1>1 DEF PaneInv, CommandAt, TodoAt, LookedAt, quiet, MakingDirectories, Creating,
       Renaming, Removing, ChangingModes, BetweenCommands
  <1>5. errors' \in Seq(Error) /\ Len(errors') = 1
    BY <1>1 DEF PaneInv, ErrorsAt
  <1>6. ErrorsAt'
    <2>1. pc' = "failed"
      BY <1>1
    <2> QED BY <1>5, <2>1 DEF ErrorsAt, MakingDirectories, Creating, Renaming, Removing
  <1>7. DoneAt' /\ SeenAt'
    BY <1>1, <1>2 DEF PaneInv, DoneAt, SeenAt, UpToDate, OneChange, LastError, quiet, Creating,
       Renaming
  <1> QED BY <1>3, <1>4, <1>6, <1>7 DEF PaneInv

-----------------------------------------------------------------------------
(* Renames                                                                 *)

LEMMA LookForDestinationKeeps == ASSUME PaneInv, LookForDestination PROVE PaneInv'
  <1>1. /\ pc = "lookRename" /\ cmd.op \in {"create", "rename"} /\ Len(errors) = 0
        /\ OneChange => did = {}
        /\ UNCHANGED <<remote, todo, quiet, did>> /\ touched' = {}
    BY DEF LookForDestination, PaneInv, CommandAt, ErrorsAt, DoneAt, Renaming
  <1>2. RenameFailed \in {"cleanUp", "failed"} /\ (RenameFailed = "cleanUp" => cmd.op = "create")
    BY DEF RenameFailed
  <1>3. \/ errors' = errors /\ pc' = "rename" /\ ~There(Target)
        \/ OneMoreError /\ pc' = RenameFailed
    <2>1. CASE There(Target) /\ GoOn(RenameFailed) /\ errors' = Append(errors, ErrorOf("exists", FALSE))
      BY <2>1, ErrorsSay, AppendedError DEF GoOn, Causes
    <2>2. CASE ReadFails(RenameFailed)
      BY <2>2, ReadsFail
    <2> QED BY <2>1, <2>2 DEF LookForDestination, GoOn
  <1>4. CommandAt' /\ TodoAt'
    BY <1>1, <1>2, <1>3 DEF PaneInv, CommandAt, TodoAt, quiet, MakingDirectories, Creating,
       Renaming, Removing, ChangingModes, BetweenCommands
  <1>5. LookedAt'
    BY <1>1, <1>2, <1>3 DEF LookedAt, Target, There, quiet
  <1> QED BY <1>1, <1>2, <1>3, <1>4, <1>5, FirstLookKeeps

LEMMA MovedSays ==
    ASSUME PaneInv, cmd.op \in {"create", "rename"}
    PROVE  /\ Moved \in [Paths -> Attributes] /\ Rooted(Moved) /\ Named \in SUBSET Paths
           /\ \A p \in Top \ Named : Moved[p] = remote[p]
  <1>1. PICK source, target : source = Source /\ target = Target
    OBVIOUS
  <1>2. /\ target \in Top /\ source \in Top \cup {Temp} /\ Named \subseteq Top
        /\ \A p \in Top \ Named : p # source /\ p # target
    BY <1>1, PathsAre DEF PaneInv, FilesTyping, CommandAt, Source, Target, Named
  <1>3. PICK moved : moved = [remote EXCEPT ![target] = remote[source], ![source] = Nothing,
                                 ![Child] = IF Parent \in {source, target} THEN Nothing ELSE @]
    OBVIOUS
  <1>4. moved = Moved
    BY <1>1, <1>3 DEF Moved
  <1>5. remote \in [Paths -> Attributes] /\ (There(Child) => remote[Parent].kind = "directory")
        /\ Nothing \in Attributes /\ Nothing.kind = "none"
    BY DEF PaneInv, FilesTyping, Nothing, Attributes, EntryKinds
  <1>6. moved \in [Paths -> Attributes] /\ \A p \in Top \ Named : moved[p] = remote[p]
    BY <1>2, <1>3, <1>5, PathsAre
  <1>7. Rooted(moved)
    BY <1>2, <1>3, <1>5, PathsAre DEF Rooted, There
  <1> QED BY <1>2, <1>4, <1>6, <1>7, PathsAre

LEMMA RenameRequestKeeps ==
    ASSUME PaneInv, pc \in {"replace", "rename"}, UNCHANGED <<todo, quiet, touched>>,
           Request(Moved, Movable, Named, "list", RenameFailed)
    PROVE  PaneInv'
  <1>1. /\ cmd.op \in {"create", "rename"} /\ Len(errors) = 0 /\ (OneChange => did = {})
    BY DEF PaneInv, CommandAt, ErrorsAt, DoneAt, Renaming
  <1>2. PICK effect \in [Paths -> Attributes] : effect = Moved
    BY <1>1, MovedSays
  <1>3. PICK can \in BOOLEAN : can = Movable
    BY DEF Movable
  <1>4. PICK paths \in SUBSET Paths : paths = Named
    BY <1>1, MovedSays
  <1>5. PICK failed \in {"cleanUp", "failed"} :
            failed = RenameFailed /\ (failed = "cleanUp" => cmd.op = "create")
    BY DEF RenameFailed
  <1>6. Request(effect, can, paths, "list", failed)
    BY <1>2, <1>3, <1>4, <1>5
  <1>7. Rooted(effect) /\ \A p \in Top \ paths : effect[p] = remote[p]
    BY <1>1, <1>2, <1>4, MovedSays
  <1>8. Fits("list") /\ Fits(failed)
    BY <1>5 DEF Fits, MakingDirectories, Creating, Removing
  <1> QED BY <1>1, <1>5, <1>6, <1>7, <1>8, FirstRequestKeeps

LEMMA ReplaceWithPosixRenameKeeps == ASSUME PaneInv, ReplaceWithPosixRename PROVE PaneInv'
  <1>1. CASE Request(Moved, Movable, Named, "list", RenameFailed)
    BY <1>1, RenameRequestKeeps DEF ReplaceWithPosixRename
  <1>2. CASE protocol = "sftp" /\ GoOn("rename") /\ UNCHANGED <<remote, errors, did>>
    <2>1. /\ cmd.op \in {"create", "rename"} /\ Len(errors) = 0 /\ (OneChange => did = {})
          /\ UNCHANGED <<remote, todo, errors, quiet, did, touched>> /\ pc' = "rename"
          /\ cmd.flag /\ touched' \subseteq Paths
      BY <1>2 DEF ReplaceWithPosixRename, GoOn, PaneInv, FilesTyping, CommandAt, ErrorsAt, DoneAt,
                  Renaming
    <2>2. CommandAt' /\ TodoAt' /\ LookedAt'
      BY <2>1 DEF PaneInv, CommandAt, TodoAt, LookedAt, quiet, MakingDirectories, Creating,
         Renaming, Removing, ChangingModes, BetweenCommands
    <2> QED BY <2>1, <2>2, FirstLookKeeps
  <1> QED BY <1>1, <1>2 DEF ReplaceWithPosixRename

-----------------------------------------------------------------------------
(* Removals                                                                *)

LEMMA LookBeforeRemoveKeeps == ASSUME PaneInv, LookBeforeRemove PROVE PaneInv'
  <1>1. /\ pc = "lookRemove" /\ cmd.op = "remove" /\ Len(errors) = 0 /\ (OneChange => did = {})
        /\ UNCHANGED <<remote, quiet, did, touched>> /\ touched' \subseteq Paths
        /\ todo \in Seq((Top \cup {Child}) \X BOOLEAN) /\ Len(todo) # 0
        /\ Len(todo) <= 2 /\ (~cmd.flag => Len(todo) <= 1)
    BY DEF LookBeforeRemove, PaneInv, FilesTyping, CommandAt, TodoAt, ErrorsAt, DoneAt, Removing
  <1>2. \/ errors' = errors /\ pc' \in {"lookRemove", "remove"}
        \/ OneMoreError /\ pc' = "failed"
    <2>1. CASE errors' = Append(errors, ErrorOf("missing", FALSE)) /\ GoOn("failed")
      BY <2>1, ErrorsSay, AppendedError DEF GoOn, Causes
    <2>2. CASE ReadFails("failed")
      BY <2>2, ReadsFail
    <2> QED BY <2>1, <2>2 DEF LookBeforeRemove, GoOn
  <1>3. /\ todo' \in Seq((Top \cup {Child}) \X BOOLEAN) /\ Len(todo') # 0 /\ Len(todo') <= 2
        /\ ~cmd.flag => Len(todo') <= 1
    <2>1. CASE cmd.flag /\ todo' = << <<Child, FALSE>>, <<Parent, TRUE>> >>
      <3>1. PICK first \in (Top \cup {Child}) \X BOOLEAN : first = <<Child, FALSE>>
        OBVIOUS
      <3>2. PICK second \in (Top \cup {Child}) \X BOOLEAN : second = <<Parent, TRUE>>
        BY PathsAre
      <3>3. todo' = <<first, second>>
        BY <2>1, <3>1, <3>2
      <3>4. todo' \in Seq((Top \cup {Child}) \X BOOLEAN) /\ Len(todo') = 2
        BY <3>3
      <3> QED BY <2>1, <3>4
    <2>2. CASE todo' = todo
      BY <1>1, <2>2
    <2> QED BY <2>1, <2>2 DEF LookBeforeRemove
  <1>4. CommandAt' /\ TodoAt' /\ LookedAt'
    BY <1>1, <1>2, <1>3 DEF PaneInv, CommandAt, TodoAt, LookedAt, quiet, MakingDirectories, Creating,
       Renaming, Removing, ChangingModes, BetweenCommands
  <1> QED BY <1>1, <1>2, <1>4, FirstLookKeeps

LEMMA RemoveRequestKeeps == ASSUME PaneInv, RemoveRequest PROVE PaneInv'
  <1>1. /\ pc = "remove" /\ cmd.op = "remove" /\ Len(errors) = 0 /\ (OneChange => did = {})
        /\ UNCHANGED <<todo, quiet, touched>>
        /\ todo \in Seq((Top \cup {Child}) \X BOOLEAN) /\ Len(todo) # 0
    BY DEF RemoveRequest, PaneInv, CommandAt, TodoAt, ErrorsAt, DoneAt, Removing
  <1>2. PICK p \in Top \cup {Child} : p = Head(todo)[1]
    <2>1. Head(todo) \in (Top \cup {Child}) \X BOOLEAN
      BY <1>1
    <2> QED BY <2>1
  <1>3. PICK can \in BOOLEAN :
            can = (There(p) /\ (p = Parent /\ remote[p].kind = "directory" => ~There(Child)))
    OBVIOUS
  <1>4. PICK effect : effect = [remote EXCEPT ![p] = Nothing]
    OBVIOUS
  <1>5. Request(effect, can, {p}, "removed", "failed")
    BY <1>2, <1>3, <1>4 DEF RemoveRequest
  <1>6. /\ effect \in [Paths -> Attributes] /\ (can => Rooted(effect)) /\ {p} \in SUBSET Paths
        /\ \A q \in Top \ {p} : effect[q] = remote[q]
    BY <1>3, <1>4, PathsAre DEF PaneInv, FilesTyping, Nothing, Attributes, EntryKinds, Rooted, There
  <1>7. Fits("removed") /\ Fits("failed")
    BY <1>1 DEF Fits, MakingDirectories, Creating, Removing
  <1> QED BY <1>1, <1>5, <1>6, <1>7, FirstRequestKeeps

LEMMA NextRemovalKeeps == ASSUME PaneInv, NextRemoval PROVE PaneInv'
  <1>1. /\ pc = "removed" /\ cmd.op = "remove" /\ Len(todo) # 0 /\ Len(errors) = 0
        /\ todo \in Seq((Top \cup {Child}) \X BOOLEAN)
        /\ todo' = Tail(todo) /\ pc' = IF Len(todo) = 1 THEN "list" ELSE "remove"
        /\ UNCHANGED <<remote, errors, quiet, did, touched>>
        /\ Len(todo) <= 2 /\ (~cmd.flag => Len(todo) <= 1)
    BY DEF NextRemoval, GoOn, PaneInv, CommandAt, TodoAt, ErrorsAt, Removing
  <1>2. /\ todo' \in Seq((Top \cup {Child}) \X BOOLEAN) /\ Len(todo') = Len(todo) - 1
        /\ Len(todo) \in Nat
    BY <1>1
  <1>3. CommandAt' /\ TodoAt' /\ LookedAt'
    BY <1>1, <1>2 DEF PaneInv, CommandAt, TodoAt, LookedAt, quiet, MakingDirectories, Creating,
       Renaming, Removing, ChangingModes, BetweenCommands
  <1>4. ErrorsAt'
    BY <1>1, FirstErrorAt
  <1>5. DoneAt'
    BY <1>1, <1>2 DEF PaneInv, DoneAt, OneChange, quiet, Creating, Renaming
  <1>6. touched' \subseteq Paths /\ pc' # "idle"
    BY <1>1 DEF PaneInv, FilesTyping
  <1> QED BY <1>1, <1>3, <1>4, <1>5, <1>6, LooksKeep

-----------------------------------------------------------------------------
(* Permissions                                                             *)

(* What all steps of a batch know.                                         *)
LEMMA BatchSays ==
    ASSUME PaneInv, pc \in {"lookMode", "setMode", "modeSet", "modeFailed", "batchEnds"}
    PROVE  /\ cmd.op = "permissions" /\ errors \in Seq(Error) /\ Len(errors) \in Nat
           /\ todo \in Seq(Top \cup {Child}) /\ Len(todo) \in Nat /\ Len(todo) <= 2
           /\ pc # "batchEnds" => Len(todo) # 0
           /\ pc \in {"lookMode", "setMode", "modeSet"} => Len(errors) + Len(todo) <= 2
           /\ pc = "modeFailed" => Len(errors) # 0 /\ Len(errors) + Len(todo) <= 3
           /\ pc = "batchEnds" => Len(errors) <= 2
  BY DEF PaneInv, CommandAt, TodoAt, ErrorsAt, ChangingModes

LEMMA BatchErrorsAt ==
    ASSUME PaneInv, pc \in {"lookMode", "setMode"}, UNCHANGED todo,
           \/ errors' = errors /\ pc' \in {"setMode", "modeSet"}
           \/ OneMoreError /\ pc' = "modeFailed"
    PROVE  ErrorsAt'
  <1>1. /\ errors \in Seq(Error) /\ Len(errors) \in Nat /\ Len(errors) + Len(todo) <= 2
        /\ Len(todo) \in Nat /\ Len(todo) # 0 /\ Len(todo') = Len(todo)
    BY BatchSays
  <1>2. CASE errors' = errors /\ pc' \in {"setMode", "modeSet"}
    <2>1. errors' \in Seq(Error) /\ Len(errors') + Len(todo') <= 2 /\ Len(errors') <= 3
      BY <1>1, <1>2
    <2> QED BY <1>2, <2>1 DEF ErrorsAt, MakingDirectories, Creating, Renaming, Removing
  <1>3. CASE OneMoreError /\ pc' = "modeFailed"
    <2>1. /\ errors' \in Seq(Error) /\ Len(errors') # 0 /\ Len(errors') <= 3
          /\ Len(errors') + Len(todo') <= 3
      BY <1>1, <1>3 DEF OneMoreError
    <2> QED BY <1>3, <2>1 DEF ErrorsAt, MakingDirectories, Creating, Renaming, Removing
  <1> QED BY <1>2, <1>3

LEMMA LookBeforeModeKeeps == ASSUME PaneInv, LookBeforeMode PROVE PaneInv'
  <1>1. /\ pc = "lookMode" /\ UNCHANGED <<remote, todo, quiet, did, touched>>
        /\ touched' \subseteq Paths /\ (~cmd.flag => did = {})
    BY DEF LookBeforeMode, PaneInv, FilesTyping, DoneAt
  <1>2. \/ errors' = errors /\ pc' = "setMode"
        \/ OneMoreError /\ pc' = "modeFailed"
    <2>1. CASE errors' = Append(errors, ErrorOf("refused", FALSE)) /\ GoOn("modeFailed")
      BY <2>1, ErrorsSay, AppendedError DEF GoOn, Causes
    <2>2. CASE ReadFails("modeFailed")
      BY <2>2, ReadsFail
    <2> QED BY <2>1, <2>2 DEF LookBeforeMode, GoOn
  <1>3. CommandAt' /\ TodoAt' /\ LookedAt'
    BY <1>1, <1>2, BatchSays DEF PaneInv, CommandAt, TodoAt, LookedAt, quiet, MakingDirectories,
       Creating, Renaming, Removing, ChangingModes, BetweenCommands
  <1>4. ErrorsAt'
    BY <1>1, <1>2, BatchErrorsAt
  <1>5. DoneAt'
    BY <1>1, <1>2, BatchSays DEF DoneAt, OneChange, quiet, Creating, Renaming
  <1>6. pc' # "idle"
    BY <1>2
  <1> QED BY <1>1, <1>3, <1>4, <1>5, <1>6, LooksKeep

LEMMA SetModeKeeps == ASSUME PaneInv, SetMode PROVE PaneInv'
  <1>1. pc = "setMode" /\ UNCHANGED <<todo, quiet, touched>> /\ (~cmd.flag => did = {})
    BY DEF SetMode, PaneInv, DoneAt
  <1>2. PICK p \in Top \cup {Child} : p = Head(todo)
    BY <1>1, BatchSays
  <1>3. PICK can : can = (remote[p].kind \in {"file", "directory"})
    OBVIOUS
  <1>4. can \in BOOLEAN
    BY <1>3
  <1>5. PICK effect : effect = [remote EXCEPT ![p].mode = 1]
    OBVIOUS
  <1>6. Request(effect, can, {p}, "modeSet", "modeFailed")
    BY <1>2, <1>3, <1>5 DEF SetMode
  <1>7. /\ effect \in [Paths -> Attributes] /\ (can => Rooted(effect)) /\ {p} \in SUBSET Paths
        /\ \A q \in Top \ {p} : effect[q] = remote[q]
    BY <1>3, <1>5, PathsAre DEF PaneInv, FilesTyping, Attributes, Rooted, There
  <1>8. /\ FilesTyping' /\ SeenAt' /\ LookedAt'
        /\ Requested(effect, can, {p}, "modeSet", "modeFailed")
    BY <1>1, <1>6, <1>7, <1>4, RequestKeeps
  <1>9. \/ errors' = errors /\ pc' = "modeSet"
        \/ OneMoreError /\ pc' = "modeFailed"
    BY <1>8 DEF Requested
  <1>10. CommandAt' /\ TodoAt'
    BY <1>1, <1>9, BatchSays DEF PaneInv, CommandAt, TodoAt, quiet, MakingDirectories,
       Creating, Renaming, Removing, ChangingModes, BetweenCommands
  <1>11. ErrorsAt'
    BY <1>1, <1>9, BatchErrorsAt
  <1>12. DoneAt'
    BY <1>1, <1>8, BatchSays DEF Requested, DoneAt, OneChange, quiet, Creating, Renaming
  <1> QED BY <1>8, <1>10, <1>11, <1>12 DEF PaneInv

LEMMA NextModeKeeps == ASSUME PaneInv, NextMode PROVE PaneInv'
  <1>1. /\ pc \in {"modeSet", "modeFailed"} /\ todo' = Tail(todo)
        /\ UNCHANGED <<protocol, remote, shown, given, errors, stop, foreign, did, touched, unseen>>
    BY DEF NextMode
  <1>2. PICK flag \in BOOLEAN :
            /\ flag = (cmd.flag \/ pc # "modeFailed" \/ LastError.mayHave)
            /\ cmd' = [cmd EXCEPT !.flag = flag]
    BY DEF NextMode, LastError
  <1>3. \/ pc' = "failed" /\ pc = "modeFailed"
        \/ pc' = "batchEnds"
        \/ pc' = "lookMode" /\ Len(todo) # 1
    BY DEF NextMode, GoOn
  <1>4. /\ cmd' \in [op: Operations, path: Top \cup {Child}, to: Top \cup {Child}, flag: BOOLEAN]
        /\ cmd'.op = "permissions" /\ cmd'.flag = flag
    BY <1>1, <1>2, BatchSays DEF PaneInv, FilesTyping
  <1>5. todo' \in Seq(Top \cup {Child}) /\ Len(todo') = Len(todo) - 1
    BY <1>1, BatchSays
  <1>6. FilesTyping'
    BY <1>1, <1>4 DEF PaneInv, FilesTyping, There
  <1>7. CommandAt' /\ LookedAt'
    BY <1>3, <1>4 DEF CommandAt, LookedAt, MakingDirectories, Creating, Renaming, Removing,
       ChangingModes, BetweenCommands
  <1>8. TodoAt'
    BY <1>1, <1>3, <1>4, <1>5, BatchSays DEF TodoAt, MakingDirectories, Removing, ChangingModes
  <1>9. ErrorsAt'
    <2>1. errors' \in Seq(Error) /\ Len(errors') = Len(errors) /\ Len(errors') \in Nat
      BY <1>1, BatchSays
    <2>2. /\ Len(errors') <= 2 /\ (pc = "modeFailed" => Len(errors') # 0)
          /\ Len(errors') + Len(todo') <= 2
      BY <1>1, <1>5, <2>1, BatchSays
    <2> QED BY <1>3, <1>4, <2>1, <2>2 DEF ErrorsAt, MakingDirectories, Creating, Renaming, Removing
  <1>10. DoneAt'
    <2>1. ~flag => did' = {}
      BY <1>1, <1>2 DEF PaneInv, DoneAt
    <2> QED BY <1>3, <1>4, <2>1 DEF DoneAt, OneChange, Creating, Renaming
  <1>11. SeenAt'
    BY <1>1, <1>3 DEF PaneInv, SeenAt, UpToDate
  <1> QED BY <1>6, <1>7, <1>8, <1>9, <1>10, <1>11 DEF PaneInv

LEMMA RefreshIfNeededKeeps == ASSUME PaneInv, RefreshIfNeeded PROVE PaneInv'
  <1>1. /\ pc = "batchEnds" /\ UNCHANGED <<remote, todo, errors, quiet, did, touched>>
        /\ pc' = IF stop \/ ~cmd.flag THEN "idle" ELSE "list"
        /\ ~cmd.flag => did = {}
    BY DEF RefreshIfNeeded, GoOn, PaneInv, DoneAt
  <1>2. FilesTyping'
    BY <1>1 DEF PaneInv, FilesTyping, There, quiet
  <1>3. CommandAt' /\ TodoAt' /\ LookedAt'
    BY <1>1, BatchSays DEF PaneInv, CommandAt, TodoAt, LookedAt, quiet, MakingDirectories,
       Creating, Renaming, Removing, ChangingModes, BetweenCommands
  <1>4. ErrorsAt'
    <2>1. errors' \in Seq(Error) /\ Len(errors') <= 2 /\ Len(errors') \in Nat
      BY <1>1, BatchSays
    <2>2. pc' \in {"idle", "list"}
      BY <1>1
    <2> QED BY <2>1, <2>2 DEF ErrorsAt, MakingDirectories, Creating, Renaming, Removing
  <1>5. DoneAt' /\ SeenAt'
    BY <1>1 DEF PaneInv, DoneAt, SeenAt, UpToDate, quiet, Creating, Renaming
  <1> QED BY <1>2, <1>3, <1>4, <1>5 DEF PaneInv

-----------------------------------------------------------------------------
(* After a command, and the others                                         *)

LEMMA ListKeeps == ASSUME PaneInv, List PROVE PaneInv'
  <1>1. /\ pc = "list" /\ UNCHANGED <<protocol, remote, cmd, given, todo, stop, foreign, did, touched>>
        /\ errors \in Seq(Error) /\ Len(errors) <= 2
    BY DEF List, PaneInv, ErrorsAt
  <1>2. CASE shown' = Listing /\ unseen' = FALSE /\ GoOn("idle") /\ UNCHANGED errors
    <2>1. FilesTyping' /\ pc' = "idle" /\ UpToDate'
      BY <1>1, <1>2, PathsAre DEF GoOn, Listing, PaneInv, FilesTyping, There, UpToDate
    <2>2. CommandAt' /\ TodoAt' /\ LookedAt'
      BY <1>1, <2>1 DEF PaneInv, CommandAt, TodoAt, LookedAt, MakingDirectories, Creating,
         Renaming, Removing, ChangingModes, BetweenCommands
    <2>3. errors' \in Seq(Error) /\ Len(errors') <= 3
      BY <1>1, <1>2
    <2>4. ErrorsAt'
      BY <2>1, <2>3 DEF ErrorsAt, MakingDirectories, Creating, Renaming, Removing
    <2>5. DoneAt' /\ SeenAt'
      BY <2>1 DEF DoneAt, SeenAt, Creating, Renaming
    <2> QED BY <2>1, <2>2, <2>4, <2>5 DEF PaneInv
  <1>3. ASSUME NEW cause \in Causes, unseen' = TRUE, UNCHANGED shown,
               errors' = Append(errors, ErrorOf(cause, FALSE)), pc' \in {"idle", "lost"}
        PROVE  PaneInv'
    <2>1. FilesTyping'
      BY <1>1, <1>3 DEF PaneInv, FilesTyping, There
    <2>2. CommandAt' /\ TodoAt' /\ LookedAt'
      BY <1>1, <1>3 DEF PaneInv, CommandAt, TodoAt, LookedAt, MakingDirectories, Creating,
         Renaming, Removing, ChangingModes, BetweenCommands
    <2>3. OneMoreError
      BY <1>3, ErrorsSay, AppendedError
    <2>4. errors' \in Seq(Error) /\ Len(errors') <= 3
      BY <1>1, <2>3 DEF OneMoreError
    <2>5. ErrorsAt'
      BY <1>3, <2>4 DEF ErrorsAt, MakingDirectories, Creating, Renaming, Removing
    <2>6. DoneAt' /\ SeenAt'
      BY <1>3 DEF DoneAt, SeenAt, Creating, Renaming
    <2> QED BY <2>1, <2>2, <2>5, <2>6 DEF PaneInv
  <1> QED BY <1>2, <1>3 DEF List, GoOn

LEMMA FailKeeps == ASSUME PaneInv, Fail PROVE PaneInv'
  <1>1. /\ pc = "failed"
        /\ UNCHANGED <<protocol, remote, shown, cmd, given, todo, errors, stop, foreign, did, touched>>
        /\ unseen' = (unseen \/ did # {}) /\ pc' \in {"ask", "idle", "lost"}
        /\ pc' = "ask" => cmd.op = "create" /\ LastError.cause = "exists"
    BY DEF Fail, GoOn, LastError
  <1>2. errors \in Seq(Error) /\ Len(errors) # 0 /\ Len(errors) <= 2 /\ Len(errors) \in Nat
    BY <1>1 DEF PaneInv, ErrorsAt
  <1>3. LastError \in Error
    BY <1>2 DEF LastError
  <1>4. pc' = "ask" => Len(errors) = 1 /\ did = {}
    BY <1>1, <1>3 DEF PaneInv, ErrorsAt, DoneAt, OneChange, Error
  <1>5. FilesTyping'
    BY <1>1 DEF PaneInv, FilesTyping, There
  <1>6. CommandAt' /\ TodoAt' /\ LookedAt'
    BY <1>1 DEF PaneInv, CommandAt, TodoAt, LookedAt, MakingDirectories, Creating,
       Renaming, Removing, ChangingModes, BetweenCommands
  <1>7. ErrorsAt'
    <2>1. errors' \in Seq(Error) /\ Len(errors') <= 2 /\ (pc' = "ask" => Len(errors') = 1)
      BY <1>1, <1>2, <1>4
    <2>2. Len(errors') \in Nat /\ pc' \in {"ask", "idle", "lost"}
      BY <1>1, <2>1
    <2> QED BY <2>1, <2>2 DEF ErrorsAt, MakingDirectories, Creating, Renaming, Removing
  <1>8. DoneAt' /\ SeenAt'
    BY <1>1, <1>4 DEF PaneInv, DoneAt, SeenAt, UpToDate, Creating, Renaming
  <1> QED BY <1>5, <1>6, <1>7, <1>8 DEF PaneInv

LEMMA LeaveKeeps == ASSUME PaneInv, Leave PROVE PaneInv'
  <1>1. /\ pc' = "idle" /\ stop' = FALSE /\ shown' = Listing /\ unseen' = FALSE
        /\ cmd' = NoCommand /\ todo' = <<>> /\ errors' = <<>> /\ did' = {} /\ touched' = {}
        /\ UNCHANGED <<protocol, remote, given, foreign>>
    BY DEF Leave, GoOn
  <1>2. FilesTyping' /\ UpToDate'
    BY <1>1, PathsAre DEF PaneInv, FilesTyping, There, Listing, UpToDate, NoCommand, Operations
  <1>3. /\ todo' \in Seq(Top \cup {Child}) /\ Len(todo') = 0
        /\ errors' \in Seq(Error) /\ Len(errors') = 0
    BY <1>1, EmptySeq
  <1>4. cmd'.op = "none"
    BY <1>1 DEF NoCommand
  <1>5. CommandAt' /\ TodoAt' /\ LookedAt'
    BY <1>1, <1>3, <1>4 DEF CommandAt, TodoAt, LookedAt, MakingDirectories, Creating,
       Renaming, Removing, ChangingModes, BetweenCommands
  <1>6. ErrorsAt'
    BY <1>1, <1>3 DEF ErrorsAt, MakingDirectories, Creating, Renaming, Removing
  <1>7. DoneAt' /\ SeenAt'
    BY <1>1, <1>2 DEF DoneAt, SeenAt
  <1> QED BY <1>2, <1>5, <1>6, <1>7 DEF PaneInv

LEMMA OthersKeep ==
    ASSUME PaneInv,
           \/ RequestStop \/ UNCHANGED paneVars
           \/ \E p \in Top : ChangeRemote(p)
    PROVE  PaneInv'
  <1>1. UNCHANGED <<protocol, shown, pc, cmd, given, todo, errors, did>>
    BY DEF RequestStop, ChangeRemote, paneVars
  <1>2. CommandAt' /\ TodoAt'
    BY <1>1 DEF PaneInv, CommandAt, TodoAt
  <1>3. ErrorsAt'
    BY <1>1 DEF PaneInv, ErrorsAt, LastError
  <1>4. DoneAt'
    BY <1>1 DEF PaneInv, DoneAt, OneChange, LastError
  <1>5. CASE RequestStop \/ UNCHANGED paneVars
    <2>1. /\ UNCHANGED <<protocol, remote, shown, pc, cmd, given, foreign, did, touched, unseen>>
          /\ stop' = stop \/ stop' = TRUE
      BY <1>5 DEF RequestStop, paneVars
    <2>2. FilesTyping' /\ SeenAt'
      BY <2>1 DEF PaneInv, FilesTyping, There, SeenAt, UpToDate
    <2>3. LookedAt'
      BY <2>1 DEF PaneInv, LookedAt, There, Target
    <2> QED BY <1>2, <1>3, <1>4, <2>2, <2>3 DEF PaneInv
  <1>6. ASSUME NEW p \in Top, ChangeRemote(p)
        PROVE  PaneInv'
    <2>1. /\ foreign < MaxForeign /\ foreign' = foreign + 1 /\ (p = Parent => ~There(Child))
          /\ touched' = touched \cup {p} /\ unseen' = TRUE /\ stop' = stop
      BY <1>6 DEF ChangeRemote
    <2>2. PICK kind \in EntryKinds : remote' = [remote EXCEPT ![p] = [kind |-> kind, mode |-> 0]]
      BY <1>6 DEF ChangeRemote, EntryKinds
    <2>3. /\ remote' \in [Paths -> Attributes]
          /\ \A q \in Paths \ {p} : remote'[q] = remote[q]
      BY <2>2, PathsAre DEF PaneInv, FilesTyping, Attributes
    <2>4. FilesTyping'
      BY <1>1, <2>1, <2>3, PathsAre DEF PaneInv, FilesTyping, There
    <2>5. LookedAt'
      <3>1. PICK target : target = Target
        OBVIOUS
      <3>2. Target' = target
        BY <1>1, <3>1 DEF Target
      <3>3. pc = "rename" => target \in Top
        BY <3>1 DEF PaneInv, FilesTyping, CommandAt, Renaming, Target
      <3> QED BY <1>1, <2>1, <2>3, <3>1, <3>2, <3>3, PathsAre DEF PaneInv, LookedAt, There
    <2>6. SeenAt'
      BY <2>1 DEF SeenAt
    <2> QED BY <1>2, <1>3, <1>4, <2>4, <2>5, <2>6 DEF PaneInv
  <1> QED BY <1>5, <1>6

-----------------------------------------------------------------------------
(* PaneInv holds initially and is kept by every step.                      *)

LEMMA PaneStarts == PaneInit => PaneInv
  <1> SUFFICES ASSUME PaneInit PROVE PaneInv
    OBVIOUS
  <1>1. FilesTyping
    <2>1. /\ remote \in [Paths -> Attributes] /\ remote[Parent].kind = "directory"
          /\ shown = [p \in Top |-> remote[p]]
      BY PathsAre DEF PaneInit, Listing, NewDirectory, NewFile, Nothing, Attributes, EntryKinds
    <2>2. shown \in [Top -> Attributes]
      BY <2>1, PathsAre
    <2>3. cmd \in [op: Operations, path: Top \cup {Child}, to: Top \cup {Child}, flag: BOOLEAN]
      BY PathsAre DEF PaneInit, NoCommand, Operations
    <2>4. /\ protocol \in {"sftp", "ftp"} /\ given = 0 /\ foreign = 0
          /\ stop = FALSE /\ unseen = FALSE /\ did = {} /\ touched = {}
      BY DEF PaneInit
    <2>5. given \in 0 .. MaxCommands /\ foreign \in 0 .. MaxForeign
      BY <2>4, PathsAre
    <2> QED BY <2>1, <2>2, <2>3, <2>4, <2>5 DEF FilesTyping
  <1>2. /\ todo \in Seq(Top \cup {Child}) /\ Len(todo) = 0
        /\ errors \in Seq(Error) /\ Len(errors) = 0
    BY EmptySeq DEF PaneInit
  <1>3. pc = "idle" /\ cmd.op = "none" /\ did = {} /\ UpToDate
    BY DEF PaneInit, NoCommand, Listing, UpToDate
  <1>4. CommandAt /\ TodoAt /\ LookedAt
    BY <1>2, <1>3 DEF CommandAt, TodoAt, LookedAt, MakingDirectories, Creating,
       Renaming, Removing, ChangingModes, BetweenCommands
  <1>5. ErrorsAt
    BY <1>2, <1>3 DEF ErrorsAt, MakingDirectories, Creating, Renaming, Removing
  <1>6. DoneAt /\ SeenAt
    BY <1>3 DEF DoneAt, SeenAt
  <1> QED BY <1>1, <1>4, <1>5, <1>6 DEF PaneInv

LEMMA PaneStepsKeep == PaneInv /\ [PaneNext]_paneVars => PaneInv'
  <1> SUFFICES ASSUME PaneInv, [PaneNext]_paneVars PROVE PaneInv'
    OBVIOUS
  <1>1. CASE MakeDirectory \/ NextComponent \/ LookForDirectory
    BY <1>1, MakeDirectoryKeeps, NextComponentKeeps, LookForDirectoryKeeps
  <1>2. CASE \/ LookForFile \/ OpenExclusive \/ CloseCreatedFile \/ AnswerCreate \/ OpenTemp
             \/ CreatedTemp \/ CleanUpTemp
    BY <1>2, LookForFileKeeps, OpenExclusiveKeeps, CloseCreatedFileKeeps, AnswerCreateKeeps,
       OpenTempKeeps, CreatedTempKeeps, CleanUpTempKeeps
  <1>3. CASE LookForDestination \/ ReplaceWithPosixRename
    BY <1>3, LookForDestinationKeeps, ReplaceWithPosixRenameKeeps
  <1>4. CASE RenameRequest
    BY <1>4, RenameRequestKeeps DEF RenameRequest
  <1>5. CASE LookBeforeRemove \/ RemoveRequest \/ NextRemoval
    BY <1>5, LookBeforeRemoveKeeps, RemoveRequestKeeps, NextRemovalKeeps
  <1>6. CASE LookBeforeMode \/ SetMode \/ NextMode \/ RefreshIfNeeded
    BY <1>6, LookBeforeModeKeeps, SetModeKeeps, NextModeKeeps, RefreshIfNeededKeeps
  <1>7. CASE List \/ Fail \/ Leave
    BY <1>7, ListKeeps, FailKeeps, LeaveKeeps
  <1>8. CASE RequestStop \/ UNCHANGED paneVars \/ \E p \in Top : ChangeRemote(p)
    BY <1>8, OthersKeep
  <1>9. CASE \E p \in Top \cup {Child}, flag \in BOOLEAN : Mkdir(p, flag) \/ Remove(p, flag)
    BY <1>9, MkdirKeeps, RemoveKeeps
  <1>10. CASE \E p, q \in Top : SetPermissions(IF p = q THEN <<p>> ELSE <<p, q>>)
    BY <1>10, PermissionsKeep
  <1>11. CASE \/ Refresh \/ \E p \in Top : CreateFile(p)
              \/ \E p, q \in Top, flag \in BOOLEAN : RenameEntry(p, q, flag)
    BY <1>11, OneRequestKeeps, PathsAre
  <1> QED BY <1>1, <1>2, <1>3, <1>4, <1>5, <1>6, <1>7, <1>8, <1>9, <1>10, <1>11 DEF PaneNext

LEMMA PaneInvHolds == PaneSpec => []PaneInv
  BY PaneStarts, PaneStepsKeep, PTL DEF PaneSpec

(* A failed command of one change that does not say that it may have       *)
(* succeeded has changed nothing, and between commands the pane shows the  *)
(* directory as it is, whatever was refused, stopped or lost before        *)
(* (operationMayHaveSucceeded and refreshNeeded).                          *)
THEOREM PanesAreHonest == PaneSpec => []PaneIsHonest
  <1>1. PaneInv => PaneIsHonest
    <2> SUFFICES ASSUME PaneInv PROVE PaneIsHonest
      OBVIOUS
    <2>1. PaneTypeOK
      BY DEF PaneInv, FilesTyping, TodoAt, ErrorsAt, PaneTypeOK, Attributes, Error, There
    <2>2. HonestFailures
      BY DEF PaneInv, DoneAt, HonestFailures, LastError
    <2>3. ListingIsCurrent
      BY DEF PaneInv, SeenAt, UpToDate, ListingIsCurrent
    <2> QED BY <2>1, <2>2, <2>3 DEF PaneIsHonest
  <1> QED BY <1>1, PaneInvHolds, PTL

(* A creation or a rename that was not asked to replace replaces only what *)
(* others put there after its last look (RenameImpl, CreateRemoteFile).    *)
THEOREM RenamesReplaceUnseen == PaneSpec => UnaskedReplacesNothing
  <1>1. PaneInv /\ [PaneNext]_paneVars => [ReplacesOnlyUnseen]_paneVars
    BY DEF PaneInv, LookedAt, ReplacesOnlyUnseen
  <1> QED BY <1>1, PaneInvHolds, PTL DEF PaneSpec, UnaskedReplacesNothing

-----------------------------------------------------------------------------
(* ConflictChoice: the promise and the choice                              *)

Places == {"idle", "gate", "deciding", "asking", "answered", "resolved"}
Choice == [policy: Policies \cup {None}, jobIds: SUBSET Jobs]

ConflictTyping ==
    /\ state \in [Jobs -> States] /\ place \in [Workers -> Places]
    /\ work \in [Workers -> Jobs \cup {None}]
    /\ answer \in [Workers -> Policies \cup {None}]
    /\ choice \in Choice /\ promised \in Choice

(* A worker out of its loop has one running job, and nobody else has it.   *)
JobsAreOwned ==
    /\ \A w \in Workers : place[w] = "idle" <=> work[w] = None
    /\ \A w \in Workers : work[w] # None => state[work[w]] = "running"
    /\ \A v, w \in Workers : work[v] = work[w] /\ work[v] # None => v = w

OneInGate == \A v, w \in InGate : v = w

(* A promise is about jobs that have not failed and are in the list, and a *)
(* choice about jobs in the list, none of which came after it.             *)
ListedAre ==
    /\ \A j \in promised.jobIds : state[j] \notin {"absent", "failed"}
    /\ \A j \in choice.jobIds : state[j] # "absent" /\ j \notin late

(* The choice in force is the promise, but between the answer and it.      *)
InForce ==
    /\ promised.jobIds \cap Unfinished \subseteq choice.jobIds
    /\ choice.jobIds # {} => choice.policy = promised.policy
PromiseIsKept ==
    /\ \A w \in Workers : place[w] = "answered" => answer[w] = promised.policy
    /\ (\A w \in Workers : place[w] # "answered") => InForce

ConflictInv ==
    ConflictTyping /\ JobsAreOwned /\ OneInGate /\ ListedAre /\ PromiseIsKept

LEMMA WorkersAre ==
    ASSUME ConflictTyping, JobsAreOwned, NEW w \in Workers, place[w] # "idle"
    PROVE  /\ work[w] \in Jobs /\ work[w] # None /\ state[work[w]] = "running"
           /\ work[w] \in Unfinished
           /\ \A v \in Workers \ {w} : work[v] # work[w]
  BY DEF ConflictTyping, JobsAreOwned, Unfinished

(* A worker moves within the loop, and no job changes.                     *)
LEMMA MovesKeep ==
    ASSUME ConflictInv, NEW w \in Workers, NEW label \in Places, Proceed(w, label),
           place[w] # "idle", label # "idle",
           place[w] \in {"deciding", "asking", "answered"} \/ InGate = {}
               \/ label \notin {"deciding", "asking", "answered"},
           UNCHANGED <<state, work, late>>,
           choice' \in Choice, promised' \in Choice,
           answer' \in [Workers -> Policies \cup {None}]
    PROVE  ConflictTyping' /\ JobsAreOwned' /\ OneInGate'
  <1>1. ConflictTyping /\ place' = [place EXCEPT ![w] = label]
    BY DEF ConflictInv, Proceed
  <1>2. ConflictTyping'
    BY <1>1 DEF ConflictTyping
  <1>3. JobsAreOwned'
    BY <1>1 DEF ConflictInv, ConflictTyping, JobsAreOwned
  <1>4. OneInGate'
    BY <1>1 DEF ConflictInv, ConflictTyping, OneInGate, InGate
  <1> QED BY <1>2, <1>3, <1>4

(* The job of a worker that leaves is nobody's.                            *)
LEMMA LeavesKeep ==
    ASSUME ConflictInv, NEW w \in Workers, place[w] # "idle", Proceed(w, "idle"),
           NEW outcome \in {"waiting", "completed", "failed"},
           state' = [state EXCEPT ![work[w]] = outcome],
           work' = [work EXCEPT ![w] = None], answer' = [answer EXCEPT ![w] = None],
           UNCHANGED <<choice, late>>,
           promised' = [promised EXCEPT !.jobIds =
                            IF outcome = "failed" THEN @ \ {work[w]} ELSE @],
           place[w] # "answered"
    PROVE  ConflictInv'
  <1>1. ConflictTyping /\ place' = [place EXCEPT ![w] = "idle"]
    BY DEF ConflictInv, Proceed
  <1>2. PICK j \in Jobs : j = work[w] /\ state[j] = "running" /\ j # None
    BY WorkersAre DEF ConflictInv
  <1>3. \A v \in Workers \ {w} : work[v] # j
    BY <1>2, WorkersAre DEF ConflictInv
  <1>4. state' = [state EXCEPT ![j] = outcome]
    BY <1>2
  <1>5. /\ promised' \in Choice /\ promised'.policy = promised.policy
        /\ promised'.jobIds = IF outcome = "failed" THEN promised.jobIds \ {j}
                                                    ELSE promised.jobIds
    BY <1>1, <1>2 DEF ConflictTyping, Choice
  <1>6. ConflictTyping'
    BY <1>1, <1>4, <1>5 DEF ConflictTyping, States, Places
  <1>7. JobsAreOwned'
    BY <1>1, <1>3, <1>4 DEF ConflictInv, ConflictTyping, JobsAreOwned
  <1>8. OneInGate'
    BY <1>1 DEF ConflictInv, ConflictTyping, OneInGate, InGate
  <1>9. ListedAre'
    BY <1>1, <1>4, <1>5 DEF ConflictInv, ConflictTyping, ListedAre
  <1>10. PromiseIsKept'
    <2>1. \A v \in Workers : place'[v] = "answered" <=> place[v] = "answered"
      BY <1>1 DEF ConflictTyping
    <2>2. promised'.jobIds \cap Unfinished' \subseteq promised.jobIds \cap Unfinished
      BY <1>1, <1>2, <1>4, <1>5 DEF ConflictTyping, Unfinished
    <2>3. \A v \in Workers : place[v] = "answered" => answer'[v] = answer[v]
      BY <1>1 DEF ConflictTyping
    <2> QED BY <1>5, <2>1, <2>2, <2>3 DEF ConflictInv, PromiseIsKept, InForce
  <1> QED BY <1>6, <1>7, <1>8, <1>9, <1>10 DEF ConflictInv

(* A job joins the jobs that wait.                                         *)
LEMMA JoinsKeep ==
    ASSUME ConflictInv, NEW j \in Jobs, state[j] \in {"absent", "failed"},
           state' = [state EXCEPT ![j] = "waiting"],
           late' = late \/ (state[j] = "absent" /\ late' = late \cup {j}),
           UNCHANGED <<place, work, answer, choice, promised>>
    PROVE  ConflictInv'
  <1>1. ConflictTyping
    BY DEF ConflictInv
  <1>2. ConflictTyping' /\ JobsAreOwned' /\ OneInGate'
    BY DEF ConflictInv, ConflictTyping, JobsAreOwned, OneInGate, InGate, States
  <1>3. ListedAre'
    BY <1>1 DEF ConflictInv, ConflictTyping, ListedAre
  <1>4. PromiseIsKept'
    <2>1. promised'.jobIds \cap Unfinished' \subseteq promised.jobIds \cap Unfinished
      BY <1>1 DEF ConflictInv, ConflictTyping, ListedAre, Unfinished
    <2> QED BY <2>1 DEF ConflictInv, PromiseIsKept, InForce
  <1> QED BY <1>2, <1>3, <1>4 DEF ConflictInv

LEMMA RemoveJobKeeps == ASSUME ConflictInv, NEW j \in Jobs, RemoveJob(j) PROVE ConflictInv'
  <1>1. /\ ConflictTyping /\ state' = [state EXCEPT ![j] = "absent"]
        /\ state[j] \in {"failed", "completed"}
        /\ UNCHANGED <<place, work, answer, late>>
    BY DEF ConflictInv, RemoveJob
  <1>2. /\ choice' \in Choice /\ choice'.jobIds = choice.jobIds \ {j}
        /\ choice'.jobIds # {} => choice'.policy = choice.policy
    BY <1>1 DEF RemoveJob, ConflictTyping, Choice, NoChoice
  <1>3. /\ promised' \in Choice /\ promised'.jobIds = promised.jobIds \ {j}
        /\ promised'.policy = promised.policy
    BY <1>1 DEF RemoveJob, ConflictTyping, Choice
  <1>4. ConflictTyping' /\ JobsAreOwned' /\ OneInGate'
    BY <1>1, <1>2, <1>3 DEF ConflictInv, ConflictTyping, JobsAreOwned, OneInGate, InGate, States
  <1>5. ListedAre'
    BY <1>1, <1>2, <1>3 DEF ConflictInv, ConflictTyping, ListedAre
  <1>6. PromiseIsKept'
    <2>1. Unfinished' = Unfinished \ {j}
      BY <1>1 DEF ConflictTyping, Unfinished
    <2> QED BY <1>1, <1>2, <1>3, <2>1 DEF ConflictInv, PromiseIsKept, InForce
  <1> QED BY <1>4, <1>5, <1>6 DEF ConflictInv

LEMMA ClaimKeeps ==
    ASSUME ConflictInv, NEW w \in Workers, NEW j \in Jobs, Claim(w, j) PROVE ConflictInv'
  <1>1. /\ ConflictTyping /\ place' = [place EXCEPT ![w] = "gate"]
        /\ state' = [state EXCEPT ![j] = "running"] /\ work' = [work EXCEPT ![w] = j]
        /\ place[w] = "idle" /\ state[j] = "waiting"
        /\ UNCHANGED <<answer, choice, promised, late>>
    BY DEF ConflictInv, Claim, Proceed
  <1>2. ConflictTyping'
    BY <1>1 DEF ConflictTyping, States, Places
  <1>3. JobsAreOwned' /\ OneInGate'
    BY <1>1, ConflictAssumption
    DEF ConflictInv, ConflictTyping, JobsAreOwned, OneInGate, InGate, ConflictAssumption
  <1>4. ListedAre'
    BY <1>1 DEF ConflictInv, ConflictTyping, ListedAre
  <1>5. PromiseIsKept'
    <2>1. Unfinished' = Unfinished
      BY <1>1 DEF ConflictTyping, Unfinished
    <2>2. \A v \in Workers : place'[v] = "answered" <=> place[v] = "answered"
      BY <1>1 DEF ConflictTyping
    <2> QED BY <1>1, <2>1, <2>2 DEF ConflictInv, PromiseIsKept, InForce
  <1> QED BY <1>2, <1>3, <1>4, <1>5 DEF ConflictInv

(* Moves that leave the promise and the choice alone.                      *)
LEMMA QuietMovesKeep ==
    ASSUME ConflictInv, NEW w \in Workers, NEW label \in Places \ {"idle", "answered"},
           Proceed(w, label), place[w] \notin {"idle", "answered"},
           place[w] \in {"deciding", "asking"} \/ InGate = {}
               \/ label \notin {"deciding", "asking"},
           UNCHANGED <<state, work, late, choice, promised>>,
           answer' \in [Workers -> Policies \cup {None}],
           \A v \in Workers \ {w} : answer'[v] = answer[v]
    PROVE  ConflictInv'
  <1>1. ConflictTyping
    BY DEF ConflictInv
  <1>2. choice' \in Choice /\ promised' \in Choice
    BY <1>1 DEF ConflictTyping
  <1>3. ConflictTyping' /\ JobsAreOwned' /\ OneInGate'
    BY <1>2, MovesKeep
  <1>4. ListedAre'
    BY DEF ConflictInv, ListedAre
  <1>5. PromiseIsKept'
    <2>1. \A v \in Workers : place'[v] = "answered" <=> place[v] = "answered"
      BY <1>1 DEF ConflictTyping, Proceed
    <2> QED BY <2>1 DEF ConflictInv, PromiseIsKept, InForce, Unfinished
  <1> QED BY <1>3, <1>4, <1>5 DEF ConflictInv

LEMMA DecideKeeps == ASSUME ConflictInv, NEW w \in Workers, Decide(w) PROVE ConflictInv'
  <1>1. ConflictTyping /\ place[w] = "deciding" /\ UNCHANGED <<state, work, late, choice, promised>>
    BY DEF ConflictInv, Decide
  <1>2. CASE work[w] \in choice.jobIds /\ Resolved(w, choice.policy)
    BY <1>1, <1>2, QuietMovesKeep DEF Resolved, ConflictTyping, Choice, Places
  <1>3. CASE Proceed(w, "asking") /\ UNCHANGED answer
    BY <1>1, <1>3, QuietMovesKeep DEF ConflictTyping, Places
  <1> QED BY <1>2, <1>3 DEF Decide

LEMMA AnswerKeeps ==
    ASSUME ConflictInv, NEW w \in Workers, NEW policy \in Policies, NEW all \in BOOLEAN,
           Answer(w, policy, all)
    PROVE  ConflictInv'
  <1>1. /\ ConflictTyping /\ place[w] = "asking" /\ UNCHANGED <<state, work, late, choice>>
        /\ answer' = [answer EXCEPT ![w] = policy]
        /\ answer' \in [Workers -> Policies \cup {None}]
        /\ Proceed(w, IF all THEN "answered" ELSE "resolved")
    BY DEF ConflictInv, Answer, ConflictTyping
  <1>2. CASE ~all
    BY <1>1, <1>2, QuietMovesKeep DEF Answer, Places, ConflictTyping
  <1>3. CASE all
    <2>1. promised' = [policy |-> policy, jobIds |-> Unfinished] /\ promised' \in Choice
      BY <1>3 DEF Answer, Unfinished, Choice
    <2>2. ConflictTyping' /\ JobsAreOwned' /\ OneInGate'
      BY <1>1, <1>3, <2>1, MovesKeep DEF ConflictTyping, Places
    <2>3. ListedAre'
      BY <1>1, <2>1 DEF ConflictInv, ListedAre, Unfinished
    <2>4. PromiseIsKept'
      <3>1. place'[w] = "answered" /\ answer'[w] = policy
        BY <1>1, <1>3 DEF ConflictTyping, Proceed
      <3>2. \A v \in Workers : place'[v] = "answered" => v = w
        BY <3>1, <2>2 DEF OneInGate, InGate
      <3> QED BY <2>1, <3>1, <3>2 DEF PromiseIsKept
    <2> QED BY <2>2, <2>3, <2>4 DEF ConflictInv
  <1> QED BY <1>2, <1>3

LEMMA ChooseKeeps == ASSUME ConflictInv, NEW w \in Workers, Choose(w) PROVE ConflictInv'
  <1>1. /\ ConflictTyping /\ place[w] = "answered" /\ Proceed(w, "resolved")
        /\ UNCHANGED <<state, work, answer, promised>>
        /\ late' = {} /\ choice' = [policy |-> answer[w], jobIds |-> Unfinished]
        /\ Unfinished' = Unfinished
    BY DEF ConflictInv, Choose, Unfinished
  <1>2. choice' \in Choice
    BY <1>1 DEF ConflictTyping, Choice, Unfinished
  <1>3. ConflictTyping'
    BY <1>1, <1>2 DEF ConflictTyping, Places, Proceed
  <1>4. JobsAreOwned' /\ OneInGate'
    BY <1>1 DEF ConflictInv, ConflictTyping, JobsAreOwned, OneInGate, InGate, Proceed
  <1>5. ListedAre'
    BY <1>1 DEF ConflictInv, ListedAre, Unfinished
  <1>6. PromiseIsKept'
    <2>1. \A v \in Workers : place'[v] # "answered"
      BY <1>1 DEF ConflictInv, ConflictTyping, OneInGate, InGate, Proceed
    <2>2. answer[w] = promised.policy
      BY <1>1 DEF ConflictInv, PromiseIsKept
    <2> QED BY <1>1, <2>1, <2>2 DEF PromiseIsKept, InForce
  <1> QED BY <1>3, <1>4, <1>5, <1>6 DEF ConflictInv

LEMMA ConflictSteps == ConflictInv /\ [ConflictNext]_conflictVars => ConflictInv'
  <1> SUFFICES ASSUME ConflictInv, [ConflictNext]_conflictVars PROVE ConflictInv'
    OBVIOUS
  <1>1. ConflictTyping
    BY DEF ConflictInv
  <1>2. ASSUME NEW j \in Jobs, Enqueue(j) PROVE ConflictInv'
    BY <1>2, JoinsKeep DEF Enqueue
  <1>3. ASSUME NEW j \in Jobs, Retry(j) PROVE ConflictInv'
    BY <1>3, JoinsKeep DEF Retry
  <1>4. ASSUME NEW w \in Workers, EnterGate(w) PROVE ConflictInv'
    BY <1>1, <1>4, QuietMovesKeep DEF EnterGate, GateFree, Places, ConflictTyping
  <1>5. ASSUME NEW w \in Workers, NextFile(w) PROVE ConflictInv'
    BY <1>1, <1>5, QuietMovesKeep DEF NextFile, Places, ConflictTyping
  <1>6. ASSUME NEW w \in Workers, NEW outcome \in States, GiveUpGate(w, outcome)
        PROVE  ConflictInv'
    <2>1. promised' = [promised EXCEPT !.jobIds = @]
      BY <1>1, <1>6 DEF GiveUpGate, ConflictTyping, Choice
    <2> QED BY <1>6, <2>1, LeavesKeep DEF GiveUpGate
  <1>7. ASSUME NEW w \in Workers, NEW outcome \in States, End(w, outcome) PROVE ConflictInv'
    BY <1>7, LeavesKeep DEF End
  <1>8. CASE StopTransfers
    BY <1>8 DEF StopTransfers, ConflictInv, ConflictTyping, JobsAreOwned, OneInGate, InGate,
                ListedAre, PromiseIsKept, InForce, Unfinished
  <1>9. CASE Start
    BY <1>9 DEF Start, ConflictInv, ConflictTyping, JobsAreOwned, OneInGate, InGate,
                ListedAre, PromiseIsKept, InForce, Unfinished, NoChoice, Choice
  <1>10. CASE UNCHANGED conflictVars
    BY <1>10 DEF conflictVars, ConflictInv, ConflictTyping, JobsAreOwned, OneInGate, InGate,
                 ListedAre, PromiseIsKept, InForce, Unfinished
  <1> QED BY <1>2, <1>3, <1>4, <1>5, <1>6, <1>7, <1>8, <1>9, <1>10, RemoveJobKeeps, ClaimKeeps,
             DecideKeeps, AnswerKeeps, ChooseKeeps DEF ConflictNext

LEMMA ConflictInitially == ConflictInit => ConflictInv
  BY DEF ConflictInit, ConflictInv, ConflictTyping, JobsAreOwned, OneInGate, InGate, ListedAre,
         PromiseIsKept, InForce, Unfinished, NoChoice, Choice, States, Places

LEMMA ConflictInvHolds == ConflictSpec => []ConflictInv
  BY ConflictInitially, ConflictSteps, PTL DEF ConflictSpec

(* With any number of workers and jobs: a user who answered for the queue  *)
(* is not asked again about the transfers it held, and nobody is resolved  *)
(* without a question but by that answer, and for a transfer that was in   *)
(* the list when it came into force (ResolveTransferConflict).             *)
THEOREM QueueIsAskedOnce == ConflictSpec => AskedOnce
  <1>1. ASSUME ConflictInv PROVE ConflictTypeOK
    <2>1. \A v, w \in InGate : v = w
      BY <1>1 DEF ConflictInv, OneInGate
    <2>2. Cardinality(InGate) <= 1
      <3>1. CASE InGate = {}
        BY <3>1, FS_EmptySet
      <3>2. ASSUME NEW w \in InGate PROVE Cardinality(InGate) <= 1
        <4>1. InGate = {w}
          BY <2>1
        <4> QED BY <4>1, FS_Singleton
      <3> QED BY <3>1, <3>2
    <2> QED BY <1>1, <2>2 DEF ConflictInv, ConflictTyping, JobsAreOwned, ConflictTypeOK, Choice
  <1>2. ASSUME ConflictInv, ConflictInv', [ConflictNext]_conflictVars
        PROVE  [ConflictTypeOK' /\ AsksOnce]_conflictVars
    <2>1. ConflictTypeOK'
      BY <1>1, <1>2, PTL
    <2>2. ASSUME NEW w \in Workers, place[w] = "deciding", place'[w] # "deciding"
          PROVE  Decide(w)
      BY <1>2, <2>2 DEF ConflictInv, ConflictTyping, ConflictNext, conflictVars, Enqueue, Retry,
         RemoveJob, Claim, EnterGate, GiveUpGate, Decide, Answer, Choose, NextFile, End,
         StopTransfers, Start, Proceed, Resolved
    <2>3. ASSUME NEW w \in Workers, place[w] = "deciding"
          PROVE  /\ place'[w] = "asking" => work[w] \notin promised.jobIds
                 /\ place'[w] = "resolved" => answer'[w] = promised.policy /\ work[w] \notin late
      <3>1. work[w] \in Unfinished
        BY <1>2, <2>3, WorkersAre DEF ConflictInv
      <3>2. InForce
        BY <1>2, <2>3 DEF ConflictInv, PromiseIsKept, OneInGate, InGate
      <3>3. CASE Decide(w) /\ work[w] \in choice.jobIds
        BY <1>2, <3>2, <3>3 DEF Decide, Resolved, Proceed, ConflictInv, ConflictTyping, InForce,
                                ListedAre
      <3>4. CASE Decide(w) /\ work[w] \notin choice.jobIds
        BY <1>2, <3>1, <3>2, <3>4 DEF Decide, Proceed, ConflictInv, ConflictTyping, InForce
      <3> QED BY <2>2, <2>3, <3>3, <3>4
    <2> QED BY <2>1, <2>3 DEF AsksOnce
  <1> QED BY <1>2, ConflictInvHolds, PTL DEF ConflictSpec, AskedOnce
=============================================================================
