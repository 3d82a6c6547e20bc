----------------------------- MODULE RemoteFiles -----------------------------
(***************************************************************************)
(* The commands a remote pane gives to its browser thread (BrowserLoop in  *)
(* src/ui/remoteController.cpp) and what the session of either protocol    *)
(* sends for them (src/protocol/sftpSession.cpp, ftpSession.cpp).          *)
(*                                                                         *)
(* A request that changes the server may be refused, may be applied, or    *)
(* may be lost with nobody knowing; operationMayHaveSucceeded is what the  *)
(* session then says.  Others change the server between any two requests.  *)
(***************************************************************************)
EXTENDS Naturals, Sequences

CONSTANTS
    Top,                \* names in the directory the pane shows
    Parent, Child,      \* Child is a name in Parent, if Parent is a directory
    Temp,               \* the unique sibling of an overwriting creation
    MaxCommands,        \* bound: commands given
    MaxForeign          \* bound: changes others make

ASSUME FilesAssumption ==
    /\ Parent \in Top /\ Child \notin Top /\ Temp \notin Top \cup {Child}
    /\ MaxCommands \in Nat /\ MaxForeign \in Nat

VARIABLES
    protocol, remote,   \* the server: kind and mode of each path
    shown,              \* the last DirectoryEvent
    pc, cmd, given,     \* the browser thread and its command
    todo,               \* paths still to act on
    errors,             \* the errors of this command
    stop,
    foreign,
    did, touched,       \* paths this command changed; others changed since looked at
    unseen              \* a listing failed or others changed what is shown

paneVars == <<protocol, remote, shown, pc, cmd, given, todo, errors, stop, foreign, did,
          touched, unseen>>
quiet == <<protocol, shown, cmd, given, stop, foreign, unseen>>

Paths == Top \cup {Child, Temp}
EntryKinds == {"none", "file", "directory", "link"}
Nothing == [kind |-> "none", mode |-> 0]
NewFile == [kind |-> "file", mode |-> 0]
NewDirectory == [kind |-> "directory", mode |-> 0]
NoCommand == [op |-> "none", path |-> Parent, to |-> Parent, flag |-> FALSE]

GoOn(label) == pc' = label
Listing == [p \in Top |-> remote[p]]
There(p) == remote[p].kind # "none"

-----------------------------------------------------------------------------
(* What a request may come to.  applied: whether the server may have done  *)
(* it; sent: whether it may have received it.                              *)

Causes == {"stopped before", "stopped", "timeout", "lost", "refused", "exists", "missing",
           "unsupported", "failure"}
MayBeApplied(cause) == cause \in {"stopped", "timeout", "lost", "failure"}

(* MakeOperationError and the errors of WaitSocket and Perform.            *)
OperationError(cause, mutating) ==
    [cause |-> cause, mayHave |-> mutating /\ MayBeApplied(cause)]

(* libcurl's codes and the reply; any 4xx or 5xx reply to a command is a   *)
(* definite refusal, but 421 closes the connection.                        *)
CurlError(cause, mutating) ==
    [cause |-> cause,
     mayHave |-> mutating /\ cause \in {"stopped", "timeout", "lost", "failure"}]

ErrorOf(cause, mutating) ==
    IF protocol = "sftp" THEN OperationError(cause, mutating) ELSE CurlError(cause, mutating)

SessionUsableAfter(e) ==
    CASE e.cause = "lost" -> FALSE
      [] e.cause = "timeout" -> ~e.mayHave
      [] OTHER -> TRUE

CauseAllowed(cause) ==
    /\ cause \in {"stopped before", "stopped"} => stop
    /\ cause = "unsupported" => protocol = "ftp"

(* A request that only reads.                                              *)
ReadFails(label) ==
    \E cause \in Causes \ {"exists", "missing", "unsupported"} :
        /\ CauseAllowed(cause)
        /\ errors' = Append(errors, ErrorOf(cause, FALSE))
        /\ GoOn(label)

(* A request that changes the server to effect, if the server can.  paths: *)
(* what the command would have changed.                                    *)
Request(effect, can, paths, answered, failed) ==
    \/ /\ can /\ remote' = effect /\ did' = did \cup paths
       /\ GoOn(answered) /\ UNCHANGED errors
    \/ \E cause \in Causes :
          /\ CauseAllowed(cause)
          /\ cause \in {"exists", "missing"} => ~can
          /\ errors' = Append(errors, ErrorOf(cause, TRUE))
          /\ GoOn(failed)
          /\ \/ UNCHANGED <<remote, did>>
             \/ MayBeApplied(cause) /\ can /\ remote' = effect /\ did' = did \cup paths

-----------------------------------------------------------------------------
PaneInit ==
    /\ protocol \in {"sftp", "ftp"}
    /\ remote = [p \in Paths |-> CASE p = Parent -> NewDirectory
                                   [] p = Child -> NewFile
                                   [] OTHER -> Nothing]
    /\ shown = Listing
    /\ pc = "idle" /\ cmd = NoCommand /\ given = 0
    /\ todo = <<>> /\ errors = <<>> /\ stop = FALSE /\ foreign = 0
    /\ did = {} /\ touched = {} /\ unseen = FALSE

Begin(op, path, to, flag, paths, label) ==
    /\ pc = "idle" /\ ~stop /\ given < MaxCommands
    /\ cmd' = [op |-> op, path |-> path, to |-> to, flag |-> flag]
    /\ given' = given + 1
    /\ todo' = paths /\ errors' = <<>> /\ did' = {} /\ touched' = {}
    /\ GoOn(label)
    /\ UNCHANGED <<protocol, remote, shown, stop, foreign, unseen>>

Refresh == Begin("list", Parent, Parent, FALSE, <<>>, "list")

Mkdir(p, recursive) ==
    /\ recursive = (p = Child)
    /\ Begin("mkdir", p, p, recursive,
             IF recursive THEN <<Parent, Child>> ELSE <<p>>, "mkdir")

CreateFile(p) == Begin("create", p, p, FALSE, <<>>, "lookCreate")

RenameEntry(p, q, overwrite) ==
    /\ p # q
    /\ Begin("rename", p, q, overwrite, <<>>,
             IF overwrite THEN "replace" ELSE "lookRename")

Remove(p, recursive) ==
    Begin("remove", p, p, recursive, << <<p, FALSE>> >>, "lookRemove")

SetPermissions(paths) == Begin("permissions", Parent, Parent, FALSE, paths, "lookMode")

-----------------------------------------------------------------------------
(* Mkdir: each component; one that is there already must be a directory.   *)

MakeDirectory ==
    /\ pc = "mkdir"
    /\ LET p == Head(todo)
       IN  Request([remote EXCEPT ![p] = NewDirectory],
                   ~There(p) /\ (p = Child => remote[Parent].kind = "directory"),
                   {p}, "made", "notMade")
    /\ UNCHANGED <<todo, quiet, touched>>

NextComponent ==
    /\ pc = "made" /\ todo' = Tail(todo)
    /\ GoOn(IF Len(todo) = 1 THEN "list" ELSE "mkdir")
    /\ UNCHANGED <<remote, errors, quiet, did, touched>>

(* sftp asks after any RemoteIo or AlreadyExists; ftp only on the way down *)
(* and only after a definite rejection of the path.                        *)
MayExist(e) ==
    IF protocol = "sftp" THEN e.cause \in {"exists", "failure"}
    ELSE cmd.flag /\ ~e.mayHave /\ e.cause \in {"exists", "refused"}

LookForDirectory ==
    /\ pc = "notMade"
    /\ LET e == errors[Len(errors)]
       IN  \/ /\ MayExist(e) /\ remote[Head(todo)].kind = "directory"
              /\ errors' = SubSeq(errors, 1, Len(errors) - 1) /\ GoOn("made")
           \/ /\ ~(MayExist(e) /\ remote[Head(todo)].kind = "directory")
              /\ UNCHANGED errors /\ GoOn("failed")
           \/ /\ MayExist(e) /\ protocol = "sftp" /\ UNCHANGED errors /\ GoOn("failed")
           \/ /\ MayExist(e) /\ protocol = "ftp" /\ ReadFails("failed")
    /\ UNCHANGED <<remote, todo, quiet, did, touched>>

-----------------------------------------------------------------------------
(* CreateRemoteFile.  Without overwrite sftp creates the file itself,      *)
(* exclusively; ftp has no such command and renames an empty sibling.      *)

LookForFile ==
    /\ pc = "lookCreate"
    /\ \/ ~There(cmd.path) /\ GoOn(IF protocol = "sftp" THEN "open" ELSE "openTemp")
          /\ UNCHANGED errors
       \/ There(cmd.path) /\ GoOn("failed")
          /\ errors' = Append(errors, ErrorOf("exists", FALSE))
       \/ ReadFails("failed")
    /\ touched' = {}
    /\ UNCHANGED <<remote, todo, quiet, did>>

OpenExclusive ==
    /\ pc = "open"
    /\ Request([remote EXCEPT ![cmd.path] = NewFile], ~There(cmd.path), {cmd.path},
               "close", "failed")
    /\ UNCHANGED <<todo, quiet, touched>>

(* The file exists whatever becomes of the close.                          *)
CloseCreatedFile ==
    /\ pc \in {"close", "closeTemp"}
    /\ \/ GoOn(IF pc = "close" THEN "list" ELSE "createdTemp") /\ UNCHANGED errors
       \/ \E cause \in Causes \ {"exists", "missing", "unsupported"} :
             /\ CauseAllowed(cause)
             /\ errors' = Append(errors, [ErrorOf(cause, TRUE) EXCEPT !.mayHave = TRUE])
             /\ GoOn("failed")
    /\ UNCHANGED <<remote, todo, quiet, did, touched>>

(* A taken name: the controller looks at what is there and asks; only a    *)
(* file may be replaced.  After the answer to rename, it tries candidates  *)
(* until one is free, without asking again.                                *)
Finding == cmd.path # cmd.to

NextCandidate ==
    \E p \in Top \ {cmd.to} : cmd' = [cmd EXCEPT !.path = p]

AnswerCreate ==
    /\ pc = "ask"
    /\ \/ (Finding \/ remote[cmd.path].kind = "file")
          /\ NextCandidate /\ errors' = <<>> /\ GoOn("lookCreate")
       \/ Finding /\ UNCHANGED cmd /\ errors' = <<ErrorOf("refused", FALSE)>> /\ GoOn("failed")
       \/ /\ ~Finding /\ remote[cmd.path].kind = "file"
          /\ cmd' = [cmd EXCEPT !.flag = TRUE] /\ errors' = <<>> /\ GoOn("openTemp")
       \/ /\ ~Finding /\ remote[cmd.path].kind = "file"
          /\ UNCHANGED cmd /\ errors' = <<>> /\ pc' \in {"list", "idle"}
       \/ /\ ~Finding /\ remote[cmd.path].kind # "file"
          /\ UNCHANGED cmd /\ errors' = <<ErrorOf("missing", FALSE)>> /\ GoOn("failed")
       \/ ~Finding /\ UNCHANGED cmd /\ ReadFails("failed")
    /\ UNCHANGED <<protocol, remote, shown, given, todo, stop, foreign, did, touched, unseen>>

OpenTemp ==
    /\ pc = "openTemp"
    /\ Request([remote EXCEPT ![Temp] = NewFile], ~There(Temp), {},
               IF protocol = "sftp" THEN "closeTemp" ELSE "createdTemp", "failed")
    /\ UNCHANGED <<todo, quiet, touched>>

CreatedTemp ==
    /\ pc = "createdTemp"
    /\ IF stop
       THEN /\ errors' = Append(errors, ErrorOf("stopped before", TRUE))
            /\ GoOn("cleanUp")
       ELSE /\ UNCHANGED errors
            /\ GoOn(IF cmd.flag THEN "replace" ELSE "lookRename")
    /\ UNCHANGED <<remote, todo, quiet, did, touched>>

(* One attempt, without a stop token; a failure is only logged.            *)
CleanUpTemp ==
    /\ pc = "cleanUp"
    /\ remote' \in {remote, [remote EXCEPT ![Temp] = Nothing]}
    /\ GoOn("failed")
    /\ UNCHANGED <<todo, errors, quiet, did, touched>>

-----------------------------------------------------------------------------
(* Rename                                                                  *)

Source == IF cmd.op = "create" THEN Temp ELSE cmd.path
Target == IF cmd.op = "create" THEN cmd.path ELSE cmd.to
Moved ==                                        \* children of a moved directory go with it
    [remote EXCEPT ![Target] = remote[Source], ![Source] = Nothing,
                   ![Child] = IF Parent \in {Source, Target} THEN Nothing ELSE @]
Movable == There(Source) /\ ~(Target = Parent /\ There(Child))
Named == IF cmd.op = "create" THEN {cmd.path} ELSE {cmd.path, cmd.to}
RenameFailed == IF cmd.op = "create" THEN "cleanUp" ELSE "failed"

RenameUnseen ==                                                    \* mutant
    /\ pc = "lookRename" /\ GoOn("rename")
    /\ UNCHANGED <<remote, todo, errors, quiet, did, touched>>

LookForDestination ==
    /\ pc = "lookRename"
    /\ \/ ~There(Target) /\ GoOn("rename") /\ UNCHANGED errors
       \/ There(Target) /\ GoOn(RenameFailed)
          /\ errors' = Append(errors, ErrorOf("exists", FALSE))
       \/ ReadFails(RenameFailed)
    /\ touched' = {}
    /\ UNCHANGED <<remote, todo, quiet, did>>

(* posix-rename@openssh.com, or the plain rename if the server never had   *)
(* it; ftp sends RNFR and RNTO either way.                                 *)
ReplaceWithPosixRename ==
    /\ pc = "replace"
    /\ \/ Request(Moved, Movable, Named, "list", RenameFailed)
       \/ protocol = "sftp" /\ GoOn("rename") /\ UNCHANGED <<remote, errors, did>>
    /\ UNCHANGED <<todo, quiet, touched>>

(* The server may or may not replace a destination that is there.          *)
RenameRequest ==
    /\ pc = "rename"
    /\ Request(Moved, Movable, Named, "list", RenameFailed)
    /\ UNCHANGED <<todo, quiet, touched>>

-----------------------------------------------------------------------------
(* RemoveImpl: an item of todo is a path and whether it has been looked at *)

LookBeforeRemove ==
    LET p == Head(todo)[1]
    IN  /\ pc = "lookRemove"
        /\ \/ /\ ~There(p) /\ UNCHANGED todo
              /\ errors' = Append(errors, ErrorOf("missing", FALSE)) /\ GoOn("failed")
           \/ /\ There(p) /\ UNCHANGED errors
              /\ IF p = Parent /\ remote[p].kind = "directory" /\ cmd.flag /\ There(Child)
                 THEN /\ todo' = << <<Child, FALSE>>, <<Parent, TRUE>> >>
                      /\ GoOn("lookRemove")
                 ELSE GoOn("remove") /\ UNCHANGED todo
           \/ ReadFails("failed") /\ UNCHANGED todo
        /\ UNCHANGED <<remote, quiet, did, touched>>

RemoveRequest ==
    LET p == Head(todo)[1]
    IN  /\ pc = "remove"
        /\ Request([remote EXCEPT ![p] = Nothing],
                   There(p) /\ (p = Parent /\ remote[p].kind = "directory" => ~There(Child)),
                   {p}, "removed", "failed")
        /\ UNCHANGED <<todo, quiet, touched>>

NextRemoval ==
    /\ pc = "removed" /\ todo' = Tail(todo)
    /\ GoOn(IF Len(todo) = 1 THEN "list" ELSE "remove")     \* the parent: already looked at
    /\ UNCHANGED <<remote, errors, quiet, did, touched>>

-----------------------------------------------------------------------------
(* SetPermissions: a batch goes on after an error the session survives.    *)

LookBeforeMode ==
    /\ pc = "lookMode"
    /\ \/ remote[Head(todo)].kind \in {"file", "directory"} /\ GoOn("setMode")
          /\ UNCHANGED errors
       \/ remote[Head(todo)].kind \in {"none", "link"} /\ GoOn("modeFailed")
          /\ errors' = Append(errors, ErrorOf("refused", FALSE))
       \/ ReadFails("modeFailed")
    /\ UNCHANGED <<remote, todo, quiet, did, touched>>

SetMode ==
    LET p == Head(todo)
    IN  /\ pc = "setMode"
        /\ Request([remote EXCEPT ![p].mode = 1], remote[p].kind \in {"file", "directory"},
                   {p}, "modeSet", "modeFailed")
        /\ UNCHANGED <<todo, quiet, touched>>

(* flag: refreshNeeded, "only when permissions changed or an uncertain     *)
(* result needs observing".                                                *)
NextMode ==
    LET failed == pc = "modeFailed"
    IN  /\ pc \in {"modeSet", "modeFailed"} /\ todo' = Tail(todo)
        /\ cmd' = [cmd EXCEPT !.flag = @ \/ ~failed \/ errors[Len(errors)].mayHave]
        /\ GoOn(CASE failed /\ ~SessionUsableAfter(errors[Len(errors)]) -> "failed"
                  [] OTHER -> IF Len(todo) = 1 \/ stop THEN "batchEnds" ELSE "lookMode")
        /\ UNCHANGED <<protocol, remote, shown, given, errors, stop, foreign, did, touched,
                       unseen>>

RefreshOnSuccess ==                                                \* mutant
    /\ pc = "batchEnds"
    /\ GoOn(IF stop \/ errors # <<>> THEN "idle" ELSE "list")
    /\ UNCHANGED <<remote, todo, errors, quiet, did, touched>>

RefreshIfNeeded ==
    /\ pc = "batchEnds"
    /\ GoOn(IF stop \/ ~cmd.flag THEN "idle" ELSE "list")
    /\ UNCHANGED <<remote, todo, errors, quiet, did, touched>>

-----------------------------------------------------------------------------
(* After a command: the listing, or the error and perhaps the end.         *)

List ==
    /\ pc = "list"
    /\ \/ /\ shown' = Listing /\ unseen' = FALSE
          /\ GoOn("idle") /\ UNCHANGED errors
       \/ /\ unseen' = TRUE /\ UNCHANGED shown
          /\ \E cause \in Causes \ {"exists", "unsupported"} :
                /\ CauseAllowed(cause)
                /\ errors' = Append(errors, ErrorOf(cause, FALSE))
                /\ GoOn(IF SessionUsableAfter(errors'[Len(errors')]) THEN "idle" ELSE "lost")
    /\ UNCHANGED <<protocol, remote, cmd, given, todo, stop, foreign, did, touched>>

(* An error other than a taken name ends the command; the pane stays as it *)
(* is, whatever the command had done by then.                              *)
Fail ==
    LET e == errors[Len(errors)]
    IN  /\ pc = "failed"
        /\ GoOn(IF cmd.op = "create" /\ ~cmd.flag /\ e.cause = "exists" THEN "ask"
                ELSE IF SessionUsableAfter(e) THEN "idle" ELSE "lost")
        /\ unseen' = (unseen \/ did # {})
        /\ UNCHANGED <<protocol, remote, shown, cmd, given, todo, errors, stop, foreign, did,
                       touched>>

(* The thread ends, told to or not; a tab may connect again.               *)
Leave ==
    /\ pc = "lost" \/ (pc = "idle" /\ stop)
    /\ GoOn("idle") /\ stop' = FALSE
    /\ shown' = Listing /\ unseen' = FALSE
    /\ cmd' = NoCommand /\ todo' = <<>> /\ errors' = <<>> /\ did' = {} /\ touched' = {}
    /\ UNCHANGED <<protocol, remote, given, foreign>>

RequestStop ==
    /\ ~stop /\ stop' = TRUE
    /\ UNCHANGED <<protocol, remote, shown, pc, cmd, given, todo, errors, foreign, did,
                   touched, unseen>>

ChangeRemote(p) ==
    /\ foreign < MaxForeign /\ foreign' = foreign + 1
    /\ \E kind \in {"none", "file", "link"} :
          /\ kind # remote[p].kind
          /\ kind # "file" => remote[p].kind # "directory"
          /\ remote' = [remote EXCEPT ![p] = [kind |-> kind, mode |-> 0]]
    /\ p = Parent => ~There(Child)
    /\ p = Child => remote[Parent].kind = "directory"
    /\ touched' = touched \cup {p} /\ unseen' = TRUE
    /\ UNCHANGED <<protocol, shown, pc, cmd, given, todo, errors, stop, did>>

PaneNext ==
    \/ Refresh \/ MakeDirectory \/ NextComponent \/ LookForDirectory
    \/ LookForFile \/ OpenExclusive \/ CloseCreatedFile \/ AnswerCreate \/ OpenTemp
    \/ CreatedTemp \/ CleanUpTemp \/ LookForDestination \/ ReplaceWithPosixRename
    \/ RenameRequest \/ LookBeforeRemove \/ RemoveRequest \/ NextRemoval
    \/ LookBeforeMode \/ SetMode \/ NextMode \/ RefreshIfNeeded
    \/ List \/ Fail \/ Leave \/ RequestStop
    \/ \E p \in Top \cup {Child}, flag \in BOOLEAN : Mkdir(p, flag) \/ Remove(p, flag)
    \/ \E p \in Top : CreateFile(p) \/ ChangeRemote(p)
    \/ \E p, q \in Top, flag \in BOOLEAN : RenameEntry(p, q, flag)
    \/ \E p, q \in Top : SetPermissions(IF p = q THEN <<p>> ELSE <<p, q>>)

PaneSpec == PaneInit /\ [][PaneNext]_paneVars

-----------------------------------------------------------------------------
PaneTypeOK ==
    /\ protocol \in {"sftp", "ftp"}
    /\ remote \in [Paths -> [kind: EntryKinds, mode: {0, 1}]]
    /\ shown \in [Top -> [kind: EntryKinds, mode: {0, 1}]]
    /\ given \in 0 .. MaxCommands /\ foreign \in 0 .. MaxForeign
    /\ \A i \in DOMAIN errors : errors[i] \in [cause: Causes, mayHave: BOOLEAN]
    /\ Len(errors) <= 3 /\ Len(todo) <= 2
    /\ stop \in BOOLEAN /\ unseen \in BOOLEAN
    /\ did \subseteq Paths /\ touched \subseteq Paths
    /\ remote[Child].kind # "none" => remote[Parent].kind = "directory"

(* A command of one change that failed without saying that it may have     *)
(* succeeded has changed nothing it names, however many requests it took   *)
(* and wherever a stop or a lost connection met it ("True only when a      *)
(* failed mutating command may have reached the server").  A recursive one *)
(* may stop half-way.                                                      *)
OneChange ==
    cmd.op \in {"create", "rename"} \/ (cmd.op \in {"mkdir", "remove"} /\ ~cmd.flag)

HonestFailures ==
    pc = "failed" /\ OneChange /\ ~errors[Len(errors)].mayHave => did = {}

(* Between commands the pane shows the directory as it is, unless an error *)
(* was reported after part of the work was done, a listing failed, or      *)
(* others changed it: in particular after a batch of permission changes of *)
(* which some were refused and some may have been lost (refreshNeeded).    *)
ListingIsCurrent ==
    pc = "idle" /\ ~stop /\ ~unseen => \A p \in Top : shown[p] = remote[p]

(* A failed command that does not say that it may have succeeded changed   *)
(* nothing, and between commands the pane shows the directory as it is,    *)
(* also after failures.                                                    *)
PaneIsHonest == PaneTypeOK /\ HonestFailures /\ ListingIsCurrent

(* A creation or a rename that was not asked to replace replaces only what *)
(* others put there after its last look.                                   *)
ReplacesOnlyUnseen ==
    pc = "rename" /\ remote' # remote /\ There(Target) /\ ~cmd.flag => Target \in touched
UnaskedReplacesNothing == [][ReplacesOnlyUnseen]_paneVars
=============================================================================
