----------------------------- MODULE ExternalEdit -----------------------------
(***************************************************************************)
(* Remote files opened in an editor (mainFrame.cpp: ExternalEditSession    *)
(* and its handlers; RemoteController: Inspect, committedUploadRevisions). *)
(* The window downloads a working copy, watches it by a timer, enqueues an *)
(* upload for what the editor saved, and has the browser look at what was  *)
(* committed before it watches again.                                      *)
(*                                                                         *)
(* Sessions edit one remote file.  A version of a copy is 0 as downloaded, *)
(* then the number of the save; every save has a stamp of its own, and     *)
(* every write of the server's file a revision of its own (servers that    *)
(* report no times leave only the size to tell them by).  How an upload    *)
(* replaces a file is UploadFile's; here it reads, compares and commits,   *)
(* commits after a question, or fails.                                     *)
(***************************************************************************)
EXTENDS Naturals, Sequences, SequencesExt

CONSTANTS
    Sessions,
    None,
    SizeOf,             \* the size of every version
    Sizes,              \* of what others write
    MaxSaves, MaxRevision, MaxGeneration, MaxRetries,        \* bounds
    MaxEvents           \* bound on what waits for the window

VARIABLES
    remote,             \* the file on the server: [revision, by, version, size]
    copies,             \* the working copies: version, or None while an editor replaces it
    saves,              \* versions saved so far
    edits,              \* mExternalEditSessions
    jobs,               \* the download and the last upload of every session
    committed,          \* committedUploadRevisions of the file
    commands,           \* Inspect commands of the browser
    events,             \* posted to the window
    online,             \* connectedGeneration, 0 when there is none
    tab,                \* activeConnectionGeneration, 0 when disconnected
    generation,
    known,              \* history: revisions a session opened, wrote or could not tell from its own
    hurried             \* history: sessions whose copy was saved before a retry was noticed

vars == <<remote, copies, saves, edits, jobs, committed, commands, events, online, tab,
          generation, known, hurried>>
serverVars == <<remote, committed>>
copyVars == <<copies, saves>>
connectionVars == <<online, tab, generation>>
historyVars == <<known, hurried>>

Phases == {"unused", "Downloading", "Watching", "Uploading", "Inspecting", "Failed", "Detached"}
JobStates == {"none", "Queued", "Running", "Completed", "Failed", "Cancelled"}
Unfinished(state) == state \in {"Queued", "Running"}

FreshEdit == [phase |-> "unused", generation |-> 0, revision |-> 0, synchronized |-> None,
              observed |-> None, queued |-> None, stable |-> FALSE, missing |-> FALSE,
              uploadJob |-> 0, request |-> 0]
FreshJobs == [download |-> "none", upload |-> "none", number |-> 0, expected |-> 0,
              read |-> None, written |-> FALSE, retries |-> 0]

Init ==
    /\ remote = [revision |-> 1, by |-> None, version |-> None, size |-> SizeOf[0]]
    /\ copies = [s \in Sessions |-> None] /\ saves = [s \in Sessions |-> 0]
    /\ edits = [s \in Sessions |-> FreshEdit]
    /\ jobs = [s \in Sessions |-> FreshJobs]
    /\ committed = None /\ commands = <<>> /\ events = <<>>
    /\ online = 1 /\ tab = 1 /\ generation = 1
    /\ known = [s \in Sessions |-> {}] /\ hurried = {}

Write(by, version, size) ==
    remote' = [revision |-> remote.revision + 1, by |-> by, version |-> version, size |-> size]

(* PostQueue: a snapshot of the transfers.                                 *)
Snapshot(js) ==
    [kind |-> "queue",
     jobs |-> [s \in Sessions |-> [download |-> js[s].download, upload |-> js[s].upload,
                                   number |-> js[s].number]]]
Post(event) == Len(events) < MaxEvents /\ events' = Append(events, event)
PostQueue(js) == jobs' = js /\ Post(Snapshot(js))
With(e, s) == edits' = [edits EXCEPT ![s] = e]

-----------------------------------------------------------------------------
(* The editor, and other users of the server                               *)

Opened(s) == edits[s].phase \notin {"unused", "Downloading"}

Save(s) ==
    /\ Opened(s) /\ saves[s] < MaxSaves
    /\ saves' = [saves EXCEPT ![s] = @ + 1]
    /\ copies' = [copies EXCEPT ![s] = saves[s] + 1]
    /\ hurried' = IF edits[s].phase = "Failed" /\ jobs[s].upload \in {"Running", "Completed"}
                  THEN hurried \cup {s} ELSE hurried
    /\ UNCHANGED <<serverVars, edits, jobs, commands, events, connectionVars, known>>

(* An editor that replaces the file, or a user who deletes it.             *)
Unlink(s) ==
    /\ Opened(s) /\ copies[s] # None /\ saves[s] < MaxSaves
    /\ copies' = [copies EXCEPT ![s] = None]
    /\ UNCHANGED <<serverVars, saves, edits, jobs, commands, events, connectionVars, historyVars>>

(* An upload was committed and is not looked at yet: what others write now,*)
(* of the same size, cannot be told from it.                               *)
Unseen(s) == jobs[s].written

WriteByOthers(size) ==
    /\ remote.revision < MaxRevision
    /\ Write(None, None, size)
    /\ known' = [s \in Sessions |->
          IF Unseen(s) /\ SizeOf[jobs[s].read] = size
          THEN known[s] \cup {remote'.revision} ELSE known[s]]
    /\ UNCHANGED <<copyVars, edits, jobs, committed, commands, events, connectionVars, hurried>>

-----------------------------------------------------------------------------
(* The window opens the file: the revision is that of a listing.           *)

Editing(s) == edits[s].phase \notin {"unused", "Failed", "Detached"}

StartRemoteEdit(s, listed) ==
    /\ tab # 0 /\ edits[s].phase = "unused" /\ ~\E other \in Sessions : Editing(other)
    /\ With([FreshEdit EXCEPT !.phase = "Downloading", !.generation = tab,
                              !.revision = listed], s)
    /\ PostQueue([jobs EXCEPT ![s].download = "Queued"])
    /\ known' = [known EXCEPT ![s] = {listed}]
    /\ UNCHANGED <<serverVars, copyVars, commands, connectionVars, hurried>>

(* The guarded download of the copy (expectedRemoteRevision).              *)
Download(s) ==
    /\ online # 0 /\ jobs[s].download = "Queued"
    /\ \/ /\ remote.revision = edits[s].revision
          /\ copies' = [copies EXCEPT ![s] = 0]
          /\ PostQueue([jobs EXCEPT ![s].download = "Completed"])
       \/ /\ copies' = copies
          /\ PostQueue([jobs EXCEPT ![s].download = "Failed"])
    /\ UNCHANGED <<serverVars, saves, edits, commands, connectionVars, historyVars>>

-----------------------------------------------------------------------------
(* The upload worker                                                       *)

(* The copy is opened and read; a save meanwhile is noticed by the upload. *)
(* The uploads of a file follow each other (ReserveRemoteDestination).     *)
BeginUpload(s) ==
    /\ online # 0 /\ jobs[s].upload = "Queued"
    /\ \A other \in Sessions : jobs[other].upload # "Running"
    /\ IF copies[s] = None
       THEN PostQueue([jobs EXCEPT ![s].upload = "Failed"])
       ELSE PostQueue([jobs EXCEPT ![s].upload = "Running", ![s].read = copies[s]])
    /\ UNCHANGED <<serverVars, copyVars, edits, commands, connectionVars, historyVars>>

(* The server has the revision the session expects, or the user agrees to  *)
(* replace the one it has (RemoteChanged).                                 *)
Commit(s, agreed) ==
    /\ jobs[s].upload = "Running" /\ ~jobs[s].written
    /\ agreed \/ remote.revision = jobs[s].expected
    /\ Write(s, jobs[s].read, SizeOf[jobs[s].read])
    /\ jobs' = [jobs EXCEPT ![s].written = TRUE]
    /\ known' = [known EXCEPT ![s] = @ \cup {remote'.revision}]
    /\ UNCHANGED <<copyVars, committed, edits, commands, events, connectionVars, hurried>>

FailUpload(s) ==
    /\ jobs[s].upload = "Running"
    /\ PostQueue([jobs EXCEPT ![s].upload = "Failed", ![s].written = FALSE])
    /\ UNCHANGED <<serverVars, copyVars, edits, commands, connectionVars, historyVars>>

(* The session's Stat after the commit.                                    *)
LookAtCommitted(s) ==
    /\ jobs[s].upload = "Running" /\ jobs[s].written
    /\ IF remote.size = SizeOf[jobs[s].read]
       THEN /\ committed' = [generation |-> generation, revision |-> remote.revision]
            /\ PostQueue([jobs EXCEPT ![s].upload = "Completed", ![s].written = FALSE])
       ELSE /\ UNCHANGED committed
            /\ PostQueue([jobs EXCEPT ![s].upload = "Failed", ![s].written = FALSE])
    /\ UNCHANGED <<remote, copyVars, edits, commands, connectionVars, historyVars>>

(* The user retries a failed transfer, while its controller is connected.  *)
Retry(s) ==
    /\ online # 0 /\ edits[s].phase \in {"Failed", "Detached"}
    /\ jobs[s].retries < MaxRetries
    /\ \/ /\ jobs[s].download = "Failed"
          /\ PostQueue([jobs EXCEPT ![s].download = "Queued", ![s].retries = @ + 1])
       \/ /\ jobs[s].upload = "Failed"
          /\ PostQueue([jobs EXCEPT ![s].upload = "Queued", ![s].retries = @ + 1])
    /\ UNCHANGED <<serverVars, copyVars, edits, commands, connectionVars, historyVars>>

-----------------------------------------------------------------------------
(* HandleExternalEditTransfers, for the session a snapshot tells of        *)

Noticed(e, copy) ==
    IF copy = None THEN [e EXCEPT !.phase = "Uploading"]
    ELSE [e EXCEPT !.phase = "Uploading", !.queued = copy, !.observed = copy,
                   !.stable = FALSE, !.missing = FALSE]

AfterDownload(e, copy, job, launched) ==
    LET d == IF e.phase = "Failed" /\ e.uploadJob = 0 /\ Unfinished(job.download)
             THEN [e EXCEPT !.phase = "Downloading"] ELSE e
    IN  IF d.phase = "Downloading" /\ job.download = "Completed"
        THEN IF copy = None \/ ~launched THEN [d EXCEPT !.phase = "Failed"]
             ELSE [d EXCEPT !.phase = "Watching", !.synchronized = copy, !.observed = copy,
                            !.stable = FALSE, !.missing = FALSE]
        ELSE IF d.phase = "Downloading" /\ job.download \in {"Failed", "Cancelled"}
        THEN [d EXCEPT !.phase = "Failed"] ELSE d

AfterUpload(e, copy, job) ==
    LET u == IF e.phase = "Failed" /\ Unfinished(job.upload) THEN Noticed(e, copy) ELSE e
    IN  IF u.phase # "Uploading" THEN u
        ELSE IF job.upload = "Completed"
        THEN [u EXCEPT !.phase = "Inspecting", !.request = job.number]
        ELSE IF job.upload \in {"Failed", "Cancelled"} THEN [u EXCEPT !.phase = "Failed"]
        ELSE u

(* What becomes of a session: an editor that cannot be launched ends the   *)
(* handling of its transfers.                                              *)
Handled(e, copy, job, launched) ==
    LET d == AfterDownload(e, copy, job, launched) IN
    IF e.phase = "Detached" THEN e
    ELSE IF d.phase = "Failed" /\ job.download = "Completed" /\ e.uploadJob = 0 THEN d
    ELSE IF e.uploadJob = 0 \/ e.uploadJob # job.number THEN d
    ELSE AfterUpload(d, copy, job)

HandleExternalEditTransfers(snapshot, launched) ==
    /\ edits' = [s \in Sessions |-> Handled(edits[s], copies[s], snapshot[s], launched)]
    /\ commands' = commands \o SetToSeq({[session |-> s, request |-> snapshot[s].number] :
           s \in {t \in Sessions : edits'[t].phase = "Inspecting" /\ edits[t].phase # "Inspecting"}})
    /\ UNCHANGED <<serverVars, copyVars, jobs, connectionVars, historyVars>>

-----------------------------------------------------------------------------
(* The browser executes Inspect: the file is what was committed, or it is  *)
(* reported to have changed since.                                         *)

InspectSizeOnly ==                                                 \* mutant
    /\ online # 0 /\ commands # <<>>
    /\ commands' = Tail(commands)
    /\ committed' = None
    /\ Post([kind |-> "inspected", of |-> Head(commands), generation |-> generation,
             size |-> remote.size, revision |-> remote.revision])
    /\ UNCHANGED <<remote, copyVars, edits, jobs, connectionVars, historyVars>>

Inspect ==
    /\ online # 0 /\ commands # <<>>
    /\ commands' = Tail(commands)
    /\ committed' = None
    /\ LET changed == /\ committed # None
                      /\ committed.generation = generation
                      /\ committed.revision # remote.revision
       IN  \E failed \in {changed, TRUE} :
              Post([kind |-> "inspected", of |-> Head(commands), generation |-> generation,
                    size |-> IF failed THEN None ELSE remote.size, revision |-> remote.revision])
    /\ UNCHANGED <<remote, copyVars, edits, jobs, connectionVars, historyVars>>

(* RemoteInspectionEvent                                                   *)
HandleInspection(event) ==
    LET s == event.of.session
        e == edits[s]
    IN  /\ IF \/ e.request # event.of.request \/ e.generation # event.generation
              \/ e.phase # "Inspecting"
           THEN edits' = edits
           ELSE IF event.size # None /\ e.queued # None /\ event.size = SizeOf[e.queued]
           THEN With([e EXCEPT !.revision = event.revision, !.synchronized = e.queued,
                               !.queued = None, !.uploadJob = 0, !.request = 0,
                               !.phase = "Watching"], s)
           ELSE With([e EXCEPT !.phase = "Failed", !.request = 0], s)
        /\ UNCHANGED <<serverVars, copyVars, jobs, commands, connectionVars, historyVars>>

Detached(es) ==
    [s \in Sessions |-> IF es[s].phase \in {"unused", "Failed", "Detached"} THEN es[s]
                        ELSE [es[s] EXCEPT !.phase = "Detached"]]

HandleLoss(event) ==
    /\ IF event.generation = tab
       THEN edits' = Detached(edits) /\ tab' = 0
       ELSE UNCHANGED <<edits, tab>>
    /\ UNCHANGED <<serverVars, copyVars, jobs, commands, online, generation, historyVars>>

HandleEvent ==
    /\ events # <<>>
    /\ events' = Tail(events)
    /\ \/ /\ Head(events).kind = "queue"
          /\ \E launched \in BOOLEAN : HandleExternalEditTransfers(Head(events).jobs, launched)
       \/ Head(events).kind = "inspected" /\ HandleInspection(Head(events))
       \/ Head(events).kind = "lost" /\ HandleLoss(Head(events))

-----------------------------------------------------------------------------
(* OnExternalEditTimer: a save is seen by one tick and uploaded by a later *)
(* one, a copy that is missing given up.                                   *)

Watched(s) == edits[s].phase \in {"Watching", "Uploading", "Inspecting"}

SeeNoFile(s) ==
    /\ copies[s] = None /\ edits[s].phase = "Watching"
    /\ \/ With([edits[s] EXCEPT !.missing = TRUE], s)
       \/ edits[s].missing /\ With([edits[s] EXCEPT !.phase = "Failed"], s)
    /\ UNCHANGED <<jobs, events, hurried>>

SeeSave(s) ==
    /\ Watched(s) /\ copies[s] # None /\ edits[s].observed # copies[s]
    /\ With([edits[s] EXCEPT !.missing = FALSE, !.observed = copies[s], !.stable = TRUE], s)
    /\ UNCHANGED <<jobs, events, hurried>>

(* BeginExternalEditUpload: the upload is enqueued, or refused because it  *)
(* cannot be saved.                                                        *)
QueueSaved(e, number) ==
    [e EXCEPT !.missing = FALSE, !.uploadJob = number, !.queued = e.observed, !.stable = FALSE,
              !.phase = "Uploading"]

BeginExternalEditUpload(s) ==
    LET e == edits[s]
        number == jobs[s].number + 1
    IN  /\ e.phase = "Watching" /\ copies[s] # None /\ e.observed = copies[s]
        /\ e.observed # e.synchronized /\ e.stable
        /\ IF tab = 0 \/ tab # e.generation
           THEN With([e EXCEPT !.phase = "Detached"], s) /\ UNCHANGED <<jobs, events>>
           ELSE \/ /\ With(QueueSaved(e, number), s)
                   /\ PostQueue([jobs EXCEPT ![s] = [@ EXCEPT !.upload = "Queued", !.number = number,
                                                              !.expected = e.revision]])
                \/ With([e EXCEPT !.phase = "Failed"], s) /\ UNCHANGED <<jobs, events>>
        /\ hurried' = hurried \ {s}

OnExternalEditTimer(s) ==
    /\ SeeNoFile(s) \/ SeeSave(s) \/ BeginExternalEditUpload(s)
    /\ UNCHANGED <<serverVars, copyVars, commands, connectionVars, known>>

-----------------------------------------------------------------------------
(* The connection                                                          *)

Lose ==
    /\ online # 0
    /\ online' = 0
    /\ Post([kind |-> "lost", generation |-> online])
    /\ UNCHANGED <<serverVars, copyVars, edits, jobs, commands, tab, generation, historyVars>>

Cancelled(state) == IF state = "Running" THEN "Cancelled" ELSE state

(* OnDisconnect: the window first, then StopWorkers.                       *)
Disconnect ==
    /\ tab # 0
    /\ edits' = Detached(edits) /\ tab' = 0 /\ online' = 0
    /\ PostQueue([s \in Sessions |-> [jobs[s] EXCEPT !.upload = Cancelled(@), !.written = FALSE]])
    /\ commands' = <<>> /\ committed' = None
    /\ UNCHANGED <<remote, copyVars, generation, historyVars>>

Connect ==
    /\ tab = 0 /\ generation < MaxGeneration
    /\ generation' = generation + 1 /\ tab' = generation' /\ online' = generation'
    /\ PostQueue([s \in Sessions |-> [jobs[s] EXCEPT !.upload = Cancelled(@), !.written = FALSE]])
    /\ commands' = <<>> /\ committed' = None
    /\ UNCHANGED <<remote, copyVars, edits, historyVars>>

Next ==
    \/ \E s \in Sessions :
          \/ Save(s) \/ Unlink(s) \/ Download(s)
          \/ BeginUpload(s) \/ FailUpload(s) \/ LookAtCommitted(s) \/ Retry(s)
          \/ OnExternalEditTimer(s)
          \/ \E listed \in 1 .. remote.revision : StartRemoteEdit(s, listed)
          \/ \E agreed \in BOOLEAN : Commit(s, agreed)
    \/ \E size \in Sizes : WriteByOthers(size)
    \/ Inspect \/ HandleEvent \/ Lose \/ Disconnect \/ Connect

Spec == Init /\ [][Next]_vars

-----------------------------------------------------------------------------
(* What is watched and shows no difference is on the server: every save    *)
(* reached it, through whatever races of editor, timer, worker and browser *)
(* (queuedStamp, synchronizedStamp), unless others wrote since.  (A save   *)
(* between a retry and its notice may not: README.)                        *)
SavesArrive ==
    \A s \in Sessions \ hurried :
        /\ edits[s].phase = "Watching"
        /\ copies[s] = edits[s].synchronized
        /\ remote.by = s
        => remote.version = copies[s]

(* The revision the next upload will replace without a question is one     *)
(* this session opened or wrote, or cannot be told from it                 *)
(* (committedUploadRevisions, Inspect).                                    *)
ExpectsWhatItKnows ==
    \A s \in Sessions : edits[s].phase # "unused" => edits[s].revision \in known[s]

(* A session that waits for an inspection will hear of it: it is the       *)
(* browser's to make or on its way, or the loss of the connection is.      *)
InspectionsCome ==
    \A s \in Sessions : edits[s].phase = "Inspecting" =>
        /\ edits[s].generation = generation
        /\ \/ \E i \in DOMAIN commands : commands[i] = [session |-> s, request |-> edits[s].request]
           \/ \E i \in DOMAIN events :
                 \/ events[i].kind = "lost"
                 \/ events[i].kind = "inspected" /\ events[i].of.session = s
=============================================================================
