# Verification of havRemote

havRemote is a desktop FTP and SFTP client: one window with several connection
tabs, each with a local and a remote file pane, and one list of transfers that
survives restarts. The interface runs on one thread (the wxWidgets event loop);
every tab has a browser thread and several transfer workers of its own, and the
threads meet through mutexes, condition variables, posted events, a persistent
queue file, and modal dialogs whose nested event loops run handlers in the
middle of other handlers. The file transfers themselves are a protocol between
the client, a server that other people change, and a local disk that outlives
the process.

This directory holds TLA+ modules of that system, the TLC configurations that
check them on small instances, and theorems about them proved with TLAPS.
`PROJECT.json` lists the components, runs, mutants, theorems and hazards, and maps
each definition to the lines it models. To repeat a check:

    tlc -config MCTransferController.cfg MCTransferController
    tlapm TransferControllerProofs.tla

Contents: [inventory](#1-inventory), [plan](#2-plan),
[the modules](#3-the-modules), [runs](#4-runs-bounds-and-what-they-show),
[fairness](#5-fairness), [proofs](#6-proofs), [findings](#7-findings),
[limits](#8-what-is-not-modelled).

## 1. Inventory

Paths are relative to the repository's `src/` and `include/` directories.

### 1.1 Transfers

**Transfer queue** (`core/transferQueue.cpp`). State: the vector of jobs, each
with its state, attempt number, error, progress and destination overrides.
Operations: enqueue, take next, the state transitions, progress, resolve
destination, retry, remove, snapshot, restore. Every operation holds one mutex.
Used by the controller's workers and by the interface thread. Hard: long mixes
of reports, failures, retries and restarts. Correct when errors match states,
progress stays within its total and never moves backwards on its own, renamed
destinations never collide or leave their root, and every snapshot it can take
is one its own restore accepts (restore refuses a snapshot as a whole).

**Transfer runtime** (`core/transferRuntime.cpp`). State: the count of active
transfers and the sets of reserved local and remote destinations, shared by all
tabs. Operations: acquire and release a lease (blocking, with a stop token),
reserve and release destinations, where two spellings of a path may be one
file. Hard: the limit, release on error paths, aliasing, a wait nobody
notifies. Correct when leases are counted exactly, no two workers hold one
file, a release frees what was held and nothing else, and a stop request ends
every wait.

**Remote controller: transfer coordination** (`ui/remoteController.cpp`). State:
the queue, the control map (Pause or Cancel requested of a job), the workers and
their stop tokens, the connected generation, and an ordered stream of events to
the main window, which saves the queue file. Operations: Connect, Disconnect,
Enqueue, Pause, Cancel, Retry, RemoveTerminalTransfers, PrepareForShutdown, and
the loop of each worker. Hard: requests racing claims and results, saves racing
both, joining threads that need the joiner, modal dialogs under a mutex, exit.
Correct when an active job has exactly one worker, an accepted cancellation
holds, nothing runs before the queue file knows it, the last event shows the
last state, the file catches up, and stopping returns.

**Interface dispatch** (`InvokeUi` in `ui/remoteController.cpp`). State: the turn
(`promptActive`), the dispatcher's generation and enabled flag, one promise per
call. Workers have a callback run on the interface thread and poll for its
result. Hard: a stop while the call is queued, running or finished; calls that
outlive their connection; nested dialogs. Correct when one question is open at
a time and the turn is never lost, each promise is set once, and joining a
worker that waits for the joining thread returns.

**Download and upload of a file** (`ProcessTransfer` in
`ui/remoteController.cpp`, `Download` and `Upload` in `protocol/sftpSession.cpp`
and `protocol/ftpSession.cpp`). State: partial and temporary files, checkpoints
(`downloadResumes`, `uploadResumes`), reservations, the saved queue. A transfer is
planned, may ask about a conflict, reserves its destination, runs in the session
and is committed by a rename; what an early stop leaves is described by a
checkpoint that a later attempt may resume from. Hard: sources, partial files and
destinations that change between any two steps; two jobs with one destination;
failures at every step; restarts. Correct when a checkpoint that still fits
tells the truth, what is committed is one version of its source, no transfer
touches another's bytes, and no file is replaced that nobody asked about.

**Conflict choices** (`ResolveTransferConflict`). State: the policy remembered for
each direction and the set of jobs it covers. Hard: "apply to remaining" is taken
from an answer and a later snapshot of the queue. Correct when a choice covers
exactly the jobs that were waiting and ends with its connection.

**Browser thread** (`BrowserLoop`). State: a queue of commands, the session, the
current directory, revisions committed by uploads. Operations: browse, refresh,
inspect, create, rename, remove, permissions. Several are more than one request to
the server, each of which may be refused, applied, or lost on its way back. It publishes the connected
generation that Retry requires and takes it back when the connection is lost.
Correct when events carry their generation, a lost connection ends every later
command, and a committed revision is compared exactly once.

**FTP session, SFTP session, key files and host key policy** (`protocol/`). State:
the connection, the control trace, trusted keys, upload replies. Operations:
connect with trust decisions, list, stat, rename with its fallbacks, upload,
download, remove. Hard: replies lost after the effect, servers without the needed
extensions, the known hosts file rewritten by two sessions. Correct when an error
that may have succeeded says so, a rename that must not replace does not, and an
accepted key is never lost.

### 1.2 Main window

**Connection tabs** (`ui/mainFrame.cpp`). State: the tabs with controller,
generation and saved description. Operations: open, connect, close, restore after
a restart, save the workspace. Hard: events of earlier generations, saves that
fail, restored items whose tab is missing. Correct when no restored item is lost
and no event of an old generation changes a tab.

**External edits** (`ui/mainFrame.cpp`, `platform/externalEditor.cpp`). State: per edit
a phase (downloading, watching, uploading, inspecting, failed, detached), two job
ids, local stamps and the remote revision. Driven by a timer, queue events and
inspections. Hard: another save of the edited copy while its upload runs. Correct
when every saved edit is uploaded or reported, and none overwrites a revision the
user did not see.

**Credential clean-up** (`platform/credentialCleanup.cpp`, `platform/credentialStore.cpp`).
State: pending identifiers in the configuration, sites, active connections, the
store. Correct when a credential in use or referenced again is not erased, and an
unreferenced one eventually is.

**Local directory loader** (`ui/localDirectoryLoader.cpp`,
`ui/localDirectoryWorkerLimiter.hpp`). State: generation, target, detached workers
that hold permits. Correct when no late listing reaches a destroyed or newer
target and each permit returns once.

**Site manager, import and export** (`ui/siteManagerModel.cpp`,
`config/siteTransfer.cpp`, `ui/siteManagerDialog.cpp`). State: a tree of folders and
sites, credential changes staged by the dialog. Correct when moves make no cycle
and lose nothing, an entry lands where it was dropped, and no two sites share a credential.

**Update check** (`update/`, `ui/updateDialog.cpp`). State: the check in flight, the
time of the last one, the settings. Correct when one check runs at a time.

**File panes, transfer list, small dialogs, message log** (`ui/`): display of the
above; the list of transfers computes rates and percentages.

### 1.3 Files and platform

**Configuration repository, queue repository** (`config/`). Documents edited in
place by stable keys, validated, and replaced atomically. Correct when a failed
save leaves file and memory as they were, a reload gives what was saved, and
every state the controller can reach can be saved.

**Path safety and destination names** (`platform/`): remote names to local ones
without collisions. **Log sanitizer** (`core/logSanitizer.cpp`): correct when what it wrote it leaves as it is, for
the queue file is read with that test. **Core types, translations, recycle bin, help
launcher, start of the program, build and packaging**: values, texts and single
calls.

### 1.4 How they interact

    interface thread                     worker threads of a tab
    MainFrame --requests--> RemoteController ---queue, control map--> TransferLoop
       ^  ^                      |    ^                               |  |  |
       |  +---ordered events-----+    +------- InvokeUi (turn) -------+  |  |
       |      (QueueEvent: save)          questions, saves               |  |
       v                                                                 v  v
    queue.cson, configuration         TransferRuntime (all tabs)      sessions:
                                      leases and reservations         server, disk

The same thread presses buttons, answers questions, saves the queue and joins the
workers. Most of what can go wrong goes wrong because of that.

## 2. Plan

Modules in the order they were planned.

| Module | Component | Composed with | State |
|---|---|---|---|
| `TransferStates` | states and controls | all below | done |
| `TransferQueue` | transfer queue | | done, proved |
| `TransferRuntime` | transfer runtime | | done, proved |
| `TransferLifecycle` | abstract life of a transfer | refined by the next | done |
| `TransferController` | workers, requests, events, saves | implements `TransferLifecycle` | done, proved |
| `UiDispatch` | `InvokeUi` | detail of `Ask` in the controller | done, proved |
| `DownloadFile` | download of a file | reservations of `TransferRuntime` | done, proved |
| `UploadFile` | upload of a file | reservations of `TransferRuntime` | done, proved |
| `RemoteFiles` | commands of the browser thread, in both protocols | | done, proved |
| `SftpConnect`, `FtpConnect` | trust and authentication of the two sessions | | done, proved |
| `ConflictChoice` | policies and apply to remaining | questions of `UiDispatch` | done, proved |
| `ExternalEdit` | edit sessions over jobs and inspections | jobs, browser and server cut down to what an edit sees | done |
| `ConfigFile`, `QueueFile` | the two documents and their repositories | `QueueFile` restores into tabs | done |
| `LogSanitizer` | log sanitizer | messages of `QueueFile` | done |
| `Workspace` | tabs, quick history, saved tabs, credential clean-up | | done, proved |
| `Sites` | tree of sites and folders, import, Site Manager | | done |
| `LocalDirectories` | local panes, loader, permits | | done, proved |
| `PartCommit` | the two-step POSIX commit (link, then unlink) with crashes | refines the commit of `DownloadFile` | left |
| recursive transfers | plans of directories, `ValidatePlanDestinations` | | left |
| `UpdateCheck`, `DownloadNames`, `TransferList` | one check in flight; names; numeric edges | | left |

Abstract specifications worth stating: the life of a transfer (done); an atomic file for
the two commits (left, with `PartCommit`).

Theorems worth proving next: `EditsArrive` of `ExternalEdit` (for one session of a file), and the tree of `Sites`, whose runs check several modules at
once under renamed variables, so that a theorem needs the module on its own first.

## 3. The modules

### 3.1 Transfers

**TransferStates**: the states of a transfer (`TransferState`), the active and the terminal
ones, the transition relation `IsTransferTransitionAllowed`, and the three values of
`TransferControl`.

**TransferQueue**: `jobs` maps ids to records; the position in the vector is a record's
`rank`. One action per public operation, guards from its checks. A path is a member of
`Paths` with a directory (`ParentOf`) and a flag whether it lies inside the root of
recursive jobs. `Restore` saves, ends the process, and restores through the normalisation
the code applies; it is guarded by the code's own validation, and `SnapshotRestorable` says
the guard is never false.

**TransferRuntime**: `activeTransfers`, the two sets of reserved keys, and what each worker
holds. The file system's opinion of which spellings are one file is an arbitrary symmetric
relation `Aliases`. A download reserves its destination and then its partial file, in two
steps of the same worker, and releases both; the wait for a slot is abandoned on a stop
request.

**TransferController and TransferLifecycle**: each worker has a program counter through
`TransferLoop` (look at the queue, wait, acquire a lease, claim, post, connect, plan, mark
running, work, ask, finalize, post); the interface thread has one through each request
(`uiPc`). Actions are separate wherever another thread can act between two statements:
between the look at a job's state and the change of it, between a change and its event,
between a save and what follows it, between a worker's predicate and its wait.
`transferActionMutex` is the only mutex held across such steps and appears as
`UiHoldsAction`. Pause, cancel and exit write the control first (`PauseApply`, `CancelApply`, `PauseForExit`) and
change the queue in a second step, between which a worker may act; `BeingApplied` names the job in that short
state, and `QueuedIsWanted` and `CancelHolds` speak of every other. A save's first failure shows a dialog inside the save; its nested loop
dispatches events (`retryDialog`, `enqueueDialog`). The queue file is `saved`, one atomic
value; `Restart` may happen at any step, in order or as a crash, and restores from it. The
browser thread only publishes `connectedGeneration` and takes it back (`link`). What is
abstracted: which queued job is first (`TransferQueue`), what a transfer does to files
(`DownloadFile`, `UploadFile`), how a question reaches the interface (`UiDispatch`; here
`Ask`, `AnswerWorker` and `AbandonAsk`).

`TransferLifecycle` is what a tab promises: a job runs only when released, one worker at
a time holds it, only that worker ends it, ended work never runs again unless it
failed, and a restart runs nothing and loses nothing that was waiting, running or
failed. The controller implements it under the mapping `status <- StatusOf(state)`,
`holders <-` the workers whose `jobOf` is the job.

**UiDispatch**: `calls` is the sequence of invocations ever handed to the event queue, with
the place of each (queued, running in a dialog, closing, answering, obsolete, done). A
worker takes its turn under `promptMutex`, hands over, polls, may abandon. The interface
thread dispatches from its loop or under an open dialog; a new call under an open dialog
nests. Start, Disconnect and Shutdown are split into invalidate, tell and join, as in
`StopWorkers`.

**DownloadFile**: one file per job. Content is a sequence of chunks, each tagged with the
job and the source version it came from, so that a property can ask where bytes came from; a
modification time is a version number, for a partial file a `stamp`. Actions follow
`ProcessTransfer`: plan, inspect, ask, rename and persist, reserve; then the session: read
attributes, open, read chunks, verify, commit. `Interrupt` and `Refuse` are the ways a session
ends early, and both record a checkpoint (`StopSession`). Around them the queue is saved,
the process restarts, the source changes in place at any step, and the user creates files.
A session of a job in `SftpJobs` looks at the opened file once more before it commits
(`VerifiedUnchanged`), one of FTP does not. `GiveUp` is every way the question ends the attempt:
cancelled, a resume that is not safe, no free name. `vouched` and the field `sound` of a
checkpoint are history, no step looks at them: a session vouches for the partial file when it
began it, or went on with the very one that a sound checkpoint describes, and a checkpoint is
sound when the session that left it vouched for the file.
Two choices make the model harsher than a day's use: every version of a source has the same
size, since changes of size are easier to notice; and a cancelled job may be tried again.
One makes it gentler: the commit is one step (on POSIX it is link, then unlink; `PartCommit`
in the plan).

**UploadFile**: the mirror of it for uploads. Temporary files on the server are named by job
and attempt; the checkpoint names one and is saved before the first byte (`Remember`,
`Persist`). `Rename` replaces or not as the server likes, and its reply may be lost after
the effect. A job in `Guarded` saves an external edit: it observes the destination before
the rename (`Observe`), and any revision it did not expect is shown to the user
(`ConfirmOverwrite`) and observed again. Others replace, create and delete destinations and
clean up temporary files; `touched` records that they did so after the job's last look, which
no client can exclude.

**ConflictChoice**: the `conflictPromptMutex`, the remembered choice with the jobs it covers,
and the three moments of an answer for the whole queue: given (`Answer`), snapshot taken and
choice put in force (`Choose`), used (`Decide`). Jobs are enqueued, removed, retried and
completed in between. `promised` is what the user was told, in terms of the queue at the
moment of the answer.

**ExternalEdit**: the phases of an edit session, its two jobs, the stamps of the copy, the
browser's commands and the posted events, over two generations of the connection. A save of
the editor is a version with a stamp of its own; a write on the server is a revision of its
own, and `SizeOf` gives the size that is all some servers let one see. `OnExternalEditTimer`,
`HandleEvent` and the browser's `Inspect` are whole handlers. The uploads of one file follow each other, as its
reservation makes them. The runs have one session; what two of one file lose is in [findings](#7-findings).

### 3.2 Sessions

**RemoteFiles**: one command after the other (create a directory or a file, upload of an empty
file, rename, delete, permissions, browse, refresh), for both protocols. Each request to the
server is a step that may be refused, applied, or applied with its reply lost, and another
client acts between any two. `errors` keeps whether a failure says that it may have
succeeded. `HonestFailures` compares that with what was done, `ListingIsCurrent` the pane with the
directory; the run checks both as `PaneIsHonest`.

**SftpConnect**: sockets, handshake, `VerifyHost` with `KnownHostsUpdateMutex`, the five kinds
of authentication, the stop tokens and the join of the interface thread. A host may rotate
its key at any step. `agreed`, `trusted` and `disclosed` are history variables: keys stored,
keys accepted, and the server a secret went to. `FairSpec` is for the join.

**FtpConnect**: the probes of `PrepareTlsTrust` on connections of their own, the question, the
second probe, the login, and the logins libcurl repeats when the control connection is
replaced. Each of them meets the certificate the server presents at that moment.

### 3.3 Main window

**Workspace**: tabs with their draft, state, generation and directory; the controllers with
their own generation, and the events between them; quick history, remembered directories,
open tabs and credentials in the configuration, its saved file and the credential store.
A failed save opens a message box, during which events are dispatched; handlers are written
as relations from a window to the windows they may leave (`boxes` holds the rest of a
handler that waits). `OnSiteManager` stores several secrets one by one, and where the store refuses one
(`StoreRefused`) those before it are erased again, unless the store refuses that too: what is left is then in the
store and in no site. The site the manager is told to connect to is opened by `ConnectSavedSite`, an action of its own: it
may follow at once, as in the code, or after other events. `ForgottenStaysForgotten`, `ShownIsConnected` and `CredentialsInUseStay` are about what happens inside those boxes and with late events.

**Sites**: the tree of `siteManagerModel.cpp`, with the interleaved order of folders and sites;
selection, capture of the form, staged secrets, new, copy, rename, delete, drag and drop,
import with fresh ids and names, OK with its validation. Of an export only the capture of the form is there.

**LocalDirectories**: requests, generations, detached workers with permits, posted listings,
the fallback of a directory that cannot be opened, and the refresh a completed download asks
for while a listing is under way. A failure of the selected pane is told in a message box under which anything else of the
window may happen, that the tab is closed included (`told`); `CloseNotice` is the rest of the handler, the
look at the refresh that waits. The other box of these handlers (no permit left) is the last thing its handler does.

### 3.4 Files

**ConfigFile**: `havRemote.cson` as a document (known members, and a note per object for
comments and unknown members), data as the program holds it, `Decode`, `ApplyData` with its
matching of array items by identity, the migration of old schemas, and `Save` with its
second decoding and its refusals.

**QueueFile**: the queue document, its validation and migration, the atomic save of the jobs of
all tabs, recovery from a file that cannot be read, and the split of restored jobs over
tabs, some of which are refused. `Writable` holds the limits of a document and its ban on control characters in paths; a job
whose name breaks it can be enqueued, and every save is refused from then on (documents over a limit are met when they are read). A new job is saved paused and released
only if that worked, and a retry is saved first.

**LogSanitizer**: what is redacted from the messages a document keeps: user information in a URL, the argument of an FTP login
command, what follows a word that names a secret, control characters. The loader refuses a message that sanitizing
would change, so what was written must not change again (`SanitizesOnce`, an assumption TLC evaluates in the
`storage` run over all texts of up to four tokens).

### 3.5 The MC modules

`MCTransferQueue`, `MCTransferController`, `MCUploadFile` and `MCExternalEdit` instantiate one
module. Components that do not share state are checked in one run each way:
the MC module chooses a part in the initial state, takes every module with its own
variables, and the parts that were not chosen rest: in the value `"unused"`, or, for modules that
are extended so that theorems and runs speak of the same definitions (`TransferRuntime`, `UiDispatch`,
`SftpConnect`, `FtpConnect`, `RemoteFiles`, `ConflictChoice`, `DownloadFile`, `Workspace`, `LocalDirectories`), in their own
initial state. So
`MCServices` is the transfer runtime or `InvokeUi`; `MCSessions` a remote pane, SFTP sessions,
FTPS sessions or conflicts; `MCDownloads` (whose part is its `scene`) two downloads or an edited
file; `MCStorage` (with `MCConfigFile`) the configuration or the queue file; `MCWindow` (with
`MCWorkspace`) the window, the Site Manager or the local panes. A property speaks of its part
(`part = "manager" => ...`), or holds trivially while it rests.

## 4. Runs, bounds and what they show

Every run that is meant to pass ends without error in under five minutes with two workers.
Every property has a mutant of the code that breaks it.

| Run | Instance | Shows |
|---|---|---|
| `queue` | 2 jobs (symmetric), 2 paths in 2 directories, 2 attempts, bytes 0..1 | renames stay consistent and each snapshot can be restored; two paths give a collision, another directory and a return to the original |
| `services` | 3 workers, limit 2, a destination with a second spelling, partial files, a remote key; and 2 workers, 3 questions, 4 starts or stops | three workers on two slots give waiting and stopping, the spellings give aliasing; a question, an abandoned one, and one of the next connection |
| `controller` | 2 workers, 1 job, limit 2 | two workers want one job: ownership, cancellation, saves, liveness of stopping, and every step is a step of `TransferLifecycle`. No counter is bounded: requests, retries, disconnects and restarts recur without limit |
| `sessions` | pane: 2 commands, 1 foreign change, both protocols; SFTP: 2 sessions of a tab, 2 hosts, 2 keys, 1 rotation, 2 addresses, 4 kinds of authentication; FTPS: browser and worker, 4 certificates (trusted, two self-signed, expired), 2 changes; conflicts: 2 workers, 3 jobs, 2 policies, 2 answers, 1 reconnect | the second command meets what the first left; two sessions meet at known_hosts; a certificate changes and changes back; the third job arrives while an answer for the queue is on its way |
| `downloads` | 1 SFTP and 1 FTP job with one destination, 2 local names, 2 chunks, 2 attempts a job and 3 in all, 1 change by others; 1 edit, 2 saves of one size, 4 revisions, 2 connections, 1 retry, 3 events in flight | a partial file is begun, left, resumed, begun again by the other job and committed, with a checkpoint recorded, saved and restored on the way, while a source changes; the second save meets the first one's upload, inspection and failure |
| `upload` | 2 jobs with one destination, one of them guarded, 2 remote names, 2 chunks, 2 versions of each source, 3 attempts in all, 1 foreign change | a job commits between the other's look and its rename; an attempt is stopped half way and resumed after an edit or a restart |
| `storage` | 4 usable configurations, refused ones, and the edits of the program, 3 saves, lists of 2; queue files of 3 items in 2 tabs, one more job, refused documents (a message with a secret in it or too long, a path with control characters, too many renames or checkpoints among them) | each section is edited, saved and read again; two saves fail in turn and the third succeeds; a job that cannot be written makes every save fail |
| `window` | 2 tabs, 2 endpoints, 2 sites, 4 actions of the user, 2 events in flight, 1 failed save, storing or deletion, 4 lists of sites, one with two new credentials; 3 trees with 2 edits of the manager; 2 panes, 2 directories, 2 permits, 3 requests | an event arrives under the box of a failed save; an import follows a drag; two blocked workers leave the third request none; a message box is open while the pane is asked to refresh |
| `exit_cancels`, `join_blocks`, `checkpoint_blessed`, `edit_stuck` | the smallest that shows them | violations, see [findings](#7-findings) |

`CHECK_DEADLOCK FALSE` is set where the system may stop: `services` (the program has exited, or no
question is left), `downloads` (the edit scene at its bounds), `window` (no action of the user left), and the two
violations about a wait that never ends. Elsewhere a user or a restart can always act, and TLC
confirms there is no deadlock. Symmetry is used only in runs without liveness properties.

Bounds: `MaxBytes`, `MaxAttempt`, `MaxRank` (queue); `MaxCalls`, `MaxGeneration` (dispatch); `Size`,
`MaxVersion`, `MaxRuns`, `MaxAttempts`, `MaxForeign` (files); `MaxAddresses`, `MaxRotations`, `MaxChanges`,
`MaxCommands`, `MaxAnswers`, `MaxStarts` (sessions); `MaxSaves`, `MaxRevision`, `MaxRetries`, `MaxEvents` (edits);
`MaxSaves`, `MaxHistory`, `MaxTabs`, `MaximumQueueItems`, `MaximumResumeRecordsPerItem`,
`MaximumDestinationOverridesPerItem`, `MaximumErrorMessageLength`, `MaxQueued` (storage); `MaxActions`, `MaxEvents`, `MaxFailures`,
`MaxEdits`, `MaxLoads`, `MaxWorkers` (window). They stand in guards of the actions that would exceed
them. (`MaxHistory`, `MaxTabs`, the `Maximum...` constants and `MaxWorkers` are limits of the code, made small.)
Sources of three versions, two changes by others, were checked once as well (4 million states); the
theorems of section 6 need no bound.

The properties, by what they relate:

- between threads: `OwnedOnce`, `CancelHolds`, `QueuedIsWanted`, `LocalWritersExclusive`, `LeasesCounted`,
  `ReservationsOwned`, `TurnsAreConsistent`, `AskedOnce`, `AcceptedKeysStay`, `PanesSettle`, `ShownIsConnected`;
- between memory and disk: `InertUntilSaved`, `SavedCatchesUp`, `SnapshotRestorable`, `CheckpointsAreHonest`,
  `TemporariesAreAccounted`, `StoredIsUsable`, `UsersOwnStays`, `QueuedWorkSurvives`, `ForgottenStaysForgotten`, `CredentialsInUseStay`;
- between client and server: `DownloadsAreWhole`, `UploadsAreWhole`, `NothingReplacedUnasked`, `UnaskedReplacesNothing`,
  `EditsReplaceWhatWasSeen`, `EditsArrive`, `PaneIsHonest`, `SecretsFollowTrust`, `PasswordFollowsTrust`;
- between what is held and what is shown: `LastEventCurrent`, `DestinationsCollisionFree`, `ManagerStaysValid`, `DropsLand`;
- liveness: `StopEndsTheWait`, `StopReturns`, `JoinReturns`, `QuestionsEnd`;
- refinement: `ImplementsLifecycle`.

`CheckpointsAreHonest` of `DownloadFile` is about sound checkpoints. That every checkpoint be honest is
`ResumesAreVerified`, which the code does not keep (finding `checkpoint_blessed`); what is left unsound is a checkpoint
recorded by a session that failed before it opened the partial file, or that went on with bytes no sound
checkpoint describes. `DownloadsAreWhole` is likewise not the property one would like. Its part about commits excludes two things, and
holds of everything else. One is a session that cannot vouch for the bytes it resumed: their checkpoint was of
that kind, or another job with the same destination rewrote the partial file after the question was
asked, for the session that opens it compares nothing but its size (`StillResumable`). The other is a
resumed download whose source changed between the plan and the opening: the checkpoint is compared with the
planned source before the question is asked. A source replaced by one of the same size while the question is open is
appended to the head of its predecessor. FTP is left out of it, since nothing tells an FTP session that the source changed while it was read.
`UploadsAreWhole` excludes an edit of the source during the attempt for the same reason, and the two
properties about replaced files exclude what others did after the last look (`touched`): no
client of these protocols can compare and replace in one step.

## 5. Fairness

`TransferController`: weak fairness of the interface thread's own steps and of each worker's
steps. Threads run; sessions return, because they poll their stop token and time out. Nobody has to
press a button, answer a question, connect or crash: `Ask` may wait for ever for an answer, and
`StopReturns` holds nevertheless because a stop abandons the question. A worker that chose to wait is not
assumed to wake up spuriously.

`UiDispatch`: weak fairness of the event loop and of each worker (it polls every 25 ms); dialogs may stay
open for ever. `QuestionsEnd` adds the assumption that the user closes dialogs, as its antecedent
(`DialogsClose`).

`TransferRuntime`: weak fairness of acquiring, abandoning and releasing by each worker: the wait wakes every
25 ms to look at the count and the stop token, and leases and reservations are released by destructors.
`MCServices` conjoins the fairness of both; a part that rests enables nothing, so its fairness is void.

`SftpConnect` (`FairSpec`, for `join_blocks`): each session's own steps, the return of a session that was told to
stop, and the return of the join when every thread it waits for has ended. Users answer or not.

All other modules have safety properties only, `ExternalEdit` included: that an edit is never stuck is stated as
an invariant about what is still on its way (`InspectionsCome`).

## 6. Proofs

TLC shows each property on the instance of its run; the theorems hold for every value of the constants.

**TransferQueueProofs** (any number of jobs, sites, paths): `TypeCorrect`, `ErrorsMatchStates`,
`ProgressIsBounded`, `RenamesNeverCollide`, `SnapshotsAreRestorable`. Assumption: `QueueAssumption`.
The first four are proved as one inductive invariant with the type; restorability is a consequence of
the others plus the fact that a guarded job is never recursive, which is part of the invariant. The
first three are proved and not repeated by a run.

**ServicesProofs**, the two services the workers of all tabs and of one tab share. For `TransferRuntime` (any finite
set of workers, any limit from 1 to 16, any symmetric aliasing): `LeasesAreCounted`, `WritersAreExclusive`,
`ReservationsAreOwned`. The counter equals the cardinality of the set of
leased workers, by the library's lemmas on finite sets; exclusion needs that a reserved key is held by somebody
(the ownership invariant).

For `UiDispatch` (any finite set of threads that ask, any number of calls): `QuestionsTakeTurns`. The invariant ties the phase of a thread to the one call it waits for, says that a call is delivered only by a step
that also moves it on (so at most once), and that the turn is held exactly by a thread between taking and giving it
back. Its step lemmas are about replacing one call of the sequence: what the others keep, and that the number of
calls in flight decreases. At most one holder then needs a lemma on the cardinality of the calls in flight.

**TransferControllerProofs** (any finite set of workers, any set of jobs): `TypeCorrect`, `JobsOwnedOnce`,
`CancellationsHold`, `QueuedWorkIsWanted`, `NothingRunsUnsaved`, `EventsAreCurrent`, `QueueFileCatchesUp`,
`LifecycleImplemented`. Assumption: `ControllerAssumption`. Ownership, cancellation and
durability are not inductive alone. The inductive invariant adds what the interface thread knows between the two halves
of a request:

- `Working`: a worker has a job exactly between claim and finalizer, and a result exactly before the finalizer;
- `StoppedWithoutSite`: with no site every worker is off, so a restart or a stop loses no job;
- `Requesting`: at each `uiPc` the job, its state and the request being served are those the guard saw. A job retried
  is still inert with its control cleared until `Activate`, because the finalizer is kept out by the mutex and
  no other action makes it claimable; and a job whose pause has been written still says Pause when the queue is changed;
- `NothingForgotten`: live and failed work is in the queue file. A failed job was live, and saves keep it until
  it is removed.

`EventsAreCurrent` and `QueueFileCatchesUp` are about the state at rest, and need to know who is about to act
everywhere else. `EventOwed`: a change that no event shows yet has a worker or a request that is about to post one, or the tab is
shutting down. `SaveOwed`: where the queue file differs from what a restart should restore, a save failed, or one is
asked for by a waiting event, or a worker or a request is about to ask for or make one. Each is inductive together
with the invariant above, the second one with the first.

`LifecycleImplemented` proves that the initial states map to initial states and each step to a step or a
stutter of `TransferLifecycle`, from the same invariant.

**SessionTrustProofs** (any number of sessions, hosts, keys, certificates; the values for "none" are no member of
them): `StoredKeysStay`, `SecretsAreTrusted` for SFTP, `PasswordIsTrusted` for FTPS (the latter two with the types,
for which the bounds are natural numbers and `Kinds` the five kinds of authentication). For
SFTP the invariant says what the mutex is worth: whoever is between reading and replacing known_hosts holds it and
has a copy equal to the file (`LockIsHeld`), so that replacing the file by the edited copy changes one entry; what is
stored was accepted, and so is the key of every session beyond verification (`KeyIsTrusted`). For FTPS it says where
a pin may come from: the stored one, the tab's copy, the one in force and an identity about to be adopted were all
accepted (`Trustworthy`); a login meets such a pin or the normal verification, whatever the server presents.

**UploadFileProofs** (any set of jobs, guarded jobs and remote names, any size and number of attempts; `UploadAssumption`: the
first name is a name, guarded jobs are jobs, there is at least one chunk): `TemporariesAccountedFor`, `UploadsCommitWhole`,
`UploadsReplaceWhenAsked`, `EditsReplaceTheSeen`. A temporary file belongs to one attempt of one job, so most of the
invariant speaks of one job at a time: from the moment it is made the checkpoint names the attempt, and from the reservation on so does
the queue file (`RemembersAt`); nothing remembered is newer than the source and no name newer than the attempt (`PastAt`), so that names not yet used have no
bytes (`FreshAt`) and a checkpoint that fits tells the truth of every byte (`HonestAt`). Two jobs meet only at a destination, where the
reservation keeps them apart (`ReservedOnce`), so that what an attempt saw of it stays unless others changed it (`SeenAt`).

**DownloadFileProofs** (any set of jobs of either protocol and of local names, any size and number of attempts and changes;
`DownloadAssumption`): `DownloadsCommitWhole`, `SoundCheckpointsAreHonest`, `DownloadsReplaceWhenAsked`. Here a partial file
belongs to its destination, so what a job remembers of it may be overtaken by another one at any time. The argument is the file's
time: whoever changes a partial file gives it a time no checkpoint knows (`Moves`), so what a checkpoint claims of the file stays true,
whoever acts (`ClaimStands`). The claim is stronger than the property, and has to be: while a sound checkpoint fits, every byte
is of a version from the one it names to the present one. Around it the invariant says what an attempt carries from plan to
opening (`PlannedAt`, `ResumeAt`, `AskedAt`) and what a session has read and will commit (`ReadingAt`, `WholeAt`); the reservation
(`ReservedOnce`) keeps the bytes of a reading session from other jobs. The first attempt at this proof failed where the model was too gentle, with one job
to a destination or sessions that always open the file; `vouched` and `sound` came out of it.

**WindowProofs**, the main window. For `LocalDirectories` (any tabs and directories, any limit of workers, a natural number: `LocalAssumption`):
`LocalPanesSettle`. A request is known by
its tab and generation. Superseded requests may run, block and be posted at any time later, so that a pane hears of the newest one
alone needs that no two requests, running or posted, have one generation (`Apart`) and none a future one
(`NotAhead`); both hold of closed tabs too. `Settled` names the one listing a waiting pane will hear; a pane with a
refresh that waits has listed something already (`PendingIsListed`), or the refresh would have nothing to list. The permits are
counted by the library's lemmas on finite sets, with a bijection where a download makes running requests outdated.

For `Workspace` (any tabs, endpoints, sites and bounds, any configurations that load: `ConfigurationAssumption`, which the
validation in `csonConfigRepository.cpp` justifies): `TabsShowConnections`, `UsedCredentialsStay`. A handler is a relation from a
window to the windows it may leave, so the proof has one lemma per helper (saving, persisting tabs, erasing, recording,
remembering): each window it may leave is well formed (`Sound`) and differs from the one it was given neither in what tabs show
nor in the sites, and nothing in use left the store (`Follows`). A step is then a chain of helpers (`WindowStep`). The
invariant (`WindowIInv`) adds two facts. Connections are numbered, and an event whose number is the one of its tab's
controller tells the truth about it (`Reports`); a number of the past fits no tab. What a waiting message box would take from the store is referred to by no
tab and by none of the sites it would bring back (`Harmless`), whatever is handled meanwhile: no connection can begin under a box.

**ControllerProofs**, what the threads of a controller do with the server and among themselves. For `RemoteFiles`
(any names of the directory and of its one subdirectory, any number of commands and of changes by others:
`FilesAssumption`): `PanesAreHonest`, `RenamesReplaceUnseen`. The invariant (`PaneInv`) says for each place of the
browser thread what its command is, how many paths are left and how many errors there are (`CommandAt`, `TodoAt`, `ErrorsAt`),
since the property speaks of the last error only, and which changes the command can have made: none before its one request,
and none after a request whose error does not admit it (`DoneAt`). What the pane shows is out of date only by what the
command has done (`SeenAt`), and that much a batch of permissions has to remember in `refreshNeeded`, because its
errors do not end it. A destination that is there when a rename is sent appeared after the look (`LookedAt`). All six requests
that change the server go through one lemma (`FirstRequestKeeps`), the batch's through the one below it.

For `ConflictChoice` (any number of workers, jobs, policies and answers; "none" is no job and no policy:
`ConflictAssumption`): `QueueIsAskedOnce`. The promise to the user and `remainingConflictChoice` differ while a worker carries
the answer from the dialog to the snapshot of the queue, so the invariant says that they agree whenever no worker
does (`InForce`), that the answer being carried is the promise, that one worker at a time is inside `conflictPromptMutex`, and that
a running job is nobody else's: the worker that decides asks about its own job alone.

Only model-checked: all liveness properties (they need fairness and ENABLED), and the properties of
`ExternalEdit`, `Sites`, `ConfigFile` and `QueueFile`, and `ForgottenStaysForgotten` of `Workspace` (that pruning and
recording keep no more of the history than there was is an induction over `SelectSeq`). Some operators of
`ConfigFile` and `Sites` are recursive functions over trees; what they compute for every tree needs an induction the provers cannot make.

## 7. Findings

**exit_cancels** (documentation and code disagree). `Shutdown` disables the dispatcher before it takes
`transferActionMutex` and marks unfinished jobs Pause. A worker that asks the interface in between is refused with
Cancelled while its control is still Continue, so its finalizer cancels the job, and the job is left out of
the saved queue (`ExitCancelsNothing` is violated). `docs/configuration.md` promises that running work is restored as paused.

**checkpoint_blessed** (code). After any failed session the controller describes the partial file it finds as a piece
of the source it planned, also when the session failed before it opened, and so before it truncated, that file. After
Overwrite and a lost connection, the old source's bytes are offered as a safe resume of the new one
(`ResumesAreVerified` is violated).

**join_blocks** (code). `VerifyHost` asks the user while it holds `KnownHostsUpdateMutex`. When the interface thread
stops another tab it joins a thread that may wait for that mutex; the question waits for the interface thread.
Three parties wait in a circle, and no stop token reaches a wait for a mutex.

**edit_stuck** (code). An edit session that has failed when its tab disconnects is not detached and keeps its
generation. After a reconnect its upload can be retried and succeeds; the inspection that follows carries
the new generation, is compared with the old one and ignored, and the session stays in Inspecting.

### What the code does not promise

These were met while modelling. The modules have the steps; no run repeats them, because nothing in the repository
says otherwise, or because one finding of the kind is enough. Properties named here are defined in the modules and
violated.

- `Retry` saves the queue while it holds `transferActionMutex`. The first failed save shows a modal dialog; a queue
  event dispatched by its loop asks which actions are available and locks the same mutex on the same thread
  (`ui/remoteController.cpp:3592`; `DialogsAreSafe` in `TransferController`).
- `Enqueue` and `Retry` notify `transferCv` without `transferMutex`. A worker that has just found nothing and is about
  to block misses the notification, and sleeps until the next one (`:3608`; `RetriedWorkStarts`).
- Two sessions of one tab ask about one changed certificate. The second one keeps the pin the tab had when it
  connected, finds the answer already stored, and refuses the certificate the user has just accepted
  (`SavedPinTrusts` in `FtpConnect`); a reconnect helps.
- A configuration of an earlier version, written before any local directory was chosen, loads and then cannot be
  saved: its remembered directories take the empty local directory (`config/csonConfigRepository.cpp:2600`), which the
  validation of every save refuses (`:3401`; `LoadedIsSaveable` in `ConfigFile`).
- The Site Manager's save fails; under its message box an event of a controller saves the configuration in memory,
  successfully and with the new sites; closing the box takes sites and secrets back. Until the next save the file names a
  credential the store no longer has (`SavedCredentialsExist` in `Workspace`).
- A directory may be remembered for a connection that was edited in the form meanwhile (`ui/mainFrame.cpp:5715`), and
  a saved site with the endpoint of a Quick Connect does not remove it from the history, unlike what
  `docs/configuration.md:420` suggests.
- The warning about plain FTP is a modal dialog in the middle of `BeginConnection`; events of the controller are
  handled under it.
- An edited copy saved between a retry of its upload and the timer's notice of the retry may be taken for uploaded
  (`hurried` in `ExternalEdit`; `SavesArrive` excludes exactly that), and a write by others of the same size between an upload's commit and its `Stat` is taken for
  one's own where the server reports no usable time (`known`).
- An edit session is detached by a lost connection while its upload is queued, and the file is opened for editing again. After
  a reconnect both uploads run, one after the other. The record of a committed revision is kept by path
  (`ui/remoteController.cpp:3089`), so the second upload replaces the first one's before the browser looks; with equal sizes the new session takes the
  other's revision for its own, and its next save replaces it unasked (`ExpectsWhatItKnows` with two sessions).
- One job the queue document cannot hold makes every later save of every tab fail until it is removed: a local or remote path with
  a control character, which a server's listing may contain, or more than 10,000 renames or checkpoints. Neither
  `transferQueue.cpp:653` nor the checkpoints have a limit, while `csonQueueRepository.cpp:1011` and `:1104` have
  (`Writable` in `QueueFile`; `QueueIsSaveable` is about jobs that are writable).
- The length of an error message is checked before it is sanitized (`csonQueueRepository.cpp:1095`), and the longer text
  is written. A message within a few bytes of 16 KiB could thus be saved and then refused; the configuration of the run
  leaves it out, by the second conjunct of `SanitizerAssumption`.
- A refresh of a local pane is lost when every directory worker is blocked; the user is told. A first listing under
  way ignores a request to refresh.

## 8. What is not modelled

`PROJECT.json` lists each component with its state and the hazards no property covers. Left out:

- *Recursive transfers*: a job is one file. The order of the files of a plan, the enumeration of directories and
  `ValidatePlanDestinations` are left; so is recursive deletion beyond one level.
- *The POSIX commit of a download* is one step here; in the code it is link, then unlink, and an exit between the two
  leaves both names on one file.
- *Update check*: one request at a time; the rest is HTTP and JSON.
- *Names and path safety*: string operations and probes of the file system; the models take a destination as the
  value they return.
- *Transfer list*: percentages, rates and remaining time, pure presentation.
- *Sessions*: the reading of directory listings and of the control trace, the parsing of keys, the waiting on
  libssh2 and libcurl, idle disconnection.
- *Window*: row selection, menus, window geometry, list controls, drag between panes, sorting; the wording of messages.
- *Browser refresh after a job ends*: `Finalize` also queues a refresh of the remote pane; no property of the controller
  depends on it (`RemoteFiles` has the refresh itself).
- *Site export*: the file `siteTransfer.cpp` writes, what it refuses to write, and the reading of one field by field.
- *The order of posted events*: `Post` is one step, because `queuePostMutex` is held from the snapshot to its posting
  (`ui/remoteController.cpp:360`), so an older snapshot cannot overtake a newer one.
- *Message log, translations, platform calls, small dialogs, start of the program, build, packaging, help*: no
  state whose interleavings matter.
- Inside the modelled components: changes of a source's size, elapsed time, and the text form of values.
