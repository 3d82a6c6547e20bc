------------------------------ MODULE QueueFile ------------------------------
(***************************************************************************)
(* The transfer queue on disk (csonQueueRepository.cpp), and the window    *)
(* that saves the jobs of all its tabs in it and restores them into tabs   *)
(* (mainFrame.cpp).  A tab's jobs are its controller's queue together with *)
(* its checkpoints; what a worker does to them is cut down to the steps    *)
(* that change what a save contains.                                       *)
(*                                                                         *)
(* A file of a job is a source and a destination: local and remote for an  *)
(* upload, remote and local for a download.  The temporary name of an      *)
(* upload is the destination it was made from.  A save sorts the           *)
(* checkpoints of a job, so they are a set.  Bad stands for a name with a  *)
(* control character in it, which a job may well have.                     *)
(***************************************************************************)
EXTENDS Naturals, Sequences, FiniteSets, SequencesExt, LogSanitizer

CONSTANTS
    Absent, Bad,        \* a missing member; a value no check accepts
    Missing, Garbage,   \* no file; a file that does not parse
    Fold,               \* an endpoint with its host in lower case
    Within,             \* the paths at or below a root
    ParentOf,           \* the directory of a path
    NamesFor,           \* the names a conflict may choose for a destination
    Plan,               \* root source -> the files below it, as <<source, destination>>
    NewJobs,            \* what a user may queue
    FreshIds,           \* what GenerateId returns
    OpenTabs,           \* the tabs havRemote.cson says were open
    SavedSites,         \* site id -> endpoint, in havRemote.cson
    Documents,          \* what the file holds when the program first starts
    Errors,             \* the messages a job may fail with
    MaximumQueueItems,
    MaximumResumeRecordsPerItem,
    MaximumDestinationOverridesPerItem,
    MaximumErrorMessageLength,
    MaxQueued           \* bound on how often a user queues a job, new or again

VARIABLES
    file,               \* what the path holds
    loadState,          \* of the repository
    tabs,               \* the window's tabs, [id, jobs]; <<>> while it is down
    up,                 \* the program runs
    queued              \* how often a job was queued so far

vars == <<file, loadState, tabs, up, queued>>

Distinct(s) == \A i, j \in DOMAIN s : s[i] = s[j] => i = j
AnyBad(s) == \E i \in DOMAIN s : s[i] = Bad

-----------------------------------------------------------------------------
(* What an item has to satisfy, when it is read and when it is written.    *)

DestinationsValid(job) ==
    /\ job.recursive \/ job.overrides = <<>>
    /\ \A o \in Range(job.overrides) :
           /\ ParentOf[o.original] = ParentOf[o.destination]
           /\ o.source \in Within[job.source]
           /\ {o.original, o.destination} \subseteq Within[job.destination]
    /\ Distinct([i \in DOMAIN job.overrides |-> job.overrides[i].source])
    /\ Distinct([i \in DOMAIN job.overrides |-> job.overrides[i].original])
    /\ Distinct([i \in DOMAIN job.overrides |-> job.overrides[i].destination])

(* A checkpoint is about a file of its job, at the destination it has now. *)
ResumeInJob(resume, job) ==
    LET chosen == {o \in Range(job.overrides) : o.source = resume.source}
    IN  IF ~job.recursive
        THEN resume.source = job.source /\ resume.destination = job.destination
        ELSE IF chosen # {} THEN \A o \in chosen : o.destination = resume.destination
        ELSE resume.source \in Within[job.source] /\ resume.destination \in Within[job.destination]

ValidUploadTemporaryPath(resume) == resume.temporary = resume.destination

ResumeConsistent(resume) ==
    IF resume.kind = "download"
    THEN resume.modified # Absent /\ resume.part <= resume.size /\ resume.temporary = Absent
    ELSE /\ resume.modified # Absent /\ resume.part = 0 /\ resume.size = 0
         /\ ValidUploadTemporaryPath(resume)

(* Names without control characters, and no more of anything than fits.    *)
Writable(item) ==
    /\ Bad \notin {item.source, item.destination}
    /\ \A o \in Range(item.overrides) : Bad \notin {o.source, o.original, o.destination}
    /\ \A r \in item.resumes : Bad \notin {r.source, r.destination}
    /\ Len(item.overrides) <= MaximumDestinationOverridesPerItem
    /\ Cardinality(item.resumes) <= MaximumResumeRecordsPerItem
    /\ item.error # Absent => Size(item.error) <= MaximumErrorMessageLength

ValidateItem(item) ==
    /\ Bad \notin {item.connectionId, item.id, item.siteId, item.endpoint, item.policy}
    /\ Writable(item)
    /\ ~(item.guarded /\ item.recursive)
    /\ DestinationsValid(item)
    /\ item.total # Absent => item.bytes <= item.total
    /\ item.state \notin {"Completed", "Cancelled"}
    /\ item.state = "Failed" <=> item.error # Absent
    /\ \A r \in item.resumes :
           /\ r.kind = item.direction
           /\ ResumeInJob(r, item) /\ ResumeConsistent(r)
           /\ \A q \in item.resumes : q.source = r.source /\ q.destination = r.destination => q = r

-----------------------------------------------------------------------------
(* Writing.                                                                *)

Sanitized(error) == IF error = Absent THEN Absent ELSE SanitizeDiagnosticText(error)

MakeItem(item) ==
    [m \in DOMAIN item \cup {"unknown"} |->
        CASE m = "unknown" -> FALSE
          [] m = "error" -> Sanitized(item.error)
          [] m = "overrides" -> IF item.overrides = <<>> THEN Absent ELSE item.overrides
          [] OTHER -> item[m]]

Persistable(item) == item.state \notin {"Completed", "Cancelled"}

MakeDocument(items) ==
    LET kept == SelectSeq(items, Persistable)
    IN  IF \/ Len(kept) > MaximumQueueItems
           \/ \E i \in DOMAIN kept : ~ValidateItem(kept[i])
           \/ ~Distinct([i \in DOMAIN kept |-> kept[i].id])
        THEN Bad
        ELSE [version |-> 1, secret |-> FALSE, unknown |-> FALSE,
              items |-> [i \in DOMAIN kept |-> MakeItem(kept[i])]]

-----------------------------------------------------------------------------
(* Reading: Bad stands for every error.                                    *)

(* An object has the members that belong there, of their types, no others. *)
ExactMembers(node) == ~node.unknown

(* A member that may be a secret is refused wherever it is.                *)
ForbiddenSecretKey(document) == document.secret

PersistentStates == {"Queued", "Enumerating", "Running", "Paused", "Failed"}

DecodeOverrides(node) == IF node = Absent THEN <<>> ELSE node

DecodeJob(node) ==
    IF Bad \in {node.id, node.siteId, node.endpoint, node.policy, node.source, node.destination}
    THEN Bad ELSE [m \in DOMAIN node \ {"unknown"} |->
                      IF m = "overrides" THEN DecodeOverrides(node.overrides) ELSE node[m]]

DecodeProgress(node) ==
    IF Bad \in {node.bytes, node.total} THEN Bad ELSE <<node.bytes, node.total>>

(* Text that the sanitizer would change was not written by MakeError.      *)
DecodeError(error) == IF error # Sanitized(error) THEN Bad ELSE error

DecodeResumeRecord(node) ==
    IF \/ Bad \in {node.kind, node.source, node.destination, node.temporary}
       \/ node.kind \notin {"download", "upload"}
       \/ node.part > node.size \/ node.modified = Absent
       \/ (node.temporary = Absent) # (node.kind = "download")
    THEN Bad ELSE node

(* Work that may have been in progress comes back inert.                   *)
Inert(state) == IF state \in {"Queued", "Enumerating", "Running"} THEN "Paused" ELSE state

DecodeItem(node) ==
    LET resumes == {DecodeResumeRecord(r) : r \in node.resumes}
        job == DecodeJob(node)
    IN  IF \/ ~ExactMembers(node) \/ node.state \notin PersistentStates \/ Bad \in resumes
           \/ Bad \in {job, DecodeProgress(node), DecodeError(node.error)}
           \/ ~ValidateItem([job EXCEPT !.resumes = resumes])
        THEN Bad ELSE [job EXCEPT !.resumes = resumes, !.state = Inert(@)]

DecodeDocument(document) ==
    IF \/ document = Garbage \/ ForbiddenSecretKey(document) \/ ~ExactMembers(document)
       \/ document.version # 1 \/ Len(document.items) > MaximumQueueItems
    THEN Bad
    ELSE LET items == [i \in DOMAIN document.items |-> DecodeItem(document.items[i])]
         IN  IF AnyBad(items) \/ ~Distinct([i \in DOMAIN items |-> items[i].id]) THEN Bad ELSE items

LoadUnlocked == IF file = Missing THEN <<>> ELSE DecodeDocument(file)

-----------------------------------------------------------------------------
(* The window: which tab each restored job belongs to.                     *)

GenerateId(used) == CHOOSE id \in FreshIds : id \notin used

SameOwner(group, item) ==
    /\ group.original = item.connectionId /\ group.siteId = item.siteId
    /\ Fold[group.endpoint] = Fold[item.endpoint]

Owned(items, id) == [i \in DOMAIN items |-> [items[i] EXCEPT !.connectionId = id]]

(* The first group of a tab keeps its id, the others get new ones.         *)
AddToGroup(groups, item) ==
    IF \E i \in DOMAIN groups : SameOwner(groups[i], item)
    THEN [i \in DOMAIN groups |->
            IF SameOwner(groups[i], item)
            THEN [groups[i] EXCEPT !.items = Append(@, item)] ELSE groups[i]]
    ELSE LET known == Range([i \in DOMAIN groups |-> groups[i].original])
             taken == Range([i \in DOMAIN groups |-> groups[i].id])
             id == IF item.connectionId \in known THEN GenerateId(taken) ELSE item.connectionId
         IN  Append(groups, [id |-> id, original |-> item.connectionId, siteId |-> item.siteId,
                             endpoint |-> item.endpoint, items |-> <<item>>])

WorkspaceConnectionMatchesQueuedSite(open, group) ==
    \/ /\ open.siteId # Absent /\ open.siteId = group.siteId
       /\ open.siteId \in DOMAIN SavedSites /\ group.endpoint = SavedSites[open.siteId]
    \/ open.siteId = Absent /\ open.endpoint # Absent /\ open.endpoint = group.endpoint

(* Each open tab takes the group that is its own, or is restored empty.    *)
RestoreOpenTab(progress, open) ==
    LET own == {i \in DOMAIN progress.groups : /\ progress.groups[i].original = open.id
                                               /\ WorkspaceConnectionMatchesQueuedSite(open, progress.groups[i])}
    IN  IF own = {}
        THEN [progress EXCEPT !.tabs = Append(@, [id |-> open.id, jobs |-> <<>>])]
        ELSE LET i == CHOOSE i \in own : \A k \in own : i <= k
             IN  [tabs |-> Append(progress.tabs, [id |-> open.id, jobs |-> Owned(progress.groups[i].items, open.id)]),
                  groups |-> RemoveAt(progress.groups, i)]

(* Then every group that is left has a tab of its own.                     *)
RestoreGroup(restored, group) ==
    LET taken == Range([i \in DOMAIN restored |-> restored[i].id])
        id == IF group.id \in taken THEN GenerateId(taken) ELSE group.id
    IN  Append(restored, [id |-> id, jobs |-> Owned(group.items, id)])

EnsureConnectionTab(restored) ==
    IF restored = <<>> THEN <<[id |-> GenerateId({}), jobs |-> <<>>]>> ELSE restored

RestoredTabs(items) ==
    LET groups == FoldLeft(AddToGroup, <<>>, items)
        opened == FoldLeft(RestoreOpenTab, [tabs |-> <<>>, groups |-> groups], OpenTabs)
    IN  EnsureConnectionTab(FoldLeft(RestoreGroup, opened.tabs, opened.groups))

-----------------------------------------------------------------------------
(* Saving: the jobs of all tabs, in the order of the tabs.                 *)

PersistentItem(item) ==
    IF item.state \in {"Enumerating", "Running"}
    THEN [item EXCEPT !.state = "Paused", !.error = Absent] ELSE item

PersistentQueueItems(window) ==
    LET all == FlattenSeq([i \in DOMAIN window |-> window[i].jobs])
        kept == SelectSeq(all, Persistable)
    IN  [i \in DOMAIN kept |-> PersistentItem(kept[i])]

SaveWhateverWasLoaded(items) ==                                         \* mutant
    LET document == MakeDocument(items)
    IN  UNCHANGED file \/ (document # Bad /\ file' = document)

(* Save replaces the file in one step, or fails and leaves it.  The window *)
(* loads before anything can save, so no save finds the state Unloaded.    *)
Save(items) ==
    LET document == MakeDocument(items)
    IN  UNCHANGED file \/ (loadState' # "Blocked" /\ document # Bad /\ file' = document)

Init ==
    /\ file \in Documents
    /\ loadState = "Unloaded" /\ tabs = <<>> /\ up = FALSE /\ queued = 0

(* InitializeTransferQueue: a queue that does not load leaves the window   *)
(* with its open tabs, empty; one with work in it is written at once.      *)
Start ==
    /\ ~up /\ up' = TRUE
    /\ IF LoadUnlocked = Bad
       THEN /\ loadState' = "Blocked" /\ tabs' = RestoredTabs(<<>>)
            /\ UNCHANGED file
       ELSE /\ loadState' = "Ready" /\ tabs' = RestoredTabs(LoadUnlocked)
            /\ IF LoadUnlocked = <<>> THEN UNCHANGED file
               ELSE Save(PersistentQueueItems(tabs'))
    /\ UNCHANGED queued

PersistTransferQueue ==
    /\ up /\ UNCHANGED <<loadState, tabs, up, queued>>
    /\ Save(PersistentQueueItems(tabs))

(* The program ends, however it ends.                                      *)
Exit ==
    /\ up /\ up' = FALSE
    /\ tabs' = <<>> /\ loadState' = "Unloaded"
    /\ UNCHANGED <<file, queued>>

(* A tab is closed with its jobs, which the next save no longer contains.  *)
CloseTab(t) ==
    /\ tabs' = EnsureConnectionTab(RemoveAt(tabs, t))
    /\ UNCHANGED loadState /\ Save(PersistentQueueItems(tabs'))
    /\ UNCHANGED <<up, queued>>

-----------------------------------------------------------------------------
(* What happens to the jobs of a tab.                                      *)

ItemChanges(t, k, item) == tabs' = [tabs EXCEPT ![t].jobs[k] = item] /\ UNCHANGED <<file, loadState, up>>
Becomes(t, k, item) == ItemChanges(t, k, item) /\ UNCHANGED queued

(* What starts a job is saved first, unless the window never saves.        *)
Persisted(saved, items) == loadState = "Blocked" \/ saved = MakeDocument(items)

(* A new job stays paused if it could not be saved.                        *)
Enqueue(t, new) ==
    LET job == [new EXCEPT !.connectionId = tabs[t].id]
        inert == [tabs EXCEPT ![t].jobs = Append(@, [job EXCEPT !.state = "Paused"])]
        items == PersistentQueueItems(inert)
    IN  /\ queued < MaxQueued /\ queued' = queued + 1
        /\ \A s \in Range(tabs) : \A j \in Range(s.jobs) : j.id # new.id
        /\ UNCHANGED <<loadState, up>> /\ Save(items)
        /\ tabs' = IF Persisted(file', items) THEN [tabs EXCEPT ![t].jobs = Append(@, job)] ELSE inert

Claim(t, k) ==
    LET job == tabs[t].jobs[k] IN
    /\ job.state = "Queued"
    /\ Becomes(t, k, [job EXCEPT !.state = "Running", !.error = Absent])

FilesOf(job) == IF job.recursive THEN Plan[job.source] ELSE {<<job.source, job.destination>>}
ResolvedDestination(job, planned) ==
    LET chosen == {o \in Range(job.overrides) : o.source = planned[1]}
    IN  IF chosen = {} THEN planned[2] ELSE (CHOOSE o \in chosen : TRUE).destination

(* A conflict rename: the job and its checkpoints change together.         *)
RememberResolvedDestination(t, k, planned, name) ==
    LET job == tabs[t].jobs[k]
        choice == [source |-> planned[1], original |-> planned[2], destination |-> name]
        Other(o) == o.source # planned[1]
        resolved == IF job.recursive
                    THEN [job EXCEPT !.overrides = Append(SelectSeq(@, Other), choice)]
                    ELSE [job EXCEPT !.destination = name]
    IN  /\ job.state = "Running" /\ ParentOf[planned[2]] = ParentOf[name]
        /\ DestinationsValid(resolved)
        /\ Becomes(t, k, [resolved EXCEPT !.resumes = {r \in @ : job.recursive /\ r.source # planned[1]}])

Resume(kind, source, destination, size, part) ==
    [kind |-> kind, source |-> source, destination |-> destination, modified |-> "t",
     size |-> size, part |-> part, temporary |-> IF kind = "upload" THEN destination ELSE Absent]

WithResume(job, resume) ==
    [job EXCEPT !.resumes = {r \in @ : r.source # resume.source \/ r.destination # resume.destination} \cup {resume}]

Without(job, source, destination) ==
    [job EXCEPT !.resumes = {r \in @ : r.source # source \/ r.destination # destination}]

(* An upload records its temporary name before it writes there.            *)
RecordTemporary(t, k, planned) ==
    LET job == tabs[t].jobs[k] IN
    /\ job.state = "Running" /\ job.direction = "upload"
    /\ Becomes(t, k, WithResume(job, Resume("upload", planned[1], ResolvedDestination(job, planned), 0, 0)))

(* A download that ends early records its partial file, if it can.         *)
StopDownload(t, k, planned, dated, size, part) ==
    LET job == tabs[t].jobs[k]
        resume == Resume("download", planned[1], ResolvedDestination(job, planned), size, part)
    IN  /\ job.state = "Running" /\ job.direction = "download"
        /\ Becomes(t, k, [(IF dated /\ part <= size THEN WithResume(job, resume) ELSE job) EXCEPT !.state = "Paused"])

FinishFile(t, k, planned) ==
    LET job == tabs[t].jobs[k] IN
    /\ job.state = "Running"
    /\ Becomes(t, k, Without(job, planned[1], ResolvedDestination(job, planned)))

End(t, k, state, error) ==
    LET job == tabs[t].jobs[k] IN
    /\ job.state = "Running"
    /\ (state = "Failed") = (error # Absent)
    /\ Becomes(t, k, [job EXCEPT !.state = state, !.error = error, !.bytes = 1, !.total = 1])

Retry(t, k) ==
    LET job == tabs[t].jobs[k] IN
    /\ job.state \in {"Paused", "Failed"}
    /\ Persisted(file, PersistentQueueItems(tabs))
    /\ queued < MaxQueued /\ queued' = queued + 1
    /\ ItemChanges(t, k, [job EXCEPT !.state = "Queued", !.error = Absent])

RemoveTransfer(t, k) ==
    /\ tabs[t].jobs[k].state \in {"Completed", "Cancelled", "Failed"}
    /\ tabs' = [tabs EXCEPT ![t].jobs = RemoveAt(@, k)]
    /\ UNCHANGED <<file, loadState, up, queued>>

JobStep(t, k) ==
    \/ Claim(t, k)
    \/ \E planned \in FilesOf(tabs[t].jobs[k]) :
          \/ \E name \in NamesFor[planned[2]] : RememberResolvedDestination(t, k, planned, name)
          \/ RecordTemporary(t, k, planned)
          \/ \E dated \in BOOLEAN, part \in 1 .. 2 : StopDownload(t, k, planned, dated, 1, part)
          \/ FinishFile(t, k, planned)
    \/ \E state \in {"Paused", "Failed", "Completed", "Cancelled"}, error \in Errors \cup {Absent} :
          End(t, k, state, error)
    \/ Retry(t, k)
    \/ RemoveTransfer(t, k)

Next ==
    \/ Start \/ PersistTransferQueue \/ Exit
    \/ \E t \in DOMAIN tabs :
          \/ CloseTab(t)
          \/ \E new \in NewJobs : Enqueue(t, new)
          \/ \E k \in DOMAIN tabs[t].jobs : JobStep(t, k)

Spec == Init /\ [][Next]_vars

-----------------------------------------------------------------------------
(* No conflict rename, checkpoint, failure, retry or restart leads to jobs *)
(* that the validation refuses: one such item, and no job of any tab would *)
(* be saved again.  Names with control characters and more of anything     *)
(* than fits are refused, and do stop the saving of every tab.             *)
QueueIsSaveable ==
    LET items == PersistentQueueItems(tabs)
    IN  Len(items) <= MaximumQueueItems /\ (\A item \in Range(items) : Writable(item))
            => MakeDocument(items) # Bad

(* What a job is, apart from the tab it is in and from running or not.     *)
Work(items) ==
    {[items[i] EXCEPT !.connectionId = Absent, !.state = Inert(@), !.error = Sanitized(@)] : i \in DOMAIN items}

(* A start puts every job of a readable file into exactly one tab, which   *)
(* it names and shares with jobs of its endpoint only; a save leaves a     *)
(* file that the next start reads as the work of the window; and a file    *)
(* that was not read is not replaced.                                      *)
AllJobs(window) == FlattenSeq([i \in DOMAIN window |-> window[i].jobs])
SafelyRestored ==
    /\ Work(AllJobs(tabs')) = Work(LoadUnlocked) /\ Len(AllJobs(tabs')) = Len(LoadUnlocked)
    /\ Distinct([i \in DOMAIN tabs' |-> tabs'[i].id])
    /\ \A t \in Range(tabs') : \A i, j \in DOMAIN t.jobs :
           /\ t.jobs[i].connectionId = t.id
           /\ Fold[t.jobs[i].endpoint] = Fold[t.jobs[j].endpoint]
SafelyWritten ==
    LET written == DecodeDocument(file')
    IN  /\ loadState' = "Ready" /\ (file # Missing => DecodeDocument(file) # Bad)
        /\ written # Bad /\ Work(written) = Work(PersistentQueueItems(tabs'))

KeepsWork ==
    /\ ~up /\ up' /\ LoadUnlocked # Bad => SafelyRestored
    /\ file' # file => SafelyWritten
WorkSurvives == [][KeepsWork]_vars
=============================================================================
