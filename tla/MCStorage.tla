------------------------------ MODULE MCStorage ------------------------------
(***************************************************************************)
(* One run for the two files the program keeps: its configuration and its  *)
(* transfer queue.  The part is chosen in the initial state.               *)
(***************************************************************************)
EXTENDS MCConfigFile

CONSTANTS
    Within, ParentOf, NamesFor, Plan, NewJobs, FreshIds, OpenTabs, SavedSites,
    QueueDocuments, Errors, MaximumQueueItems, MaximumResumeRecordsPerItem,
    MaximumDestinationOverridesPerItem, MaximumErrorMessageLength, MaxQueued,
    f1, f2, f3, f4, f5, f6, j1, j2, j3, job1, site1, quick2

ASSUME StorageAssumption ==
    /\ MaximumQueueItems \in Nat /\ Absent \notin FreshIds
    /\ \A job \in NewJobs : job.siteId \in {site1, quick2}

VARIABLES part, loadState, tabs, up, queued

Jobs == INSTANCE QueueFile WITH Documents <- QueueDocuments

queueVars == <<loadState, tabs, up, queued>>
configVars == <<activeDocument, needsSchemaUpdate, held, saves>>
allVars == <<part, file, queueVars, configVars>>

Unused == "unused"
StorageInit ==
    \/ /\ part = "configuration" /\ Init
       /\ loadState = Unused /\ tabs = Unused /\ up = Unused /\ queued = Unused
    \/ /\ part = "queue" /\ Jobs!Init
       /\ activeDocument = Unused /\ needsSchemaUpdate = Unused /\ held = Unused /\ saves = Unused
StorageNext ==
    \/ part = "configuration" /\ Next /\ UNCHANGED <<part, queueVars>>
    \/ part = "queue" /\ Jobs!Next /\ UNCHANGED <<part, configVars>>
StorageSpec == StorageInit /\ [][StorageNext]_allVars

-----------------------------------------------------------------------------
(* What was saved is what the next start reads, and the jobs of the window *)
(* can always be saved.                                                    *)
StoredIsUsable ==
    CASE part = "configuration" -> SavedIsRead
      [] part = "queue" -> Jobs!QueueIsSaveable

(* A comment, or a member the program does not know, that a user gave to an *)
(* object of the configuration stays with that object as long as the       *)
(* program keeps it.  Of an object the program removes, nothing is said.   *)
UsersOwnStays == [][part = "configuration" /\ file' # file => KeepsTheUsersOwn]_allVars

(* A restart brings every job back into one tab of its endpoint, a save    *)
(* leaves a file that the next start reads as the window's work, and a     *)
(* file that was not read is not replaced.                                 *)
QueuedWorkSurvives == [][part = "queue" => Jobs!KeepsWork]_allVars

-----------------------------------------------------------------------------
(* Texts of up to four of the sanitizer's tokens, or ://, are sanitized    *)
(* once; and no message of a job outgrows the limit by being sanitized.    *)
Fragments == {<<":", "/", "/">>} \cup {<<token>> : token \in {":", "/", "@", " ", "=", ">", "x", "user", "password", "control"}}
Texts == UNION {{FlattenSeq(fragments) : fragments \in [1 .. n -> Fragments]} : n \in 1 .. 4}
ASSUME SanitizerAssumption ==
    /\ Jobs!SanitizesOnce(Texts)
    /\ \A error \in Errors : Jobs!Size(error) <= MaximumErrorMessageLength =>
                               Jobs!Size(Jobs!Sanitized(error)) <= MaximumErrorMessageLength

(* Queue files as earlier runs, other versions or users left them, and the *)
(* jobs a user may add.                                                    *)

Forms == INSTANCE QueueFile WITH Documents <- {}    \* only for the shapes of items

MCWithin == ("s" :> {"s"}) @@ ("d" :> {"d"}) @@ ("d2" :> {"d2"})
            @@ ("S" :> {"S", "s1", "s2"}) @@ ("D" :> {"D", "D/a", "D/b", "D/c", "D/d"})
MCParentOf == [p \in {"d", "d2", "x"} |-> "."] @@ [p \in {"D/a", "D/b", "D/c", "D/d"} |-> "D"]
MCNamesFor == ("d" :> {"d2"}) @@ ("d2" :> {"d"}) @@ ("D/a" :> {"D/c"}) @@ ("D/b" :> {"D/c"})
MCPlan == "S" :> {<<"s1", "D/a">>, <<"s2", "D/b">>}

Item(tab, id, siteId, endpoint, direction, recursive, guarded) ==
    [connectionId |-> tab, id |-> id, siteId |-> siteId, endpoint |-> endpoint, direction |-> direction,
     recursive |-> recursive, guarded |-> guarded, policy |-> "ask",
     source |-> IF recursive THEN "S" ELSE "s", destination |-> IF recursive THEN "D" ELSE "d",
     overrides |-> <<>>, state |-> "Queued", bytes |-> 0, total |-> Absent, error |-> Absent, resumes |-> {}]

MCNewJobs == {Item(Absent, job1, site1, "host", "upload", FALSE, TRUE),
              [Item(Absent, job1, site1, "host", "upload", FALSE, FALSE) EXCEPT !.source = Bad],
              Item(Absent, job1, quick2, "other", "upload", TRUE, FALSE)}

(* A message that sanitizing changes in two places, and makes longer.      *)
MCErrors == {<<":", "/", "/", "x", ":", "x", "@", " ", "password", "=", "x">>}
TooLong == <<"password", "password", "password", "password", "password", "password">>

MCOpenTabs == <<[id |-> t1, siteId |-> site1, endpoint |-> Absent], [id |-> t2, siteId |-> Absent, endpoint |-> "other"]>>
MCSavedSites == site1 :> "host"

QueueDocument(items) == [version |-> 1, secret |-> FALSE, unknown |-> FALSE, items |-> [i \in DOMAIN items |-> Forms!MakeItem(items[i])]]

(* One tab whose jobs belong to two endpoints.                             *)
Split == QueueDocument(<<[Item(t1, j1, site1, "host", "upload", FALSE, FALSE) EXCEPT !.state = "Running"],
                    [Item(t1, j2, quick2, "other", "upload", FALSE, FALSE) EXCEPT !.state = "Failed", !.error = <<"x">>],
                    Item(t1, j3, site1, "HOST", "upload", FALSE, FALSE)>>)

(* A job of another endpoint than the open tab with the id of its tab.     *)
Moved == QueueDocument(<<Item(t1, j1, quick2, "other", "upload", FALSE, FALSE)>>)

Interrupted ==
    QueueDocument(<<[Item(t2, j1, quick2, "other", "download", TRUE, FALSE) EXCEPT
                  !.state = "Running", !.bytes = 1, !.total = 1,
                  !.overrides = <<[source |-> "s1", original |-> "D/a", destination |-> "D/c"]>>,
                  !.resumes = {Forms!Resume("download", "s1", "D/c", 1, 1), Forms!Resume("download", "s2", "D/b", 1, 0)}],
               [Item(t1, j2, site1, "host", "upload", FALSE, TRUE) EXCEPT
                  !.resumes = {Forms!Resume("upload", "s", "d", 0, 0)}]>>)

(* Documents that are refused, each for another reason.                    *)
RefusedQueues ==
    {Garbage, [Split EXCEPT !.version = 2], [Split EXCEPT !.secret = TRUE], [Split EXCEPT !.unknown = TRUE],
     [Split EXCEPT !.items[2].id = j1], [Split EXCEPT !.items[1].unknown = TRUE],
     [Split EXCEPT !.items[1].state = "Completed"], [Split EXCEPT !.items[1].endpoint = Bad],
     [Interrupted EXCEPT !.items[1].bytes = 2], [Interrupted EXCEPT !.items[1].guarded = TRUE],
     [Split EXCEPT !.items[2].error = <<"password", "=", "x">>], [Split EXCEPT !.items[2].error = TooLong],
     [Split EXCEPT !.items[1].source = Bad],
     [Interrupted EXCEPT !.items[1].overrides = Append(@, [source |-> "s2", original |-> "D/b", destination |-> "D/d"]),
                         !.items[1].resumes = {}],
     [Interrupted EXCEPT !.items[1].resumes = @ \cup {Forms!Resume("download", "s2", "D/d", 1, 0)}],
     [Interrupted EXCEPT !.items[1].overrides[1].destination = "x"],
     [Interrupted EXCEPT !.items[1].resumes = {Forms!Resume("download", "s1", "D/a", 1, 1)}],
     [Interrupted EXCEPT !.items[2].resumes = {[Forms!Resume("upload", "s", "d", 0, 0) EXCEPT !.temporary = "x"]}]}

MCQueueDocuments == {Missing, Split, Moved, Interrupted} \cup RefusedQueues
=============================================================================
