--------------------------- MODULE LocalDirectories ---------------------------
(***************************************************************************)
(* The local pane of every tab and its loader (localDirectoryLoader.cpp,   *)
(* localDirectoryWorkerLimiter.hpp, and the local half of mainFrame.cpp):  *)
(* a detached worker lists a directory, for as long as the file system     *)
(* blocks, and posts the listing to a window that may have gone elsewhere, *)
(* or closed the tab.                                                      *)
(*                                                                         *)
(* A stop request and the change of generation that follows it are one     *)
(* step, so a request is stopped exactly when it is superseded.  The box   *)
(* that tells the user of a failed load is modal and dispatches events     *)
(* before its handler goes on; the one of a load that cannot start is the  *)
(* last thing its handler does, and so nothing of its own.                 *)
(***************************************************************************)
EXTENDS Naturals, Sequences, FiniteSets, Functions, SequencesExt

CONSTANTS
    Tabs, Directories, Nowhere,
    MaxWorkers,         \* MaxConcurrentDirectoryWorkers
    MaxLoads            \* bound: after so many requests nobody asks for more

ASSUME LocalAssumption == MaxWorkers \in Nat

VARIABLES
    active,             \* State::active: permits
    workers,            \* detached workers that still run
    generation,         \* SharedState::generation
    target,             \* whether SharedState::eventTarget is set: the tab is open
    listings,           \* listings posted, not handled yet
    panes,              \* what the window shows
    told,               \* message boxes open about a tab's failed loads
    owed                \* history: tabs with a download the user was promised to see

localVars == <<active, workers, generation, target, listings, panes, told, owed>>

Pane == [directory: Directories \cup {Nowhere}, path: Directories \cup {Nowhere},
         loading: BOOLEAN, fallback: Directories \cup {Nowhere}, pending: BOOLEAN]
Request == [tab: Tabs, generation: Nat, directory: Directories, failed: BOOLEAN,
            fresh: BOOLEAN,         \* asked for after all downloads owed
            place: {"reading", "posting"}]
Listing == [tab: Tabs, generation: Nat, directory: Directories, failed: BOOLEAN,
            fresh: BOOLEAN]

LocalInit ==
    /\ active = 0 /\ workers = {} /\ listings = <<>> /\ owed = {}
    /\ generation = [t \in Tabs |-> 0]
    /\ target = [t \in Tabs |-> TRUE]
    /\ told = [t \in Tabs |-> 0]
    /\ panes = [t \in Tabs |-> [directory |-> Nowhere, path |-> Nowhere, loading |-> FALSE,
                                fallback |-> Nowhere, pending |-> FALSE]]

Current(request) == generation[request.tab] = request.generation

-----------------------------------------------------------------------------
(* PopulateLocalDirectory and Load: the pane waits for the new request, or *)
(* every worker is blocked (or no thread can be had), the user is told and *)
(* the pane shows the path of what it lists.                               *)

Supersede(t) == generation' = [generation EXCEPT ![t] = @ + 1]

PopulateLocalDirectory(t, pane, d, fallback) ==
    /\ Supersede(t)
    /\ \/ /\ active < MaxWorkers
          /\ active' = active + 1
          /\ workers' = workers \cup {[tab |-> t, generation |-> generation'[t], directory |-> d,
                                       failed |-> FALSE, fresh |-> TRUE, place |-> "reading"]}
          /\ panes' = [panes EXCEPT ![t] = [pane EXCEPT
                 !.path = d, !.loading = TRUE,
                 !.fallback = IF fallback = d THEN Nowhere ELSE fallback]]
          /\ owed' = owed
       \/ /\ UNCHANGED <<active, workers>>
          /\ panes' = [panes EXCEPT ![t] = [pane EXCEPT
                 !.path = pane.directory, !.loading = FALSE, !.fallback = Nowhere]]
          /\ owed' = owed \ {t}

MayAsk(t) == target[t] /\ SumFunction(generation) < MaxLoads
NothingTold == \A t \in Tabs : told[t] = 0

(* The user goes somewhere, or presses Refresh.                            *)
Navigate(t, d) ==
    /\ MayAsk(t) /\ NothingTold
    /\ PopulateLocalDirectory(t, panes[t], d, Nowhere)
    /\ UNCHANGED <<target, listings, told>>

(* Choosing a site takes the pane to its directory, and back to where it   *)
(* was, or was going, if that cannot be opened; connecting takes it to the *)
(* directory remembered for the connection.                                *)
ConnectionFallback(pane, d, initial) ==
    IF pane.directory \notin {Nowhere, d} THEN pane.directory
    ELSE IF pane.fallback \notin {Nowhere, d} THEN pane.fallback
    ELSE IF pane.loading /\ pane.path # d THEN pane.path
    ELSE initial

SetQuickSitePane(t, d, initial) ==
    /\ MayAsk(t) /\ NothingTold
    /\ PopulateLocalDirectory(t, panes[t], d, ConnectionFallback(panes[t], d, initial))
    /\ UNCHANGED <<target, listings, told>>

BeginConnectionPane(t, d) ==
    /\ MayAsk(t) /\ NothingTold /\ panes[t].directory # d
    /\ PopulateLocalDirectory(t, panes[t], d, panes[t].directory)
    /\ UNCHANGED <<target, listings, told>>

(* A download completed (TransferQueueEvent): the pane is listed again,    *)
(* now, or after the load under way, which may have passed the new file by.*)
(* (Not before it has listed anything: then the request does nothing.)     *)
ForgetPending(pane) == pane                                        \* mutant
RefreshLater(pane) == [pane EXCEPT !.pending = TRUE]

Outdated(requests, t) == {IF l.tab = t THEN [l EXCEPT !.fresh = FALSE] ELSE l : l \in requests}
OutdatedListings(t) ==
    [i \in DOMAIN listings |->
        IF listings[i].tab = t THEN [listings[i] EXCEPT !.fresh = FALSE] ELSE listings[i]]

DownloadCompletes(t) ==
    /\ MayAsk(t) /\ panes[t].loading /\ panes[t].directory # Nowhere
    /\ panes' = [panes EXCEPT ![t] = RefreshLater(@)]
    /\ workers' = Outdated(workers, t)
    /\ listings' = OutdatedListings(t)
    /\ owed' = owed \cup {t}
    /\ UNCHANGED <<active, generation, target, told>>

RequestLocalDirectoryRefresh(t, pane) ==
    PopulateLocalDirectory(t, [pane EXCEPT !.pending = FALSE], pane.directory, Nowhere)

DownloadCompletesAtRest(t) ==
    /\ MayAsk(t) /\ ~panes[t].loading /\ panes[t].directory # Nowhere
    /\ RequestLocalDirectoryRefresh(t, panes[t])
    /\ UNCHANGED <<target, listings, told>>

-----------------------------------------------------------------------------
(* The worker                                                              *)

(* The directory is opened and listed, or an error is recorded; a request  *)
(* superseded by then ends here, and its permit with it.                   *)
Enumerate(w, failed) ==
    /\ w.place = "reading"
    /\ IF Current(w)
       THEN /\ workers' = (workers \ {w}) \cup {[w EXCEPT !.failed = failed, !.place = "posting"]}
            /\ active' = active
       ELSE workers' = workers \ {w} /\ active' = active - 1
    /\ UNCHANGED <<generation, target, listings, panes, told, owed>>

(* Under eventTargetMutex the worker looks again, and posts.               *)
StillWanted(w) == Current(w) /\ target[w.tab]

PostListing(w) ==
    /\ w.place = "posting"
    /\ workers' = workers \ {w} /\ active' = active - 1
    /\ listings' = IF StillWanted(w)
                   THEN Append(listings, [tab |-> w.tab, generation |-> w.generation,
                                          directory |-> w.directory, failed |-> w.failed,
                                          fresh |-> w.fresh])
                   ELSE listings
    /\ UNCHANGED <<generation, target, panes, told, owed>>

-----------------------------------------------------------------------------
(* OnLocalDirectoryLoaded                                                  *)

Wanted(listing) == target[listing.tab] /\ Current(listing)

(* The directory cannot be opened: the one to fall back on.  Else the user *)
(* is told in a message box, about the selected tab only, and the refresh  *)
(* that waited is made, after the box if there is one.                     *)
HandleFailure(listing, pane) ==
    LET t == listing.tab
        rest == [pane EXCEPT !.loading = FALSE, !.path = pane.directory, !.fallback = Nowhere]
        Rest == /\ panes' = [panes EXCEPT ![t] = rest]
                /\ owed' = IF pane.pending THEN owed ELSE owed \ {t}
                /\ UNCHANGED <<active, workers, generation>>
    IN  IF pane.fallback \notin {Nowhere, listing.directory}
        THEN PopulateLocalDirectory(t, rest, pane.fallback, Nowhere) /\ told' = told
        ELSE \/ /\ \A u \in Tabs \ {t} : told[u] = 0
                /\ told' = [told EXCEPT ![t] = @ + 1]
                /\ Rest
             \/ /\ told[t] = 0 /\ told' = told
                /\ IF pane.pending THEN RequestLocalDirectoryRefresh(t, rest) ELSE Rest

(* The user closes the box, and its handler looks at the pane again, which *)
(* may have started another load, or finished it, in the meantime.         *)
CloseNotice(t) ==
    /\ told[t] > 0 /\ told' = [told EXCEPT ![t] = @ - 1]
    /\ IF panes[t].pending /\ ~panes[t].loading
       THEN RequestLocalDirectoryRefresh(t, panes[t])
       ELSE UNCHANGED <<active, workers, generation, panes, owed>>
    /\ UNCHANGED <<target, listings>>

HandleListing(listing, pane) ==
    LET t == listing.tab
        shown == [pane EXCEPT !.loading = FALSE, !.directory = listing.directory,
                              !.path = listing.directory, !.fallback = Nowhere]
    IN  IF pane.pending THEN RequestLocalDirectoryRefresh(t, shown)
        ELSE /\ panes' = [panes EXCEPT ![t] = shown]
             /\ owed' = IF listing.fresh THEN owed \ {t} ELSE owed
             /\ UNCHANGED <<active, workers, generation>>

LocalDirectoryLoaded ==
    /\ listings # <<>>
    /\ listings' = Tail(listings)
    /\ LET listing == Head(listings) IN
       IF ~Wanted(listing) THEN UNCHANGED <<active, workers, generation, panes, told, owed>>
       ELSE IF listing.failed THEN HandleFailure(listing, panes[listing.tab])
       ELSE HandleListing(listing, panes[listing.tab]) /\ told' = told
    /\ UNCHANGED target

(* The tab is closed: Cancel, then the target is taken away.               *)
CloseTab(t) ==
    /\ target[t] /\ NothingTold
    /\ target' = [target EXCEPT ![t] = FALSE]
    /\ generation' = [generation EXCEPT ![t] = @ + 1]
    /\ owed' = owed \ {t}
    /\ UNCHANGED <<active, workers, listings, panes, told>>

LocalNext ==
    \/ \E t \in Tabs :
          \/ DownloadCompletes(t) \/ DownloadCompletesAtRest(t) \/ CloseTab(t)
          \/ CloseNotice(t)
          \/ \E d \in Directories :
                \/ Navigate(t, d)
                \/ BeginConnectionPane(t, d)
                \/ \E initial \in Directories \cup {Nowhere} : SetQuickSitePane(t, d, initial)
    \/ \E w \in workers : PostListing(w) \/ \E failed \in BOOLEAN : Enumerate(w, failed)
    \/ LocalDirectoryLoaded

LocalSpec == LocalInit /\ [][LocalNext]_localVars

-----------------------------------------------------------------------------
LocalTypeOK ==
    /\ workers \subseteq Request
    /\ generation \in [Tabs -> Nat] /\ target \in [Tabs -> BOOLEAN]
    /\ panes \in [Tabs -> Pane] /\ listings \in Seq(Listing)
    /\ told \in [Tabs -> Nat] /\ owed \subseteq Tabs

(* The requests a pane may still hear of.                                  *)
Coming(t) == {r \in workers : r.tab = t /\ Current(r)} \cup
             {r \in Range(listings) : r.tab = t /\ Current(r)}

(* Whatever blocks, fails or is superseded, on whichever tab: permits are  *)
(* counted and bounded; a pane that waits has exactly one listing coming,  *)
(* of the directory its path names, and one that does not has none, and    *)
(* shows the path of what it lists (Load, OnLocalDirectoryLoaded); and a   *)
(* file downloaded while the pane was busy will be listed, at the latest   *)
(* when the user has closed a message box about the pane, or the user is   *)
(* told that it cannot be (localRefreshPending).                           *)
PanesSettle ==
    /\ LocalTypeOK
    /\ active = Cardinality(workers) /\ active <= MaxWorkers
    /\ \A t \in Tabs : target[t] =>
          IF panes[t].loading
          THEN /\ Cardinality(Coming(t)) = 1
               /\ \A r \in Coming(t) : r.directory = panes[t].path
               /\ t \in owed => panes[t].pending \/ \A r \in Coming(t) : r.fresh
          ELSE /\ Coming(t) = {} /\ panes[t].path = panes[t].directory
               /\ t \in owed => panes[t].pending /\ told[t] > 0
=============================================================================
