----------------------------- MODULE WindowProofs -----------------------------
(***************************************************************************)
(* Proofs about the main window: LocalDirectories for any number of tabs,  *)
(* directories and permits, then Workspace for any tabs, endpoints, sites, *)
(* configurations and bounds.                                              *)
(*                                                                         *)
(* LocalDirectories.  A request is known by its tab and generation.        *)
(* Requests that a newer one superseded may still run, or be posted, at    *)
(* any time later; that the pane hears of the newest one only, and hears   *)
(* of it, needs that no two requests have one generation (Apart) and none  *)
(* a future one (NotAhead).                                                *)
(*                                                                         *)
(* Workspace.  A handler calls helpers, each of which may save, and so may *)
(* leave a message box behind; the proof says of each helper what its      *)
(* windows have in common with the one it was called with (Follows).  That *)
(* a tab shows its connection needs that an event's number tells the       *)
(* connection it is of (Numbered, Reports); that credentials in use stay   *)
(* needs that what a waiting box would take away is referred to by nothing *)
(* but what it would take back (Harmless).                                 *)
(***************************************************************************)
EXTENDS Workspace, LocalDirectories, FiniteSetTheorems, SequenceTheorems, TLAPS

Same(r, q) == r.tab = q.tab /\ r.generation = q.generation

Posted == Range(listings)

NotAhead ==
    /\ \A r \in workers : r.generation <= generation[r.tab]
    /\ \A r \in Posted : r.generation <= generation[r.tab]

Apart ==
    /\ \A v, w \in workers : Same(v, w) => v = w
    /\ \A i, k \in DOMAIN listings : Same(listings[i], listings[k]) => i = k
    /\ \A w \in workers, r \in Posted : ~Same(w, r)

PermitsCounted ==
    /\ IsFiniteSet(workers)
    /\ active = Cardinality(workers) /\ active <= MaxWorkers

(* Only a pane that has listed something is asked to list it again.        *)
PendingIsListed == \A t \in Tabs : panes[t].pending => panes[t].directory \in Directories

(* What PanesSettle says of an open tab, with its one listing named.       *)
Hears(t) ==
    \E r : /\ Coming(t) = {r}
           /\ r.directory = panes[t].path
           /\ t \in owed => panes[t].pending \/ r.fresh
Settled(t) ==
    target[t] =>
        /\ panes[t].loading => Hears(t)
        /\ ~panes[t].loading =>
               /\ Coming(t) = {} /\ panes[t].path = panes[t].directory
               /\ t \in owed => panes[t].pending /\ told[t] > 0

(* The inductive invariant.                                                *)
LocalIInv ==
    /\ LocalTypeOK /\ PermitsCounted
    /\ NotAhead /\ Apart /\ PendingIsListed
    /\ \A t \in Tabs : Settled(t)

-----------------------------------------------------------------------------
LEMMA ComingAre ==
    \A t \in Tabs : Coming(t) = {r \in workers \cup Posted : r.tab = t /\ Current(r)}
  BY DEF Coming, Posted

(* What the posted listings are after each kind of step.                   *)
LEMMA PostedAre ==
    ASSUME listings \in Seq(Listing)
    PROVE  /\ DOMAIN listings = 1 .. Len(listings) /\ Len(listings) \in Nat
           /\ \A r : r \in Posted <=> \E i \in DOMAIN listings : r = listings[i]
           /\ Posted \subseteq Listing
  BY DEF Posted, Range

LEMMA TailPosted ==
    ASSUME listings \in Seq(Listing), listings # <<>>, listings' = Tail(listings)
    PROVE  /\ listings' \in Seq(Listing)
           /\ \A k \in DOMAIN listings' :
                 k + 1 \in DOMAIN listings /\ listings'[k] = listings[k + 1]
           /\ \A k, l \in DOMAIN listings' : k + 1 = l + 1 => k = l
           /\ 1 \in DOMAIN listings /\ Head(listings) = listings[1]
           /\ \A k \in DOMAIN listings' : k + 1 # 1
           /\ Head(listings) \in Listing
           /\ Head(listings) \in Posted /\ Posted' \subseteq Posted
           /\ \A r \in Posted : r = Head(listings) \/ r \in Posted'
  <1>1. /\ listings' \in Seq(Listing) /\ Len(listings') = Len(listings) - 1
        /\ Len(listings) \in Nat \ {0}
        /\ DOMAIN listings = 1 .. Len(listings) /\ DOMAIN listings' = 1 .. Len(listings) - 1
        /\ \A k \in 1 .. Len(listings) - 1 : listings'[k] = listings[k + 1]
    OBVIOUS
  <1>2. Head(listings) = listings[1] /\ 1 \in DOMAIN listings /\ Head(listings) \in Listing
    OBVIOUS
  <1>3. \A k \in DOMAIN listings' :
            k \in Nat /\ k + 1 \in DOMAIN listings /\ listings'[k] = listings[k + 1] /\ k + 1 # 1
    BY <1>1
  <1>4. Posted' \subseteq Posted /\ Head(listings) \in Posted
    BY <1>2, <1>3 DEF Posted, Range
  <1>5. ASSUME NEW r \in Posted PROVE r = Head(listings) \/ r \in Posted'
    <2>1. PICK i \in DOMAIN listings : r = listings[i]
      BY DEF Posted, Range
    <2>2. CASE i = 1
      BY <1>2, <2>1, <2>2
    <2>3. CASE i # 1
      <3>1. i - 1 \in DOMAIN listings' /\ (i - 1) + 1 = i
        BY <1>1, <2>3
      <3> QED BY <1>3, <2>1, <3>1 DEF Posted, Range
    <2> QED BY <2>2, <2>3
  <1>6. \A k, l \in DOMAIN listings' : k + 1 = l + 1 => k = l
    BY <1>1
  <1> QED BY <1>1, <1>2, <1>3, <1>4, <1>5, <1>6

LEMMA AppendPosted ==
    ASSUME listings \in Seq(Listing), NEW l \in Listing, listings' = Append(listings, l)
    PROVE  /\ listings' \in Seq(Listing)
           /\ \A k \in DOMAIN listings' : \/ k \in DOMAIN listings /\ listings'[k] = listings[k]
                                          \/ k = Len(listings) + 1 /\ listings'[k] = l
           /\ \A r : r \in Posted' <=> r \in Posted \/ r = l
  <1>1. /\ listings' \in Seq(Listing) /\ Len(listings') = Len(listings) + 1
        /\ Len(listings) \in Nat
        /\ DOMAIN listings = 1 .. Len(listings) /\ DOMAIN listings' = 1 .. Len(listings) + 1
        /\ \A k \in 1 .. Len(listings) : listings'[k] = listings[k]
        /\ listings'[Len(listings) + 1] = l
    OBVIOUS
  <1>2. \A k \in DOMAIN listings' : k \in DOMAIN listings \/ k = Len(listings) + 1
    BY <1>1
  <1>3. \A k \in DOMAIN listings : k \in DOMAIN listings' /\ listings'[k] = listings[k]
    BY <1>1
  <1>4. Len(listings) + 1 \in DOMAIN listings'
    BY <1>1
  <1> QED BY <1>1, <1>2, <1>3, <1>4 DEF Posted, Range

-----------------------------------------------------------------------------
(* A tab none of whose current requests comes or goes is as settled as it  *)
(* was.                                                                    *)
LEMMA OthersStaySettled ==
    ASSUME NEW u \in Tabs, Settled(u), generation'[u] = generation[u],
           target'[u] = target[u], panes'[u] = panes[u], told'[u] = told[u],
           u \in owed' => u \in owed,
           \A r : r.tab = u /\ r.generation = generation[u] =>
                     /\ r \in workers' <=> r \in workers
                     /\ r \in Posted' <=> r \in Posted
    PROVE  Settled(u)'
  <1>1. Coming(u)' = Coming(u)
    <2>1. Coming(u)' = {r \in workers' \cup Posted' : r.tab = u /\ generation'[r.tab] = r.generation}
      BY DEF Coming, Posted, Current
    <2>2. Coming(u) = {r \in workers \cup Posted : r.tab = u /\ generation[r.tab] = r.generation}
      BY DEF Coming, Posted, Current
    <2> QED BY <2>1, <2>2
  <1> QED BY <1>1 DEF Settled, Hears

(* Listings that stay, or lose their head of tab t, keep the bookkeeping.  *)
LoseHead(t) ==
    \/ listings' = listings
    \/ /\ listings # <<>> /\ listings' = Tail(listings)
       /\ Head(listings).tab = t

LEMMA LoseHeadKeeps ==
    ASSUME listings \in Seq(Listing), NEW t, LoseHead(t), Apart, NotAhead
    PROVE  /\ listings' \in Seq(Listing) /\ Posted' \subseteq Posted
           /\ \A r \in Posted : r.tab # t => r \in Posted'
           /\ \A i, k \in DOMAIN listings' : Same(listings'[i], listings'[k]) => i = k
  <1>1. CASE listings' = listings
    BY <1>1 DEF Posted, Apart
  <1>2. CASE listings # <<>> /\ listings' = Tail(listings) /\ Head(listings).tab = t
    BY <1>2, TailPosted DEF Apart
  <1> QED BY <1>1, <1>2 DEF LoseHead

(* A request is made, or none can be: the pane hears of that one only, or  *)
(* of none.                                                                *)
NewRequest(t, d) ==
    [tab |-> t, generation |-> generation[t] + 1, directory |-> d, failed |-> FALSE,
     fresh |-> TRUE, place |-> "reading"]

LEMMA PopulateStep ==
    ASSUME LocalIInv, NEW t \in Tabs, NEW pane \in Pane, NEW d \in Directories,
           NEW fallback \in Directories \cup {Nowhere},
           PopulateLocalDirectory(t, pane, d, fallback),
           pane.pending => pane.directory \in Directories,
           UNCHANGED target, LoseHead(t),
           told' \in [Tabs -> Nat], \A u \in Tabs \ {t} : told'[u] = told[u]
    PROVE  LocalIInv'
  <1>1. /\ workers \subseteq Request /\ generation \in [Tabs -> Nat]
        /\ target \in [Tabs -> BOOLEAN] /\ panes \in [Tabs -> Pane]
        /\ listings \in Seq(Listing) /\ owed \subseteq Tabs
    BY DEF LocalIInv, LocalTypeOK
  <1>2. Apart /\ NotAhead /\ PermitsCounted /\ PendingIsListed
    BY DEF LocalIInv
  <1>3. /\ listings' \in Seq(Listing) /\ Posted' \subseteq Posted
        /\ \A r \in Posted : r.tab # t => r \in Posted'
        /\ \A i, k \in DOMAIN listings' : Same(listings'[i], listings'[k]) => i = k
    BY <1>1, <1>2, LoseHeadKeeps
  <1>4. PICK g \in Nat : g = generation[t]
    BY <1>1
  <1>5. /\ generation' = [generation EXCEPT ![t] = g + 1] /\ generation'[t] = g + 1
        /\ generation' \in [Tabs -> Nat]
        /\ \A u \in Tabs \ {t} : generation'[u] = generation[u]
        /\ \A u \in Tabs : generation[u] <= generation'[u]
    BY <1>1, <1>4 DEF PopulateLocalDirectory, Supersede
  <1>6. PICK new : new = NewRequest(t, d)
    OBVIOUS
  <1>7. /\ new \in Request /\ new.tab = t /\ new.generation = g + 1 /\ new.directory = d
        /\ new.fresh
    BY <1>4, <1>6 DEF NewRequest, Request
  <1>8. \A r \in workers \cup Posted : r.tab \in Tabs /\ r.generation \in Nat
    BY <1>1, PostedAre DEF Request, Listing
  <1>9. \A r \in workers \cup Posted : r.tab = t => r.generation < g + 1
    BY <1>2, <1>4, <1>8 DEF NotAhead
  <1>10. PICK shown \in Pane : /\ panes' = [panes EXCEPT ![t] = shown]
                               /\ shown.pending => shown.directory \in Directories
                               /\ \/ /\ shown.loading /\ shown.path = d
                                     /\ active < MaxWorkers /\ active' = active + 1
                                     /\ workers' = workers \cup {new} /\ owed' = owed
                                  \/ /\ ~shown.loading /\ shown.path = shown.directory
                                     /\ UNCHANGED <<active, workers>> /\ owed' = owed \ {t}
    <2>1. CASE /\ active < MaxWorkers /\ active' = active + 1
               /\ workers' = workers \cup {[tab |-> t, generation |-> generation'[t],
                                            directory |-> d, failed |-> FALSE, fresh |-> TRUE,
                                            place |-> "reading"]}
               /\ panes' = [panes EXCEPT ![t] = [pane EXCEPT !.path = d, !.loading = TRUE,
                               !.fallback = IF fallback = d THEN Nowhere ELSE fallback]]
               /\ owed' = owed
      <3> DEFINE shown == [pane EXCEPT !.path = d, !.loading = TRUE,
                               !.fallback = IF fallback = d THEN Nowhere ELSE fallback]
      <3>1. /\ shown \in Pane /\ shown.pending = pane.pending
            /\ shown.directory = pane.directory /\ shown.loading /\ shown.path = d
        BY DEF Pane
      <3>2. panes' = [panes EXCEPT ![t] = shown]
        BY <2>1
      <3>3. workers' = workers \cup {new}
        BY <1>4, <1>5, <1>6, <2>1 DEF NewRequest
      <3> HIDE DEF shown
      <3> QED BY <2>1, <3>1, <3>2, <3>3
    <2>2. CASE /\ UNCHANGED <<active, workers>> /\ owed' = owed \ {t}
               /\ panes' = [panes EXCEPT ![t] = [pane EXCEPT !.path = pane.directory,
                               !.loading = FALSE, !.fallback = Nowhere]]
      <3> DEFINE shown == [pane EXCEPT !.path = pane.directory, !.loading = FALSE,
                                       !.fallback = Nowhere]
      <3>1. /\ shown \in Pane /\ shown.pending = pane.pending
            /\ shown.directory = pane.directory /\ ~shown.loading
            /\ shown.path = shown.directory
        BY DEF Pane
      <3>2. panes' = [panes EXCEPT ![t] = shown]
        BY <2>2
      <3> HIDE DEF shown
      <3> QED BY <2>2, <3>1, <3>2
    <2> QED BY <2>1, <2>2 DEF PopulateLocalDirectory
  <1>11. new \notin workers
    BY <1>1, <1>7, <1>9
  <1>12. workers' = workers \cup {new} \/ workers' = workers
    BY <1>10
  <1>13. LocalTypeOK'
    <2>1. panes' \in [Tabs -> Pane] /\ owed' \subseteq Tabs
      BY <1>1, <1>10
    <2>2. workers' \subseteq Request
      BY <1>1, <1>7, <1>12
    <2> QED BY <1>1, <1>3, <1>5, <2>1, <2>2 DEF LocalTypeOK
  <1>14. PermitsCounted'
    <2>1. IsFiniteSet(workers) /\ active = Cardinality(workers) /\ active \in Nat
          /\ active <= MaxWorkers
      BY <1>2, FS_CardinalityType DEF PermitsCounted
    <2>2. CASE UNCHANGED <<active, workers>>
      BY <2>1, <2>2 DEF PermitsCounted
    <2>3. CASE active < MaxWorkers /\ active' = active + 1 /\ workers' = workers \cup {new}
      <3>1. IsFiniteSet(workers') /\ Cardinality(workers') = Cardinality(workers) + 1
        BY <1>11, <2>1, <2>3, FS_AddElement
      <3>2. active' <= MaxWorkers
        BY <2>1, <2>3, LocalAssumption DEF LocalAssumption
      <3> QED BY <2>1, <2>3, <3>1, <3>2 DEF PermitsCounted
    <2> QED BY <1>10, <2>2, <2>3
  <1>15. NotAhead'
    <2>1. \A r \in workers \cup Posted : r.generation <= generation'[r.tab]
      BY <1>2, <1>1, <1>5, <1>8 DEF NotAhead
    <2>2. new.generation <= generation'[new.tab]
      BY <1>5, <1>7
    <2> QED BY <1>3, <1>12, <2>1, <2>2 DEF NotAhead
  <1>16. Apart'
    <2>1. \A r \in workers \cup Posted : ~Same(new, r) /\ ~Same(r, new)
      BY <1>7, <1>8, <1>9 DEF Same
    <2> QED BY <1>2, <1>3, <1>12, <2>1 DEF Apart
  <1>17. PendingIsListed'
    BY <1>1, <1>2, <1>10 DEF PendingIsListed
  <1>18. ASSUME NEW u \in Tabs \ {t} PROVE Settled(u)'
    <2>1. Settled(u) /\ generation'[u] = generation[u] /\ target'[u] = target[u]
          /\ panes'[u] = panes[u] /\ told'[u] = told[u] /\ (u \in owed' => u \in owed)
      BY <1>1, <1>5, <1>10 DEF LocalIInv
    <2>2. \A r : r.tab = u => /\ r \in workers' <=> r \in workers
                              /\ r \in Posted' <=> r \in Posted
      BY <1>3, <1>7, <1>12
    <2> QED BY <2>1, <2>2, OthersStaySettled
  <1>19. Settled(t)'
    <2>1. \A r \in workers \cup Posted : ~(r.tab = t /\ generation'[r.tab] = r.generation)
      BY <1>5, <1>8, <1>9
    <2>2. Coming(t)' = {r \in workers' \cup Posted' : r.tab = t /\ generation'[r.tab] = r.generation}
      BY DEF Coming, Posted, Current
    <2>3. panes'[t] = shown
      BY <1>1, <1>10
    <2>4. CASE workers' = workers \cup {new} /\ shown.loading /\ shown.path = d /\ owed' = owed
      <3>1. Coming(t)' = {new}
        BY <1>3, <1>5, <1>7, <2>1, <2>2, <2>4
      <3> QED BY <1>7, <2>3, <2>4, <3>1 DEF Settled, Hears
    <2>5. CASE workers' = workers /\ ~shown.loading /\ shown.path = shown.directory
               /\ owed' = owed \ {t}
      <3>1. Coming(t)' = {}
        BY <1>3, <2>1, <2>2, <2>5
      <3> QED BY <2>3, <2>5, <3>1 DEF Settled
    <2> QED BY <1>10, <2>4, <2>5
  <1> QED BY <1>13, <1>14, <1>15, <1>16, <1>17, <1>18, <1>19 DEF LocalIInv

-----------------------------------------------------------------------------
(* The head of the listings is handled or dropped: no other one is about   *)
(* the same request.                                                       *)
LEMMA HeadIsAlone ==
    ASSUME LocalIInv, listings # <<>>, listings' = Tail(listings), UNCHANGED workers
    PROVE  /\ Apart' /\ (UNCHANGED generation => NotAhead') /\ listings' \in Seq(Listing)
           /\ Head(listings) \in Listing /\ Head(listings) \in Posted
           /\ Posted' \subseteq Posted
           /\ \A r \in Posted : r = Head(listings) \/ r \in Posted'
           /\ \A r \in workers' \cup Posted' : ~Same(r, Head(listings))
  <1>1. listings \in Seq(Listing) /\ Apart /\ NotAhead
    BY DEF LocalIInv, LocalTypeOK
  <1>2. LoseHead(Head(listings).tab)
    BY DEF LoseHead
  <1>3. /\ listings' \in Seq(Listing) /\ Posted' \subseteq Posted
        /\ \A i, k \in DOMAIN listings' : Same(listings'[i], listings'[k]) => i = k
    BY <1>1, <1>2, LoseHeadKeeps
  <1>4. Apart' /\ (UNCHANGED generation => NotAhead')
    BY <1>1, <1>3 DEF Apart, NotAhead
  <1>5. ASSUME NEW r \in Posted', Same(r, Head(listings)) PROVE FALSE
    <2>1. PICK k \in DOMAIN listings' : r = listings'[k]
      BY <1>5 DEF Posted, Range
    <2>2. k + 1 \in DOMAIN listings /\ r = listings[k + 1] /\ k + 1 # 1
          /\ 1 \in DOMAIN listings /\ Head(listings) = listings[1]
      BY <1>1, <2>1, TailPosted
    <2> QED BY <1>1, <1>5, <2>2 DEF Apart
  <1>6. ASSUME NEW r \in workers' PROVE ~Same(r, Head(listings))
    BY <1>1, <1>6, TailPosted DEF Apart
  <1> QED BY <1>1, <1>3, <1>4, <1>5, <1>6, TailPosted

LEMMA HandledStep ==
    ASSUME LocalIInv, listings # <<>>, listings' = Tail(listings),
           UNCHANGED <<active, workers, generation, target>>,
           NEW t \in Tabs, t = Head(listings).tab, Current(Head(listings)),
           NEW shown \in Pane, panes' = [panes EXCEPT ![t] = shown],
           ~shown.loading, shown.path = shown.directory,
           shown.pending => shown.directory \in Directories,
           told' \in [Tabs -> Nat], \A u \in Tabs \ {t} : told'[u] = told[u],
           owed' \subseteq owed, t \in owed' => shown.pending /\ told'[t] > 0
    PROVE  LocalIInv'
  <1>1. /\ workers \subseteq Request /\ generation \in [Tabs -> Nat]
        /\ target \in [Tabs -> BOOLEAN] /\ panes \in [Tabs -> Pane]
        /\ listings \in Seq(Listing) /\ owed \subseteq Tabs
    BY DEF LocalIInv, LocalTypeOK
  <1>2. /\ Apart' /\ NotAhead' /\ listings' \in Seq(Listing) /\ Posted' \subseteq Posted
        /\ \A r \in Posted : r = Head(listings) \/ r \in Posted'
        /\ \A r \in workers' \cup Posted' : ~Same(r, Head(listings))
    BY HeadIsAlone
  <1>3. LocalTypeOK'
    BY <1>1, <1>2 DEF LocalTypeOK
  <1>4. PermitsCounted' /\ PendingIsListed'
    BY <1>1 DEF LocalIInv, PermitsCounted, PendingIsListed
  <1>5. ASSUME NEW u \in Tabs \ {t} PROVE Settled(u)'
    <2>1. Settled(u) /\ panes'[u] = panes[u] /\ told'[u] = told[u]
      BY <1>1 DEF LocalIInv
    <2>2. \A r : r.tab = u => (r \in Posted' <=> r \in Posted)
      BY <1>2
    <2> QED BY <2>1, <2>2, OthersStaySettled
  <1>6. Settled(t)'
    <2>1. Coming(t)' = {r \in workers' \cup Posted' : r.tab = t /\ generation[t] = r.generation}
      BY DEF Coming, Posted, Current
    <2>2. generation[t] = Head(listings).generation
      BY DEF Current
    <2>3. Coming(t)' = {}
      <3>1. ASSUME NEW r \in workers' \cup Posted', r.tab = t, generation[t] = r.generation
            PROVE  FALSE
        <4>1. Same(r, Head(listings))
          BY <2>2, <3>1 DEF Same
        <4> QED BY <1>2, <4>1
      <3> QED BY <2>1, <3>1
    <2>4. panes'[t] = shown
      BY <1>1
    <2> QED BY <2>3, <2>4 DEF Settled
  <1> QED BY <1>2, <1>3, <1>4, <1>5, <1>6 DEF LocalIInv

LEMMA DroppedStep ==
    ASSUME LocalIInv, listings # <<>>, listings' = Tail(listings), ~Wanted(Head(listings)),
           UNCHANGED <<active, workers, generation, target, panes, told, owed>>
    PROVE  LocalIInv'
  <1>1. /\ Apart' /\ NotAhead' /\ listings' \in Seq(Listing) /\ Posted' \subseteq Posted
        /\ \A r \in Posted : r = Head(listings) \/ r \in Posted'
    BY HeadIsAlone
  <1>2. LocalTypeOK' /\ PermitsCounted' /\ PendingIsListed'
    BY <1>1 DEF LocalIInv, LocalTypeOK, PermitsCounted, PendingIsListed
  <1>3. ASSUME NEW u \in Tabs PROVE Settled(u)'
    <2>1. CASE ~target[u]
      BY <2>1 DEF Settled
    <2>2. CASE target[u]
      <3>1. \A r : r.tab = u /\ r.generation = generation[u] => (r \in Posted' <=> r \in Posted)
        BY <1>1, <2>2 DEF Wanted, Current
      <3>2. Settled(u)
        BY DEF LocalIInv
      <3> QED BY <3>1, <3>2, OthersStaySettled
    <2> QED BY <2>1, <2>2
  <1> QED BY <1>1, <1>2, <1>3 DEF LocalIInv

LEMMA LoadedStep == ASSUME LocalIInv, LocalDirectoryLoaded PROVE LocalIInv'
  <1> DEFINE listing == Head(listings)
  <1>1. listings # <<>> /\ listings' = Tail(listings) /\ UNCHANGED target
    BY DEF LocalDirectoryLoaded
  <1>2. listings \in Seq(Listing) /\ panes \in [Tabs -> Pane] /\ told \in [Tabs -> Nat]
    BY DEF LocalIInv, LocalTypeOK
  <1>3. listing \in Listing /\ listing \in Posted
    BY <1>1, <1>2, TailPosted
  <1>4. PICK t \in Tabs : t = listing.tab
    BY <1>3 DEF Listing
  <1>5. listing.directory \in Directories
    BY <1>3 DEF Listing
  <1>6. PICK pane \in Pane : pane = panes[t]
    BY <1>2
  <1>7. pane.pending => pane.directory \in Directories
    BY <1>6 DEF LocalIInv, PendingIsListed
  <1>8. LoseHead(t)
    BY <1>1, <1>4 DEF LoseHead
  <1>9. CASE ~Wanted(listing)
    BY <1>1, <1>9, DroppedStep DEF LocalDirectoryLoaded
  <1>10. CASE Wanted(listing) /\ listing.failed
    <2> DEFINE rest == [pane EXCEPT !.loading = FALSE, !.path = pane.directory,
                                    !.fallback = Nowhere]
    <2>1. HandleFailure(listing, pane)
      BY <1>4, <1>6, <1>10 DEF LocalDirectoryLoaded
    <2>2. /\ rest \in Pane /\ rest.pending = pane.pending /\ ~rest.loading
          /\ rest.directory = pane.directory /\ rest.path = rest.directory
      BY DEF Pane
    <2>3. \/ /\ pane.fallback \in Directories /\ told' = told
             /\ PopulateLocalDirectory(t, rest, pane.fallback, Nowhere)
          \/ pane.pending /\ RequestLocalDirectoryRefresh(t, rest) /\ told' = told
          \/ /\ panes' = [panes EXCEPT ![t] = rest]
             /\ owed' = IF pane.pending THEN owed ELSE owed \ {t}
             /\ UNCHANGED <<active, workers, generation>>
             /\ \/ told' = [told EXCEPT ![t] = @ + 1]
                \/ ~pane.pending /\ told' = told
      <3>1. pane.fallback \in Directories \cup {Nowhere}
        BY DEF Pane
      <3> QED BY <1>4, <2>1, <3>1 DEF HandleFailure
    <2> HIDE DEF rest
    <2>4. CASE /\ pane.fallback \in Directories /\ told' = told
               /\ PopulateLocalDirectory(t, rest, pane.fallback, Nowhere)
      <3>1. PICK d \in Directories : d = pane.fallback
        BY <2>4
      <3> QED BY <1>1, <1>2, <1>7, <1>8, <2>2, <2>4, <3>1, PopulateStep
    <2>5. CASE pane.pending /\ RequestLocalDirectoryRefresh(t, rest) /\ told' = told
      <3>1. PICK d \in Directories : d = rest.directory
        BY <1>7, <2>2, <2>5
      <3>2. PICK again : again = [rest EXCEPT !.pending = FALSE]
        OBVIOUS
      <3>3. again \in Pane /\ ~again.pending
        BY <2>2, <3>2 DEF Pane
      <3>4. PopulateLocalDirectory(t, again, d, Nowhere)
        BY <2>5, <3>1, <3>2 DEF RequestLocalDirectoryRefresh
      <3> QED BY <1>1, <1>2, <1>8, <2>5, <3>3, <3>4, PopulateStep
    <2>6. CASE /\ panes' = [panes EXCEPT ![t] = rest]
               /\ owed' = IF pane.pending THEN owed ELSE owed \ {t}
               /\ UNCHANGED <<active, workers, generation>>
               /\ \/ told' = [told EXCEPT ![t] = @ + 1]
                  \/ ~pane.pending /\ told' = told
      <3>1. told' \in [Tabs -> Nat] /\ \A u \in Tabs \ {t} : told'[u] = told[u]
        BY <1>2, <2>6
      <3>2. owed' \subseteq owed /\ (t \in owed' => rest.pending /\ told'[t] > 0)
        BY <1>2, <2>2, <2>6
      <3>3. rest.pending => rest.directory \in Directories
        BY <1>7, <2>2
      <3> QED BY <1>1, <1>4, <1>10, <2>2, <2>6, <3>1, <3>2, <3>3, HandledStep DEF Wanted
    <2> QED BY <2>3, <2>4, <2>5, <2>6
  <1>11. CASE Wanted(listing) /\ ~listing.failed
    <2> DEFINE shown == [pane EXCEPT !.loading = FALSE, !.directory = listing.directory,
                                     !.path = listing.directory, !.fallback = Nowhere]
    <2>1. HandleListing(listing, pane) /\ told' = told
      BY <1>4, <1>6, <1>11 DEF LocalDirectoryLoaded
    <2>2. /\ shown \in Pane /\ shown.pending = pane.pending /\ ~shown.loading
          /\ shown.directory = listing.directory /\ shown.path = shown.directory
      BY <1>5 DEF Pane
    <2>3. \/ pane.pending /\ RequestLocalDirectoryRefresh(t, shown)
          \/ /\ ~pane.pending /\ panes' = [panes EXCEPT ![t] = shown]
             /\ owed' = IF listing.fresh THEN owed \ {t} ELSE owed
             /\ UNCHANGED <<active, workers, generation>>
      BY <1>4, <2>1 DEF HandleListing
    <2> HIDE DEF shown
    <2>4. CASE pane.pending /\ RequestLocalDirectoryRefresh(t, shown)
      <3>1. PICK d \in Directories : d = shown.directory
        BY <1>5, <2>2
      <3>2. PICK again : again = [shown EXCEPT !.pending = FALSE]
        OBVIOUS
      <3>3. again \in Pane /\ ~again.pending
        BY <2>2, <3>2 DEF Pane
      <3>4. PopulateLocalDirectory(t, again, d, Nowhere)
        BY <2>4, <3>1, <3>2 DEF RequestLocalDirectoryRefresh
      <3> QED BY <1>1, <1>2, <1>8, <2>1, <3>3, <3>4, PopulateStep
    <2>5. CASE /\ ~pane.pending /\ panes' = [panes EXCEPT ![t] = shown]
               /\ owed' = IF listing.fresh THEN owed \ {t} ELSE owed
               /\ UNCHANGED <<active, workers, generation>>
      <3>1. t \in owed => listing.fresh
        <4>1. Settled(t) /\ target[t] /\ listing \in Coming(t)
          BY <1>3, <1>4, <1>11 DEF LocalIInv, Wanted, Coming, Posted
        <4> QED BY <1>6, <2>5, <4>1 DEF Settled, Hears
      <3>2. owed' \subseteq owed /\ t \notin owed'
        BY <2>5, <3>1
      <3>3. told' \in [Tabs -> Nat] /\ \A u \in Tabs \ {t} : told'[u] = told[u]
        BY <1>2, <2>1
      <3>4. ~shown.pending
        BY <2>2, <2>5
      <3> QED BY <1>1, <1>4, <1>11, <2>2, <2>5, <3>2, <3>3, <3>4, HandledStep DEF Wanted
    <2> QED BY <2>3, <2>4, <2>5
  <1> QED BY <1>9, <1>10, <1>11

-----------------------------------------------------------------------------
(* A worker lists its directory, and posts, or ends.                       *)
LEMMA EnumerateStep ==
    ASSUME LocalIInv, NEW w \in workers, NEW failed \in BOOLEAN, Enumerate(w, failed)
    PROVE  LocalIInv'
  <1>1. /\ workers \subseteq Request /\ listings \in Seq(Listing)
        /\ IsFiniteSet(workers) /\ active = Cardinality(workers) /\ active \in Nat
        /\ active <= MaxWorkers
    BY FS_CardinalityType DEF LocalIInv, LocalTypeOK, PermitsCounted
  <1>2. IsFiniteSet(workers \ {w}) /\ Cardinality(workers \ {w}) = active - 1
    BY <1>1, FS_RemoveElement
  <1>3. UNCHANGED <<generation, target, listings, panes, told, owed>> /\ Posted' = Posted
    BY DEF Enumerate, Posted
  <1>4. CASE Current(w)
    <2>1. PICK v : v = [w EXCEPT !.failed = failed, !.place = "posting"]
      OBVIOUS
    <2>2. /\ v \in Request /\ Same(v, w) /\ v.directory = w.directory /\ v.fresh = w.fresh
          /\ v.tab = w.tab /\ v.generation = w.generation
      BY <1>1, <2>1 DEF Request, Same
    <2>3. workers' = (workers \ {w}) \cup {v} /\ active' = active
      BY <1>4, <2>1 DEF Enumerate
    <2>4. \A u \in workers \ {w} : ~Same(u, v) /\ ~Same(v, u)
      BY <2>2 DEF LocalIInv, Apart, Same
    <2>5. LocalTypeOK'
      BY <1>1, <1>3, <2>2, <2>3 DEF LocalIInv, LocalTypeOK
    <2>6. PermitsCounted'
      <3>1. v \notin workers \ {w}
        BY <2>4 DEF Same
      <3>2. IsFiniteSet(workers') /\ Cardinality(workers') = (active - 1) + 1
        BY <1>2, <2>3, <3>1, FS_AddElement
      <3> QED BY <1>1, <2>3, <3>2 DEF PermitsCounted
    <2>7. NotAhead' /\ PendingIsListed'
      BY <1>3, <2>2, <2>3 DEF LocalIInv, NotAhead, PendingIsListed
    <2>8. Apart'
      <3>1. \A r \in Posted : ~Same(v, r)
        BY <2>2 DEF LocalIInv, Apart, Same
      <3> QED BY <1>3, <2>3, <2>4, <3>1 DEF LocalIInv, Apart
    <2>9. ASSUME NEW u \in Tabs PROVE Settled(u)'
      <3>1. Settled(u)
        BY DEF LocalIInv
      <3>2. CASE u # w.tab
        BY <1>3, <2>2, <2>3, <3>1, <3>2, OthersStaySettled
      <3>3. CASE u = w.tab
        <4>1. w \in Coming(u)
          BY <1>4, <3>3 DEF Coming
        <4>2. Coming(u)' =
                {r \in workers' \cup Posted : r.tab = u /\ generation[r.tab] = r.generation}
          BY <1>3 DEF Coming, Posted, Current
        <4>3. Coming(u) =
                {r \in workers \cup Posted : r.tab = u /\ generation[r.tab] = r.generation}
          BY DEF Coming, Posted, Current
        <4>4. w \notin Posted
          BY DEF LocalIInv, Apart, Same
        <4>5. Coming(u)' = (Coming(u) \ {w}) \cup {v}
          BY <1>4, <2>2, <2>3, <3>3, <4>2, <4>3, <4>4 DEF Current
        <4>6. CASE Coming(u) = {w}
          <5>1. Coming(u)' = {v}
            BY <4>5, <4>6
          <5> QED BY <1>3, <2>2, <3>1, <4>6, <5>1 DEF Settled, Hears
        <4>7. CASE Coming(u) # {w}
          BY <1>3, <3>1, <4>1, <4>7 DEF Settled, Hears
        <4> QED BY <4>6, <4>7
      <3> QED BY <3>2, <3>3
    <2> QED BY <2>5, <2>6, <2>7, <2>8, <2>9 DEF LocalIInv
  <1>5. CASE ~Current(w)
    <2>1. workers' = workers \ {w} /\ active' = active - 1
      BY <1>5 DEF Enumerate
    <2>2. LocalTypeOK' /\ NotAhead' /\ PendingIsListed' /\ Apart'
      BY <1>3, <2>1 DEF LocalIInv, LocalTypeOK, NotAhead, PendingIsListed, Apart
    <2>3. PermitsCounted'
      BY <1>1, <1>2, <2>1, LocalAssumption DEF PermitsCounted, LocalAssumption
    <2>4. ASSUME NEW u \in Tabs PROVE Settled(u)'
      <3>1. Settled(u)
        BY DEF LocalIInv
      <3>2. \A r : r.tab = u /\ r.generation = generation[u] =>
                      /\ r \in workers' <=> r \in workers
                      /\ r \in Posted' <=> r \in Posted
        BY <1>3, <1>5, <2>1 DEF Current
      <3> QED BY <1>3, <3>1, <3>2, OthersStaySettled
    <2> QED BY <2>2, <2>3, <2>4 DEF LocalIInv
  <1> QED BY <1>4, <1>5

LEMMA PostListingStep ==
    ASSUME LocalIInv, NEW w \in workers, PostListing(w) PROVE LocalIInv'
  <1>1. /\ workers \subseteq Request /\ listings \in Seq(Listing)
        /\ IsFiniteSet(workers) /\ active = Cardinality(workers) /\ active \in Nat
        /\ active <= MaxWorkers
    BY FS_CardinalityType DEF LocalIInv, LocalTypeOK, PermitsCounted
  <1>2. IsFiniteSet(workers \ {w}) /\ Cardinality(workers \ {w}) = active - 1
    BY <1>1, FS_RemoveElement
  <1>3. /\ UNCHANGED <<generation, target, panes, told, owed>>
        /\ workers' = workers \ {w} /\ active' = active - 1
    BY DEF PostListing
  <1>4. PermitsCounted'
    BY <1>1, <1>2, <1>3, LocalAssumption DEF PermitsCounted, LocalAssumption
  <1>5. CASE StillWanted(w)
    <2>1. PICK l : l = [tab |-> w.tab, generation |-> w.generation, directory |-> w.directory,
                        failed |-> w.failed, fresh |-> w.fresh]
      OBVIOUS
    <2>2. /\ l \in Listing /\ Same(l, w) /\ l.directory = w.directory /\ l.fresh = w.fresh
          /\ l.tab = w.tab /\ l.generation = w.generation
      BY <1>1, <2>1 DEF Request, Listing, Same
    <2>3. listings' = Append(listings, l)
      BY <1>5, <2>1 DEF PostListing
    <2>4. /\ listings' \in Seq(Listing)
          /\ \A k \in DOMAIN listings' : \/ k \in DOMAIN listings /\ listings'[k] = listings[k]
                                         \/ k = Len(listings) + 1 /\ listings'[k] = l
          /\ \A r : r \in Posted' <=> r \in Posted \/ r = l
      BY <1>1, <2>2, <2>3, AppendPosted
    <2>5. \A r \in Posted : ~Same(r, l) /\ ~Same(l, r)
      BY <2>2 DEF LocalIInv, Apart, Same
    <2>6. LocalTypeOK' /\ NotAhead' /\ PendingIsListed'
      BY <1>1, <1>3, <2>2, <2>4 DEF LocalIInv, LocalTypeOK, NotAhead, PendingIsListed
    <2>7. Apart'
      <3>1. \A u \in workers' : ~Same(u, l)
        BY <1>3, <2>2 DEF LocalIInv, Apart, Same
      <3>2. \A k \in DOMAIN listings : listings[k] \in Posted
        BY <1>1, PostedAre
      <3>3. \A i, k \in DOMAIN listings' : Same(listings'[i], listings'[k]) => i = k
        BY <2>4, <2>5, <3>2 DEF LocalIInv, Apart
      <3> QED BY <1>3, <2>4, <3>1, <3>3 DEF LocalIInv, Apart
    <2>8. ASSUME NEW u \in Tabs PROVE Settled(u)'
      <3>1. Settled(u)
        BY DEF LocalIInv
      <3>2. CASE u # w.tab
        BY <1>3, <2>2, <2>4, <3>1, <3>2, OthersStaySettled
      <3>3. CASE u = w.tab
        <4>1. w \in Coming(u)
          BY <1>5, <3>3 DEF Coming, StillWanted
        <4>2. Coming(u)' =
                {r \in workers' \cup Posted' : r.tab = u /\ generation[r.tab] = r.generation}
          BY <1>3 DEF Coming, Posted, Current
        <4>3. Coming(u) =
                {r \in workers \cup Posted : r.tab = u /\ generation[r.tab] = r.generation}
          BY DEF Coming, Posted, Current
        <4>4. w \notin Posted
          BY DEF LocalIInv, Apart, Same
        <4>5. Coming(u)' = (Coming(u) \ {w}) \cup {l}
          BY <1>3, <1>5, <2>2, <2>4, <3>3, <4>2, <4>3, <4>4 DEF Current, StillWanted
        <4>6. CASE Coming(u) = {w}
          <5>1. Coming(u)' = {l}
            BY <4>5, <4>6
          <5> QED BY <1>3, <2>2, <3>1, <4>6, <5>1 DEF Settled, Hears
        <4>7. CASE Coming(u) # {w}
          BY <1>3, <3>1, <4>1, <4>7 DEF Settled, Hears
        <4> QED BY <4>6, <4>7
      <3> QED BY <3>2, <3>3
    <2> QED BY <1>4, <2>6, <2>7, <2>8 DEF LocalIInv
  <1>6. CASE ~StillWanted(w)
    <2>1. listings' = listings /\ Posted' = Posted
      BY <1>6 DEF PostListing, Posted
    <2>2. LocalTypeOK' /\ NotAhead' /\ PendingIsListed' /\ Apart'
      BY <1>3, <2>1 DEF LocalIInv, LocalTypeOK, NotAhead, PendingIsListed, Apart
    <2>3. ASSUME NEW u \in Tabs PROVE Settled(u)'
      <3>1. CASE ~target[u]
        BY <1>3, <3>1 DEF Settled
      <3>2. CASE target[u]
        <4>1. \A r : r.tab = u /\ r.generation = generation[u] =>
                        /\ r \in workers' <=> r \in workers
                        /\ r \in Posted' <=> r \in Posted
          BY <1>3, <1>6, <2>1, <3>2 DEF Current, StillWanted
        <4>2. Settled(u)
          BY DEF LocalIInv
        <4> QED BY <1>3, <4>1, <4>2, OthersStaySettled
      <3> QED BY <3>1, <3>2
    <2> QED BY <1>4, <2>2, <2>3 DEF LocalIInv
  <1> QED BY <1>5, <1>6

-----------------------------------------------------------------------------
(* A download completes while the pane is busy: whatever was asked for, on *)
(* whichever worker or in whichever listing, may have passed the file by.  *)
Late(r, t) == IF r.tab = t THEN [r EXCEPT !.fresh = FALSE] ELSE r

LEMMA LateAre ==
    ASSUME NEW t, NEW r \in Request \cup Listing
    PROVE  /\ r \in Request => Late(r, t) \in Request
           /\ r \in Listing => Late(r, t) \in Listing
           /\ Late(r, t).tab = r.tab /\ Late(r, t).generation = r.generation
           /\ Late(r, t).directory = r.directory
           /\ r.tab # t => Late(r, t) = r
  BY DEF Late, Request, Listing

LEMMA DownloadCompletesStep ==
    ASSUME LocalIInv, NEW t \in Tabs, DownloadCompletes(t) PROVE LocalIInv'
  <1>1. /\ workers \subseteq Request /\ listings \in Seq(Listing)
        /\ panes \in [Tabs -> Pane] /\ owed \subseteq Tabs
        /\ IsFiniteSet(workers)
    BY DEF LocalIInv, LocalTypeOK, PermitsCounted
  <1>2. /\ UNCHANGED <<active, generation, target, told>> /\ owed' = owed \cup {t}
        /\ panes[t].loading /\ panes[t].directory \in Directories
    BY <1>1 DEF DownloadCompletes, Pane
  <1>3. workers' = {Late(r, t) : r \in workers}
    BY DEF DownloadCompletes, Outdated, Late
  <1>4. /\ DOMAIN listings' = DOMAIN listings
        /\ \A i \in DOMAIN listings : listings'[i] = Late(listings[i], t)
    BY DEF DownloadCompletes, OutdatedListings, Late
  <1>5. \A i \in DOMAIN listings : listings[i] \in Listing
    BY <1>1
  <1>6. listings' \in Seq(Listing)
    <2>1. \A i \in 1 .. Len(listings) : Late(listings[i], t) \in Listing
      BY <1>5, LateAre, <1>1
    <2>2. Len(listings) \in Nat
      BY <1>1
    <2>3. listings' = [i \in 1 .. Len(listings) |-> Late(listings[i], t)]
      BY <1>1 DEF DownloadCompletes, OutdatedListings, Late
    <2> QED BY <2>1, <2>2, <2>3
  <1>7. \A r : r \in Posted' <=> \E q \in Posted : r = Late(q, t)
    BY <1>4 DEF Posted, Range
  <1>8. Posted \subseteq Listing
    BY <1>5 DEF Posted, Range
  <1>9. \A v, w \in workers : Late(v, t) = Late(w, t) => v = w
    BY <1>1, LateAre DEF LocalIInv, Apart, Same
  <1>10. PICK shown \in Pane : /\ panes' = [panes EXCEPT ![t] = shown]
                               /\ shown.loading /\ shown.pending
                               /\ shown.path = panes[t].path
                               /\ shown.directory = panes[t].directory
    <2>1. PICK pane \in Pane : pane = panes[t]
      BY <1>1
    <2>2. RefreshLater(pane) \in Pane /\ RefreshLater(pane).loading
          /\ RefreshLater(pane).pending /\ RefreshLater(pane).path = pane.path
          /\ RefreshLater(pane).directory = pane.directory
      BY <1>2, <2>1 DEF RefreshLater, Pane
    <2>3. panes' = [panes EXCEPT ![t] = RefreshLater(pane)]
      BY <2>1 DEF DownloadCompletes
    <2> QED BY <2>1, <2>2, <2>3
  <1>11. LocalTypeOK'
    <2>1. workers' \subseteq Request
      BY <1>1, <1>3, LateAre
    <2> QED BY <1>1, <1>2, <1>6, <1>10, <2>1 DEF LocalIInv, LocalTypeOK
  <1>12. PermitsCounted'
    <2> DEFINE f == [w \in workers |-> Late(w, t)]
    <2>1. f \in Bijection(workers, workers')
      BY <1>3, <1>9 DEF Bijection, Injection, Surjection, IsInjective
    <2>2. ExistsBijection(workers, workers')
      BY <2>1 DEF ExistsBijection
    <2>3. IsFiniteSet(workers') /\ Cardinality(workers') = Cardinality(workers)
      BY <1>1, <2>2, FS_Bijection
    <2> QED BY <1>2, <2>3 DEF LocalIInv, PermitsCounted
  <1>13. NotAhead'
    BY <1>1, <1>2, <1>3, <1>7, <1>8, LateAre DEF LocalIInv, NotAhead
  <1>14. Apart'
    <2>1. \A v, w \in workers' : Same(v, w) => v = w
      BY <1>1, <1>3, LateAre DEF LocalIInv, Apart, Same
    <2>2. \A i, k \in DOMAIN listings' : Same(listings'[i], listings'[k]) => i = k
      BY <1>4, <1>5, LateAre DEF LocalIInv, Apart, Same
    <2>3. \A w \in workers', r \in Posted' : ~Same(w, r)
      BY <1>1, <1>3, <1>7, <1>8, LateAre DEF LocalIInv, Apart, Same
    <2> QED BY <2>1, <2>2, <2>3 DEF Apart
  <1>15. PendingIsListed'
    BY <1>1, <1>2, <1>10 DEF LocalIInv, PendingIsListed
  <1>16. \A u \in Tabs : Coming(u)' = {Late(r, t) : r \in Coming(u)}
    BY <1>1, <1>2, <1>3, <1>7, <1>8, LateAre DEF Coming, Posted, Current
  <1>17. ASSUME NEW u \in Tabs PROVE Settled(u)'
    <2>1. Settled(u)
      BY DEF LocalIInv
    <2>2. CASE u # t
      <3>1. \A r \in Coming(u) : Late(r, t) = r
        BY <1>1, <1>8, <2>2, LateAre DEF Coming, Posted
      <3>2. Coming(u)' = Coming(u)
        BY <1>16, <3>1
      <3>3. panes'[u] = panes[u] /\ (u \in owed' <=> u \in owed)
        BY <1>1, <1>2, <1>10, <2>2
      <3> QED BY <1>2, <2>1, <3>2, <3>3 DEF Settled, Hears
    <2>3. CASE u = t
      <3>1. panes'[t] = shown
        BY <1>1, <1>10
      <3>2. CASE ~target[t]
        BY <1>2, <2>3, <3>2 DEF Settled
      <3>3. CASE target[t]
        <4>1. PICK r : Coming(t) = {r} /\ r.directory = panes[t].path
          BY <1>2, <2>1, <2>3, <3>3 DEF Settled, Hears
        <4>2. r \in Request \cup Listing
          BY <1>1, <1>8, <4>1 DEF Coming, Posted
        <4>3. Coming(t)' = {Late(r, t)} /\ Late(r, t).directory = shown.path
          BY <1>10, <1>16, <4>1, <4>2, LateAre
        <4> QED BY <1>10, <2>3, <3>1, <4>3 DEF Settled, Hears
      <3> QED BY <2>3, <3>2, <3>3
    <2> QED BY <2>2, <2>3
  <1> QED BY <1>11, <1>12, <1>13, <1>14, <1>15, <1>17 DEF LocalIInv

LEMMA CloseTabStep == ASSUME LocalIInv, NEW t \in Tabs, CloseTab(t) PROVE LocalIInv'
  <1>1. /\ generation \in [Tabs -> Nat] /\ target \in [Tabs -> BOOLEAN]
        /\ workers \subseteq Request /\ Posted \subseteq Listing
    BY PostedAre DEF LocalIInv, LocalTypeOK
  <1>2. /\ target' = [target EXCEPT ![t] = FALSE] /\ owed' = owed \ {t}
        /\ UNCHANGED <<active, workers, listings, panes, told>> /\ Posted' = Posted
    BY DEF CloseTab, Posted
  <1>3. /\ generation' \in [Tabs -> Nat]
        /\ \A u \in Tabs \ {t} : generation'[u] = generation[u]
        /\ \A u \in Tabs : generation[u] <= generation'[u]
    BY <1>1 DEF CloseTab
  <1>4. LocalTypeOK' /\ PermitsCounted' /\ Apart' /\ PendingIsListed'
    BY <1>1, <1>2, <1>3 DEF LocalIInv, LocalTypeOK, PermitsCounted, Apart, PendingIsListed
  <1>5. NotAhead'
    <2>1. \A r \in workers \cup Posted : r.tab \in Tabs /\ r.generation \in Nat
      BY <1>1 DEF Request, Listing
    <2>2. \A r \in workers \cup Posted : r.generation <= generation'[r.tab]
      BY <1>1, <1>3, <2>1 DEF LocalIInv, NotAhead
    <2> QED BY <1>2, <2>2 DEF NotAhead
  <1>6. ASSUME NEW u \in Tabs PROVE Settled(u)'
    <2>1. CASE u = t
      BY <1>1, <1>2, <2>1 DEF Settled
    <2>2. CASE u # t
      <3>1. Settled(u) /\ target'[u] = target[u] /\ generation'[u] = generation[u]
        BY <1>1, <1>2, <1>3, <2>2 DEF LocalIInv
      <3> QED BY <1>2, <3>1, OthersStaySettled
    <2> QED BY <2>1, <2>2
  <1> QED BY <1>4, <1>5, <1>6 DEF LocalIInv

-----------------------------------------------------------------------------
(* What a pane asks for, it asks for of its own accord.                    *)
LEMMA AskingStep ==
    ASSUME LocalIInv, NEW t \in Tabs, NEW d \in Directories,
           NEW fallback \in Directories \cup {Nowhere},
           PopulateLocalDirectory(t, panes[t], d, fallback),
           UNCHANGED <<target, listings, told>>
    PROVE  LocalIInv'
  <1>1. PICK pane \in Pane : pane = panes[t]
    BY DEF LocalIInv, LocalTypeOK
  <1>2. pane.pending => pane.directory \in Directories
    BY <1>1 DEF LocalIInv, PendingIsListed
  <1>3. told' \in [Tabs -> Nat] /\ \A u \in Tabs \ {t} : told'[u] = told[u]
    BY DEF LocalIInv, LocalTypeOK
  <1> QED BY <1>1, <1>2, <1>3, PopulateStep DEF LoseHead

LEMMA DownloadCompletesAtRestStep ==
    ASSUME LocalIInv, NEW t \in Tabs, DownloadCompletesAtRest(t) PROVE LocalIInv'
  <1>1. PICK pane \in Pane : pane = panes[t]
    BY DEF LocalIInv, LocalTypeOK
  <1>2. PICK d \in Directories : d = pane.directory
    BY <1>1 DEF DownloadCompletesAtRest, Pane
  <1>3. PICK again : again = [pane EXCEPT !.pending = FALSE]
    OBVIOUS
  <1>4. again \in Pane /\ ~again.pending
    BY <1>3 DEF Pane
  <1>5. PopulateLocalDirectory(t, again, d, Nowhere) /\ UNCHANGED <<target, listings, told>>
    BY <1>1, <1>2, <1>3 DEF DownloadCompletesAtRest, RequestLocalDirectoryRefresh
  <1>6. told' \in [Tabs -> Nat] /\ \A u \in Tabs \ {t} : told'[u] = told[u]
    BY <1>5 DEF LocalIInv, LocalTypeOK
  <1> QED BY <1>4, <1>5, <1>6, PopulateStep DEF LoseHead

(* The box about a failed load is closed.                                  *)
LEMMA CloseNoticeStep ==
    ASSUME LocalIInv, NEW t \in Tabs, CloseNotice(t) PROVE LocalIInv'
  <1>1. PICK pane \in Pane : pane = panes[t]
    BY DEF LocalIInv, LocalTypeOK
  <1>2. told \in [Tabs -> Nat] /\ told[t] > 0 /\ UNCHANGED <<target, listings>>
    BY DEF LocalIInv, LocalTypeOK, CloseNotice
  <1>3. told' \in [Tabs -> Nat] /\ \A u \in Tabs \ {t} : told'[u] = told[u]
    BY <1>2 DEF CloseNotice
  <1>4. CASE pane.pending /\ ~pane.loading
    <2>1. PICK d \in Directories : d = pane.directory
      BY <1>1, <1>4 DEF LocalIInv, PendingIsListed
    <2>2. PICK again : again = [pane EXCEPT !.pending = FALSE]
      OBVIOUS
    <2>3. again \in Pane /\ ~again.pending
      BY <2>2 DEF Pane
    <2>4. PopulateLocalDirectory(t, again, d, Nowhere)
      BY <1>1, <1>4, <2>1, <2>2 DEF CloseNotice, RequestLocalDirectoryRefresh
    <2> QED BY <1>2, <1>3, <2>3, <2>4, PopulateStep DEF LoseHead
  <1>5. CASE ~(pane.pending /\ ~pane.loading)
    <2>1. UNCHANGED <<active, workers, generation, target, listings, panes, owed>>
             /\ Posted' = Posted
      BY <1>1, <1>2, <1>5 DEF CloseNotice, Posted
    <2>2. LocalTypeOK' /\ PermitsCounted' /\ NotAhead' /\ Apart' /\ PendingIsListed'
      BY <1>3, <2>1 DEF LocalIInv, LocalTypeOK, PermitsCounted, NotAhead, Apart,
         PendingIsListed
    <2>3. ASSUME NEW u \in Tabs PROVE Settled(u)'
      <3>1. Settled(u)
        BY DEF LocalIInv
      <3>2. CASE u # t
        BY <1>3, <2>1, <3>1, <3>2, OthersStaySettled
      <3>3. CASE u = t
        <4>1. Coming(u)' = Coming(u)
          BY <2>1 DEF Coming, Current
        <4> QED BY <1>1, <1>5, <2>1, <3>1, <3>3, <4>1 DEF Settled, Hears
      <3> QED BY <3>2, <3>3
    <2> QED BY <2>2, <2>3 DEF LocalIInv
  <1> QED BY <1>4, <1>5

LEMMA LocalInitially == LocalInit => LocalIInv
  <1> SUFFICES ASSUME LocalInit PROVE LocalIInv
    OBVIOUS
  <1>1. LocalTypeOK /\ Posted = {}
    BY DEF LocalInit, LocalTypeOK, Pane, Posted, Range
  <1>2. PermitsCounted
    BY FS_EmptySet, LocalAssumption DEF LocalInit, PermitsCounted, LocalAssumption
  <1>3. NotAhead /\ Apart /\ PendingIsListed
    BY <1>1 DEF LocalInit, NotAhead, Apart, PendingIsListed
  <1>4. \A t \in Tabs : Settled(t)
    BY <1>1 DEF LocalInit, Settled, Coming, Posted
  <1> QED BY <1>1, <1>2, <1>3, <1>4 DEF LocalIInv

LEMMA LocalSteps == LocalIInv /\ [LocalNext]_localVars => LocalIInv'
  <1> SUFFICES ASSUME LocalIInv, [LocalNext]_localVars PROVE LocalIInv'
    OBVIOUS
  <1>1. ASSUME NEW t \in Tabs, NEW d \in Directories, Navigate(t, d) PROVE LocalIInv'
    BY <1>1, AskingStep DEF Navigate
  <1>2. ASSUME NEW t \in Tabs, NEW d \in Directories, BeginConnectionPane(t, d)
        PROVE  LocalIInv'
    <2>1. PICK fallback \in Directories \cup {Nowhere} : fallback = panes[t].directory
      BY DEF LocalIInv, LocalTypeOK, Pane
    <2> QED BY <1>2, <2>1, AskingStep DEF BeginConnectionPane
  <1>3. ASSUME NEW t \in Tabs, NEW d \in Directories,
               NEW initial \in Directories \cup {Nowhere}, SetQuickSitePane(t, d, initial)
        PROVE  LocalIInv'
    <2>1. PICK pane \in Pane : pane = panes[t]
      BY DEF LocalIInv, LocalTypeOK
    <2>2. ConnectionFallback(pane, d, initial) \in Directories \cup {Nowhere}
      BY DEF ConnectionFallback, Pane
    <2>3. PICK fallback \in Directories \cup {Nowhere} :
              fallback = ConnectionFallback(panes[t], d, initial)
      BY <2>1, <2>2
    <2> QED BY <1>3, <2>3, AskingStep DEF SetQuickSitePane
  <1>4. CASE UNCHANGED localVars
    <2>1. Posted' = Posted /\ UNCHANGED <<active, workers, generation, target, listings, panes, told, owed>>
      BY <1>4 DEF localVars, Posted
    <2>2. LocalTypeOK' /\ PermitsCounted' /\ NotAhead' /\ Apart' /\ PendingIsListed'
      BY <2>1 DEF LocalIInv, LocalTypeOK, PermitsCounted, NotAhead, Apart, PendingIsListed
    <2>3. \A u \in Tabs : Settled(u)'
      BY <2>1, OthersStaySettled DEF LocalIInv
    <2> QED BY <2>2, <2>3 DEF LocalIInv
  <1> QED BY <1>1, <1>2, <1>3, <1>4, DownloadCompletesStep, DownloadCompletesAtRestStep,
             CloseNoticeStep, CloseTabStep, EnumerateStep, PostListingStep, LoadedStep DEF LocalNext

LEMMA LocalIInvHolds == LocalSpec => []LocalIInv
  BY LocalInitially, LocalSteps, PTL DEF LocalSpec

(* Whatever workers block, fail or are superseded, on however many tabs    *)
(* and whatever is clicked or closed meanwhile: permits are counted and    *)
(* bounded, a pane that waits hears exactly once, of the directory its     *)
(* path names, one that rests shows the path of what it lists, and a       *)
(* downloaded file will be listed, at the latest when the user has closed  *)
(* a message box about the pane (Load, OnLocalDirectoryLoaded).            *)
THEOREM LocalPanesSettle == LocalSpec => []PanesSettle
  <1>1. LocalIInv => PanesSettle
    <2> SUFFICES ASSUME LocalIInv PROVE PanesSettle
      OBVIOUS
    <2>1. LocalTypeOK /\ active = Cardinality(workers) /\ active <= MaxWorkers
      BY DEF LocalIInv, PermitsCounted
    <2>2. ASSUME NEW t \in Tabs, target[t], panes[t].loading
          PROVE  /\ Cardinality(Coming(t)) = 1
                 /\ \A r \in Coming(t) : r.directory = panes[t].path
                 /\ t \in owed => panes[t].pending \/ \A r \in Coming(t) : r.fresh
      <3>1. PICK r : /\ Coming(t) = {r} /\ r.directory = panes[t].path
                     /\ t \in owed => panes[t].pending \/ r.fresh
        BY <2>2 DEF LocalIInv, Settled, Hears
      <3>2. Cardinality({r}) = 1
        BY FS_Singleton
      <3> QED BY <3>1, <3>2
    <2>3. ASSUME NEW t \in Tabs, target[t], ~panes[t].loading
          PROVE  /\ Coming(t) = {} /\ panes[t].path = panes[t].directory
                 /\ t \in owed => panes[t].pending /\ told[t] > 0
      BY <2>3 DEF LocalIInv, Settled
    <2> QED BY <2>1, <2>2, <2>3 DEF PanesSettle
  <1> QED BY <1>1, LocalIInvHolds, PTL

-----------------------------------------------------------------------------
WindowFields == {"config", "file", "store", "tabs", "selected", "boxes", "failures"}
ConfigFields == {"sites", "history", "dirs", "tabs", "pending"}
TabFields == {"state", "identity", "draft", "site", "gen", "remote"}
BoxFields == {"old", "fields", "stored", "then"}

(* What may be appended to.                                                *)
IsSequence(s) == \E S : s \in Seq(S)

IsConfiguration(c) == DOMAIN c = ConfigFields /\ None \notin c.pending

(* Undoing it takes away credentials that only what it undoes refers to.   *)
Harmless(box, ts) ==
    /\ DOMAIN box = BoxFields
    /\ IsConfiguration(box.old) /\ None \notin box.stored
    /\ \A x \in box.stored :
          /\ "sites" \in box.fields /\ x \notin CredentialsOf(box.old.sites)
          /\ \A t \in DOMAIN ts : ts[t].site.cred # x

(* What every handler finds, and leaves in every window it may leave behind.*)
Sound(w) ==
    /\ DOMAIN w = WindowFields
    /\ IsConfiguration(w.config) /\ IsConfiguration(w.file)
    /\ IsSequence(w.boxes) /\ \A i \in 1 .. Len(w.boxes) : Harmless(w.boxes[i], w.tabs)
    /\ \A t \in DOMAIN w.tabs : DOMAIN w.tabs[t] = TabFields

(* The credentials a site or a connection of a window refers to.           *)
UsedBy(w) == CredentialsOf(w.config.sites) \cup {w.tabs[t].site.cred : t \in DOMAIN w.tabs}

(* Tabs that show the same connections as others.                          *)
AsShown(ts, us) ==
    /\ DOMAIN us = DOMAIN ts
    /\ \A t \in DOMAIN ts :
          /\ us[t].state = ts[t].state /\ us[t].gen = ts[t].gen
          /\ us[t].remote = ts[t].remote /\ us[t].site = ts[t].site

(* A window a helper makes of another: it may remember, save, ask or erase, *)
(* but changes neither what tabs show nor the sites, and takes from the    *)
(* store nothing that is in use.                                           *)
Follows(w, r) ==
    /\ AsShown(w.tabs, r.tabs) /\ r.config.sites = w.config.sites
    /\ \A x \in w.store \ r.store : x # None /\ x \notin UsedBy(w)

LEMMA AppendIs ==
    ASSUME NEW s, IsSequence(s), NEW x
    PROVE  /\ IsSequence(Append(s, x)) /\ Len(s) \in Nat
           /\ Len(Append(s, x)) = Len(s) + 1
           /\ \A i \in 1 .. Len(s) : Append(s, x)[i] = s[i]
           /\ Append(s, x)[Len(s) + 1] = x
  <1>1. PICK S : s \in Seq(S)
    BY DEF IsSequence
  <1>2. s \in Seq(S \cup {x})
    BY <1>1, SeqMonotonic
  <1>3. Append(s, x) \in Seq(S \cup {x})
    BY <1>2
  <1> QED BY <1>2, <1>3 DEF IsSequence

LEMMA FollowsOn ==
    ASSUME NEW v, NEW w, NEW r, Follows(v, w), Follows(w, r)
    PROVE  Follows(v, r)
  <1>1. UsedBy(w) = UsedBy(v)
    BY DEF Follows, UsedBy, AsShown
  <1> QED BY <1>1 DEF Follows, AsShown

LEMMA FollowsSelf == ASSUME NEW w PROVE Follows(w, w)
  BY DEF Follows, AsShown

(* Each helper of the window leaves sound windows that follow what it was  *)
(* called with.                                                            *)
LEMMA HarmlessStays ==
    ASSUME NEW box, NEW ts, NEW us, AsShown(ts, us), Harmless(box, ts)
    PROVE  Harmless(box, us)
  BY DEF AsShown, Harmless

LEMMA CaptureTab ==
    ASSUME NEW c, NEW tab, DOMAIN tab = TabFields
    PROVE  LET r == CaptureQuickConnectDraft(c, tab)
           IN  /\ DOMAIN r = TabFields /\ r.state = tab.state /\ r.gen = tab.gen
               /\ r.remote = tab.remote /\ r.site = tab.site
  BY DEF CaptureQuickConnectDraft, TabFields

LEMMA Capturing ==
    ASSUME NEW w, Sound(w)
    PROVE  LET r == CaptureOpenConnectionTabs(w)
           IN  Sound(r) /\ Follows(w, r) /\ r.boxes = w.boxes /\ r.store = w.store
  <1> DEFINE captured == [t \in DOMAIN w.tabs |->
                 IF t = w.selected THEN CaptureQuickConnectDraft(w.config, w.tabs[t]) ELSE w.tabs[t]]
             new == [t \in DOMAIN captured |-> OpenTab(w.config, captured[t])]
             r == [w EXCEPT !.tabs = captured, !.config.tabs = new]
  <1>1. r = CaptureOpenConnectionTabs(w)
    BY DEF CaptureOpenConnectionTabs
  <1>2. \A t \in DOMAIN w.tabs : DOMAIN captured[t] = TabFields
    BY CaptureTab DEF Sound
  <1>3. AsShown(w.tabs, captured)
    BY CaptureTab DEF AsShown, Sound
  <1> HIDE DEF captured, new
  <1>4. /\ DOMAIN r = WindowFields /\ r.tabs = captured /\ r.file = w.file /\ r.boxes = w.boxes
        /\ r.store = w.store
    BY DEF Sound, WindowFields
  <1>5. IsConfiguration(r.config) /\ r.config.sites = w.config.sites
    BY DEF Sound, WindowFields, IsConfiguration, ConfigFields
  <1>6. DOMAIN captured = DOMAIN w.tabs
    BY <1>3 DEF AsShown
  <1>7. Sound(r)
    BY <1>2, <1>3, <1>4, <1>5, <1>6, HarmlessStays DEF Sound
  <1>8. Follows(w, r)
    BY <1>3, <1>4, <1>5 DEF Follows
  <1> QED BY <1>1, <1>4, <1>7, <1>8

LEMMA SoundWithBox ==
    ASSUME NEW w, Sound(w), NEW box, Harmless(box, w.tabs)
    PROVE  LET r == Asked(w, box)
           IN  Sound(r) /\ Follows(w, r) /\ r.store = w.store
  <1> DEFINE r == Asked(w, box)
  <1>1. /\ DOMAIN r = WindowFields /\ r.config = w.config /\ r.file = w.file /\ r.tabs = w.tabs
        /\ r.store = w.store /\ r.boxes = Append(w.boxes, box)
    BY DEF Sound, WindowFields, Asked
  <1> HIDE DEF r
  <1>2. \A i \in 1 .. Len(r.boxes) : i \in 1 .. Len(w.boxes) \/ i = Len(w.boxes) + 1
    BY <1>1, AppendIs DEF Sound
  <1>3. Sound(r)
    BY <1>1, <1>2, AppendIs DEF Sound
  <1> QED BY <1>1, <1>3 DEF Follows, AsShown, r

LEMMA Saving ==
    ASSUME NEW w, Sound(w), NEW box, Harmless(box, w.tabs), NEW r \in SaveConfiguration(w, box)
    PROVE  Sound(r) /\ Follows(w, r) /\ r.store = w.store
  <1> DEFINE c == CaptureOpenConnectionTabs(w)
             saved == [c EXCEPT !.file = c.config]
             asked == Asked(c, box)
  <1>1. Sound(c) /\ Follows(w, c) /\ c.boxes = w.boxes /\ c.store = w.store
    BY Capturing
  <1>2. r = saved \/ r = asked
    BY DEF SaveConfiguration
  <1> HIDE DEF c
  <1>3. Sound(saved) /\ Follows(c, saved) /\ saved.store = w.store
    BY <1>1 DEF Sound, Follows, AsShown, WindowFields
  <1>4. Harmless(box, c.tabs)
    BY <1>1, HarmlessStays DEF Follows
  <1>5. Sound(asked) /\ Follows(c, asked) /\ asked.store = w.store
    BY <1>1, <1>4, SoundWithBox
  <1> HIDE DEF saved, asked
  <1> QED BY <1>1, <1>2, <1>3, <1>5, FollowsOn

(* A box that only takes a change of the history, the directories or the   *)
(* tabs back.                                                              *)
LEMMA PlainBox ==
    ASSUME NEW w, IsConfiguration(w.config), NEW fields, NEW then, NEW ts
    PROVE  Harmless(Box(w, fields, {}, then), ts)
  BY DEF Box, Harmless, BoxFields

LEMMA Persisting ==
    ASSUME NEW w, Sound(w), NEW moved, NEW r \in PersistOpenConnectionTabs(w, moved)
    PROVE  Sound(r) /\ Follows(w, r) /\ r.store = w.store
  <1>1. Harmless(Box(w, {"tabs"}, {}, None), w.tabs)
    BY PlainBox DEF Sound
  <1>2. r = CaptureOpenConnectionTabs(w) \/ r \in SaveConfiguration(w, Box(w, {"tabs"}, {}, None))
    BY DEF PersistOpenConnectionTabs
  <1> QED BY <1>1, <1>2, Capturing, Saving, Zenon

LEMMA Erasing ==
    ASSUME NEW w, Sound(w), NEW r \in EraseReleasedCredentials(w)
    PROVE  Sound(r) /\ Follows(w, r)
  <1>1. r = w \/ \E erased \in SUBSET (w.config.pending \ (CredentialsOf(w.config.sites) \cup ActiveCredentials(w))) :
            LET kept == [w EXCEPT !.store = @ \ erased]
                cleaned == [kept EXCEPT !.config.pending = @ \ erased]
            IN  r = [cleaned EXCEPT !.file = cleaned.config] \/ r = [kept EXCEPT !.failures = @ + 1]
    BY DEF EraseReleasedCredentials
  <1>2. CASE r = w
    BY <1>2, FollowsSelf
  <1>3. ASSUME NEW erased \in SUBSET (w.config.pending \ (CredentialsOf(w.config.sites) \cup ActiveCredentials(w))),
               LET kept == [w EXCEPT !.store = @ \ erased]
                   cleaned == [kept EXCEPT !.config.pending = @ \ erased]
               IN  r = [cleaned EXCEPT !.file = cleaned.config] \/ r = [kept EXCEPT !.failures = @ + 1]
        PROVE  Sound(r) /\ Follows(w, r)
    <2> DEFINE kept == [w EXCEPT !.store = @ \ erased]
               cleaned == [kept EXCEPT !.config.pending = @ \ erased]
    <2>1. \A x \in erased : x # None /\ x \notin UsedBy(w)
      BY DEF Sound, IsConfiguration, UsedBy, ActiveCredentials
    <2>2. Sound(kept) /\ kept.store = w.store \ erased /\ kept.config = w.config /\ kept.tabs = w.tabs
      BY DEF Sound, WindowFields
    <2> HIDE DEF kept
    <2>3. Sound(cleaned) /\ cleaned.store = w.store \ erased /\ cleaned.config.sites = w.config.sites
          /\ cleaned.tabs = w.tabs
      BY <2>2 DEF Sound, WindowFields, IsConfiguration, ConfigFields
    <2> HIDE DEF cleaned
    <2>4. CASE r = [cleaned EXCEPT !.file = cleaned.config]
      <3>1. Sound(r) /\ r.store = cleaned.store /\ r.config = cleaned.config /\ r.tabs = cleaned.tabs
        BY <2>3, <2>4 DEF Sound, WindowFields
      <3> QED BY <2>1, <2>3, <3>1 DEF Follows, AsShown
    <2>5. CASE r = [kept EXCEPT !.failures = @ + 1]
      <3>1. Sound(r) /\ r.store = kept.store /\ r.config = kept.config /\ r.tabs = kept.tabs
        BY <2>2, <2>5 DEF Sound, WindowFields
      <3> QED BY <2>1, <2>2, <3>1 DEF Follows, AsShown
    <2> QED BY <1>3, <2>4, <2>5 DEF kept, cleaned
  <1> QED BY <1>1, <1>2, <1>3, Zenon

LEMMA Remembering ==
    ASSUME NEW w, Sound(w), NEW t, NEW remote, NEW r \in RememberConnectionDirectories(w, t, remote)
    PROVE  Sound(r) /\ Follows(w, r) /\ r.store = w.store
  <1> DEFINE tab == IF remote = None /\ t = w.selected
                    THEN CaptureQuickConnectDraft(w.config, w.tabs[t]) ELSE w.tabs[t]
             identity == CurrentIdentity(w.config, tab)
             known == [w EXCEPT !.tabs[t] = [tab EXCEPT !.identity = identity]]
  <1>1. PICK remembered :
            /\ remembered = known \/ \E dirs : remembered = [known EXCEPT !.config.dirs = dirs]
            /\ r = remembered \/ r \in SaveConfiguration(remembered, Box(w, {"dirs", "tabs"}, {}, None))
    BY DEF RememberConnectionDirectories
  <1>2. t \in DOMAIN w.tabs => /\ DOMAIN tab = TabFields /\ tab.state = w.tabs[t].state
                               /\ tab.gen = w.tabs[t].gen /\ tab.remote = w.tabs[t].remote
                               /\ tab.site = w.tabs[t].site
    BY CaptureTab DEF Sound
  <1> HIDE DEF tab, identity
  <1>3. AsShown(w.tabs, known.tabs) /\ \A u \in DOMAIN known.tabs : DOMAIN known.tabs[u] = TabFields
    BY <1>2 DEF Sound, AsShown, WindowFields, TabFields
  <1>4. /\ DOMAIN known = WindowFields /\ known.config = w.config /\ known.file = w.file
        /\ known.boxes = w.boxes /\ known.store = w.store
    BY DEF Sound, WindowFields
  <1> HIDE DEF known
  <1>5. /\ DOMAIN remembered = WindowFields /\ IsConfiguration(remembered.config)
        /\ remembered.config.sites = w.config.sites
        /\ remembered.file = w.file /\ remembered.boxes = w.boxes /\ remembered.store = w.store
        /\ remembered.tabs = known.tabs
    BY <1>1, <1>4 DEF Sound, WindowFields, IsConfiguration, ConfigFields
  <1>6. Sound(remembered)
    BY <1>3, <1>5, HarmlessStays DEF Sound
  <1>7. Follows(w, remembered)
    BY <1>3, <1>5 DEF Follows
  <1>8. Harmless(Box(w, {"dirs", "tabs"}, {}, None), remembered.tabs)
    BY PlainBox DEF Sound
  <1> QED BY <1>1, <1>5, <1>6, <1>7, <1>8, Saving, FollowsOn, Zenon

-----------------------------------------------------------------------------
(* A tab shows the running connection of its controller.                   *)
ShownBy(t, tab, cs) ==
    /\ tab.state = "Disconnected" <=> tab.gen = 0
    /\ tab.gen # 0 => t \in DOMAIN cs /\ tab.gen = cs[t].gen /\ tab.site.endpoint = cs[t].endpoint
    /\ tab.state = "Connected" => cs[t].at # "Connecting"
    /\ tab.remote # None => tab.state = "Connected" /\ tab.remote = tab.site.endpoint

AllShown(ts, cs) == \A t \in DOMAIN ts : ShownBy(t, ts[t], cs)

(* Every connection has a number of its own, and an event reports of the   *)
(* connection of that number only.                                         *)
Numbered(cs, n) ==
    \A t \in DOMAIN cs :
       /\ DOMAIN cs[t] = {"gen", "at", "endpoint"}
       /\ cs[t].gen \in Nat /\ cs[t].gen # 0 /\ cs[t].gen <= n

Reports(event, cs, n) ==
    /\ event.gen \in Nat /\ event.gen # 0 /\ event.gen <= n
    /\ event.tab \in DOMAIN cs /\ event.gen = cs[event.tab].gen =>
          /\ event.endpoint = cs[event.tab].endpoint
          /\ event.kind = "Connected" => cs[event.tab].at # "Connecting"

AllReport(es, cs, n) ==
    IsSequence(es) /\ \A i \in 1 .. Len(es) : Reports(es[i], cs, n)

(* The inductive invariant.                                                *)
WindowIInv ==
    /\ actions \in Nat
    /\ Numbered(controllers, actions) /\ AllReport(events, controllers, actions)
    /\ Sound(Window)
    /\ AllShown(tabs, controllers)

(* What CredentialsInUseStay says of a step.                               *)
CredentialsKept == (store \ store') \cap InUse' = {}

LEMMA WindowIs ==
    /\ DOMAIN Window = WindowFields
    /\ Window.config = config /\ Window.file = file /\ Window.store = store /\ Window.tabs = tabs
    /\ Window.selected = selected /\ Window.boxes = boxes /\ Window.failures = failures
  BY DEF Window, WindowFields

LEMMA ShownStays ==
    ASSUME NEW ts, NEW us, NEW cs, AsShown(ts, us), AllShown(ts, cs)
    PROVE  AllShown(us, cs)
  BY DEF AsShown, AllShown, ShownBy

LEMMA Arriving ==
    ASSUME NEW w, NEW r, Sound(r), Follows(w, r), AllShown(w.tabs, controllers'),
           config' = r.config, file' = r.file, store' = r.store, tabs' = r.tabs, boxes' = r.boxes
    PROVE  /\ Sound(Window)' /\ AllShown(tabs', controllers')
           /\ InUse' = UsedBy(w)
           /\ \A x \in w.store \ store' : x \notin InUse'
  <1>1. AllShown(tabs', controllers')
    BY ShownStays DEF Follows
  <1>2. InUse' = UsedBy(w)
    BY DEF InUse, UsedBy, Follows, AsShown
  <1>3. Sound(Window)'
    BY WindowIs DEF Sound, Window, WindowFields
  <1> QED BY <1>1, <1>2, <1>3 DEF Follows

LEMMA CountersStay ==
    ASSUME WindowIInv, controllers' = controllers, events' = events,
           actions' = actions \/ actions' = actions + 1
    PROVE  /\ actions' \in Nat
           /\ Numbered(controllers', actions') /\ AllReport(events', controllers', actions')
  BY DEF WindowIInv, Numbered, AllReport, Reports

LEMMA Retabbed ==
    ASSUME NEW w, Sound(w), NEW ts,
           \A t \in DOMAIN ts : DOMAIN ts[t] = TabFields,
           \/ Len(w.boxes) = 0
           \/ \A t \in DOMAIN ts : \/ ts[t].site.cred = None
                                   \/ t \in DOMAIN w.tabs /\ ts[t].site.cred = w.tabs[t].site.cred
    PROVE  LET r == [w EXCEPT !.tabs = ts]
           IN  /\ Sound(r) /\ r.tabs = ts /\ r.config = w.config /\ r.file = w.file
               /\ r.store = w.store /\ r.boxes = w.boxes /\ r.selected = w.selected
  <1> DEFINE r == [w EXCEPT !.tabs = ts]
  <1>1. /\ DOMAIN r = WindowFields /\ r.tabs = ts /\ r.config = w.config /\ r.file = w.file
        /\ r.store = w.store /\ r.boxes = w.boxes /\ r.selected = w.selected
    BY DEF Sound, WindowFields
  <1> HIDE DEF r
  <1>2. ASSUME NEW i \in 1 .. Len(w.boxes) PROVE Harmless(w.boxes[i], ts)
    BY DEF Sound, Harmless
  <1>3. Sound(r)
    BY <1>1, <1>2 DEF Sound
  <1> QED BY <1>1, <1>3 DEF r

LEMMA StateSet ==
    ASSUME NEW tab, NEW state, DOMAIN tab = TabFields
    PROVE  LET r == SetConnectionState(tab, state)
           IN  /\ DOMAIN r = TabFields /\ r.state = state /\ r.gen = tab.gen /\ r.site = tab.site
               /\ r.remote = IF state # "Connected" THEN None ELSE tab.remote
  BY DEF SetConnectionState, TabFields

LEMMA SiteSet ==
    ASSUME NEW c, NEW tab, NEW site, DOMAIN tab = TabFields
    PROVE  LET r == SetQuickSite(c, tab, site)
           IN  /\ DOMAIN r = TabFields /\ r.state = tab.state /\ r.gen = tab.gen
               /\ r.remote = tab.remote /\ r.site = tab.site
  BY DEF SetQuickSite, TabFields

LEMMA Blank ==
    /\ DOMAIN BlankTab = TabFields /\ BlankTab.state = "Disconnected" /\ BlankTab.gen = 0
    /\ BlankTab.remote = None /\ BlankTab.site.cred = None
  BY DEF BlankTab, TabFields, NoSite

LEMMA ReleasedTab ==
    ASSUME NEW tab, DOMAIN tab = TabFields
    PROVE  LET r == Released(tab)
           IN  /\ DOMAIN r = TabFields /\ r.state = "Disconnected" /\ r.gen = 0
               /\ r.remote = None /\ r.site.cred = None
  BY StateSet DEF Released, TabFields, NoSite

LEMMA Reselecting ==
    ASSUME NEW w, Sound(w), NEW t
    PROVE  LET r == [w EXCEPT !.selected = t]
           IN  /\ Sound(r) /\ Follows(w, r)
               /\ r.tabs = w.tabs /\ r.store = w.store /\ r.boxes = w.boxes
  BY DEF Sound, WindowFields, Follows, AsShown

LEMMA NoBoxes == ASSUME UserActs PROVE Len(boxes) = 0
  BY EmptySeq DEF UserActs

-----------------------------------------------------------------------------
LEMMA PostStep ==
    ASSUME WindowIInv, NEW t, NEW kind \in {"Connected", "Listed", "Ended"}, Post(t, kind)
    PROVE  WindowIInv' /\ CredentialsKept
  <1>1. /\ t \in DOMAIN controllers
        /\ controllers' = [controllers EXCEPT ![t].at = IF kind = "Listed" THEN @ ELSE kind]
        /\ UNCHANGED <<config, file, store, tabs, selected, boxes, failures, actions>>
    BY DEF Post
  <1>2. PICK event : event = [tab |-> t, gen |-> controllers[t].gen, kind |-> kind,
                              endpoint |-> controllers[t].endpoint]
    OBVIOUS
  <1>3. events' = Append(events, event)
    BY <1>2 DEF Post
  <1>4. /\ DOMAIN controllers' = DOMAIN controllers
        /\ \A u \in DOMAIN controllers :
              /\ controllers'[u].gen = controllers[u].gen
              /\ controllers'[u].endpoint = controllers[u].endpoint
              /\ DOMAIN controllers'[u] = DOMAIN controllers[u]
              /\ controllers[u].at # "Connecting" => controllers'[u].at # "Connecting"
        /\ kind = "Connected" => controllers'[t].at # "Connecting"
    BY <1>1 DEF WindowIInv, Numbered
  <1>5. actions' \in Nat /\ Numbered(controllers', actions')
    BY <1>1, <1>4 DEF WindowIInv, Numbered
  <1>6. Reports(event, controllers', actions')
    BY <1>1, <1>2, <1>4 DEF Reports, WindowIInv, Numbered
  <1>7. \A i \in 1 .. Len(events) : Reports(events[i], controllers', actions')
    BY <1>1, <1>4 DEF WindowIInv, AllReport, Reports
  <1>8. AllReport(events', controllers', actions')
    <2>1. \A i \in 1 .. Len(events') : i \in 1 .. Len(events) \/ i = Len(events) + 1
      BY <1>3, AppendIs DEF WindowIInv, AllReport
    <2> QED BY <1>3, <1>6, <1>7, <2>1, AppendIs DEF WindowIInv, AllReport
  <1>9. Sound(Window)'
    BY <1>1 DEF WindowIInv, Window
  <1>10. AllShown(tabs', controllers')
    BY <1>1, <1>4 DEF WindowIInv, AllShown, ShownBy
  <1>11. CredentialsKept
    BY <1>1 DEF CredentialsKept
  <1> QED BY <1>5, <1>8, <1>9, <1>10, <1>11 DEF WindowIInv

(* A step whose windows follow a window like the present one but for its   *)
(* tabs, or that lost nothing that is in use.                              *)
LEMMA WindowStep ==
    ASSUME WindowIInv, NEW w, NEW r, Sound(r), Follows(w, r), AllShown(w.tabs, controllers'),
           w.store = store,
           actions' \in Nat, Numbered(controllers', actions'), AllReport(events', controllers', actions'),
           config' = r.config, file' = r.file, store' = r.store, tabs' = r.tabs, boxes' = r.boxes
    PROVE  WindowIInv' /\ CredentialsKept
  <1>1. /\ Sound(Window)' /\ AllShown(tabs', controllers')
        /\ \A x \in store \ store' : x \notin InUse'
    BY Arriving
  <1> QED BY <1>1 DEF WindowIInv, CredentialsKept

LEMMA EventTail ==
    ASSUME NEW es, NEW cs, NEW n, AllReport(es, cs, n), es # <<>>
    PROVE  AllReport(Tail(es), cs, n) /\ Reports(Head(es), cs, n)
  <1>1. PICK S : es \in Seq(S)
    BY DEF AllReport, IsSequence
  <1>2. /\ Tail(es) \in Seq(S) /\ Len(Tail(es)) = Len(es) - 1 /\ Len(es) \in Nat /\ Len(es) # 0
        /\ \A i \in 1 .. Len(Tail(es)) : Tail(es)[i] = es[i + 1]
        /\ Head(es) = es[1]
    BY <1>1, HeadTailProperties, LenProperties, EmptySeq
  <1>3. \A i \in 1 .. Len(Tail(es)) : i + 1 \in 1 .. Len(es)
    BY <1>2
  <1> QED BY <1>2, <1>3 DEF AllReport, IsSequence

LEMMA Recording ==
    ASSUME NEW w, Sound(w), NEW t, NEW r \in RecordSuccessfulQuickConnection(w, t)
    PROVE  Sound(r) /\ Follows(w, r) /\ r.store = w.store
  <1>1. r = w \/ \E history, dirs :
            r \in SaveConfiguration([w EXCEPT !.config = [w.config EXCEPT !.history = history, !.dirs = dirs]],
                                    Box(w, {"history", "dirs", "tabs"}, {}, t))
    BY DEF RecordSuccessfulQuickConnection
  <1>2. CASE r = w
    BY <1>2, FollowsSelf
  <1>3. ASSUME NEW history, NEW dirs,
               r \in SaveConfiguration([w EXCEPT !.config = [w.config EXCEPT !.history = history, !.dirs = dirs]],
                                       Box(w, {"history", "dirs", "tabs"}, {}, t))
        PROVE  Sound(r) /\ Follows(w, r) /\ r.store = w.store
    <2> DEFINE v == [w EXCEPT !.config = [w.config EXCEPT !.history = history, !.dirs = dirs]]
               box == Box(w, {"history", "dirs", "tabs"}, {}, t)
    <2>1. /\ DOMAIN v = WindowFields /\ v.file = w.file /\ v.store = w.store /\ v.tabs = w.tabs
          /\ v.boxes = w.boxes /\ IsConfiguration(v.config) /\ v.config.sites = w.config.sites
      BY DEF Sound, WindowFields, IsConfiguration, ConfigFields
    <2>2. r \in SaveConfiguration(v, box)
      BY <1>3
    <2>3. Harmless(box, w.tabs)
      BY PlainBox DEF Sound
    <2> HIDE DEF v, box
    <2>4. Sound(v) /\ Follows(w, v)
      BY <2>1 DEF Sound, Follows, AsShown
    <2>5. Sound(r) /\ Follows(v, r) /\ r.store = v.store
      BY <2>1, <2>2, <2>3, <2>4, Saving
    <2> QED BY <2>1, <2>4, <2>5, FollowsOn
  <1> QED BY <1>1, <1>2, <1>3

LEMMA Beginning ==
    ASSUME NEW w, Sound(w), NEW t, NEW r \in ConnectionBegun(w, t)
    PROVE  LET v == [w EXCEPT !.tabs[t] = SetConnectionState(@, "Connected")]
           IN  Sound(r) /\ Follows(v, r) /\ r.store = v.store
  <1> DEFINE v == [w EXCEPT !.tabs = [w.tabs EXCEPT ![t] = SetConnectionState(w.tabs[t], "Connected")]]
  <1>1. PICK q \in RecordSuccessfulQuickConnection(v, t) :
            r = q \/ r \in RememberConnectionDirectories(q, t, None)
    BY DEF ConnectionBegun
  <1>2. \A u \in DOMAIN w.tabs :
            LET tab == IF u = t THEN SetConnectionState(w.tabs[t], "Connected") ELSE w.tabs[u]
            IN  DOMAIN tab = TabFields /\ tab.site = w.tabs[u].site
    BY StateSet DEF Sound
  <1>3. Sound(v)
    <2> DEFINE ts == [w.tabs EXCEPT ![t] = SetConnectionState(w.tabs[t], "Connected")]
    <2>1. DOMAIN ts = DOMAIN w.tabs
          /\ \A u \in DOMAIN ts : DOMAIN ts[u] = TabFields /\ ts[u].site.cred = w.tabs[u].site.cred
      BY <1>2
    <2> HIDE DEF ts
    <2>2. Sound([w EXCEPT !.tabs = ts])
      BY <2>1, Retabbed
    <2> QED BY <2>2 DEF ts
  <1> HIDE DEF v
  <1>4. Sound(q) /\ Follows(v, q) /\ q.store = v.store
    BY <1>3, Recording
  <1>5. Sound(r) /\ Follows(v, r) /\ r.store = v.store
    BY <1>1, <1>4, Remembering, FollowsOn
  <1> QED BY <1>5 DEF v

(* One tab of the window changes.                                          *)
OneTab(w, t, tab) == [w EXCEPT !.tabs = [w.tabs EXCEPT ![t] = tab]]

LEMMA OneTabChanged ==
    ASSUME WindowIInv, NEW t, NEW tab,
           t \in DOMAIN tabs => DOMAIN tab = TabFields /\ ShownBy(t, tab, controllers'),
           Len(boxes) = 0 \/ tab.site.cred = None \/ tab.site = tabs[t].site,
           \A u \in DOMAIN tabs \ {t} : ShownBy(u, tabs[u], controllers')
    PROVE  LET w == OneTab(Window, t, tab)
           IN  Sound(w) /\ w.store = store /\ w.config = config /\ w.boxes = boxes /\ AllShown(w.tabs, controllers')
  <1> DEFINE ts == [tabs EXCEPT ![t] = tab]
  <1>1. /\ DOMAIN ts = DOMAIN tabs
        /\ \A u \in DOMAIN ts : ts[u] = IF u = t THEN tab ELSE tabs[u]
    OBVIOUS
  <1>2. \A u \in DOMAIN ts : DOMAIN ts[u] = TabFields
    BY <1>1, WindowIs DEF WindowIInv, Sound
  <1>3. \A u \in DOMAIN ts : ShownBy(u, ts[u], controllers')
    BY <1>1
  <1>4. \/ Len(boxes) = 0
        \/ \A u \in DOMAIN ts : ts[u].site.cred = None \/ ts[u].site.cred = tabs[u].site.cred
    BY <1>1
  <1>5. OneTab(Window, t, tab) = [Window EXCEPT !.tabs = ts]
    BY WindowIs DEF OneTab
  <1> HIDE DEF ts
  <1>6. LET r == [Window EXCEPT !.tabs = ts]
        IN  Sound(r) /\ r.tabs = ts /\ r.store = store /\ r.config = config /\ r.boxes = boxes
    BY <1>1, <1>2, <1>4, Retabbed, WindowIs DEF WindowIInv
  <1> QED BY <1>3, <1>5, <1>6 DEF AllShown

LEMMA SoundNow ==
    ASSUME WindowIInv
    PROVE  /\ Sound(Window) /\ AllShown(Window.tabs, controllers)
           /\ \A t \in DOMAIN tabs : DOMAIN tabs[t] = TabFields
  BY WindowIs DEF WindowIInv, Sound

LEMMA EventStep ==
    ASSUME WindowIInv, OnControllerEvent
    PROVE  WindowIInv' /\ CredentialsKept
  <1>1. PICK event, t : event = Head(events) /\ t = event.tab
    OBVIOUS
  <1>2. /\ events # <<>> /\ events' = Tail(events) /\ actions' = actions /\ controllers' = controllers
    BY DEF OnControllerEvent
  <1>3. /\ actions' \in Nat /\ Numbered(controllers', actions')
        /\ AllReport(events', controllers', actions') /\ Reports(event, controllers, actions)
    BY <1>1, <1>2, EventTail DEF WindowIInv
  <1>4. CASE Becomes({Window})
    <2>1. PICK w : w = Window
      OBVIOUS
    <2>2. /\ config' = w.config /\ file' = w.file /\ store' = w.store /\ tabs' = w.tabs /\ boxes' = w.boxes
      BY <1>4, <2>1 DEF Becomes
    <2> QED BY <1>2, <1>3, <2>1, <2>2, SoundNow, FollowsSelf, WindowIs, WindowStep
  <1>5. CASE OfActiveConnection(event) /\ event.kind = "Connected" /\ Becomes(ConnectionBegun(Window, t))
    <2>1. PICK tab : tab = SetConnectionState(tabs[t], "Connected")
      OBVIOUS
    <2>2. PICK w : w = OneTab(Window, t, tab)
      OBVIOUS
    <2>3. /\ t \in DOMAIN tabs /\ DOMAIN tabs[t] = TabFields /\ ShownBy(t, tabs[t], controllers)
          /\ tabs[t].gen = event.gen
      BY <1>1, <1>5, SoundNow DEF OfActiveConnection, WindowIInv, AllShown
    <2>4. DOMAIN tab = TabFields /\ tab.state = "Connected" /\ tab.gen = tabs[t].gen
          /\ tab.site = tabs[t].site /\ tab.remote = tabs[t].remote
      BY <2>1, <2>3, StateSet
    <2>5. ShownBy(t, tab, controllers)
      BY <1>1, <1>3, <1>5, <2>3, <2>4 DEF ShownBy, Reports
    <2>6. Sound(w) /\ w.store = store /\ AllShown(w.tabs, controllers')
      BY <1>2, <2>2, <2>4, <2>5, OneTabChanged DEF WindowIInv, AllShown
    <2>7. PICK r \in ConnectionBegun(Window, t) :
              /\ config' = r.config /\ file' = r.file /\ store' = r.store /\ tabs' = r.tabs /\ boxes' = r.boxes
      BY <1>5 DEF Becomes
    <2>8. Sound(r) /\ Follows(w, r)
      BY <2>1, <2>2, <2>7, SoundNow, Beginning, WindowIs DEF OneTab
    <2> QED BY <1>3, <2>6, <2>7, <2>8, WindowStep
  <1>6. CASE /\ OfActiveConnection(event) /\ tabs[t].state = "Connected"
             /\ event.kind = "Listed"
             /\ Becomes(RememberConnectionDirectories([Window EXCEPT !.tabs[t].remote = event.endpoint], t, event.endpoint))
    <2>1. PICK tab : tab = [tabs[t] EXCEPT !.remote = event.endpoint]
      OBVIOUS
    <2>2. PICK w : w = OneTab(Window, t, tab)
      OBVIOUS
    <2>3. /\ t \in DOMAIN tabs /\ DOMAIN tabs[t] = TabFields /\ ShownBy(t, tabs[t], controllers)
          /\ tabs[t].gen = event.gen
      BY <1>1, <1>6, SoundNow DEF OfActiveConnection, WindowIInv, AllShown
    <2>4. DOMAIN tab = TabFields /\ tab.state = tabs[t].state /\ tab.gen = tabs[t].gen
          /\ tab.site = tabs[t].site /\ tab.remote = event.endpoint
      BY <2>1, <2>3 DEF TabFields
    <2>5. ShownBy(t, tab, controllers)
      BY <1>1, <1>3, <1>6, <2>3, <2>4 DEF ShownBy, Reports
    <2>6. Sound(w) /\ w.store = store /\ AllShown(w.tabs, controllers')
      BY <1>2, <2>2, <2>4, <2>5, OneTabChanged DEF WindowIInv, AllShown
    <2>7. w = [Window EXCEPT !.tabs[t].remote = event.endpoint]
      BY <2>1, <2>2, WindowIs DEF OneTab
    <2>8. PICK r \in RememberConnectionDirectories(w, t, event.endpoint) :
              /\ config' = r.config /\ file' = r.file /\ store' = r.store /\ tabs' = r.tabs /\ boxes' = r.boxes
      BY <1>6, <2>7 DEF Becomes
    <2>9. Sound(r) /\ Follows(w, r)
      BY <2>6, <2>8, Remembering
    <2> QED BY <1>3, <2>6, <2>8, <2>9, WindowStep
  <1>7. CASE OfActiveConnection(event) /\ Becomes(EraseReleasedCredentials([Window EXCEPT !.tabs[t] = Released(@)]))
    <2>1. PICK tab : tab = Released(tabs[t])
      OBVIOUS
    <2>2. PICK w : w = OneTab(Window, t, tab)
      OBVIOUS
    <2>3. t \in DOMAIN tabs /\ DOMAIN tabs[t] = TabFields
      BY <1>1, <1>7, SoundNow DEF OfActiveConnection
    <2>4. DOMAIN tab = TabFields /\ tab.site.cred = None /\ ShownBy(t, tab, controllers)
      BY <2>1, <2>3, ReleasedTab DEF ShownBy
    <2>5. Sound(w) /\ w.store = store /\ AllShown(w.tabs, controllers')
      BY <1>2, <2>2, <2>4, OneTabChanged DEF WindowIInv, AllShown
    <2>6. w = [Window EXCEPT !.tabs[t] = Released(@)]
      BY <2>1, <2>2, WindowIs DEF OneTab
    <2>7. PICK r \in EraseReleasedCredentials(w) :
              /\ config' = r.config /\ file' = r.file /\ store' = r.store /\ tabs' = r.tabs /\ boxes' = r.boxes
      BY <1>7, <2>6 DEF Becomes
    <2>8. Sound(r) /\ Follows(w, r)
      BY <2>5, <2>7, Erasing
    <2> QED BY <1>3, <2>5, <2>7, <2>8, WindowStep
  <1> QED BY <1>1, <1>4, <1>5, <1>6, <1>7 DEF OnControllerEvent

LEMMA LoadedDirectoryStep ==
    ASSUME WindowIInv, NEW t \in DOMAIN tabs, OnLocalDirectoryLoaded(t)
    PROVE  WindowIInv' /\ CredentialsKept
  <1>1. PICK w : w = Window
    OBVIOUS
  <1>2. PICK r \in RememberConnectionDirectories(w, t, None) :
            /\ config' = r.config /\ file' = r.file /\ store' = r.store /\ tabs' = r.tabs /\ boxes' = r.boxes
    BY <1>1 DEF Becomes, OnLocalDirectoryLoaded
  <1>3. actions' = actions /\ controllers' = controllers /\ events' = events
    BY DEF OnLocalDirectoryLoaded
  <1>4. Sound(w) /\ AllShown(w.tabs, controllers') /\ w.store = store
    BY <1>1, <1>3, SoundNow, WindowIs
  <1>5. Sound(r) /\ Follows(w, r)
    BY <1>2, <1>4, Remembering
  <1> QED BY <1>2, <1>3, <1>4, <1>5, CountersStay, WindowStep

(* The window as the last box leaves it, and what that takes away.         *)
LEMMA CloseBoxStep ==
    ASSUME WindowIInv, CloseBox
    PROVE  WindowIInv' /\ CredentialsKept
  <1>1. PICK box : box = Last(boxes)
    OBVIOUS
  <1>2. PICK c : c = [m \in DOMAIN config |-> IF m \in box.fields THEN box.old[m] ELSE config[m]]
    OBVIOUS
  <1>3. PICK erased, w, r :
            /\ erased \in SUBSET box.stored
            /\ w = [[[Window EXCEPT !.boxes = Front(boxes)] EXCEPT !.store = store \ erased] EXCEPT !.config = c]
            /\ r = w \/ r \in RememberConnectionDirectories(w, box.then, None)
            /\ config' = r.config /\ file' = r.file /\ store' = r.store /\ tabs' = r.tabs /\ boxes' = r.boxes
    <2>1. PICK w, r : /\ w \in TakenBack(box)
                      /\ r = w \/ r \in RememberConnectionDirectories(w, box.then, None)
                      /\ config' = r.config /\ file' = r.file /\ store' = r.store /\ tabs' = r.tabs /\ boxes' = r.boxes
      BY <1>1 DEF CloseBox, Becomes
    <2>2. PICK erased \in SUBSET box.stored :
              w = [[[Window EXCEPT !.boxes = Front(boxes)] EXCEPT !.store = store \ erased] EXCEPT !.config = c]
      BY <1>2, <2>1, WindowIs DEF TakenBack
    <2> QED BY <2>1, <2>2
  <1>4. \A x \in store \ w.store : x \in box.stored
    BY <1>3, WindowIs DEF WindowFields
  <1>5. actions' = actions /\ controllers' = controllers /\ events' = events
    BY DEF CloseBox
  <1>6. /\ DOMAIN w = WindowFields /\ w.config = c /\ w.store = store \ erased
        /\ w.boxes = Front(boxes) /\ w.tabs = tabs /\ w.file = file
    BY <1>3, WindowIs DEF WindowFields
  <1>7. /\ IsSequence(Front(boxes)) /\ \A i \in 1 .. Len(Front(boxes)) : Front(boxes)[i] = boxes[i] /\ i \in 1 .. Len(boxes)
        /\ Last(boxes) = boxes[Len(boxes)] /\ Len(boxes) \in 1 .. Len(boxes)
    <2>1. PICK S : boxes \in Seq(S)
      BY WindowIs DEF WindowIInv, Sound, IsSequence
    <2>2. Len(boxes) \in Nat \ {0}
      BY <2>1, EmptySeq DEF CloseBox
    <2>3. \A i \in 1 .. Len(boxes) - 1 : boxes[i] \in S /\ i \in 1 .. Len(boxes)
      BY <2>1, <2>2, ElementOfSeq
    <2>4. /\ Front(boxes) \in Seq(S) /\ Len(Front(boxes)) = Len(boxes) - 1
          /\ \A i \in 1 .. Len(boxes) - 1 : Front(boxes)[i] = boxes[i]
      <3> DEFINE n == Len(boxes) - 1
      <3>1. n \in Nat
        BY <2>2
      <3> HIDE DEF n
      <3>2. PICK s : s = boxes
        OBVIOUS
      <3>3. \A i \in 1 .. n : s[i] \in S
        BY <2>3, <3>2 DEF n
      <3>4. /\ SubSeq(s, 1, n) \in Seq(S)
            /\ Len(SubSeq(s, 1, n)) = IF 1 <= n THEN n - 1 + 1 ELSE 0
            /\ \A i \in 1 .. n - 1 + 1 : SubSeq(s, 1, n)[i] = s[1 + i - 1]
        BY <3>1, <3>3, SubSeqProperties
      <3>5. Len(SubSeq(s, 1, n)) = n /\ n - 1 + 1 = n /\ \A i \in 1 .. n : 1 + i - 1 = i
        BY <3>1, <3>4
      <3> QED BY <3>2, <3>4, <3>5 DEF Front, n
    <2> QED BY <2>2, <2>3, <2>4 DEF IsSequence, Last
  <1>8. Harmless(box, tabs)
    BY <1>1, <1>7, WindowIs DEF WindowIInv, Sound
  <1>9. IsConfiguration(c) /\ (box.stored # {} => c.sites = box.old.sites)
    BY <1>2, <1>8, WindowIs DEF WindowIInv, Sound, IsConfiguration, ConfigFields, Harmless
  <1>10. Sound(w)
    BY <1>6, <1>7, <1>9, WindowIs DEF WindowIInv, Sound
  <1>11. Sound(r) /\ Follows(w, r)
    BY <1>3, <1>10, Remembering, FollowsSelf
  <1>12. /\ Sound(Window)' /\ AllShown(tabs', controllers') /\ InUse' = UsedBy(w)
         /\ \A x \in w.store \ store' : x \notin InUse'
    BY <1>3, <1>5, <1>6, <1>11, Arriving DEF WindowIInv
  <1>13. \A x \in box.stored : x # None /\ x \notin UsedBy(w)
    BY <1>6, <1>8, <1>9 DEF Harmless, UsedBy
  <1> QED BY <1>4, <1>5, <1>6, <1>12, <1>13, CountersStay DEF WindowIInv, CredentialsKept

-----------------------------------------------------------------------------
LEMMA BeginConnectionStep ==
    ASSUME WindowIInv, NEW w, NEW profile, BeginConnection(w, profile),
           Len(boxes) = 0, actions' = actions + 1,
           Sound(w), w.boxes = boxes, w.store = store, w.config = config, w.selected = selected,
           AllShown(w.tabs, controllers),
           \A u \in DOMAIN w.tabs : u # selected => w.tabs[u].gen = tabs[u].gen
    PROVE  WindowIInv' /\ CredentialsKept
  <1> DEFINE t == w.selected
  <1>1. PICK site, identity, n :
            /\ n = actions + 1
            /\ Becomes({[w EXCEPT !.tabs[t] = SetConnectionState([@ EXCEPT !.identity = identity, !.draft = site,
                                                                          !.site = site, !.gen = n], "Connecting")]})
            /\ controllers' = With(controllers, t, [gen |-> n, at |-> "Connecting", endpoint |-> site.endpoint])
            /\ events' = events
    BY DEF BeginConnection
  <1>2. PICK tab : tab = SetConnectionState([w.tabs[t] EXCEPT !.identity = identity, !.draft = site,
                                                              !.site = site, !.gen = n], "Connecting")
    OBVIOUS
  <1>3. PICK ts : ts = [w.tabs EXCEPT ![t] = tab]
    OBVIOUS
  <1>4. PICK r : r = [w EXCEPT !.tabs = ts]
    OBVIOUS
  <1>5. config' = r.config /\ file' = r.file /\ store' = r.store /\ tabs' = r.tabs /\ boxes' = r.boxes
    BY <1>1, <1>2, <1>3, <1>4 DEF Becomes
  <1>6. n \in Nat /\ n # 0 /\ actions' = n /\ actions \in Nat /\ actions < n
    BY <1>1 DEF WindowIInv
  <1>7. /\ DOMAIN controllers' = DOMAIN controllers \cup {t}
        /\ controllers'[t] = [gen |-> n, at |-> "Connecting", endpoint |-> site.endpoint]
        /\ \A u \in DOMAIN controllers : u # t => controllers'[u] = controllers[u]
    BY <1>1 DEF With
  <1>8. Numbered(controllers', actions')
    BY <1>6, <1>7 DEF WindowIInv, Numbered
  <1>9. AllReport(events', controllers', actions')
    BY <1>1, <1>6, <1>7 DEF WindowIInv, AllReport, Reports
  <1>10. t \in DOMAIN w.tabs => /\ DOMAIN tab = TabFields /\ tab.state = "Connecting" /\ tab.gen = n
                                /\ tab.site = site /\ tab.remote = None
    <2>1. PICK old : old = w.tabs[t]
      OBVIOUS
    <2>2. PICK begun : begun = [old EXCEPT !.identity = identity, !.draft = site,
                                           !.site = site, !.gen = n]
      OBVIOUS
    <2>3. t \in DOMAIN w.tabs => DOMAIN old = TabFields
      BY <2>1 DEF Sound
    <2>4. t \in DOMAIN w.tabs => DOMAIN begun = TabFields /\ begun.gen = n /\ begun.site = site
      BY <2>2, <2>3 DEF TabFields
    <2>5. tab = SetConnectionState(begun, "Connecting")
      BY <1>2, <2>1, <2>2
    <2> QED BY <2>4, <2>5, StateSet
  <1>11. t \in DOMAIN w.tabs => ShownBy(t, tab, controllers')
    BY <1>6, <1>7, <1>10 DEF ShownBy
  <1>12. /\ DOMAIN ts = DOMAIN w.tabs
         /\ \A u \in DOMAIN ts : ts[u] = IF u = t THEN tab ELSE w.tabs[u]
    BY <1>3
  <1>13. \A u \in DOMAIN ts : DOMAIN ts[u] = TabFields
    BY <1>10, <1>12 DEF Sound
  <1>14. Sound(r) /\ r.tabs = ts /\ r.store = store
    BY <1>4, <1>13, Retabbed
  <1>15. AllShown(ts, controllers')
    <2>1. ASSUME NEW u \in DOMAIN ts, u # t PROVE ShownBy(u, ts[u], controllers')
      BY <1>7, <1>12, <2>1 DEF AllShown, ShownBy
    <2> QED BY <1>11, <1>12, <2>1 DEF AllShown
  <1> QED BY <1>5, <1>6, <1>8, <1>9, <1>14, <1>15, FollowsSelf, WindowStep

(* A user does something that changes one tab that is not connected.       *)
LEMMA EditedTabStep ==
    ASSUME WindowIInv, UserActs, NEW tab, NEW r, r = OneTab(Window, selected, tab),
           selected \in DOMAIN tabs =>
              /\ DOMAIN tab = TabFields /\ tab.state = tabs[selected].state /\ tab.gen = tabs[selected].gen
              /\ tab.remote = tabs[selected].remote /\ tab.site = tabs[selected].site,
           config' = r.config, file' = r.file, store' = r.store, tabs' = r.tabs, boxes' = r.boxes,
           controllers' = controllers, events' = events
    PROVE  WindowIInv' /\ CredentialsKept
  <1>1. selected \in DOMAIN tabs => ShownBy(selected, tab, controllers')
    BY DEF WindowIInv, AllShown, ShownBy
  <1>2. Sound(r) /\ r.store = store /\ AllShown(r.tabs, controllers')
    BY <1>1, NoBoxes, OneTabChanged DEF WindowIInv, AllShown
  <1> QED BY <1>2, CountersStay, FollowsSelf, WindowStep DEF UserActs

LEMMA EditStep ==
    ASSUME WindowIInv, NEW e, EditQuickConnect(e)
    PROVE  WindowIInv' /\ CredentialsKept
  <1>1. PICK tab : tab = [tabs[selected] EXCEPT !.draft.endpoint = e]
    OBVIOUS
  <1>2. PICK r : r = OneTab(Window, selected, tab)
    OBVIOUS
  <1>3. config' = r.config /\ file' = r.file /\ store' = r.store /\ tabs' = r.tabs /\ boxes' = r.boxes
    BY <1>1, <1>2, WindowIs DEF EditQuickConnect, Becomes, OneTab
  <1>4. selected \in DOMAIN tabs =>
              /\ DOMAIN tab = TabFields /\ tab.state = tabs[selected].state /\ tab.gen = tabs[selected].gen
              /\ tab.remote = tabs[selected].remote /\ tab.site = tabs[selected].site
    BY <1>1, SoundNow DEF TabFields
  <1> QED BY <1>2, <1>3, <1>4, EditedTabStep DEF EditQuickConnect

LEMMA HistorySelectionStep ==
    ASSUME WindowIInv, NEW e, OnQuickHistorySelection(e)
    PROVE  WindowIInv' /\ CredentialsKept
  <1>1. PICK tab : tab = SetQuickSite(config, tabs[selected], [NoSite EXCEPT !.endpoint = e])
    OBVIOUS
  <1>2. PICK r : r = OneTab(Window, selected, tab)
    OBVIOUS
  <1>3. config' = r.config /\ file' = r.file /\ store' = r.store /\ tabs' = r.tabs /\ boxes' = r.boxes
    BY <1>1, <1>2, WindowIs DEF OnQuickHistorySelection, Becomes, OneTab
  <1>4. selected \in DOMAIN tabs =>
              /\ DOMAIN tab = TabFields /\ tab.state = tabs[selected].state /\ tab.gen = tabs[selected].gen
              /\ tab.remote = tabs[selected].remote /\ tab.site = tabs[selected].site
    BY <1>1, SoundNow, SiteSet
  <1> QED BY <1>2, <1>3, <1>4, EditedTabStep DEF OnQuickHistorySelection

LEMMA QuickConnectStep ==
    ASSUME WindowIInv, OnQuickConnect
    PROVE  WindowIInv' /\ CredentialsKept
  <1>1. PICK w : w = Window
    OBVIOUS
  <1>2. PICK profile : BeginConnection(w, profile)
    BY <1>1 DEF OnQuickConnect
  <1>3. UserActs
    BY DEF OnQuickConnect
  <1> QED BY <1>1, <1>2, <1>3, NoBoxes, SoundNow, WindowIs, BeginConnectionStep DEF UserActs

LEMMA ConnectSavedStep ==
    ASSUME WindowIInv, NEW site \in config.sites, ConnectSavedSite(site)
    PROVE  WindowIInv' /\ CredentialsKept
  <1>1. PICK tab : tab = SetQuickSite(config, tabs[selected], Profile(site))
    OBVIOUS
  <1>2. PICK w : w = OneTab(Window, selected, tab)
    OBVIOUS
  <1>3. PICK profile : BeginConnection(w, profile)
    BY <1>1, <1>2, WindowIs DEF ConnectSavedSite, OneTab
  <1>4. UserActs
    BY DEF ConnectSavedSite
  <1>5. selected \in DOMAIN tabs =>
              /\ DOMAIN tab = TabFields /\ tab.state = tabs[selected].state /\ tab.gen = tabs[selected].gen
              /\ tab.remote = tabs[selected].remote /\ tab.site = tabs[selected].site
    BY <1>1, SoundNow, SiteSet
  <1>6. AsShown(tabs, w.tabs) /\ w.selected = selected
    BY <1>2, <1>5, WindowIs DEF OneTab, AsShown, WindowFields
  <1>7. /\ Sound(w) /\ w.store = store /\ w.config = config /\ w.boxes = boxes
    <2>1. PICK ts : ts = [tabs EXCEPT ![selected] = tab]
      OBVIOUS
    <2>2. \A u \in DOMAIN ts : DOMAIN ts[u] = TabFields
      BY <1>5, <2>1, SoundNow
    <2>3. w = [Window EXCEPT !.tabs = ts]
      BY <1>2, <2>1, WindowIs DEF OneTab
    <2> QED BY <1>4, <2>2, <2>3, NoBoxes, Retabbed, SoundNow, WindowIs
  <1>8. AllShown(w.tabs, controllers)
    BY <1>6, SoundNow, ShownStays, WindowIs
  <1> QED BY <1>3, <1>4, <1>6, <1>7, <1>8, NoBoxes, BeginConnectionStep DEF UserActs, AsShown

LEMMA ControllerGone ==
    ASSUME WindowIInv, NEW t, controllers' = Without(controllers, {t}), events' = events,
           actions' = actions + 1
    PROVE  /\ actions' \in Nat
           /\ Numbered(controllers', actions') /\ AllReport(events', controllers', actions')
           /\ \A u \in DOMAIN tabs \ {t} : ShownBy(u, tabs[u], controllers')
  <1>1. /\ DOMAIN controllers' = DOMAIN controllers \ {t}
        /\ \A u \in DOMAIN controllers \ {t} : controllers'[u] = controllers[u]
    BY DEF Without
  <1>2. PICK cs, n : cs = controllers' /\ n = actions'
    OBVIOUS
  <1>3. actions' \in Nat /\ Numbered(controllers', actions')
    <2>1. \A k \in Nat : k <= actions => k <= n
      BY <1>2 DEF WindowIInv
    <2>2. n \in Nat
      BY <1>2 DEF WindowIInv
    <2>3. Numbered(cs, n)
      BY <1>1, <1>2, <2>1 DEF WindowIInv, Numbered
    <2> QED BY <1>2, <2>2, <2>3
  <1>4. AllReport(events', controllers', actions')
    <2>1. \A k \in Nat : k <= actions => k <= n
      BY <1>2 DEF WindowIInv
    <2>2. \A event : Reports(event, controllers, actions) => Reports(event, cs, n)
      BY <1>1, <1>2, <2>1 DEF Reports
    <2>3. AllReport(events, cs, n)
      BY <2>2 DEF WindowIInv, AllReport
    <2> QED BY <1>2, <2>3
  <1>5. \A u \in DOMAIN tabs \ {t} : ShownBy(u, tabs[u], controllers')
    BY <1>1 DEF WindowIInv, AllShown, ShownBy
  <1> QED BY <1>3, <1>4, <1>5

LEMMA DisconnectStep ==
    ASSUME WindowIInv, OnDisconnect
    PROVE  WindowIInv' /\ CredentialsKept
  <1>1. PICK tab, t : tab = Released(tabs[selected]) /\ t = selected
    OBVIOUS
  <1>2. PICK w : w = OneTab(Window, t, tab)
    OBVIOUS
  <1>3. w = [Window EXCEPT !.tabs[selected] = Released(@)]
    BY <1>1, <1>2, WindowIs DEF OneTab
  <1>4. PICK r \in EraseReleasedCredentials(w) :
            /\ config' = r.config /\ file' = r.file /\ store' = r.store /\ tabs' = r.tabs /\ boxes' = r.boxes
    BY <1>3 DEF OnDisconnect, Becomes
  <1>5. controllers' = Without(controllers, {t}) /\ events' = events /\ actions' = actions + 1
    BY <1>1 DEF OnDisconnect, UserActs
  <1>6. t \in DOMAIN tabs => DOMAIN tab = TabFields /\ ShownBy(t, tab, controllers')
    BY <1>1, SoundNow, ReleasedTab DEF ShownBy
  <1>7. Len(boxes) = 0
    BY NoBoxes DEF OnDisconnect
  <1>8. Sound(w) /\ w.store = store /\ AllShown(w.tabs, controllers')
    BY <1>2, <1>5, <1>6, <1>7, ControllerGone, OneTabChanged
  <1>9. Sound(r) /\ Follows(w, r)
    BY <1>4, <1>8, Erasing
  <1> QED BY <1>4, <1>5, <1>8, <1>9, ControllerGone, WindowStep

LEMMA ReselectedIs ==
    ASSUME WindowIInv, Len(boxes) = 0, NEW t
    PROVE  LET q == Reselected(Window, t)
           IN  Sound(q) /\ AsShown(tabs, q.tabs) /\ q.store = store /\ q.boxes = boxes
  <1>1. PICK tab : tab = CaptureQuickConnectDraft(config, tabs[selected])
    OBVIOUS
  <1>2. PICK ts : ts = [tabs EXCEPT ![selected] = tab]
    OBVIOUS
  <1>3. PICK v : v = [Window EXCEPT !.tabs = ts]
    OBVIOUS
  <1>4. selected \in DOMAIN tabs =>
            /\ DOMAIN tab = TabFields /\ tab.state = tabs[selected].state /\ tab.gen = tabs[selected].gen
            /\ tab.remote = tabs[selected].remote /\ tab.site = tabs[selected].site
    BY <1>1, SoundNow, CaptureTab
  <1>5. Reselected(Window, t) = [v EXCEPT !.selected = t]
    BY <1>1, <1>2, <1>3, WindowIs DEF Reselected
  <1>6. AsShown(tabs, ts) /\ \A u \in DOMAIN ts : DOMAIN ts[u] = TabFields
    BY <1>2, <1>4, SoundNow DEF AsShown
  <1>7. Sound(v) /\ v.tabs = ts /\ v.store = store /\ v.boxes = boxes
    BY <1>3, <1>6, Retabbed, SoundNow, WindowIs
  <1>8. PICK q : q = [v EXCEPT !.selected = t]
    OBVIOUS
  <1>9. Sound(q) /\ q.tabs = ts /\ q.store = store /\ q.boxes = boxes
    BY <1>7, <1>8, Reselecting
  <1> QED BY <1>5, <1>6, <1>8, <1>9

LEMMA TabChangedStep ==
    ASSUME WindowIInv, NEW t, OnConnectionTabChanged(t)
    PROVE  WindowIInv' /\ CredentialsKept
  <1>1. PICK w : w = Reselected(Window, t)
    OBVIOUS
  <1>2. PICK r \in PersistOpenConnectionTabs(w, TRUE) :
            /\ config' = r.config /\ file' = r.file /\ store' = r.store /\ tabs' = r.tabs /\ boxes' = r.boxes
    BY <1>1 DEF OnConnectionTabChanged, Becomes
  <1>3. Len(boxes) = 0 /\ controllers' = controllers /\ events' = events /\ actions' = actions + 1
    BY NoBoxes DEF OnConnectionTabChanged, UserActs
  <1>4. Sound(w) /\ AsShown(tabs, w.tabs) /\ w.store = store
    BY <1>1, <1>3, ReselectedIs
  <1>5. AllShown(w.tabs, controllers')
    BY <1>3, <1>4, ShownStays DEF WindowIInv
  <1>6. Sound(r) /\ Follows(w, r)
    BY <1>2, <1>4, Persisting
  <1> QED BY <1>2, <1>3, <1>4, <1>5, <1>6, CountersStay, WindowStep

LEMMA BlankShown == ASSUME NEW t, NEW cs PROVE ShownBy(t, BlankTab, cs)
  BY Blank DEF ShownBy

LEMMA BlankAdded ==
    ASSUME NEW w, Sound(w), NEW t, NEW cs, AllShown(w.tabs, cs)
    PROVE  LET r == [w EXCEPT !.tabs = With(w.tabs, t, BlankTab)]
           IN  /\ Sound(r) /\ AllShown(r.tabs, cs) /\ r.store = w.store /\ r.boxes = w.boxes
               /\ r.config = w.config /\ r.file = w.file
  <1> DEFINE ts == With(w.tabs, t, BlankTab)
  <1>1. /\ DOMAIN ts = DOMAIN w.tabs \cup {t}
        /\ \A u \in DOMAIN ts : \/ u = t /\ ts[u] = BlankTab
                                \/ u \in DOMAIN w.tabs /\ ts[u] = w.tabs[u]
    BY DEF With
  <1> HIDE DEF ts
  <1>2. ASSUME NEW u \in DOMAIN ts
        PROVE  /\ DOMAIN ts[u] = TabFields
               /\ ts[u].site.cred = None \/ (u \in DOMAIN w.tabs /\ ts[u].site.cred = w.tabs[u].site.cred)
    <2>1. CASE ts[u] = BlankTab
      <3>1. DOMAIN ts[u] = TabFields
        BY <2>1, Blank
      <3>2. ts[u].site.cred = None
        BY <2>1, Blank
      <3> QED BY <3>1, <3>2
    <2>2. CASE u \in DOMAIN w.tabs /\ ts[u] = w.tabs[u]
      BY <2>2 DEF Sound
    <2> QED BY <1>1, <2>1, <2>2
  <1>3. AllShown(ts, cs)
    BY <1>1, BlankShown DEF AllShown
  <1>4. LET r == [w EXCEPT !.tabs = ts]
        IN  /\ Sound(r) /\ r.tabs = ts /\ r.store = w.store /\ r.boxes = w.boxes
            /\ r.config = w.config /\ r.file = w.file
    BY <1>2, Retabbed
  <1> QED BY <1>3, <1>4 DEF ts

LEMMA NewTabStep ==
    ASSUME WindowIInv, OnNewConnectionTab
    PROVE  WindowIInv' /\ CredentialsKept
  <1>1. PICK t : Becomes(PersistOpenConnectionTabs([Reselected(Window, t) EXCEPT !.tabs = With(@, t, BlankTab)], TRUE))
    BY DEF OnNewConnectionTab
  <1>2. PICK q : q = Reselected(Window, t)
    OBVIOUS
  <1>3. PICK w : w = [q EXCEPT !.tabs = With(q.tabs, t, BlankTab)]
    OBVIOUS
  <1>4. PICK r \in PersistOpenConnectionTabs(w, TRUE) :
            /\ config' = r.config /\ file' = r.file /\ store' = r.store /\ tabs' = r.tabs /\ boxes' = r.boxes
    BY <1>1, <1>2, <1>3 DEF Becomes
  <1>5. Len(boxes) = 0 /\ controllers' = controllers /\ events' = events /\ actions' = actions + 1
    BY NoBoxes DEF OnNewConnectionTab, UserActs
  <1>6. Sound(q) /\ AsShown(tabs, q.tabs) /\ q.store = store
    BY <1>2, <1>5, ReselectedIs
  <1>7. AllShown(q.tabs, controllers')
    BY <1>5, <1>6, ShownStays DEF WindowIInv
  <1>8. Sound(w) /\ AllShown(w.tabs, controllers') /\ w.store = store
    BY <1>3, <1>6, <1>7, BlankAdded
  <1>9. Sound(r) /\ Follows(w, r)
    BY <1>4, <1>8, Persisting
  <1> QED BY <1>4, <1>5, <1>8, <1>9, CountersStay, WindowStep

LEMMA CloseConnectionStep ==
    ASSUME WindowIInv, OnCloseConnectionTab
    PROVE  WindowIInv' /\ CredentialsKept
  <1>1. PICK s : s = selected
    OBVIOUS
  <1>2. PICK ts : ts = Without(tabs, {s})
    OBVIOUS
  <1>3. PICK w : w = [Window EXCEPT !.tabs = ts]
    OBVIOUS
  <1>4. w = [Window EXCEPT !.tabs = Without(@, {selected})]
    BY <1>1, <1>2, <1>3, WindowIs
  <1>5. PICK t, x, p, r :
            /\ x \in EraseReleasedCredentials(w)
            /\ p \in PersistOpenConnectionTabs([x EXCEPT !.selected = t], TRUE)
            /\ r = [p EXCEPT !.tabs = IF DOMAIN p.tabs = {} THEN With(p.tabs, t, BlankTab) ELSE p.tabs]
            /\ config' = r.config /\ file' = r.file /\ store' = r.store /\ tabs' = r.tabs /\ boxes' = r.boxes
    <2>1. PICK t :
              Becomes({[p EXCEPT !.tabs = IF DOMAIN @ = {} THEN With(@, t, BlankTab) ELSE @] :
                        p \in UNION {PersistOpenConnectionTabs([x EXCEPT !.selected = t], TRUE) :
                                     x \in EraseReleasedCredentials(w)}})
      BY <1>4 DEF OnCloseConnectionTab
    <2>2. PICK p, r :
            /\ p \in UNION {PersistOpenConnectionTabs([x EXCEPT !.selected = t], TRUE) :
                             x \in EraseReleasedCredentials(w)}
            /\ r = [p EXCEPT !.tabs = IF DOMAIN p.tabs = {} THEN With(p.tabs, t, BlankTab) ELSE p.tabs]
            /\ config' = r.config /\ file' = r.file /\ store' = r.store /\ tabs' = r.tabs /\ boxes' = r.boxes
      BY <2>1 DEF Becomes
    <2>3. PICK x \in EraseReleasedCredentials(w) :
              p \in PersistOpenConnectionTabs([x EXCEPT !.selected = t], TRUE)
      BY <2>2
    <2> QED BY <2>2, <2>3
  <1>6. /\ Len(boxes) = 0 /\ controllers' = Without(controllers, {s}) /\ events' = events
        /\ actions' = actions + 1
    BY <1>1, NoBoxes DEF OnCloseConnectionTab, UserActs
  <1>7. /\ \A u \in DOMAIN ts : u \in DOMAIN tabs \ {s} /\ ts[u] = tabs[u]
    BY <1>2 DEF Without
  <1>8. Sound(w) /\ w.tabs = ts /\ w.store = store
    BY <1>3, <1>6, <1>7, Retabbed, SoundNow, WindowIs
  <1>9. AllShown(w.tabs, controllers')
    BY <1>6, <1>7, <1>8, ControllerGone DEF AllShown
  <1>10. Sound(p) /\ Follows(w, p)
    <2>1. PICK y : y = [x EXCEPT !.selected = t]
      OBVIOUS
    <2>2. Sound(x) /\ Follows(w, x)
      BY <1>5, <1>8, Erasing
    <2>3. Sound(y) /\ Follows(w, y)
      BY <2>1, <2>2, Reselecting, FollowsOn
    <2> QED BY <1>5, <2>1, <2>3, Persisting, FollowsOn
  <1>11. CASE DOMAIN p.tabs # {}
    <2>1. r.config = p.config /\ r.file = p.file /\ r.store = p.store /\ r.tabs = p.tabs /\ r.boxes = p.boxes
      BY <1>5, <1>10, <1>11 DEF Sound, WindowFields
    <2>2. config' = p.config /\ file' = p.file /\ store' = p.store /\ tabs' = p.tabs /\ boxes' = p.boxes
      BY <1>5, <2>1
    <2> QED BY <1>6, <1>8, <1>9, <1>10, <2>2, ControllerGone, WindowStep
  <1>12. CASE DOMAIN p.tabs = {}
    <2>1. PICK y : y = [w EXCEPT !.tabs = With(w.tabs, t, BlankTab)]
      OBVIOUS
    <2>2. Sound(y) /\ AllShown(y.tabs, controllers') /\ y.store = store /\ y.config = w.config
      BY <1>8, <1>9, <2>1, BlankAdded
    <2>3. r = [p EXCEPT !.tabs = With(p.tabs, t, BlankTab)]
      BY <1>5, <1>12
    <2>4. AllShown(p.tabs, controllers')
      BY <1>9, <1>10, ShownStays DEF Follows
    <2>5. Sound(r) /\ r.store = p.store /\ r.config = p.config
      BY <1>10, <2>3, <2>4, BlankAdded
    <2>6. r.tabs = With(p.tabs, t, BlankTab) /\ y.tabs = With(w.tabs, t, BlankTab)
      BY <1>8, <1>10, <2>1, <2>3 DEF Sound, WindowFields
    <2>7. /\ DOMAIN w.tabs = {} /\ r.tabs = y.tabs
      BY <1>10, <1>12, <2>6 DEF Follows, AsShown, With
    <2>8. Follows(y, r)
      <3>1. UsedBy(y) \subseteq UsedBy(w) \cup {None}
        BY <2>2, <2>6, <2>7, Blank DEF UsedBy, With
      <3> QED BY <1>8, <1>10, <2>2, <2>5, <2>7, <3>1 DEF Follows, AsShown
    <2> QED BY <1>5, <1>6, <2>2, <2>5, <2>8, ControllerGone, WindowStep
  <1> QED BY <1>11, <1>12

(* Clearing, and new sites: what is saved, and what the tabs become once   *)
(* it is.                                                                  *)
LEMMA Renaming ==
    ASSUME NEW w, Sound(w), NEW ts, AsShown(w.tabs, ts),
           \A t \in DOMAIN ts : DOMAIN ts[t] = TabFields
    PROVE  LET r == [w EXCEPT !.tabs = ts] IN Sound(r) /\ Follows(w, r) /\ r.store = w.store
  <1>1. PICK r : r = [w EXCEPT !.tabs = ts]
    OBVIOUS
  <1>2. \A t \in DOMAIN ts : t \in DOMAIN w.tabs /\ ts[t].site.cred = w.tabs[t].site.cred
    BY DEF AsShown
  <1>3. Sound(r) /\ r.tabs = ts /\ r.config = w.config /\ r.store = w.store
    BY <1>1, <1>2, Retabbed
  <1> QED BY <1>1, <1>3 DEF Follows

NoQuickConnect(tab) == IF tab.identity \in Endpoints THEN [tab EXCEPT !.identity = None] ELSE tab
Cleared(w) ==
    IF w.boxes # <<>> THEN w
    ELSE [w EXCEPT !.tabs = [t \in DOMAIN w.tabs |-> NoQuickConnect(w.tabs[t])]]

LEMMA ClearStep ==
    ASSUME WindowIInv, OnQuickHistoryClear
    PROVE  WindowIInv' /\ CredentialsKept
  <1>1. PICK c : c = [config EXCEPT !.history = <<>>, !.dirs = Without(@, Endpoints)]
    OBVIOUS
  <1>2. PICK w, v, box : /\ v = Window /\ w = [v EXCEPT !.config = c]
                         /\ box = Box(v, {"history", "dirs", "tabs"}, {}, None)
    OBVIOUS
  <1>3. PICK p, r :
            /\ p \in SaveConfiguration(w, box) /\ r = Cleared(p)
            /\ config' = r.config /\ file' = r.file /\ store' = r.store /\ tabs' = r.tabs /\ boxes' = r.boxes
    <2>1. Becomes({Cleared(p) : p \in SaveConfiguration(w, box)})
      BY <1>1, <1>2, WindowIs DEF OnQuickHistoryClear, Cleared, NoQuickConnect
    <2> QED BY <2>1 DEF Becomes
  <1>4. controllers' = controllers /\ events' = events /\ actions' = actions + 1
    BY DEF OnQuickHistoryClear, UserActs
  <1>5. /\ DOMAIN w = WindowFields /\ w.config = c /\ w.file = file /\ w.tabs = tabs /\ w.boxes = boxes
        /\ w.store = store
    BY <1>2, WindowIs DEF WindowFields
  <1>6. Sound(w) /\ AllShown(w.tabs, controllers')
    <2>1. IsConfiguration(c)
      BY <1>1, SoundNow, WindowIs DEF Sound, IsConfiguration, ConfigFields
    <2> QED BY <1>4, <1>5, <2>1, SoundNow, WindowIs DEF Sound
  <1>7. Harmless(box, w.tabs)
    BY <1>2, PlainBox, SoundNow DEF Sound
  <1>8. Sound(p) /\ Follows(w, p)
    BY <1>3, <1>6, <1>7, Saving
  <1>9. Sound(r) /\ Follows(p, r)
    <2>1. CASE r = p
      BY <1>8, <2>1, FollowsSelf
    <2>2. CASE r # p
      <3>1. PICK ts : ts = [t \in DOMAIN p.tabs |-> NoQuickConnect(p.tabs[t])]
        OBVIOUS
      <3>2. \A t \in DOMAIN p.tabs : DOMAIN p.tabs[t] = TabFields
        BY <1>8 DEF Sound
      <3>3. AsShown(p.tabs, ts) /\ \A t \in DOMAIN ts : DOMAIN ts[t] = TabFields
        BY <3>1, <3>2 DEF AsShown, TabFields, NoQuickConnect
      <3>4. r = [p EXCEPT !.tabs = ts]
        BY <1>3, <2>2, <3>1 DEF Cleared
      <3> QED BY <1>8, <3>3, <3>4, Renaming
    <2> QED BY <1>3, <2>1, <2>2
  <1> QED BY <1>3, <1>4, <1>5, <1>6, <1>8, <1>9, FollowsOn, CountersStay, WindowStep

RenewedTab(c, sites, tab) ==
    IF tab.identity \in SiteIds \ {s.id : s \in sites} THEN [tab EXCEPT !.identity = None]
    ELSE IF tab.identity \in Endpoints /\ ~QuickHistoryContains(c, tab.identity)
            /\ UniqueSavedSiteForEndpoint(c, tab.identity) # None
    THEN [tab EXCEPT !.identity = UniqueSavedSiteForEndpoint(c, @)]
    ELSE tab
RenewedTabs(c, sites, ts) == [t \in DOMAIN ts |-> RenewedTab(c, sites, ts[t])]
Managed(c, sites, w) ==
    IF w.boxes # <<>> THEN {w}
    ELSE EraseReleasedCredentials([w EXCEPT !.tabs = RenewedTabs(c, sites, w.tabs)])

LEMMA Pruned ==
    ASSUME NEW c, IsConfiguration(c)
    PROVE  LET r == PruneSavedSitesFromQuickConnectHistory(c)
           IN  IsConfiguration(r) /\ r.sites = c.sites /\ r.pending = c.pending /\ r.tabs = c.tabs
  <1>1. PICK history : PruneSavedSitesFromQuickConnectHistory(c) = [c EXCEPT !.history = history]
    BY DEF PruneSavedSitesFromQuickConnectHistory
  <1> QED BY <1>1 DEF IsConfiguration, ConfigFields

NewCredentials(sites) == CredentialsOf(sites) \ CredentialsOf(config.sites)
EditedSites(sites) ==
    PruneSavedSitesFromQuickConnectHistory(
        [config EXCEPT !.sites = sites, !.dirs = Without(@, SavedIds(config) \ {s.id : s \in sites}),
                       !.pending = QueueRemovedCredentials(@, config.sites, sites)])

(* What the handler leaves: a refused store, or sites that are saved.      *)
Left(r) ==
    /\ config' = r.config /\ file' = r.file /\ store' = r.store
    /\ tabs' = r.tabs /\ boxes' = r.boxes
StoreRefusal(new) == \E r \in StoreRefused(Window, new) : Left(r)
SitesSaved(sites) ==
    SaveConfiguration([Window EXCEPT !.config = EditedSites(sites), !.store = @ \cup NewCredentials(sites)],
                      Box(Window, {"sites", "history", "dirs", "tabs", "pending"}, NewCredentials(sites), None))

LEMMA StoreRefusedStep ==
    ASSUME WindowIInv, NEW new, StoreRefusal(new),
           controllers' = controllers, events' = events, actions' = actions + 1
    PROVE  WindowIInv' /\ CredentialsKept
  <1>1. PICK left, w, box, r :
            /\ w = [Window EXCEPT !.store = store \cup left] /\ box = Box(Window, {"sites"}, {}, None)
            /\ r = Asked(w, box) /\ Left(r)
    <2>1. PICK r, left : r = Asked([Window EXCEPT !.store = @ \cup left], Box(Window, {"sites"}, {}, None)) /\ Left(r)
      BY DEF StoreRefusal, StoreRefused
    <2> QED BY <2>1, WindowIs
  <1>2. /\ DOMAIN w = WindowFields /\ w.config = config /\ w.file = file /\ w.tabs = tabs /\ w.boxes = boxes
        /\ w.store = store \cup left
    BY <1>1, WindowIs DEF WindowFields
  <1>3. Sound(w) /\ AllShown(w.tabs, controllers')
    BY <1>2, SoundNow, WindowIs DEF Sound
  <1>4. Harmless(box, w.tabs)
    BY <1>1, PlainBox, SoundNow DEF Sound
  <1>5. Sound(r) /\ Follows(w, r)
    BY <1>1, <1>3, <1>4, SoundWithBox
  <1>6. /\ Sound(Window)' /\ AllShown(tabs', controllers')
        /\ \A x \in w.store \ store' : x \notin InUse'
    BY <1>1, <1>3, <1>5, Arriving DEF Left
  <1>7. CredentialsKept
    BY <1>2, <1>6 DEF CredentialsKept
  <1> QED BY <1>6, <1>7, CountersStay DEF WindowIInv

LEMMA SitesSavedStep ==
    ASSUME WindowIInv, NEW sites,
           NewCredentials(sites) \cap ActiveCredentials(Window) = {},
           \E p \in SitesSaved(sites) : \E r \in Managed(EditedSites(sites), sites, p) : Left(r),
           controllers' = controllers, events' = events, actions' = actions + 1
    PROVE  WindowIInv' /\ CredentialsKept
  <1>1. PICK old, new, pending, dirs, edited :
            /\ old = config.sites /\ new = CredentialsOf(sites) \ CredentialsOf(old)
            /\ pending = QueueRemovedCredentials(config.pending, config.sites, sites)
            /\ dirs = Without(config.dirs, SavedIds(config) \ {s.id : s \in sites})
            /\ edited = [config EXCEPT !.sites = sites, !.dirs = dirs, !.pending = pending]
    OBVIOUS
  <1>2. PICK c : c = PruneSavedSitesFromQuickConnectHistory(edited)
    OBVIOUS
  <1>3. PICK v, w, box :
            /\ v = Window /\ w = [[v EXCEPT !.config = c] EXCEPT !.store = store \cup new]
            /\ box = Box(v, {"sites", "history", "dirs", "tabs", "pending"}, new, None)
    OBVIOUS
  <1>4. PICK p, r :
            /\ p \in SaveConfiguration(w, box) /\ r \in Managed(c, sites, p)
            /\ config' = r.config /\ file' = r.file /\ store' = r.store /\ tabs' = r.tabs /\ boxes' = r.boxes
    <2>1. PICK p, r : p \in SitesSaved(sites) /\ r \in Managed(EditedSites(sites), sites, p) /\ Left(r)
      OBVIOUS
    <2>2. c = EditedSites(sites) /\ new = NewCredentials(sites)
      BY <1>1, <1>2 DEF EditedSites, NewCredentials
    <2>3. w = [Window EXCEPT !.config = EditedSites(sites), !.store = @ \cup NewCredentials(sites)]
      BY <1>3, <2>2, WindowIs
    <2>4. box = Box(Window, {"sites", "history", "dirs", "tabs", "pending"}, NewCredentials(sites), None)
      BY <1>3, <2>2
    <2> QED BY <2>1, <2>2, <2>3, <2>4 DEF SitesSaved, Left
  <1>5. controllers' = controllers /\ events' = events /\ actions' = actions + 1
    OBVIOUS
  <1>6. /\ DOMAIN w = WindowFields /\ w.config = c /\ w.file = file /\ w.tabs = tabs /\ w.boxes = boxes
        /\ w.store = store \cup new
    BY <1>3, WindowIs DEF WindowFields
  <1>7. IsConfiguration(c)
    <2>1. None \notin pending
      BY <1>1, SoundNow, WindowIs DEF QueueRemovedCredentials, CredentialsOf, Sound, IsConfiguration
    <2>2. IsConfiguration(edited)
      BY <1>1, <2>1, SoundNow, WindowIs DEF Sound, IsConfiguration, ConfigFields
    <2> QED BY <1>2, <2>2, Pruned
  <1>8. Sound(w) /\ AllShown(w.tabs, controllers')
    BY <1>5, <1>6, <1>7, SoundNow, WindowIs DEF Sound
  <1>9. Harmless(box, w.tabs)
    <2>1. \A x \in new : x # None /\ x \notin CredentialsOf(old)
                         /\ \A t \in DOMAIN tabs : tabs[t].site.cred # x
      <3>1. new \cap ActiveCredentials(Window) = {}
        BY <1>1 DEF NewCredentials
      <3> QED BY <1>1, <3>1, WindowIs DEF CredentialsOf, ActiveCredentials
    <2>2. /\ DOMAIN box = BoxFields /\ box.old = config /\ box.stored = new /\ "sites" \in box.fields
      BY <1>3, WindowIs DEF Box, BoxFields
    <2>3. IsConfiguration(config)
      BY SoundNow, WindowIs DEF Sound
    <2> QED BY <1>1, <1>6, <2>1, <2>2, <2>3 DEF Harmless
  <1>10. Sound(p) /\ Follows(w, p)
    BY <1>4, <1>8, <1>9, Saving
  <1>11. Sound(r) /\ Follows(w, r)
    <2>1. CASE r = p
      BY <1>10, <2>1
    <2>2. CASE r # p
      <3>1. PICK ts : ts = RenewedTabs(c, sites, p.tabs)
        OBVIOUS
      <3>2. \A t \in DOMAIN p.tabs : DOMAIN p.tabs[t] = TabFields
        BY <1>10 DEF Sound
      <3>3. AsShown(p.tabs, ts) /\ \A t \in DOMAIN ts : DOMAIN ts[t] = TabFields
        BY <3>1, <3>2 DEF AsShown, TabFields, RenewedTabs, RenewedTab
      <3>4. PICK q : q = [p EXCEPT !.tabs = ts]
        OBVIOUS
      <3>5. r \in EraseReleasedCredentials(q)
        BY <1>4, <2>2, <3>1, <3>4 DEF Managed
      <3>6. Sound(q) /\ Follows(p, q)
        BY <1>10, <3>3, <3>4, Renaming
      <3> QED BY <1>10, <3>5, <3>6, Erasing, FollowsOn
    <2> QED BY <2>1, <2>2
  <1>12. /\ Sound(Window)' /\ AllShown(tabs', controllers')
         /\ \A x \in w.store \ store' : x \notin InUse'
    BY <1>4, <1>8, <1>11, Arriving
  <1>13. CredentialsKept
    BY <1>6, <1>12 DEF CredentialsKept
  <1> QED BY <1>5, <1>12, <1>13, CountersStay DEF WindowIInv

LEMMA SiteManagerStep ==
    ASSUME WindowIInv, NEW sites, OnSiteManager(sites)
    PROVE  WindowIInv' /\ CredentialsKept
  <1>1. \/ StoreRefusal(NewCredentials(sites))
        \/ \E p \in SitesSaved(sites) : \E r \in Managed(EditedSites(sites), sites, p) : Left(r)
    <2>1. Becomes((UNION {Managed(EditedSites(sites), sites, p) : p \in SitesSaved(sites)})
                  \cup StoreRefused(Window, NewCredentials(sites)))
      BY DEF OnSiteManager, Managed, RenewedTabs, RenewedTab, EditedSites, NewCredentials, SitesSaved
    <2> QED BY <2>1 DEF Becomes, StoreRefusal, Left
  <1>2. controllers' = controllers /\ events' = events /\ actions' = actions + 1
    BY DEF OnSiteManager, UserActs
  <1>3. CASE StoreRefusal(NewCredentials(sites))
    BY <1>2, <1>3, StoreRefusedStep
  <1>4. NewCredentials(sites) \cap ActiveCredentials(Window) = {}
    BY DEF OnSiteManager, NewCredentials
  <1>5. CASE \E p \in SitesSaved(sites) : \E r \in Managed(EditedSites(sites), sites, p) : Left(r)
    BY <1>2, <1>4, <1>5, SitesSavedStep
  <1> QED BY <1>1, <1>3, <1>5

-----------------------------------------------------------------------------
AllBlank(ts) ==
    \A t \in DOMAIN ts :
       /\ DOMAIN ts[t] = TabFields /\ ts[t].state = "Disconnected" /\ ts[t].gen = 0 /\ ts[t].remote = None

LEMMA BlanksShown == ASSUME NEW ts, NEW cs, AllBlank(ts) PROVE AllShown(ts, cs)
  BY DEF AllBlank, AllShown, ShownBy

LEMMA RestoredBlank ==
    ASSUME NEW c
    PROVE  AllBlank(Restored(c))
  <1> DEFINE Fresh(id) ==
                 IF id \in SavedIds(c)
                 THEN SetQuickSite(c, BlankTab, Profile(CHOOSE s \in c.sites : s.id = id))
                 ELSE IF QuickHistoryContains(c, id) THEN SetQuickSite(c, BlankTab, QuickSite(id))
                 ELSE BlankTab
  <1>1. ASSUME NEW id
        PROVE  /\ DOMAIN Fresh(id) = TabFields /\ Fresh(id).state = "Disconnected"
               /\ Fresh(id).gen = 0 /\ Fresh(id).remote = None
    <2>1. \/ \E site : Fresh(id) = SetQuickSite(c, BlankTab, site)
          \/ Fresh(id) = BlankTab
      OBVIOUS
    <2> HIDE DEF Fresh
    <2> QED BY <2>1, SiteSet, Blank
  <1>2. Restored(c) = [t \in DOMAIN c.tabs |->
                          [Fresh(c.tabs[t].connection) EXCEPT !.draft.initial = c.tabs[t].remote]]
    BY DEF Restored
  <1> HIDE DEF Fresh
  <1>3. ASSUME NEW tab, NEW initial, DOMAIN tab = TabFields
        PROVE  LET r == [tab EXCEPT !.draft.initial = initial]
               IN  DOMAIN r = TabFields /\ r.state = tab.state /\ r.gen = tab.gen /\ r.remote = tab.remote
    BY <1>3 DEF TabFields
  <1> QED BY <1>1, <1>2, <1>3 DEF AllBlank

LEMMA NothingWaits ==
    ASSUME NEW n
    PROVE  Numbered(NoTab, n) /\ AllReport(<<>>, NoTab, n) /\ IsSequence(<<>>) /\ Len(<<>>) = 0
  <1>1. IsSequence(<<>>) /\ Len(<<>>) = 0
    BY EmptySeq DEF IsSequence
  <1>2. DOMAIN NoTab = {}
    BY DEF NoTab
  <1> QED BY <1>1, <1>2 DEF Numbered, AllReport

LEMMA RestartStep ==
    ASSUME WindowIInv, Restart
    PROVE  WindowIInv' /\ CredentialsKept
  <1>1. PICK w : w = Opened(file)
    OBVIOUS
  <1>2. PICK x, r :
            /\ x \in EraseReleasedCredentials(w) /\ r \in PersistOpenConnectionTabs(x, FALSE)
            /\ config' = r.config /\ file' = r.file /\ store' = r.store /\ tabs' = r.tabs /\ boxes' = r.boxes
    <2>1. Becomes(UNION {PersistOpenConnectionTabs(x, FALSE) : x \in EraseReleasedCredentials(w)})
      BY <1>1 DEF Restart
    <2> QED BY <2>1 DEF Becomes
  <1>3. controllers' = NoTab /\ events' = <<>> /\ actions' = actions + 1
    BY DEF Restart
  <1>4. PICK c : c = PruneSavedSitesFromQuickConnectHistory(file)
    OBVIOUS
  <1>5. /\ DOMAIN w = WindowFields /\ w.config = c /\ w.file = file /\ w.boxes = <<>> /\ w.store = store
        /\ w.tabs = Restored(c) \/ w.tabs = [t \in {CHOOSE t \in TabIds : TRUE} |-> BlankTab]
    BY <1>1, <1>4 DEF Opened, WindowFields
  <1>6. AllBlank(w.tabs)
    <2>1. AllBlank([t \in {CHOOSE t \in TabIds : TRUE} |-> BlankTab])
      BY Blank DEF AllBlank
    <2> QED BY <1>5, <2>1, RestoredBlank
  <1>7. Sound(w)
    <2>1. IsConfiguration(file)
      BY SoundNow, WindowIs DEF Sound
    <2>2. IsConfiguration(c)
      BY <1>4, <2>1, Pruned
    <2> QED BY <1>5, <1>6, <2>1, <2>2, NothingWaits DEF Sound, AllBlank
  <1>8. Sound(r) /\ Follows(w, r)
    BY <1>2, <1>7, Erasing, Persisting, FollowsOn
  <1>9. actions' \in Nat
    BY <1>3 DEF WindowIInv
  <1>10. Numbered(controllers', actions') /\ AllReport(events', controllers', actions')
    BY <1>3, NothingWaits
  <1>11. AllShown(w.tabs, controllers')
    BY <1>6, BlanksShown
  <1> QED BY <1>2, <1>5, <1>8, <1>9, <1>10, <1>11, WindowStep

LEMMA WindowInitially == Init => WindowIInv
  <1> SUFFICES ASSUME Init PROVE WindowIInv
    OBVIOUS
  <1>1. AllBlank(tabs)
    BY Blank DEF Init, AllBlank
  <1>2. actions \in Nat /\ Numbered(controllers, actions) /\ AllReport(events, controllers, actions)
    BY NothingWaits DEF Init
  <1>3. IsConfiguration(file) /\ IsConfiguration(config)
    <2>1. IsConfiguration(file)
      BY ConfigurationAssumption DEF Init, IsConfiguration, ConfigFields
    <2> QED BY <2>1, Pruned DEF Init
  <1>4. IsSequence(boxes) /\ Len(boxes) = 0
    BY NothingWaits DEF Init
  <1>5. Sound(Window)
    BY <1>1, <1>3, <1>4, WindowIs DEF Sound, AllBlank
  <1> QED BY <1>1, <1>2, <1>5, BlanksShown DEF WindowIInv

LEMMA WindowSteps == WindowIInv /\ [Next]_vars => WindowIInv' /\ (CredentialsKept \/ UNCHANGED vars)
  <1> SUFFICES ASSUME WindowIInv, [Next]_vars PROVE WindowIInv' /\ (CredentialsKept \/ UNCHANGED vars)
    OBVIOUS
  <1>1. CASE UNCHANGED vars
    BY <1>1, CountersStay DEF vars, WindowIInv, Window, AllShown
  <1> QED BY <1>1, PostStep, EventStep, CloseBoxStep, LoadedDirectoryStep, TabChangedStep, EditStep,
             HistorySelectionStep, QuickConnectStep, ConnectSavedStep, DisconnectStep, NewTabStep,
             CloseConnectionStep, ClearStep, SiteManagerStep, RestartStep DEF Next

LEMMA WindowIInvHolds == Spec => []WindowIInv
  BY WindowInitially, WindowSteps, PTL DEF Spec

(* However events of controllers, boxes, reconnects, closed tabs and       *)
(* restarts interleave: a tab shows the connection its controller has, and *)
(* a listing of its endpoint (OfActiveConnection, OnControllerEvent).      *)
THEOREM TabsShowConnections == Spec => []ShownIsConnected
  <1>1. WindowIInv => ShownIsConnected
    BY DEF WindowIInv, AllShown, ShownBy, ShownIsConnected
  <1> QED BY <1>1, WindowIInvHolds, PTL

(* No clean-up, and no save of the sites that is taken back, erases a      *)
(* credential some site or connection still refers to                      *)
(* (EraseReleasedCredentials, OnSiteManager).                              *)
THEOREM UsedCredentialsStay == Spec => CredentialsInUseStay
  <1>1. WindowIInv /\ [Next]_vars => [(store \ store') \cap InUse' = {}]_vars
    BY WindowSteps DEF CredentialsKept
  <1> QED BY <1>1, WindowIInvHolds, PTL DEF Spec, CredentialsInUseStay
=============================================================================
