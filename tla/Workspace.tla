------------------------------ MODULE Workspace ------------------------------
(***************************************************************************)
(* The main window (mainFrame.cpp): its connection tabs, what they leave   *)
(* in the configuration (Quick Connect history, remembered directories,    *)
(* open tabs), the credentials of saved sites and their deletion.          *)
(*                                                                         *)
(* The identity of a tab is a saved site's id, or the endpoint of a Quick  *)
(* Connect.  A Quick Connect's site id is its endpoint.  A directory is    *)
(* named after the endpoint that listed it.  Local directories are left    *)
(* out: remembering one only may save.  The configuration is writable.     *)
(*                                                                         *)
(* A save or a store that fails shows a message box: until it is closed, and what the *)
(* handler changed is taken back, events of controllers are handled.  A    *)
(* handler is the set of the windows it may leave behind.                  *)
(***************************************************************************)
EXTENDS Naturals, Sequences, FiniteSets, SequencesExt

CONSTANTS
    TabIds, Endpoints, SiteIds,
    None, Root,
    SiteLists,          \* what a user may make of the saved sites: sets of [id, endpoint, cred]
    Configurations,     \* what the file may hold at first
    MaxHistory,
    MaxEvents,          \* bound on the events waiting for the interface
    MaxActions,         \* bound on what the user does
    MaxFailures,        \* bound on failed saves and stores
    MaxTabs             \* bound on open tabs

(* A file that loads has its members, and no empty id among the credentials *)
(* to delete.                                                              *)
ASSUME ConfigurationAssumption ==
    \A c \in Configurations :
       DOMAIN c = {"sites", "history", "dirs", "tabs", "pending"} /\ None \notin c.pending

VARIABLES
    config,             \* mConfiguration: sites, history, dirs, tabs, pending
    file,               \* the saved configuration
    store,              \* credentials in the operating system's store
    tabs,               \* the open tabs: tab id -> tab
    selected,           \* the selected tab
    boxes,              \* message boxes of failures, with what each handler will restore
    failures,
    actions,            \* how often the user did something
    controllers,        \* tab id -> the running connection of its controller
    events,             \* posted by controllers, not handled yet
    forgotten           \* history: what a user cleared or deleted, and did not connect again

vars == <<config, file, store, tabs, selected, boxes, failures, actions, controllers, events, forgotten>>

Window == [config |-> config, file |-> file, store |-> store, tabs |-> tabs, selected |-> selected,
           boxes |-> boxes, failures |-> failures]
Becomes(windows) ==
    \E w \in windows :
       /\ config' = w.config /\ file' = w.file /\ store' = w.store /\ tabs' = w.tabs
       /\ selected' = w.selected /\ boxes' = w.boxes /\ failures' = w.failures

Without(f, S) == [x \in DOMAIN f \ S |-> f[x]]
With(f, x, v) == [y \in DOMAIN f \cup {x} |-> IF y = x THEN v ELSE f[y]]

-----------------------------------------------------------------------------
(* Who a tab is.                                                           *)

SavedIds(c) == {s.id : s \in c.sites}
QuickHistoryContains(c, e) == \E i \in DOMAIN c.history : c.history[i] = e

UniqueSavedSiteForEndpoint(c, e) ==
    LET matches == {s \in c.sites : s.endpoint = e}
    IN  IF Cardinality(matches) = 1 THEN (CHOOSE s \in matches : TRUE).id ELSE None

WorkspaceIdentityForSite(c, profile, includeUnrecordedQuick) ==
    LET e == profile.endpoint IN
    IF e = None THEN None
    ELSE IF \E s \in c.sites : s.id = profile.id /\ s.endpoint = e THEN profile.id
    ELSE IF UniqueSavedSiteForEndpoint(c, e) # None THEN UniqueSavedSiteForEndpoint(c, e)
    ELSE IF includeUnrecordedQuick \/ QuickHistoryContains(c, e) THEN e ELSE None

RememberedDirectories(c, identity, e) ==
    IF identity \in DOMAIN c.dirs THEN c.dirs[identity]
    ELSE IF /\ identity \in SiteIds /\ UniqueSavedSiteForEndpoint(c, e) = identity
            /\ e \in DOMAIN c.dirs
    THEN c.dirs[e] ELSE None

PruneSavedSitesFromQuickConnectHistory(c) ==
    LET Unsaved(e) == UniqueSavedSiteForEndpoint(c, e) = None
    IN  [c EXCEPT !.history = SelectSeq(@, Unsaved)]

(* The fields a user typed into become the draft of a disconnected tab.    *)
CaptureQuickConnectDraft(c, tab) ==
    IF tab.state # "Disconnected" THEN tab
    ELSE [tab EXCEPT !.identity = WorkspaceIdentityForSite(c, tab.draft, FALSE)]

SetQuickSite(c, tab, site) ==
    LET identity == WorkspaceIdentityForSite(c, site, FALSE)
        remembered == RememberedDirectories(c, identity, site.endpoint)
    IN  [tab EXCEPT !.identity = identity,
                    !.draft = IF remembered = None THEN site ELSE [site EXCEPT !.initial = remembered]]

(* A listing is kept as the start of the next connection.                  *)
SetConnectionState(tab, state) ==
    [tab EXCEPT !.state = state,
                !.draft.initial = IF state # "Connected" /\ tab.remote # None THEN tab.remote ELSE @,
                !.remote = IF state # "Connected" THEN None ELSE @]

NoSite == [id |-> None, endpoint |-> None, cred |-> None, initial |-> Root]
QuickSite(e) == [NoSite EXCEPT !.id = e, !.endpoint = e]
Profile(site) == [id |-> site.id, endpoint |-> site.endpoint, cred |-> site.cred, initial |-> Root]
BlankTab == [state |-> "Disconnected", identity |-> None, draft |-> NoSite, site |-> NoSite, gen |-> 0, remote |-> None]

Selected(w) == w.tabs[w.selected]
FreeTabs(w) == TabIds \ (DOMAIN w.tabs \cup {events[i].tab : i \in DOMAIN events})

-----------------------------------------------------------------------------
(* Saving.                                                                 *)

OpenTab(c, tab) ==
    [connection |-> IF tab.identity \in SavedIds(c) \/ QuickHistoryContains(c, tab.identity)
                    THEN tab.identity ELSE None,
     remote |-> IF tab.remote # None THEN tab.remote ELSE tab.draft.initial]

CaptureOpenConnectionTabs(w) ==
    LET captured == [t \in DOMAIN w.tabs |->
                        IF t = w.selected THEN CaptureQuickConnectDraft(w.config, w.tabs[t]) ELSE w.tabs[t]]
    IN  [w EXCEPT !.tabs = captured,
                  !.config.tabs = [t \in DOMAIN captured |-> OpenTab(w.config, captured[t])]]

Box(w, fields, stored, then) == [old |-> w.config, fields |-> fields, stored |-> stored, then |-> then]

Asked(w, box) == [w EXCEPT !.boxes = Append(@, box), !.failures = @ + 1]

SaveConfiguration(w, box) ==
    LET captured == CaptureOpenConnectionTabs(w)
    IN  {[captured EXCEPT !.file = captured.config]}
        \cup IF w.failures = MaxFailures THEN {}
             ELSE {Asked(captured, box)}

PersistOpenConnectionTabs(w, moved) ==
    LET captured == CaptureOpenConnectionTabs(w)
    IN  IF captured.config.tabs = w.config.tabs /\ ~moved THEN {captured}
        ELSE SaveConfiguration(w, Box(w, {"tabs"}, {}, None))

-----------------------------------------------------------------------------
(* Credentials.                                                            *)

CredentialsOf(sites) == {s.cred : s \in sites} \ {None}
ActiveCredentials(w) == {w.tabs[t].site.cred : t \in DOMAIN w.tabs} \ {None}

QueueRemovedCredentials(pending, previous, current) ==
    pending \cup (CredentialsOf(previous) \ CredentialsOf(current))

CredentialChangeInProgress(w) == \E i \in DOMAIN w.boxes : "sites" \in w.boxes[i].fields

EraseUnsaved(w) ==                                                      \* mutant
    LET references == CredentialsOf(w.config.sites)
    IN  IF CredentialChangeInProgress(w) THEN {w}
        ELSE UNION {LET kept == [w EXCEPT !.store = @ \ erased]
                        cleaned == [kept EXCEPT !.config.pending = @ \ erased]
                    IN  IF erased = {} THEN {w}
                        ELSE {[cleaned EXCEPT !.file = cleaned.config]}
                             \cup (IF w.failures = MaxFailures THEN {} ELSE {[kept EXCEPT !.failures = @ + 1]}) :
                    erased \in SUBSET (w.config.pending \ references)}

(* A credential is erased once neither a saved site nor a connection       *)
(* refers to it; the store may refuse.  The list is saved without a box.   *)
EraseReleasedCredentials(w) ==
    LET references == CredentialsOf(w.config.sites) \cup ActiveCredentials(w)
    IN  IF CredentialChangeInProgress(w) THEN {w}
        ELSE UNION {LET kept == [w EXCEPT !.store = @ \ erased]
                        cleaned == [kept EXCEPT !.config.pending = @ \ erased]
                    IN  IF erased = {} THEN {w}
                        ELSE {[cleaned EXCEPT !.file = cleaned.config]}
                             \cup (IF w.failures = MaxFailures THEN {} ELSE {[kept EXCEPT !.failures = @ + 1]}) :
                    erased \in SUBSET (w.config.pending \ references)}

-----------------------------------------------------------------------------
(* What a connection leaves in the configuration.                          *)

RecordSuccessfulQuickConnection(w, t) ==
    LET tab == w.tabs[t]
        e == tab.site.endpoint
        Other(x) == x # e
        all == <<e>> \o SelectSeq(w.config.history, Other)
        recent == SubSeq(all, 1, IF Len(all) < MaxHistory THEN Len(all) ELSE MaxHistory)
        fellOut == ToSet(w.config.history) \ ToSet(recent)
        recorded == [w.config EXCEPT !.history = recent, !.dirs = Without(@, fellOut)]
    IN  IF \/ tab.identity # e \/ e = None
           \/ tab.site.id \in SavedIds(w.config) \/ UniqueSavedSiteForEndpoint(w.config, e) # None
           \/ recorded = w.config
        THEN {w}
        ELSE SaveConfiguration([w EXCEPT !.config = recorded], Box(w, {"history", "dirs", "tabs"}, {}, t))

(* Whether the tab still is who it was when its connection began.          *)
CurrentIdentity(c, tab) ==
    IF tab.identity \in Endpoints /\ ~QuickHistoryContains(c, tab.identity)
    THEN IF UniqueSavedSiteForEndpoint(c, tab.identity) # None THEN UniqueSavedSiteForEndpoint(c, tab.identity)
         ELSE IF tab.state = "Connecting" THEN tab.identity ELSE None
    ELSE IF tab.identity \in SiteIds \ SavedIds(c) THEN None
    ELSE tab.identity

(* Directories of a Quick Connect whose endpoint was saved are the site's. *)
Migrated(dirs, c, identity, e) ==
    IF /\ identity \in SiteIds /\ UniqueSavedSiteForEndpoint(c, e) = identity
       /\ e \in DOMAIN dirs
    THEN Without(IF identity \in DOMAIN dirs THEN dirs ELSE With(dirs, identity, dirs[e]), {e})
    ELSE dirs

(* remote is None when it is a local directory that is remembered.         *)
RememberConnectionDirectories(w, t, remote) ==
    LET tab == IF remote = None /\ t = w.selected
               THEN CaptureQuickConnectDraft(w.config, w.tabs[t]) ELSE w.tabs[t]
        identity == CurrentIdentity(w.config, tab)
        unrecorded == identity \in Endpoints /\ ~QuickHistoryContains(w.config, identity)
        e == IF tab.site.endpoint # None THEN tab.site.endpoint ELSE tab.draft.endpoint
        dirs == Migrated(w.config.dirs, w.config, identity, e)
        here == IF remote # None THEN remote ELSE IF tab.remote # None THEN tab.remote ELSE tab.draft.initial
        known == [w EXCEPT !.tabs[t] = [tab EXCEPT !.identity = identity]]
        remembered == IF identity = None \/ unrecorded THEN known
                      ELSE [known EXCEPT !.config.dirs =
                               IF identity \in DOMAIN dirs /\ remote = None THEN dirs ELSE With(dirs, identity, here)]
        saved == SaveConfiguration(remembered, Box(w, {"dirs", "tabs"}, {}, None))
    IN  IF remembered.config # w.config THEN saved
        ELSE IF remote = None THEN {remembered} \cup saved ELSE {remembered}

-----------------------------------------------------------------------------
(* Events of controllers.                                                  *)

NoTab == [t \in {} |-> None]
Restored(c) ==
    [t \in DOMAIN c.tabs |->
        LET id == c.tabs[t].connection
            fresh == IF id \in SavedIds(c)
                     THEN SetQuickSite(c, BlankTab, Profile(CHOOSE s \in c.sites : s.id = id))
                     ELSE IF QuickHistoryContains(c, id) THEN SetQuickSite(c, BlankTab, QuickSite(id))
                     ELSE BlankTab
        IN  [fresh EXCEPT !.draft.initial = c.tabs[t].remote]]

Opened(c) ==
    LET loaded == PruneSavedSitesFromQuickConnectHistory(c)
        restored == Restored(loaded)
        open == IF DOMAIN restored = {} THEN [t \in {CHOOSE t \in TabIds : TRUE} |-> BlankTab] ELSE restored
    IN  [config |-> loaded, file |-> c, store |-> store, tabs |-> open,
         selected |-> CHOOSE t \in DOMAIN open : TRUE, boxes |-> <<>>, failures |-> failures]

Init ==
    /\ file \in Configurations /\ store = CredentialsOf(file.sites) \cup file.pending
    /\ config = PruneSavedSitesFromQuickConnectHistory(file)
    /\ tabs = [t \in {CHOOSE t \in TabIds : TRUE} |-> BlankTab]
    /\ selected = CHOOSE t \in TabIds : TRUE
    /\ boxes = <<>> /\ failures = 0 /\ actions = 0
    /\ controllers = NoTab /\ events = <<>> /\ forgotten = {}

(* The browser thread connects, lists, and loses its connection.           *)
Post(t, kind) ==
    /\ t \in DOMAIN controllers /\ Len(events) < MaxEvents
    /\ CASE kind = "Connected" -> controllers[t].at = "Connecting"
         [] kind = "Listed" -> controllers[t].at = "Connected"
         [] OTHER -> controllers[t].at # "Ended"
    /\ controllers' = [controllers EXCEPT ![t].at = IF kind = "Listed" THEN @ ELSE kind]
    /\ events' = Append(events, [tab |-> t, gen |-> controllers[t].gen, kind |-> kind, endpoint |-> controllers[t].endpoint])
    /\ UNCHANGED <<config, file, store, tabs, selected, boxes, failures, actions, forgotten>>

OfItsTab(event) == event.tab \in DOMAIN tabs /\ tabs[event.tab].gen # 0  \* mutant

OfActiveConnection(event) ==
    event.tab \in DOMAIN tabs /\ tabs[event.tab].gen = event.gen

ConnectionBegun(w, t) ==
    LET recorded == RecordSuccessfulQuickConnection([w EXCEPT !.tabs[t] = SetConnectionState(@, "Connected")], t)
    IN  UNION {IF Len(r.boxes) > Len(w.boxes) THEN {r} ELSE RememberConnectionDirectories(r, t, None) : r \in recorded}

Released(tab) == [SetConnectionState(tab, "Disconnected") EXCEPT !.site = NoSite, !.gen = 0]

OnControllerEvent ==
    /\ events # <<>> /\ events' = Tail(events)
    /\ UNCHANGED <<actions, controllers, forgotten>>
    /\ LET event == Head(events)
           t == event.tab
       IN  IF ~OfActiveConnection(event) THEN Becomes({Window})
           ELSE CASE event.kind = "Connected" -> Becomes(ConnectionBegun(Window, t))
                  [] event.kind = "Listed" ->
                        IF tabs[t].state # "Connected" THEN Becomes({Window})
                        ELSE Becomes(RememberConnectionDirectories([Window EXCEPT !.tabs[t].remote = event.endpoint], t, event.endpoint))
                  [] OTHER -> Becomes(EraseReleasedCredentials([Window EXCEPT !.tabs[t] = Released(@)]))

(* A local loader finishes, whatever its tab does meanwhile.               *)
OnLocalDirectoryLoaded(t) ==
    /\ t \in DOMAIN tabs
    /\ Becomes(RememberConnectionDirectories(Window, t, None))
    /\ UNCHANGED <<actions, controllers, events, forgotten>>

(* What the handler of a box takes back; the store may refuse to erase.    *)
TakenBack(box) ==
    {[Window EXCEPT !.boxes = Front(@), !.store = @ \ erased,
                    !.config = [m \in DOMAIN @ |-> IF m \in box.fields THEN box.old[m] ELSE @[m]]] :
     erased \in SUBSET box.stored}

(* The message box is closed: the handler that showed it goes on.          *)
CloseBox ==
    /\ boxes # <<>>
    /\ LET box == Last(boxes)
       IN  Becomes(IF box.then = None THEN TakenBack(box)
                   ELSE UNION {RememberConnectionDirectories(w, box.then, None) : w \in TakenBack(box)})
    /\ UNCHANGED <<actions, controllers, events, forgotten>>

-----------------------------------------------------------------------------
(* What a user does; message boxes are modal.                              *)

BeginConnection(w, profile) ==
    LET t == w.selected
        identity == WorkspaceIdentityForSite(w.config, profile, TRUE)
        remembered == RememberedDirectories(w.config, identity, profile.endpoint)
        site == IF remembered = None THEN profile ELSE [profile EXCEPT !.initial = remembered]
    IN  /\ Becomes({[w EXCEPT !.tabs[t] = SetConnectionState([@ EXCEPT !.identity = identity, !.draft = site, !.site = site,
                                                                        !.gen = actions + 1], "Connecting")]})
        /\ controllers' = With(controllers, t, [gen |-> actions + 1, at |-> "Connecting", endpoint |-> site.endpoint])
        /\ forgotten' = forgotten \ {site.endpoint, identity}
        /\ UNCHANGED events

UserActs == boxes = <<>> /\ actions < MaxActions /\ actions' = actions + 1

EditQuickConnect(e) ==
    /\ UserActs /\ Selected(Window).state = "Disconnected"
    /\ Becomes({[Window EXCEPT !.tabs[selected].draft.endpoint = e]})
    /\ UNCHANGED <<controllers, events, forgotten>>

OnQuickConnect ==
    LET draft == Selected(Window).draft
        saved == {s \in config.sites : s.id = draft.id /\ s.endpoint = draft.endpoint}
    IN  /\ UserActs /\ Selected(Window).state = "Disconnected" /\ draft.endpoint # None
        /\ BeginConnection(Window, IF saved = {} THEN QuickSite(draft.endpoint) ELSE Profile(CHOOSE s \in saved : TRUE))

(* The tab of a site that is open elsewhere is selected first.             *)
ConnectSavedSite(site) ==
    /\ UserActs /\ Selected(Window).state = "Disconnected"
    /\ Selected(Window).draft.endpoint \in {None, site.endpoint}
    /\ BeginConnection([Window EXCEPT !.tabs[selected] = SetQuickSite(config, @, Profile(site))], Profile(site))

OnQuickHistorySelection(e) ==
    /\ UserActs /\ Selected(Window).state = "Disconnected" /\ QuickHistoryContains(config, e)
    /\ Becomes({[Window EXCEPT !.tabs[selected] = SetQuickSite(config, @, [NoSite EXCEPT !.endpoint = e])]})
    /\ UNCHANGED <<controllers, events, forgotten>>

OnDisconnect ==
    /\ UserActs /\ Selected(Window).state # "Disconnected"
    /\ Becomes(EraseReleasedCredentials([Window EXCEPT !.tabs[selected] = Released(@)]))
    /\ controllers' = Without(controllers, {selected})
    /\ UNCHANGED <<events, forgotten>>

Reselected(w, t) ==
    [w EXCEPT !.tabs[w.selected] = CaptureQuickConnectDraft(w.config, @), !.selected = t]

OnNewConnectionTab ==
    /\ UserActs /\ Cardinality(DOMAIN tabs) < MaxTabs
    /\ \E t \in FreeTabs(Window) :
          Becomes(PersistOpenConnectionTabs([Reselected(Window, t) EXCEPT !.tabs = With(@, t, BlankTab)], TRUE))
    /\ UNCHANGED <<controllers, events, forgotten>>

OnConnectionTabChanged(t) ==
    /\ UserActs /\ t # selected
    /\ Becomes(PersistOpenConnectionTabs(Reselected(Window, t), TRUE))
    /\ UNCHANGED <<controllers, events, forgotten>>

(* Closing the last tab leaves a blank one.                                *)
OnCloseConnectionTab ==
    /\ UserActs
    /\ LET closed == [Window EXCEPT !.tabs = Without(@, {selected})]
           next == IF DOMAIN closed.tabs # {} THEN DOMAIN closed.tabs ELSE FreeTabs(closed)
       IN  \E t \in next :
              Becomes({[r EXCEPT !.tabs = IF DOMAIN @ = {} THEN With(@, t, BlankTab) ELSE @] :
                        r \in UNION {PersistOpenConnectionTabs([x EXCEPT !.selected = t], TRUE) :
                                     x \in EraseReleasedCredentials(closed)}})
    /\ controllers' = Without(controllers, {selected})
    /\ UNCHANGED <<events, forgotten>>

Recorded(c) == ToSet(c.history) \cup DOMAIN c.dirs \cup {c.tabs[t].connection : t \in DOMAIN c.tabs}

ClearButKeepIdentities ==                                               \* mutant
    LET cleared == [config EXCEPT !.history = <<>>, !.dirs = Without(@, Endpoints)]
        saved == SaveConfiguration([Window EXCEPT !.config = cleared], Box(Window, {"history", "dirs", "tabs"}, {}, None))
    IN  /\ UserActs /\ (config.history # <<>> \/ DOMAIN config.dirs \cap Endpoints # {})
        /\ Becomes(saved)
        /\ forgotten' = IF boxes' = <<>> THEN forgotten \cup Endpoints ELSE forgotten
        /\ UNCHANGED <<controllers, events>>

(* Clearing the history: once it is saved, no tab is a Quick Connect.      *)
OnQuickHistoryClear ==
    LET cleared == [config EXCEPT !.history = <<>>, !.dirs = Without(@, Endpoints)]
        saved == SaveConfiguration([Window EXCEPT !.config = cleared], Box(Window, {"history", "dirs", "tabs"}, {}, None))
        Anonymous(tab) == IF tab.identity \in Endpoints THEN [tab EXCEPT !.identity = None] ELSE tab
    IN  /\ UserActs /\ (config.history # <<>> \/ DOMAIN config.dirs \cap Endpoints # {})
        /\ Becomes({IF w.boxes # <<>> THEN w
                    ELSE [w EXCEPT !.tabs = [t \in DOMAIN @ |-> Anonymous(@[t])]] : w \in saved})
        /\ forgotten' = IF boxes' = <<>> THEN forgotten \cup Endpoints ELSE forgotten
        /\ UNCHANGED <<controllers, events>>

(* The store refuses one of the new credentials, or to be read before any  *)
(* is stored: the others are erased again, unless it refuses that too, and *)
(* the sites are restored before the box is shown.                         *)
StoreRefused(w, new) ==
    IF w.failures = MaxFailures THEN {}
    ELSE {Asked([w EXCEPT !.store = @ \cup left], Box(w, {"sites"}, {}, None)) : left \in (SUBSET new) \ {new}}

(* The site manager: new credentials are stored, then the sites are saved. *)
(* The site it is told to connect to next is ConnectSavedSite's, which may *)
(* follow at once or after other events.                                   *)
OnSiteManager(sites) ==
    LET new == CredentialsOf(sites) \ CredentialsOf(config.sites)
        deleted == SavedIds(config) \ {s.id : s \in sites}
        edited == PruneSavedSitesFromQuickConnectHistory(
                     [config EXCEPT !.sites = sites, !.dirs = Without(@, deleted),
                                    !.pending = QueueRemovedCredentials(@, config.sites, sites)])
        saved == SaveConfiguration([Window EXCEPT !.config = edited, !.store = @ \cup new],
                                   Box(Window, {"sites", "history", "dirs", "tabs", "pending"}, new, None))
        Renewed(tab) == IF tab.identity \in SiteIds \ {s.id : s \in sites} THEN [tab EXCEPT !.identity = None]
                        ELSE IF tab.identity \in Endpoints /\ ~QuickHistoryContains(edited, tab.identity)
                                /\ UniqueSavedSiteForEndpoint(edited, tab.identity) # None
                        THEN [tab EXCEPT !.identity = UniqueSavedSiteForEndpoint(edited, @)]
                        ELSE tab
    IN  /\ UserActs /\ sites # config.sites
        /\ new \cap (store \cup config.pending \cup ActiveCredentials(Window)) = {}     \* new ids are fresh
        /\ ({s.id : s \in sites} \ SavedIds(config)) \cap forgotten = {}
        /\ Becomes((UNION {IF w.boxes # <<>> THEN {w}
                           ELSE EraseReleasedCredentials([w EXCEPT !.tabs = [t \in DOMAIN @ |-> Renewed(@[t])]]) :
                           w \in saved})
                   \cup StoreRefused(Window, new))
        /\ forgotten' = IF boxes' = <<>> THEN forgotten \cup deleted ELSE forgotten
        /\ UNCHANGED <<controllers, events>>

(* The program ends, however it ends, and is started again.                *)
Restart ==
    /\ actions < MaxActions /\ actions' = actions + 1
    /\ Becomes(UNION {PersistOpenConnectionTabs(w, FALSE) : w \in EraseReleasedCredentials(Opened(file))})
    /\ controllers' = NoTab /\ events' = <<>>
    /\ UNCHANGED forgotten

Next ==
    \/ \E t \in TabIds, kind \in {"Connected", "Listed", "Ended"} : Post(t, kind)
    \/ OnControllerEvent
    \/ CloseBox
    \/ \E t \in DOMAIN tabs : OnLocalDirectoryLoaded(t) \/ OnConnectionTabChanged(t)
    \/ \E e \in Endpoints : EditQuickConnect(e) \/ OnQuickHistorySelection(e)
    \/ OnQuickConnect
    \/ \E site \in config.sites : ConnectSavedSite(site)
    \/ OnDisconnect \/ OnNewConnectionTab \/ OnCloseConnectionTab \/ OnQuickHistoryClear
    \/ \E sites \in SiteLists : OnSiteManager(sites)
    \/ Restart

Spec == Init /\ [][Next]_vars

-----------------------------------------------------------------------------
(* A cleared history and a deleted site stay forgotten: no listing, local  *)
(* directory, reconnect or late event of a tab brings them back into the   *)
(* configuration or its file, until the user connects there again.         *)
ForgottenStaysForgotten ==
    forgotten \cap (Recorded(config) \cup Recorded(file)) \subseteq {None}

(* A credential leaves the store only when no saved site and no open       *)
(* connection refers to it.                                                *)
InUse == CredentialsOf(config.sites) \cup {tabs[t].site.cred : t \in DOMAIN tabs}
CredentialsInUseStay == [][(store \ store') \cap InUse' = {}]_vars

(* A tab that shows a connection or a listing shows its controller's: no   *)
(* event of an earlier connection changes it.                              *)
ShownIsConnected ==
    \A t \in DOMAIN tabs :
       /\ tabs[t].state = "Disconnected" <=> tabs[t].gen = 0
       /\ tabs[t].gen # 0 => t \in DOMAIN controllers /\ tabs[t].gen = controllers[t].gen
       /\ tabs[t].state = "Connected" => controllers[t].at # "Connecting"
       /\ tabs[t].remote # None => tabs[t].state = "Connected" /\ tabs[t].remote = tabs[t].site.endpoint

(* A site in the file refers to a credential that exists.                  *)
SavedCredentialsExist == CredentialsOf(file.sites) \subseteq store
=============================================================================
