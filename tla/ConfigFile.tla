----------------------------- MODULE ConfigFile -----------------------------
(***************************************************************************)
(* havRemote.cson and its repository (csonConfigRepository.cpp).  A        *)
(* document is what the lossless parser returns: its known members, and    *)
(* beside each object a note that stands for the comments and the unknown  *)
(* members written there.  Decode turns a document into data or refuses    *)
(* it; ApplyData edits a document in place until it says the data, member  *)
(* by member, matching array items by their identity; Save applies the     *)
(* data to a copy of the last committed document, decodes the copy again   *)
(* and replaces the file by it in one step.                                *)
(*                                                                         *)
(* A scalar that the checks tell apart only as good or bad is a value or   *)
(* Bad.  Paths are strings; "" is the empty one.                           *)
(***************************************************************************)
EXTENDS Naturals, Sequences, FiniteSets, SequencesExt

CONSTANTS
    Absent, Wrong,      \* a member that is missing, or of another type
    Bad,                \* a value its range refuses; data that does not decode
    Missing, Garbage,   \* no file; a file that does not parse
    NoId, NoNote,
    Fold,               \* an endpoint with its host in lower case
    Widths,             \* the columns of a local and of a remote list
    Documents,          \* what the file holds when the program first starts
    Changes,            \* what a caller changes of the data before it saves
    Defaults,           \* the default data
    MaxHistory, MaxTabs, MaxSaves

VARIABLES
    file,               \* what the path holds
    activeDocument,     \* the committed lossless document of this process
    needsSchemaUpdate,
    held,               \* the data of the last load or save that succeeded
    saves               \* how many saves were tried (bounded by MaxSaves)

vars == <<file, activeDocument, needsSchemaUpdate, held, saves>>

IsArray(m) == m # Absent /\ m # Wrong
Distinct(s) == \A i, j \in DOMAIN s : s[i] = s[j] => i = j
Keys(s, Key(_)) == [i \in DOMAIN s |-> Key(s[i])]
AnyBad(s) == \E i \in DOMAIN s : s[i] = Bad
Decoded(nodes, D(_)) == [i \in DOMAIN nodes |-> D(nodes[i])]

-----------------------------------------------------------------------------
(* The identities by which array items are matched.                        *)

EndpointKey(e) == Fold[e]
IdentityKey(x) == IF x.siteId # Absent THEN <<"site", x.siteId>> ELSE <<"quick", EndpointKey(x.endpoint)>>
HistoryNodeKey(n) == IF n.endpoint \in {Bad, Absent} THEN Bad ELSE EndpointKey(n.endpoint)
DirectoryNodeKey(n) ==
    IF n.siteId # Absent
    THEN IF n.siteId = Bad \/ n.endpoint # Absent THEN Bad ELSE IdentityKey(n)
    ELSE IF HistoryNodeKey(n) = Bad THEN Bad ELSE IdentityKey(n)
IdOf(x) == x.id
TabOf(x) == x.tab

-----------------------------------------------------------------------------
(* Decode: Bad stands for every error it returns.                          *)

OrDefault(m, default) == IF m = Absent THEN default ELSE m

(* A list sorts by a column it has; the widths are none, or one a column.  *)
DecodeFileList(n, remote) ==
    IF \/ n.column = Bad \/ (n.column = "owner" /\ ~remote)
       \/ n.widths # Absent /\ Len(n.widths) \notin {0, Widths[remote]}
       \/ n.widths # Absent /\ AnyBad(n.widths)
    THEN Bad ELSE [column |-> n.column, widths |-> OrDefault(n.widths, <<>>)]

DecodeFileLists(m) ==
    IF m = Wrong \/ Wrong \in {m.local, m.remote} \/ Absent \in {m.local, m.remote} THEN Bad
    ELSE LET local == DecodeFileList(m.local, FALSE)  remote == DecodeFileList(m.remote, TRUE)
         IN  IF local = Bad \/ remote = Bad THEN Bad ELSE [local |-> local, remote |-> remote]

(* Only the editor of the system needs no executable.                      *)
EditorSafe(e) ==
    /\ Bad \notin {e.mode, e.executable, e.arguments}
    /\ e.executable = "" => e.mode = "systemDefault"

DecodeExternalEditor(m) ==
    IF m = Wrong \/ ~EditorSafe(m) THEN Bad ELSE [mode |-> m.mode, executable |-> m.executable, arguments |-> m.arguments]

DecodeSettings(s) ==
    LET lists == IF s.lists = Absent THEN Defaults.settings.lists ELSE DecodeFileLists(s.lists)
        editor == IF s.editor = Absent THEN Defaults.settings.editor ELSE DecodeExternalEditor(s.editor)
    IN  IF Bad \in {s.scalars, s.updates} \/ s.updates = Absent \/ lists = Bad \/ editor = Bad THEN Bad
        ELSE [scalars |-> s.scalars, updates |-> s.updates, lists |-> lists, editor |-> editor]

DecodeEndpoint(n) == n.endpoint

DecodeAuthentication(a) ==
    IF Bad \in {a.kind, a.key, a.credential} \/ (a.kind = "PrivateKey" /\ a.key = "") THEN Bad
    ELSE [kind |-> a.kind, key |-> a.key, credential |-> a.credential]

(* FTP sites have a password; SFTP sites have no data connection.          *)
SiteConsistent(x) ==
    IF x.protocol = "Sftp" THEN x.mode = "passive" /\ x.address = "" ELSE x.authentication.kind = "Password"

DecodeSite(n) ==
    LET authentication == DecodeAuthentication(n.authentication)
        site == [id |-> n.id, name |-> n.name, protocol |-> n.protocol, endpoint |-> n.endpoint, authentication |-> authentication,
                 mode |-> OrDefault(n.mode, "passive"), address |-> OrDefault(n.address, "")]
    IN  IF Bad \in {n.id, n.name, n.protocol, n.endpoint, n.mode, n.address} \/ authentication = Bad THEN Bad
        ELSE IF SiteConsistent(site) THEN site ELSE Bad

DecodeSiteFolder(n) ==
    IF n.id = Bad THEN Bad ELSE [id |-> n.id, parent |-> n.parent, siteIds |-> Keys(n.siteIds, IdOf)]

DecodeTrust(n) == IF Bad \in {n.endpoint, n.pin} THEN Bad ELSE [endpoint |-> n.endpoint, pin |-> n.pin]

OneIdentity(n) == Absent \in {n.siteId, n.endpoint} /\ Bad \notin {n.siteId, n.endpoint}

(* The earlier shape has no local directory of its own.                    *)
DecodeRemembered(n, legacy, lastLocal) ==
    IF \/ ~OneIdentity(n) \/ n.siteId = n.endpoint
       \/ ~legacy /\ n.local \in {Bad, ""}
       \/ n.remote \in {Bad, ""}
    THEN Bad
    ELSE [siteId |-> n.siteId, endpoint |-> n.endpoint, remote |-> n.remote,
          local |-> IF legacy THEN lastLocal ELSE n.local]

DecodeTab(n) ==
    IF n.tab = Bad \/ ~OneIdentity(n) \/ n.local = Bad \/ n.remote \in {Bad, ""} THEN Bad
    ELSE [tab |-> n.tab, siteId |-> n.siteId, endpoint |-> n.endpoint, local |-> n.local, remote |-> n.remote]

(* The place of the window is a point or missing, never half of one.       *)
DecodeMainWindow(w) ==
    IF w = Wrong \/ Bad \in {w.x, w.y, w.size} \/ ((w.x = Absent) # (w.y = Absent)) THEN Bad
    ELSE [x |-> w.x, y |-> w.y, size |-> w.size]

DecodeWorkspace(w) ==
    LET legacy == w.directories = Absent
        nodes == IF legacy THEN w.remoteDirectories ELSE w.directories
        Remembered(n) == DecodeRemembered(n, legacy, w.local)
        tabs == OrDefault(w.tabs, <<>>)
        window == IF w.window = Absent THEN Defaults.workspace.window ELSE DecodeMainWindow(w.window)
    IN  IF \/ w.local = Bad \/ window = Bad \/ w.selected = Bad
           \/ w.directories # Absent /\ w.remoteDirectories # Absent
           \/ ~IsArray(nodes) \/ tabs = Wrong
        THEN Bad
        ELSE IF \/ AnyBad(Decoded(nodes, Remembered)) \/ ~Distinct(Keys(nodes, DirectoryNodeKey))
                \/ Len(tabs) > MaxTabs \/ AnyBad(Decoded(tabs, DecodeTab)) \/ ~Distinct(Keys(tabs, TabOf))
        THEN Bad
        ELSE [local |-> w.local, directories |-> Decoded(nodes, Remembered), tabs |-> Decoded(tabs, DecodeTab),
              selected |-> OrDefault(w.selected, NoId), window |-> window]

(* The folders form a forest over the sites.                               *)
SiteFoldersValid(folders, sites) ==
    LET ids == Range(Keys(folders, IdOf))
        parentOf == [i \in ids |-> LET k == CHOOSE k \in DOMAIN folders : folders[k].id = i IN folders[k].parent]
        Up[n \in Nat] == [i \in ids |-> IF n = 0 \/ parentOf[i] = NoId THEN parentOf[i]
                                        ELSE IF Up[n - 1][i] = NoId THEN NoId ELSE parentOf[Up[n - 1][i]]]
    IN  /\ Distinct(Keys(folders, IdOf)) /\ ids \cap Range(Keys(sites, IdOf)) = {}
        /\ \A k \in DOMAIN folders : folders[k].parent \in ids \cup {NoId}
        /\ LET assigned == FlattenSeq([k \in DOMAIN folders |-> folders[k].siteIds])
           IN  Range(assigned) \subseteq Range(Keys(sites, IdOf)) /\ Distinct(assigned)
        /\ \A i \in ids : Up[Cardinality(ids)][i] = NoId

(* Before there was an order: each folder, the folders in it, its sites;   *)
(* and then the sites without a folder.                                    *)
LegacySiteManagerOrder(folders, sites) ==
    LET Tree[depth \in Nat] == [f \in Range(folders) |->
            <<f.id>> \o (IF depth = 0 THEN <<>>
                         ELSE LET Child(g) == g.parent = f.id
                                  inner == SelectSeq(folders, Child)
                              IN  FlattenSeq([k \in DOMAIN inner |-> Tree[depth - 1][inner[k]]]))
                     \o f.siteIds]
        Top(f) == f.parent = NoId
        roots == SelectSeq(folders, Top)
        Free(s) == \A f \in Range(folders) : s.id \notin Range(f.siteIds)
    IN  FlattenSeq([k \in DOMAIN roots |-> Tree[Len(folders)][roots[k]]]) \o Keys(SelectSeq(sites, Free), IdOf)

SiteManagerOrderValid(order, folders, sites) ==
    Distinct(order) /\ Range(order) = Range(Keys(folders, IdOf)) \cup Range(Keys(sites, IdOf))

(* A member whose name looks like a password or a private key.             *)
ForbiddenSecretKey(document) == document.secret

VersionSupported(document) == document.version = 1

(* The required members are there, and each member has its type.           *)
Sections == {"settings", "workspace", "history", "sites", "folders", "order", "pending", "trust"}
WellFormed(document) ==
    /\ document # Missing /\ document # Garbage
    /\ VersionSupported(document) /\ ~ForbiddenSecretKey(document)
    /\ \A m \in Sections : document[m] # Wrong
    /\ \A m \in {"settings", "sites", "trust"} : document[m] # Absent

DecodeSection(m, D(_)) == IF m = Absent THEN <<>> ELSE Decoded(m, D)
TrustKey(t) == IF t.endpoint \in {Bad, Absent} THEN Bad ELSE EndpointKey(t.endpoint)

Decode(document) ==
    IF ~WellFormed(document) THEN Bad
    ELSE LET sites == Decoded(document.sites, DecodeSite)
             folders == DecodeSection(document.folders, DecodeSiteFolder)
             history == DecodeSection(document.history, DecodeEndpoint)
             trust == Decoded(document.trust, DecodeTrust)
             pending == DecodeSection(document.pending, IdOf)
             settings == DecodeSettings(document.settings)
             workspace == IF document.workspace = Absent THEN Defaults.workspace ELSE DecodeWorkspace(document.workspace)
         IN  IF \/ settings = Bad \/ workspace = Bad
                \/ AnyBad(sites) \/ AnyBad(folders) \/ AnyBad(history) \/ AnyBad(trust) \/ AnyBad(pending)
                \/ Len(history) > MaxHistory \/ ~Distinct(Keys(history, EndpointKey))
                \/ ~Distinct(Keys(sites, IdOf)) \/ ~SiteFoldersValid(folders, sites)
                \/ document.order # Absent /\ ~SiteManagerOrderValid(Keys(document.order, IdOf), folders, sites)
                \/ ~Distinct(pending) \/ ~Distinct(Keys(trust, TrustKey))
             THEN Bad
             ELSE [settings |-> settings, workspace |-> workspace, history |-> history,
                   sites |-> sites, folders |-> folders, pending |-> pending, trust |-> trust,
                   order |-> IF document.order = Absent THEN LegacySiteManagerOrder(folders, sites)
                             ELSE Keys(document.order, IdOf)]

(* What Save asks of the data before it looks at any document: what Decode *)
(* asks, a local directory for every remembered connection, and a selected *)
(* tab that is open.                                                       *)
SettingsSaveable(x) ==
    /\ Bad \notin {x.scalars, x.updates} /\ EditorSafe(x.editor)
    /\ DecodeFileList(x.lists.local, FALSE) # Bad /\ DecodeFileList(x.lists.remote, TRUE) # Bad

IdentitySafe(x) == Bad \notin {x.siteId, x.endpoint}

WorkspaceSaveable(w) ==
    /\ w.local # Bad /\ Bad \notin {w.window.x, w.window.y, w.window.size}
    /\ \A r \in Range(w.directories) : IdentitySafe(r) /\ r.local \notin {Bad, ""} /\ r.remote \notin {Bad, ""}
    /\ Distinct(Keys(w.directories, IdentityKey))
    /\ \A t \in Range(w.tabs) : IdentitySafe(t) /\ t.local # Bad /\ t.remote \notin {Bad, ""}
    /\ Len(w.tabs) <= MaxTabs /\ Distinct(Keys(w.tabs, TabOf))
    /\ w.selected \in Range(Keys(w.tabs, TabOf)) \cup {NoId}

ConnectionsSaveable(d) ==
    /\ Len(d.history) <= MaxHistory /\ ~AnyBad(d.history) /\ Distinct(Keys(d.history, EndpointKey))
    /\ \A x \in Range(d.sites) : /\ Bad \notin {x.name, x.protocol, x.endpoint, x.mode, x.address}
                                /\ DecodeAuthentication(x.authentication) # Bad /\ SiteConsistent(x)
    /\ Distinct(Keys(d.sites, IdOf)) /\ SiteFoldersValid(d.folders, d.sites)
    /\ SiteManagerOrderValid(d.order, d.folders, d.sites)
    /\ Distinct(d.pending)
    /\ ~AnyBad(Decoded(d.trust, DecodeTrust)) /\ Distinct(Keys(d.trust, TrustKey))

ValidateTypedData(d) == SettingsSaveable(d.settings) /\ WorkspaceSaveable(d.workspace) /\ ConnectionsSaveable(d)

-----------------------------------------------------------------------------
(* ApplyData: new nodes, and nodes edited in place.                        *)

WithNote(x, note) == [m \in DOMAIN x \cup {"note"} |-> IF m = "note" THEN note ELSE x[m]]
MakeId(id) == [id |-> id, note |-> NoNote]
MakeIds(ids) == [i \in DOMAIN ids |-> MakeId(ids[i])]
MakeHistoryEntry(e) == [endpoint |-> e, note |-> NoNote]
MakeNode(x) == WithNote(x, NoNote)
MakeSiteFolder(f) == [id |-> f.id, parent |-> f.parent, siteIds |-> MakeIds(f.siteIds), note |-> NoNote]
Made(s, Make(_)) == [i \in DOMAIN s |-> Make(s[i])]

MakeWorkspace(w) ==
    [local |-> w.local, directories |-> Made(w.directories, MakeNode), remoteDirectories |-> Absent,
     tabs |-> Made(w.tabs, MakeNode), selected |-> w.selected, window |-> w.window, note |-> NoNote]

MakeDocument(d) ==
    [version |-> 1, secret |-> FALSE, settings |-> MakeNode(d.settings), workspace |-> MakeWorkspace(d.workspace),
     history |-> Made(d.history, MakeHistoryEntry), sites |-> Made(d.sites, MakeNode),
     folders |-> Made(d.folders, MakeSiteFolder), order |-> MakeIds(d.order), pending |-> MakeIds(d.pending),
     trust |-> Made(d.trust, MakeNode), note |-> NoNote]

(* An array takes the order of the data; an item whose key is wanted keeps *)
(* its node and is edited, the others are made, the rest is removed.       *)
UpdateArray(nodes, NodeKey(_), wanted, Key(_), Write(_, _), Make(_)) ==
    [i \in DOMAIN wanted |->
        LET same == {k \in DOMAIN nodes : NodeKey(nodes[k]) = Key(wanted[i])}
        IN  IF same = {} THEN Make(wanted[i])
            ELSE Write(nodes[CHOOSE k \in same : \A l \in same : k <= l], wanted[i])]

KeepNote(node, x) == WithNote(x, node.note)

UpdateSettings(node, settings) == KeepNote(node, settings)

UpdateHistory(nodes, entries) ==
    LET Write(node, e) == [node EXCEPT !.endpoint = e]
    IN  UpdateArray(nodes, HistoryNodeKey, entries, EndpointKey, Write, MakeHistoryEntry)

UpdateSites(nodes, sites) == UpdateArray(nodes, IdOf, sites, IdOf, KeepNote, MakeNode)

KeepNode(node, id) == node
IdItself(id) == id
UpdateIdentifiers(nodes, ids) == UpdateArray(nodes, IdOf, ids, IdItself, KeepNode, MakeId)

UpdateTrust(nodes, records) == UpdateArray(nodes, TrustKey, records, TrustKey, KeepNote, MakeNode)

UpdateTabs(nodes, tabs) == UpdateArray(nodes, TabOf, tabs, TabOf, KeepNote, MakeNode)

UpdateFoldersInPlace(nodes, folders) ==                                 \* mutant
    LET Write(node, f) == [id |-> f.id, parent |-> f.parent, note |-> node.note,
                           siteIds |-> UpdateIdentifiers(node.siteIds, f.siteIds)]
    IN  UpdateArray(nodes, IdOf, folders, IdOf, Write, MakeSiteFolder)

(* The references to sites are taken out of all folders first, so that one *)
(* that moves to another folder takes its comments along.                  *)
UpdateSiteFolders(nodes, folders) ==
    LET references == FlattenSeq([k \in DOMAIN nodes |-> nodes[k].siteIds])
        Write(node, f) == [id |-> f.id, parent |-> f.parent, note |-> node.note,
                           siteIds |-> UpdateIdentifiers(references, f.siteIds)]
        Make(f) == Write(MakeSiteFolder(f), f)
    IN  UpdateArray(nodes, IdOf, folders, IdOf, Write, Make)

(* The endpoint of a site, if no other saved site has it.                  *)
UniqueSavedSiteEndpoint(siteId, sites) ==
    LET EndpointOf(i) == sites[i].endpoint
    IN  IF \E i \in DOMAIN sites : /\ sites[i].id = siteId
                                   /\ \A k \in DOMAIN sites : EndpointKey(EndpointOf(k)) = EndpointKey(EndpointOf(i)) => k = i
        THEN EndpointOf(CHOOSE i \in DOMAIN sites : sites[i].id = siteId)
        ELSE Absent

(* A Quick Connect record whose endpoint is now a saved site becomes the   *)
(* record of that site, unless it is not clear which, or both are wanted.  *)
Promoted(nodes, wanted, sites) ==
    LET wantedKeys == Range(Keys(wanted, IdentityKey))
        Promotes(r, k) ==
            LET endpoint == UniqueSavedSiteEndpoint(r.siteId, sites)
                Candidates == {c \in DOMAIN nodes : /\ nodes[c].siteId = Absent
                                                    /\ HistoryNodeKey(nodes[c]) = EndpointKey(endpoint)}
            IN  /\ r.siteId # Absent /\ endpoint # Absent
                /\ \A n \in Range(nodes) : DirectoryNodeKey(n) # IdentityKey(r)
                /\ <<"quick", EndpointKey(endpoint)>> \notin wantedKeys
                /\ Candidates = {k}
    IN  [k \in DOMAIN nodes |->
            IF \E r \in Range(wanted) : Promotes(r, k)
            THEN LET r == CHOOSE r \in Range(wanted) : Promotes(r, k)
                 IN  [nodes[k] EXCEPT !.siteId = r.siteId, !.endpoint = Absent]
            ELSE nodes[k]]

UpdateDirectories(nodes, wanted, sites) ==
    UpdateArray(Promoted(nodes, wanted, sites), DirectoryNodeKey, wanted, IdentityKey, KeepNote, MakeNode)

(* The earlier remoteDirectories is renamed.  An array whose data did not  *)
(* change is left alone once the document is complete.                     *)
UpdateWorkspace(node, w, sites, previous, updateSchema) ==
    LET nodes == IF node.directories = Absent THEN node.remoteDirectories ELSE node.directories
    IN  [local |-> w.local, note |-> node.note, selected |-> w.selected, window |-> w.window,
         remoteDirectories |-> Absent,
         directories |-> IF updateSchema \/ w.directories # previous.directories
                         THEN UpdateDirectories(nodes, w.directories, sites) ELSE nodes,
         tabs |-> IF node.tabs = Absent THEN Made(w.tabs, MakeNode)
                  ELSE IF updateSchema \/ w.tabs # previous.tabs THEN UpdateTabs(node.tabs, w.tabs) ELSE node.tabs]

SameConnection(left, right) ==                                          \* mutant
    \/ left = right
    \/ /\ Len(left) = Len(right)
       /\ \A i \in DOMAIN left : left[i] \in DOMAIN Fold /\ Fold[left[i]] = Fold[right[i]]

(* Persistence compares spelling exactly, unlike connection identity.      *)
SameStored(left, right) == left = right

ApplyData(document, d, previous, updateSchema) ==
    LET sitesChanged == d.sites # previous.sites
    IN  [document EXCEPT
           !.version = 1,
           !.settings = IF updateSchema \/ d.settings # previous.settings THEN UpdateSettings(@, d.settings) ELSE @,
           !.workspace = IF @ = Absent THEN MakeWorkspace(d.workspace)
                         ELSE IF updateSchema \/ sitesChanged \/ d.workspace # previous.workspace
                         THEN UpdateWorkspace(@, d.workspace, d.sites, previous.workspace, updateSchema) ELSE @,
           !.history = IF @ = Absent THEN Made(d.history, MakeHistoryEntry)
                       ELSE IF ~SameStored(d.history, previous.history) THEN UpdateHistory(@, d.history) ELSE @,
           !.sites = IF updateSchema \/ sitesChanged THEN UpdateSites(@, d.sites) ELSE @,
           !.folders = IF @ = Absent THEN Made(d.folders, MakeSiteFolder)
                       ELSE IF d.folders # previous.folders THEN UpdateSiteFolders(@, d.folders) ELSE @,
           !.order = IF @ = Absent THEN MakeIds(d.order)
                     ELSE IF d.order # previous.order THEN UpdateIdentifiers(@, d.order) ELSE @,
           !.pending = IF @ = Absent THEN MakeIds(d.pending)
                       ELSE IF d.pending # previous.pending THEN UpdateIdentifiers(@, d.pending) ELSE @,
           !.trust = IF d.trust # previous.trust THEN UpdateTrust(@, d.trust) ELSE @]

-----------------------------------------------------------------------------
Init ==
    /\ file \in Documents
    /\ activeDocument = Absent /\ needsSchemaUpdate = TRUE /\ held = Absent /\ saves = 0

(* WriteDocument replaces the file or leaves it; it may fail at any step   *)
(* before (the directory, the serialization, the 64 MiB, the replacement). *)
WriteDocument(document, data) ==
    \/ /\ file' = document /\ activeDocument' = document
       /\ needsSchemaUpdate' = FALSE /\ held' = data
    \/ UNCHANGED <<file, activeDocument, needsSchemaUpdate, held>>

Load ==
    /\ UNCHANGED saves
    /\ \/ file = Missing /\ WriteDocument(MakeDocument(Defaults), Defaults)
       \/ /\ Decode(file) # Bad
          /\ activeDocument' = file /\ needsSchemaUpdate' = TRUE /\ held' = Decode(file)
          /\ UNCHANGED file

(* Save(data).  Without a load it reads the file itself, or starts from    *)
(* the default document if there is none.                                  *)
SaveOver(base, schema, data) ==
    LET previous == Decode(base)
        candidate == ApplyData(base, data, previous, schema)
    IN  /\ previous # Bad
        /\ IF Decode(candidate) # Bad
           THEN \/ /\ file' = candidate /\ activeDocument' = candidate
                   /\ needsSchemaUpdate' = FALSE /\ held' = data
                \/ /\ activeDocument' = base /\ needsSchemaUpdate' = schema
                   /\ UNCHANGED <<file, held>>
           ELSE /\ activeDocument' = base /\ needsSchemaUpdate' = schema
                /\ UNCHANGED <<file, held>>

Save(data) ==
    /\ saves < MaxSaves /\ saves' = saves + 1
    /\ ValidateTypedData(data)
    /\ \/ activeDocument # Absent /\ SaveOver(activeDocument, needsSchemaUpdate, data)
       \/ activeDocument = Absent /\ file = Missing /\ SaveOver(MakeDocument(Defaults), TRUE, data)
       \/ activeDocument = Absent /\ file # Missing /\ SaveOver(file, TRUE, data)

(* The program ends and starts again, at any time.                         *)
Restart ==
    /\ activeDocument' = Absent /\ needsSchemaUpdate' = TRUE /\ held' = Absent
    /\ UNCHANGED <<file, saves>>

Next ==
    \/ Load
    \/ \E change \in Changes : Save(change @@ (IF held = Absent THEN Defaults ELSE held))
    \/ Restart

Spec == Init /\ [][Next]_vars

-----------------------------------------------------------------------------
(* What was loaded, or saved with success, is what the next start reads;   *)
(* and the document in memory is the one on disk.                          *)
SavedIsRead ==
    /\ held # Absent => Decode(file) = held
    /\ activeDocument # Absent /\ file # Missing => file = activeDocument

(* What an edit leaves of the user's own: a file that does not decode is   *)
(* never written over, and a node keeps its comments and unknown members   *)
(* for as long as the data names it, wherever it moves.                    *)
NoteOf(nodes, NodeKey(_), key) ==
    LET same == {k \in DOMAIN nodes : NodeKey(nodes[k]) = key} IN IF same = {} THEN Absent ELSE nodes[CHOOSE k \in same : TRUE].note
NotesStay(old, new, NodeKey(_)) ==
    IsArray(old) => \A k \in DOMAIN new : NoteOf(old, NodeKey, NodeKey(new[k])) \in {Absent, new[k].note}
References(folders) == IF folders = Absent THEN <<>> ELSE FlattenSeq([k \in DOMAIN folders |-> folders[k].siteIds])

KeepsTheUsersOwn ==
    LET old == file  new == file'
    IN  /\ Decode(old) = Bad /\ old # Missing => new = old
        /\ Decode(old) # Bad =>
              /\ new.note = old.note /\ new.settings.note = old.settings.note
              /\ NotesStay(old.history, new.history, HistoryNodeKey)
              /\ NotesStay(old.sites, new.sites, IdOf)
              /\ old.folders # Absent => NotesStay(old.folders, new.folders, IdOf)
              /\ NotesStay(References(old.folders), References(new.folders), IdOf)
              /\ NotesStay(old.order, new.order, IdOf)
              /\ NotesStay(old.pending, new.pending, IdOf)
              /\ NotesStay(old.trust, new.trust, TrustKey)
              /\ old.workspace # Absent =>
                    /\ new.workspace.note = old.workspace.note
                    /\ NotesStay(old.workspace.tabs, new.workspace.tabs, TabOf)
                    /\ NotesStay(IF old.workspace.directories = Absent THEN old.workspace.remoteDirectories
                                 ELSE old.workspace.directories,
                                 new.workspace.directories, DirectoryNodeKey)

HandEditsSurvive == [][file' # file => KeepsTheUsersOwn]_vars

(* What Load returns, Save accepts: else no later save of it succeeds.     *)
LoadedIsSaveable == held # Absent => ValidateTypedData(held)
=============================================================================
