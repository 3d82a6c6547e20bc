--------------------------------- MODULE Sites ---------------------------------
(***************************************************************************)
(* The Site Manager (siteManagerDialog.cpp, siteManagerModel.cpp) and the  *)
(* import of exported sites (siteTransfer.cpp): a tree of folders and      *)
(* sites, whose order is one list of all ids filtered by parent, and the   *)
(* secrets typed for sites until the dialog is accepted.                   *)
(*                                                                         *)
(* A name is a sequence of words.  Of a site's settings the model keeps    *)
(* what decides whether it is accepted and what credentials it names.  The *)
(* order of the vectors of sites and folders is not visible and left out.  *)
(***************************************************************************)
EXTENDS Naturals, Sequences, FiniteSets, SequencesExt

CONSTANTS
    Root, None,
    Trees,              \* what the configuration holds: [sites, folders, order]
    Exports,            \* what an import may read, under ids of its own
    FreshIds,           \* a sequence
    Names,              \* what a user may type as a name
    MaxEdits            \* bound on what the user changes in the dialog

VARIABLES
    sites, folders, order,
    loaded,             \* history: the tree the dialog was opened with
    selected, form,     \* the selected entry and what its fields show
    secrets,            \* mPendingSecrets: site -> which secrets are typed
    fresh, edits,
    result              \* None, or the credential updates that were accepted

siteVars == <<sites, folders, order, loaded, selected, form, secrets, fresh, edits, result>>

Tree == [sites |-> sites, folders |-> folders, order |-> order]
Ids(t) == DOMAIN t.sites \cup DOMAIN t.folders
Only(f, S) == [x \in DOMAIN f \cap S |-> f[x]]
Joined(f, g) == [x \in DOMAIN f \cup DOMAIN g |-> IF x \in DOMAIN g THEN g[x] ELSE f[x]]
IndexOf(s, x) == CHOOSE i \in DOMAIN s : s[i] = x
After(s, i, more) == SubSeq(s, 1, i) \o more \o SubSeq(s, i + 1, Len(s))
Kept(s, S) == SelectSeq(s, LAMBDA x : x \in S)

NoSecret == [password |-> FALSE, passphrase |-> FALSE]
UsesPassword(kind) == kind \in {"Password", "PasswordKeyboardInteractive"}

-----------------------------------------------------------------------------
(* The tree.                                                               *)

SiteFolderId(t, s) ==
    IF \E f \in DOMAIN t.folders : s \in ToSet(t.folders[f].siteIds)
    THEN CHOOSE f \in DOMAIN t.folders : s \in ToSet(t.folders[f].siteIds) ELSE Root

SiteManagerEntryParent(t, id) ==
    IF id \in DOMAIN t.folders THEN t.folders[id].parent ELSE SiteFolderId(t, id)

NameOf(t, id) == IF id \in DOMAIN t.folders THEN t.folders[id].name ELSE t.sites[id].name

OrderedSiteManagerChildren(t, parent) ==
    SelectSeq(t.order, LAMBDA id : SiteManagerEntryParent(t, id) = parent)

(* A folder and the folders it is in, as far up as there are folders.      *)
WithAncestors(t, folder) ==
    LET up[k \in 0..Cardinality(DOMAIN t.folders)] ==
            IF k = 0 THEN {folder}
            ELSE up[k - 1] \cup {t.folders[f].parent : f \in up[k - 1] \ {Root}}
    IN  up[Cardinality(DOMAIN t.folders)] \ {Root}
IsFolderDescendantOf(t, folder, ancestor) == folder # Root /\ ancestor \in WithAncestors(t, folder)

IsNameUnique(t, name, parent, except) ==
    ~\E id \in Ids(t) \ {except} : SiteManagerEntryParent(t, id) = parent /\ NameOf(t, id) = name

NextAvailableName(t, base, parent) ==
    LET numbered == <<"2", "3", "4", "5", "6", "7", "8", "9">>
        free == {k \in DOMAIN numbered : IsNameUnique(t, Append(base, numbered[k]), parent, None)}
    IN  IF IsNameUnique(t, base, parent, None) THEN base
        ELSE Append(base, numbered[CHOOSE k \in free : \A n \in free : k <= n])

AssignSiteToFolder(t, s, folder) ==
    [t EXCEPT !.folders = [f \in DOMAIN @ |->
        LET others == SelectSeq(t.folders[f].siteIds, LAMBDA x : x # s)
        IN  [t.folders[f] EXCEPT !.siteIds = IF f = folder THEN Append(others, s) ELSE others]]]

DestinationParent(t, target, position) ==
    IF position = "Into" THEN target ELSE SiteManagerEntryParent(t, target)

MayMove(t, source, target, position) ==
    LET destination == DestinationParent(t, target, position)
        siblings == OrderedSiteManagerChildren(t, destination)
        i == IndexOf(siblings, source)
        j == IndexOf(siblings, target)
    IN  /\ source \in Ids(t) /\ target \in Ids(t) \cup {Root}
        /\ IF position = "Into" THEN target \in DOMAIN t.folders \cup {Root} ELSE target \notin {Root, source}
        /\ source \in DOMAIN t.folders => ~IsFolderDescendantOf(t, destination, source)
        /\ IF SiteManagerEntryParent(t, source) # destination
           THEN IsNameUnique(t, NameOf(t, source), destination, source)
           ELSE CASE position = "Into" -> i # Len(siblings)
                  [] position = "Before" -> i + 1 # j
                  [] position = "After" -> j + 1 # i

InsertionInOldOrder(t, moved, rest, target, position) ==                \* mutant
    LET destination == DestinationParent(t, target, position)
        children == {i \in DOMAIN rest : SiteManagerEntryParent(moved, rest[i]) = destination}
    IN  CASE position = "Before" -> IndexOf(rest, target) - 1
          [] position = "After" -> IF IndexOf(t.order, target) > Len(rest) THEN Len(rest) ELSE IndexOf(t.order, target)
          [] position = "Into" -> IF children # {} THEN CHOOSE i \in children : \A c \in children : c <= i
                                  ELSE IF destination # Root THEN IndexOf(rest, destination) ELSE Len(rest)

(* Into a folder is behind its last child, or else behind the folder.      *)
Insertion(t, moved, rest, target, position) ==
    LET destination == DestinationParent(t, target, position)
        children == {i \in DOMAIN rest : SiteManagerEntryParent(moved, rest[i]) = destination}
    IN  CASE position = "Before" -> IndexOf(rest, target) - 1
          [] position = "After" -> IndexOf(rest, target)
          [] position = "Into" -> IF children # {} THEN CHOOSE i \in children : \A c \in children : c <= i
                                  ELSE IF destination # Root THEN IndexOf(rest, destination) ELSE Len(rest)

MoveSiteManagerEntry(t, source, target, position) ==
    LET destination == DestinationParent(t, target, position)
        moved == IF source \in DOMAIN t.folders THEN [t EXCEPT !.folders[source].parent = destination]
                 ELSE AssignSiteToFolder(t, source, destination)
        rest == SelectSeq(t.order, LAMBDA id : id # source)
    IN  IF MayMove(t, source, target, position)
        THEN [moved EXCEPT !.order = After(rest, Insertion(t, moved, rest, target, position), <<source>>)] ELSE t

(* A folder with everything in it, or everything outside of it.            *)
Below(t, folder) ==
    LET inner == {f \in DOMAIN t.folders : IsFolderDescendantOf(t, f, folder)}
    IN  inner \cup UNION {ToSet(t.folders[f].siteIds) : f \in inner}
Restricted(t, S) == [sites |-> Only(t.sites, S), folders |-> Only(t.folders, S), order |-> Kept(t.order, S)]

(* Fresh ids for the entries of a tree, in its order.                      *)
FreshFor(ids) == [id \in ToSet(ids) |-> fresh[IndexOf(ids, id)]]
Used(n) == n <= Len(fresh) /\ fresh' = SubSeq(fresh, n + 1, Len(fresh))

CloneSiteProfile(site) == [site EXCEPT !.cred = None, !.phrase = None]

(* The same tree under other ids; what it hangs on stays.                  *)
Renamed(t, m) ==
    LET New(id) == IF id \in DOMAIN m THEN m[id] ELSE id
        Old(id) == CHOOSE o \in DOMAIN m : m[o] = id
    IN  [sites |-> [s \in {m[o] : o \in DOMAIN t.sites} |-> CloneSiteProfile(t.sites[Old(s)])],
         folders |-> [f \in {m[o] : o \in DOMAIN t.folders} |->
                         LET old == t.folders[Old(f)]
                         IN  [old EXCEPT !.parent = New(@), !.siteIds = [i \in DOMAIN @ |-> New(@[i])]]],
         order |-> [i \in DOMAIN t.order |-> New(t.order[i])]]

CloneSiteFolderTree(t, folder, m) ==
    LET part == Restricted(t, Below(t, folder))
        name == NextAvailableName(t, Append(t.folders[folder].name, "copy"), t.folders[folder].parent)
    IN  Renamed([part EXCEPT !.folders[folder].name = name], m)

Merged(t, new, at) ==
    [sites |-> Joined(t.sites, new.sites), folders |-> Joined(t.folders, new.folders),
     order |-> After(t.order, at, new.order)]

-----------------------------------------------------------------------------
(* The fields of the selected entry.                                       *)

BlankForm == [name |-> <<>>, host |-> FALSE, kind |-> "Agent", key |-> FALSE, secret |-> NoSecret]

Shown(t, typed, id) ==
    IF id = None THEN BlankForm
    ELSE IF id \in DOMAIN t.folders THEN [BlankForm EXCEPT !.name = t.folders[id].name]
    ELSE [name |-> t.sites[id].name, host |-> t.sites[id].host, kind |-> t.sites[id].kind, key |-> t.sites[id].key,
          secret |-> IF id \in DOMAIN typed THEN typed[id] ELSE NoSecret]

(* A selection may be left only with fields that are accepted.             *)
MayCapture ==
    selected # None =>
       /\ form.name # <<>>
       /\ selected \in DOMAIN sites => form.host
       /\ IsNameUnique(Tree, form.name, SiteManagerEntryParent(Tree, selected), selected)

CapturedTree ==
    LET site == [sites[selected] EXCEPT
                   !.name = form.name, !.host = TRUE, !.kind = form.kind, !.key = form.key /\ form.kind = "PrivateKey",
                   !.cred = IF UsesPassword(form.kind) THEN @ ELSE None,
                   !.phrase = IF form.kind = "PrivateKey" THEN @ ELSE None]
    IN  IF selected = None THEN Tree
        ELSE IF selected \in DOMAIN folders THEN [Tree EXCEPT !.folders[selected].name = form.name]
        ELSE [Tree EXCEPT !.sites[selected] = site]

CapturedSecrets ==
    LET typed == [password |-> form.secret.password /\ UsesPassword(form.kind),
                  passphrase |-> form.secret.passphrase /\ form.kind = "PrivateKey"]
    IN  IF selected \in DOMAIN sites THEN Joined(secrets, [s \in {selected} |-> typed]) ELSE secrets

(* RefreshSiteTree: an entry that is not there selects the first one.      *)
Refresh(t, typed, wanted) ==
    LET first == OrderedSiteManagerChildren(t, Root)
        next == IF wanted \in Ids(t) THEN wanted ELSE IF first # <<>> THEN first[1] ELSE None
    IN  /\ sites' = t.sites /\ folders' = t.folders /\ order' = t.order
        /\ selected' = next /\ form' = Shown(t, typed, next) /\ secrets' = typed

Capture ==
    /\ sites' = CapturedTree.sites /\ folders' = CapturedTree.folders /\ order' = order
    /\ secrets' = CapturedSecrets /\ UNCHANGED <<selected, form>>

Edit == result = None /\ edits < MaxEdits /\ edits' = edits + 1
Captures == Edit /\ MayCapture
Leaves == result = None /\ MayCapture /\ UNCHANGED edits

-----------------------------------------------------------------------------
(* What a user does.                                                       *)

Init ==
    /\ loaded \in Trees
    /\ sites = loaded.sites /\ folders = loaded.folders /\ order = loaded.order
    /\ LET first == OrderedSiteManagerChildren(loaded, Root)
       IN  selected = IF first = <<>> THEN None ELSE first[1]
    /\ secrets = [s \in {} |-> NoSecret] /\ form = Shown(loaded, secrets, selected)
    /\ fresh = FreshIds /\ edits = 0 /\ result = None

Type ==
    /\ Edit /\ selected # None
    /\ \/ \E n \in Names : form' = [form EXCEPT !.name = n]
       \/ /\ selected \in DOMAIN sites
          /\ \/ form' = [form EXCEPT !.host = TRUE]
             \/ \E k \in {"Password", "PrivateKey", "Agent"} \ {form.kind} : form' = [form EXCEPT !.kind = k]
             \/ form.kind = "PrivateKey" /\ form' = [form EXCEPT !.key = TRUE]
             \/ form.kind = "PrivateKey" /\ form' = [form EXCEPT !.secret.passphrase = TRUE]
             \/ UsesPassword(form.kind) /\ form' = [form EXCEPT !.secret.password = TRUE]
    /\ UNCHANGED <<sites, folders, order, loaded, selected, secrets, fresh, result>>

OnSelectionChanged(id) ==
    /\ Leaves /\ id \in Ids(Tree) \ {selected}
    /\ Refresh(CapturedTree, CapturedSecrets, id)
    /\ UNCHANGED <<loaded, fresh, result>>

OnEndDrag(source, target, position) ==
    /\ Captures /\ source \in Ids(Tree) /\ target \in Ids(Tree) \cup {Root}
    /\ target = Root => position = "Into"
    /\ target \in DOMAIN sites => position # "Into"
    /\ LET moved == MoveSiteManagerEntry(CapturedTree, source, target, position)
       IN  IF moved = CapturedTree THEN Capture ELSE Refresh(moved, CapturedSecrets, source)
    /\ UNCHANGED <<loaded, fresh, result>>

SelectedParentFolderId ==
    IF selected = None THEN Root ELSE IF selected \in DOMAIN folders THEN selected ELSE SiteFolderId(Tree, selected)

(* A new entry is put at the end, then into or behind the selected one.    *)
Placed(t, id) ==
    IF selected = None THEN t
    ELSE MoveSiteManagerEntry(t, id, selected, IF selected \in DOMAIN folders THEN "Into" ELSE "After")

OnNewSite ==
    /\ Captures /\ Used(1)
    /\ LET t == CapturedTree
           id == Head(fresh)
           new == [name |-> NextAvailableName(t, <<"site">>, SelectedParentFolderId), host |-> FALSE,
                   kind |-> "Password", key |-> FALSE, cred |-> None, phrase |-> None]
           added == [t EXCEPT !.sites = Joined(@, [s \in {id} |-> new]), !.order = Append(@, id)]
       IN  Refresh(Placed(AssignSiteToFolder(added, id, SelectedParentFolderId), id), CapturedSecrets, id)
    /\ UNCHANGED <<loaded, result>>

OnNewFolder ==
    /\ Captures /\ Used(1)
    /\ LET t == CapturedTree
           id == Head(fresh)
           new == [name |-> NextAvailableName(t, <<"folder">>, SelectedParentFolderId),
                   parent |-> SelectedParentFolderId, siteIds |-> <<>>]
           added == [t EXCEPT !.folders = Joined(@, [f \in {id} |-> new]), !.order = Append(@, id)]
       IN  Refresh(Placed(added, id), CapturedSecrets, id)
    /\ UNCHANGED <<loaded, result>>

OnDuplicate ==
    /\ Captures /\ selected # None
    /\ LET t == CapturedTree
           copied == Kept(t.order, IF selected \in DOMAIN folders THEN Below(t, selected) ELSE {selected})
           m == FreshFor(copied)
           parent == SiteManagerEntryParent(t, selected)
           site == [t.sites[selected] EXCEPT !.name = NextAvailableName(t, Append(@, "copy"), parent)]
           clone == IF selected \in DOMAIN folders THEN CloneSiteFolderTree(t, selected, m)
                    ELSE Renamed([sites |-> [s \in {selected} |-> site], folders |-> [f \in {} |-> None], order |-> <<selected>>], m)
           both == Merged(t, clone, IndexOf(t.order, selected))
       IN  /\ Used(Len(copied))
           /\ Refresh(IF selected \in DOMAIN folders THEN both ELSE AssignSiteToFolder(both, m[selected], parent),
                      CapturedSecrets, m[selected])
    /\ UNCHANGED <<loaded, result>>

(* The fields of a deleted entry are not captured.                         *)
OnDeleteSite ==
    /\ Edit /\ selected # None
    /\ LET gone == IF selected \in DOMAIN folders THEN Below(Tree, selected) ELSE {selected}
           rest == Restricted(Tree, Ids(Tree) \ gone)
       IN  Refresh([rest EXCEPT !.folders = [f \in DOMAIN @ |->
                       [@[f] EXCEPT !.siteIds = SelectSeq(@, LAMBDA s : s \notin gone)]]],
                   Only(secrets, DOMAIN secrets \ gone), SiteManagerEntryParent(Tree, selected))
    /\ UNCHANGED <<loaded, fresh, result>>

(* The form is captured before an export is written.  Whether the file can *)
(* be written changes nothing in the dialog, and is left out.              *)
OnExport == Leaves /\ Capture /\ UNCHANGED <<loaded, fresh, result>>

-----------------------------------------------------------------------------
(* Import.                                                                 *)

Conflicts(t) ==
    {<<a, b>> \in Ids(t) \X Ids(t) : /\ a # b /\ NameOf(t, a) = NameOf(t, b)
                                    /\ SiteManagerEntryParent(t, a) = SiteManagerEntryParent(t, b)}

ValidImportTree(t) ==
    /\ IsInjective(t.order) /\ ToSet(t.order) = Ids(t)
    /\ \A f \in DOMAIN t.folders : WithAncestors(t, f) \subseteq DOMAIN t.folders
    /\ Conflicts(t) = {}

FreeOfSiblings(name, siblings, occupied) ==                             \* mutant
    LET numbered == <<"2", "3", "4", "5", "6", "7", "8", "9">>
        free == {k \in DOMAIN numbered : Append(name, numbered[k]) \notin siblings}
    IN  IF name \notin siblings THEN name ELSE Append(name, numbered[CHOOSE k \in free : \A n \in free : k <= n])

(* The roots of the import are renamed away from the names of the folder   *)
(* they come into and from each other's.                                   *)
FreeName(name, siblings, occupied) ==
    LET numbered == <<"2", "3", "4", "5", "6", "7", "8", "9">>
        free == {k \in DOMAIN numbered : Append(name, numbered[k]) \notin occupied}
    IN  IF name \notin siblings THEN name ELSE Append(name, numbered[CHOOSE k \in free : \A n \in free : k <= n])

PlanSiteImport(t, new, destination) ==
    LET siblings == {NameOf(t, id) : id \in ToSet(OrderedSiteManagerChildren(t, destination))}
        roots == OrderedSiteManagerChildren(new, Root)
        occupied[i \in 0..Len(roots)] ==
            IF i = 0 THEN siblings \cup {NameOf(new, id) : id \in ToSet(roots)}
            ELSE occupied[i - 1] \cup {FreeName(NameOf(new, roots[i]), siblings, occupied[i - 1])}
        name == [id \in ToSet(roots) |-> FreeName(NameOf(new, id), siblings, occupied[IndexOf(roots, id) - 1])]
        placed == [new EXCEPT
                     !.sites = [s \in DOMAIN @ |-> IF s \in DOMAIN name THEN [@[s] EXCEPT !.name = name[s]] ELSE @[s]],
                     !.folders = [f \in DOMAIN @ |-> IF f \in DOMAIN name
                                                     THEN [@[f] EXCEPT !.name = name[f], !.parent = destination] ELSE @[f]]]
        merged == Merged(t, placed, Len(t.order))
        rootSites == SelectSeq(roots, LAMBDA id : id \in DOMAIN new.sites)
    IN  IF destination = Root THEN merged ELSE [merged EXCEPT !.folders[destination].siteIds = @ \o rootSites]

(* An export is read under new ids; nothing is applied unless confirmed.   *)
OnImport(export) ==
    /\ Captures /\ Used(Len(export.order))
    /\ LET m == FreshFor(export.order)
           new == Renamed(export, m)
           valid == ValidImportTree(CapturedTree) /\ ValidImportTree(new)
       IN  \/ /\ valid
              /\ Refresh(PlanSiteImport(CapturedTree, new, SelectedParentFolderId), CapturedSecrets,
                         IF new.order = <<>> THEN selected ELSE OrderedSiteManagerChildren(new, Root)[1])
           \/ Capture
    /\ UNCHANGED <<loaded, result>>

-----------------------------------------------------------------------------
(* Accepting the dialog.                                                   *)

PreparePendingCredentialIds(t, typed) ==
    [t EXCEPT !.sites = [s \in DOMAIN @ |->
        IF s \notin DOMAIN typed THEN @[s]
        ELSE [@[s] EXCEPT !.cred = IF typed[s].password THEN <<s, "new password">> ELSE @,
                          !.phrase = IF typed[s].passphrase THEN <<s, "new passphrase">> ELSE @]]]

TakePendingCredentialUpdates(t, typed) ==
    {t.sites[s].cred : s \in {x \in DOMAIN t.sites \cap DOMAIN typed : typed[x].password}}
    \cup {t.sites[s].phrase : s \in {x \in DOMAIN t.sites \cap DOMAIN typed : typed[x].passphrase}}

OnAccept ==
    LET t == CapturedTree
        keyless == {s \in DOMAIN t.sites : t.sites[s].kind = "PrivateKey" /\ ~t.sites[s].key}
        prepared == PreparePendingCredentialIds(t, CapturedSecrets)
    IN  /\ Leaves
        /\ IF keyless # {} THEN (\E s \in keyless : Refresh(t, CapturedSecrets, s)) /\ UNCHANGED result
           ELSE IF Conflicts(t) # {}
           THEN (\E pair \in Conflicts(t) : Refresh(t, CapturedSecrets, pair[1])) /\ UNCHANGED result
           ELSE /\ Refresh(prepared, [s \in {} |-> NoSecret], selected)
                /\ result' = TakePendingCredentialUpdates(prepared, CapturedSecrets)
        /\ UNCHANGED <<loaded, fresh>>

SiteNext ==
    \/ Type \/ OnNewSite \/ OnNewFolder \/ OnDuplicate \/ OnDeleteSite \/ OnExport \/ OnAccept
    \/ \E id \in Ids(Tree) : OnSelectionChanged(id)
    \/ \E source \in Ids(Tree), target \in Ids(Tree) \cup {Root}, position \in {"Into", "Before", "After"} :
          OnEndDrag(source, target, position)
    \/ \E export \in Exports : OnImport(export)

SiteSpec == Init /\ [][SiteNext]_siteVars

-----------------------------------------------------------------------------
(* Whatever is added, renamed, dragged, copied, deleted or imported, the   *)
(* dialog holds a tree the configuration accepts, and no two siblings of   *)
(* the same name that were not loaded so; what it accepts has none.        *)
SitesStayValid ==
    /\ IsInjective(order) /\ ToSet(order) = Ids(Tree)
    /\ \A f \in DOMAIN folders :
          /\ folders[f].parent \in DOMAIN folders \cup {Root}
          /\ f \notin WithAncestors(Tree, folders[f].parent)
          /\ IsInjective(folders[f].siteIds) /\ ToSet(folders[f].siteIds) \subseteq DOMAIN sites
          /\ \A g \in DOMAIN folders \ {f} : ToSet(folders[f].siteIds) \cap ToSet(folders[g].siteIds) = {}
    /\ Conflicts(Tree) \subseteq IF result = None THEN Conflicts(loaded) ELSE {}
    /\ result # None => \A s \in DOMAIN sites : sites[s].host

(* No two sites refer to one credential, and a secret that was typed is    *)
(* stored under a new id its own site refers to: a copy cannot replace the *)
(* secret of its original, nor a rejected save an earlier secret.          *)
Credentials(t, s) == {t.sites[s].cred, t.sites[s].phrase} \ {None}
SecretsAreOwn ==
    /\ \A a, b \in DOMAIN sites : a # b => Credentials(Tree, a) \cap Credentials(Tree, b) = {}
    /\ result # None =>
          /\ None \notin result
          /\ result \cap UNION {Credentials(loaded, s) : s \in DOMAIN loaded.sites} = {}

(* An entry that is dropped comes to stand where it was dropped, whatever  *)
(* lies between in the one list of all ids, and nothing else moves.        *)
Lands(source, target, position) ==
    LET destination == DestinationParent(Tree, target, position)
        now == OrderedSiteManagerChildren(Tree', destination)
        i == IndexOf(now, source)
        Others(t, parent) == SelectSeq(OrderedSiteManagerChildren(t, parent), LAMBDA id : id # source)
    IN  /\ \A parent \in DOMAIN folders \cup {Root} : Others(Tree', parent) = Others(Tree, parent)
        /\ IF position = "Into" THEN i = Len(now)
           ELSE IndexOf(now, target) = IF position = "Before" THEN i + 1 ELSE i - 1
Dragged ==
    /\ fresh' = fresh /\ selected' \in Ids(Tree)
    /\ \/ order' # order
       \/ SiteManagerEntryParent(Tree', selected') # SiteManagerEntryParent(Tree, selected')
LandsWhereDropped ==
    Dragged => \A target \in Ids(Tree) \cup {Root}, position \in {"Into", "Before", "After"} :
        OnEndDrag(selected', target, position) => Lands(selected', target, position)
=============================================================================
