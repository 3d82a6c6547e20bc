------------------------------- MODULE MCWindow -------------------------------
(***************************************************************************)
(* One run for the main window, for its Site Manager and for its local     *)
(* panes; the part is chosen in the initial state.                         *)
(***************************************************************************)
EXTENDS MCWorkspace, LocalDirectories

CONSTANTS Trees, Exports, FreshIds, Names, MaxEdits, d1, d2, i1, i2, i3, g1, g2, g3, g4
CONSTANTS x1, x2

ASSUME EntriesAssumption ==
    /\ IsInjective(FreshIds) /\ Root # None /\ Nowhere \notin Directories
    /\ \A t \in Trees \cup Exports : DOMAIN t.sites \cap DOMAIN t.folders = {}

VARIABLES
    part, sites, folders, order, loaded, chosen, form, secrets, fresh, edits, result

Manager == INSTANCE Sites WITH selected <- chosen

siteVars == <<sites, folders, order, loaded, chosen, form, secrets, fresh, edits, result>>
allVars == <<part, vars, siteVars, localVars>>

Unused == "unused"
WindowRests == Init /\ file = CHOOSE c \in Configurations : TRUE
NoManager ==
    /\ sites = Unused /\ folders = Unused /\ order = Unused /\ loaded = Unused /\ chosen = Unused
    /\ form = Unused /\ secrets = Unused /\ fresh = Unused /\ edits = Unused /\ result = Unused

WindowInit ==
    /\ LocalInit
    /\ \/ part = "window" /\ Init /\ NoManager
       \/ part = "manager" /\ Manager!Init /\ WindowRests
       \/ part = "local" /\ WindowRests /\ NoManager
WindowNext ==
    \/ part = "window" /\ Next /\ UNCHANGED <<part, siteVars, localVars>>
    \/ part = "manager" /\ Manager!SiteNext /\ UNCHANGED <<part, vars, localVars>>
    \/ part = "local" /\ LocalNext /\ UNCHANGED <<part, vars, siteVars>>
WindowSpec == WindowInit /\ [][WindowNext]_allVars

-----------------------------------------------------------------------------
(* The Site Manager holds a tree the configuration accepts, and credentials*)
(* that no two of its sites share.                                         *)
ManagerStaysValid == part = "manager" => Manager!SitesStayValid /\ Manager!SecretsAreOwn

(* An entry that is dragged lands where it is dropped, and alone.          *)
DropsLand == [][part = "manager" => Manager!LandsWhereDropped]_allVars

-----------------------------------------------------------------------------
Site(name, cred) == [name |-> <<name>>, host |-> TRUE, kind |-> "Password", key |-> FALSE, cred |-> cred, phrase |-> None]
Folder(name, parent, ids) == [name |-> <<name>>, parent |-> parent, siteIds |-> ids]

MCTrees ==
    {[sites |-> [s \in {s1, s2} |-> IF s = s1 THEN Site("a", c1) ELSE Site("b", None)],
      folders |-> [f \in {d1, d2} |-> IF f = d1 THEN Folder("a", Root, <<s1>>) ELSE Folder("b", d1, <<>>)],
      order |-> <<d2, s1, s2, d1>>],
     [sites |-> [s \in {s1, s2} |-> Site("a", IF s = s1 THEN c1 ELSE None)],
      folders |-> [f \in {d1, d2} |-> IF f = d1 THEN Folder("a copy", d2, <<s1>>) ELSE Folder("b", Root, <<>>)],
      order |-> <<s2, d1, d2, s1>>],
     [sites |-> [s \in {s1, s2} |-> Site("a", None)], folders |-> [f \in {} |-> None], order |-> <<s1, s2>>]}
MCExports ==
    {[sites |-> [s \in {i1, i2} |-> Site("a", None)], folders |-> [f \in {i3} |-> [Folder("a", Root, <<i1>>) EXCEPT !.name = <<"a", "2">>]], order |-> <<i3, i1, i2>>]}
MCFreshIds == <<g1, g2, g3, g4>>
MCNames == {<<>>, <<"a">>, <<"site">>}

=============================================================================
