---------------------------- MODULE MCConfigFile ----------------------------
(* Documents as users and earlier versions left them, and the edits of the *)
(* program, one section of the data at a time.                             *)
EXTENDS ConfigFile, TLC

CONSTANTS s1, s2, d1, d2, t1, t2, p1, p2, n1, n2, n3

MCFold == ("host" :> "host") @@ ("HOST" :> "host") @@ ("other" :> "other")
MCWidths == (FALSE :> 1) @@ (TRUE :> 2)

Place(x, y) == [x |-> x, y |-> y, size |-> "s"]
List(column, widths) == [column |-> column, widths |-> widths]
Lists(local, remote) == [local |-> local, remote |-> remote]
Editor(mode, executable) == [mode |-> mode, executable |-> executable, arguments |-> "{file}"]
Set(scalars, lists, editor) == [scalars |-> scalars, updates |-> "u", lists |-> lists, editor |-> editor]
Plain == Set("a", Lists(List("name", <<>>), List("name", <<>>)), Editor("systemDefault", ""))
Login(kind, key) == [kind |-> kind, key |-> key, credential |-> ""]
Remember(siteId, endpoint, local) == [siteId |-> siteId, endpoint |-> endpoint, local |-> local, remote |-> "/r"]
Open(tab, siteId, local) == [tab |-> tab, siteId |-> siteId, endpoint |-> Absent, local |-> local, remote |-> "/r"]
Site(id, protocol, endpoint, login, mode) ==
    [id |-> id, name |-> "n", protocol |-> protocol, endpoint |-> endpoint, authentication |-> login, mode |-> mode,
     address |-> IF mode = Absent THEN Absent ELSE ""]
Folder(id, parent, ids) == [id |-> id, parent |-> parent, siteIds |-> ids]
Work(directories, tabs, selected) ==
    [local |-> "/l", directories |-> directories, tabs |-> tabs, selected |-> selected, window |-> Place(Absent, Absent)]

MCDefaults ==
    [settings |-> Plain, workspace |-> Work(<<>>, <<>>, NoId), history |-> <<>>, sites |-> <<>>,
     folders |-> <<>>, order |-> <<>>, pending |-> <<>>, trust |-> <<>>]

Noted(id, note) == [id |-> id, note |-> note]

(* An annotated document of the current shape.                             *)
Annotated ==
    [version |-> 1, secret |-> FALSE, note |-> n1,
     settings |-> WithNote(Plain, n1),
     workspace |-> [local |-> "/l", remoteDirectories |-> Absent, selected |-> NoId, window |-> Place("1", "2"), note |-> n2,
                    directories |-> <<WithNote(Remember(Absent, "HOST", "/l"), n1), WithNote(Remember(Absent, "other", "/l"), n2)>>,
                    tabs |-> <<WithNote(Open(t1, Absent, ""), n1)>>],
     history |-> <<[endpoint |-> "HOST", note |-> n1], [endpoint |-> "other", note |-> n2]>>,
     sites |-> <<WithNote(Site(s1, "Sftp", "host", Login("PrivateKey", "/k"), Absent), n1),
                WithNote(Site(s2, "Ftp", "other", Login("Password", ""), "active"), n2)>>,
     folders |-> <<[id |-> d1, parent |-> NoId, siteIds |-> <<Noted(s1, n3)>>, note |-> n1],
                   [id |-> d2, parent |-> d1, siteIds |-> <<>>, note |-> n2]>>,
     order |-> <<Noted(d2, n1), Noted(d1, n2), Noted(s1, n3), Noted(s2, n1)>>,
     pending |-> <<Noted(p1, n1)>>,
     trust |-> <<[endpoint |-> "HOST", pin |-> "k1", note |-> n1]>>]

(* The oldest accepted shape: no optional section, the earlier directories.*)
Earlier ==
    [Annotated EXCEPT !.history = Absent, !.order = Absent, !.pending = Absent, !.settings.lists = Absent, !.settings.editor = Absent,
                      !.workspace.directories = Absent, !.workspace.tabs = Absent, !.workspace.selected = Absent,
                      !.workspace.window = Absent,
                      !.workspace.remoteDirectories = <<WithNote(Remember(s1, Absent, Absent), n3)>>]

(* Documents Load refuses, each for another reason.                        *)
Refused ==
    {[Annotated EXCEPT !.secret = TRUE], [Annotated EXCEPT !.version = 2],
     [Annotated EXCEPT !.settings.updates = Absent], [Annotated EXCEPT !.trust = Absent],
     [Annotated EXCEPT !.folders[1].parent = d2], [Annotated EXCEPT !.history[2].endpoint = "host"],
     [Annotated EXCEPT !.order = <<Noted(s1, n1)>>],
     [Annotated EXCEPT !.workspace.remoteDirectories = <<>>],
     [Annotated EXCEPT !.workspace.directories[1].siteId = s1],
     [Annotated EXCEPT !.workspace.window.x = Absent],
     [Annotated EXCEPT !.settings.editor.mode = "custom"], [Annotated EXCEPT !.settings.lists.local.column = "owner"],
     [Annotated EXCEPT !.sites[1].mode = "active"], [Annotated EXCEPT !.sites[1].authentication.key = ""], Garbage}

MCDocuments ==
    {Missing, Annotated, Earlier, [Earlier EXCEPT !.workspace = Absent, !.folders = Absent]} \cup Refused

(* The earlier shape as written before any local directory was chosen.     *)
MCUnsaved == {[Earlier EXCEPT !.workspace.local = ""]}

MCChanges ==
    {"settings" :> x : x \in {Plain, Set("b", Plain.lists, Editor("custom", "/e")), Set("a", Plain.lists, Editor("custom", "")),
                              Set("a", Lists(List("name", <<"9">>), List("owner", <<"9", "8">>)), Plain.editor)}}
    \cup {"history" :> h : h \in {<<"host", "other">>, <<"other">>, <<"other", "HOST">>}}
    \cup {("sites" :> <<Site(s2, "Ftp", "other", Login("Password", ""), "passive"), Site(s1, "Sftp", "host", Login("Agent", ""), "passive")>>) @@ ("folders" :> f) @@ ("order" :> <<s1, s2, d1, d2>>) :
             f \in {<<Folder(d1, NoId, <<>>), Folder(d2, NoId, <<s1>>)>>, <<Folder(d2, NoId, <<s2, s1>>), Folder(d1, d2, <<>>)>>}}
    \cup {("sites" :> <<Site(s1, "Ftp", "HOST", Login("Password", ""), "active")>>) @@ ("folders" :> <<>>) @@ ("order" :> <<s1>>),
          "order" :> <<s1>>, "pending" :> <<p2, p1>>, "pending" :> <<>>}
    \cup {"workspace" :> Work(d, t, t1) :
             d \in {<<Remember(s1, Absent, "/m")>>, <<Remember(s1, Absent, "/m"), Remember(Absent, "host", "/l")>>,
                    <<Remember(Absent, "other", "/l"), Remember(Absent, "host", "/m")>>},
             t \in {<<Open(t1, Absent, "")>>, <<Open(t2, s1, "/m"), Open(t1, Absent, "")>>}}
    \cup {"trust" :> <<[endpoint |-> "host", pin |-> k]>> : k \in {"k1", "k2"}}
=============================================================================
