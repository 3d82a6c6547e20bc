----------------------------- MODULE MCDownloads -----------------------------
(***************************************************************************)
(* Two scenes, chosen in the initial state: a download by SFTP and one by  *)
(* FTP with one destination, stopped, resumed and restarted while others   *)
(* change things; and a file downloaded to be edited, saved and uploaded   *)
(* again.  The part without its scene rests.                               *)
(***************************************************************************)
EXTENDS DownloadFile, TLC

CONSTANTS Sessions, None, Sizes, MaxSaves, MaxRevision, MaxGeneration, MaxRetries, MaxEvents

VARIABLES
    scene,
    remote, copies, saves, edits, jobs, committed, commands, events, online, tab, generation,
    known, hurried

OneSize == 0 :> 1 @@ 1 :> 1 @@ 2 :> 1
Edited == INSTANCE ExternalEdit WITH SizeOf <- OneSize

editVars == <<remote, copies, saves, edits, jobs, committed, commands, events, online, tab,
              generation, known, hurried>>
allVars == <<scene, vars, editVars>>

SceneInit == scene \in {"downloads", "edited"} /\ Init /\ Edited!Init

SceneNext ==
    \/ scene = "downloads" /\ Next /\ UNCHANGED <<scene, editVars>>
    \/ scene = "edited" /\ Edited!Next /\ UNCHANGED <<scene, vars>>

SceneSpec == SceneInit /\ [][SceneNext]_allVars

-----------------------------------------------------------------------------
(* Every save of an edited copy reaches the server, and the revision the   *)
(* next one replaces unasked is one the session knows.                     *)
EditsArrive == Edited!SavesArrive /\ Edited!ExpectsWhatItKnows
=============================================================================
