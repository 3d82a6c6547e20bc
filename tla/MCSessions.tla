------------------------------ MODULE MCSessions ------------------------------
(***************************************************************************)
(* One run for what the threads of a controller do: a session connects by  *)
(* SFTP, or by FTPS, or carries out the commands of a remote pane, or the  *)
(* workers meet destinations that exist.  The part is chosen in the        *)
(* initial state; the others rest in their own.                            *)
(***************************************************************************)
EXTENDS SftpConnect, FtpConnect, RemoteFiles, ConflictChoice, TLC

ASSUME SessionsAssumption ==
    /\ MaxAddresses \in Nat \ {0} /\ NoKey \notin Keys /\ Nobody \notin Sessions
    /\ Kinds \subseteq {"Password", "PrivateKey", "Agent", "KeyboardInteractive",
                        "PasswordKeyboardInteractive"}
    /\ TrustedRoot \cup SelfSigned \subseteq Certificates
    /\ TrustedRoot \cap SelfSigned = {} /\ NoPin \notin Certificates

VARIABLE part

allVars == <<part, paneVars, vars, ftpVars, conflictVars>>

FtpRests == FtpInit /\ presented = CHOOSE c \in Certificates : TRUE
PaneRests == PaneInit /\ protocol = "sftp"

SessionsInit ==
    /\ Init /\ ConflictInit
    /\ \/ part = "files" /\ PaneInit /\ FtpRests
       \/ part = "sftp" /\ PaneRests /\ FtpRests
       \/ part = "ftps" /\ PaneRests /\ FtpInit
       \/ part = "conflicts" /\ PaneRests /\ FtpRests

SessionsNext ==
    \/ part = "files" /\ PaneNext /\ UNCHANGED <<part, vars, ftpVars, conflictVars>>
    \/ part = "sftp" /\ Next /\ UNCHANGED <<part, paneVars, ftpVars, conflictVars>>
    \/ part = "ftps" /\ FtpNext /\ UNCHANGED <<part, paneVars, vars, conflictVars>>
    \/ part = "conflicts" /\ ConflictNext /\ UNCHANGED <<part, paneVars, vars, ftpVars>>

SessionsSpec == SessionsInit /\ [][SessionsNext]_allVars

Symmetry == Permutations(Sessions) \cup Permutations(FtpSessions)
=============================================================================
