------------------------------ MODULE FtpConnect ------------------------------
(***************************************************************************)
(* Connect in src/protocol/ftpSession.cpp for FTPS: the trust in a server  *)
(* is settled by probes on connections of their own, with dummy            *)
(* credentials, before the password is asked for.  Every connection meets  *)
(* the server anew: it may present another key each time, and libcurl may  *)
(* replace the control connection of a session at any command.             *)
(*                                                                         *)
(* The sessions are the browser's and the workers' of one tab.  They all   *)
(* keep the pin that was stored when the tab connected.                    *)
(***************************************************************************)
EXTENDS Naturals

CONSTANTS
    FtpSessions,
    Certificates,       \* what the server may present, told apart by its key
    TrustedRoot,        \* the certificates normal verification accepts
    SelfSigned,         \* currently valid, self-signed, issued for the host
    NoPin,
    MaxChanges          \* bound: changes of the certificate

VARIABLES
    presented, changes, \* the certificate the server presents now
    storedPin,          \* the endpoint's entry in tlsTrust of the configuration
    callerPin,          \* the tab's copy of it (tlsPinnedPublicKey)
    ses,                \* the sessions
    accepted,           \* history: keys the user accepted or had stored
    passwordTo          \* history: keys of the servers that were sent the password

ftpVars == <<presented, changes, storedPin, callerPin, ses, accepted, passwordTo>>

ClosedFtp ==
    [step |-> "closed", active |-> NoPin, normally |-> FALSE, identity |-> NoPin,
     decision |-> "Reject", password |-> FALSE]

FtpInit ==
    /\ presented \in Certificates /\ changes = 0
    /\ storedPin = NoPin /\ callerPin = NoPin
    /\ ses = [s \in FtpSessions |-> ClosedFtp]
    /\ accepted = {} /\ passwordTo = {}

Become(s, session) == ses' = [ses EXCEPT ![s] = session]
Enter(s, label) == Become(s, [ses[s] EXCEPT !.step = label])
At(s, label) == ses[s].step = label
ServerSame == UNCHANGED <<presented, changes>>
OnlySession == UNCHANGED <<presented, changes, storedPin, callerPin, accepted, passwordTo>>

(* RemoteController::Connect copies the pin for all threads of the tab.    *)
ConnectTab ==
    /\ \A s \in FtpSessions : At(s, "closed")
    /\ callerPin' = storedPin
    /\ ServerSame /\ UNCHANGED <<storedPin, ses, accepted, passwordTo>>

ConnectFtp(s) == At(s, "closed") /\ Enter(s, "verify") /\ OnlySession

-----------------------------------------------------------------------------
(* PrepareTlsTrust                                                         *)

HostNameMatches == presented \in TrustedRoot \cup SelfSigned

(* ProbeTls: with peer verification, with a pin, or with neither.          *)
ProbeTls(verifyPeer, pin) ==
    /\ verifyPeer => presented \in TrustedRoot
    /\ pin # NoPin => presented = pin

(* "Always perform normal TLS verification, even when an endpoint PIN is   *)
(* already stored."  Only a missing trust anchor may be overridden.        *)
VerifyNormally(s) ==
    /\ At(s, "verify") /\ HostNameMatches
    /\ LET normally == ProbeTls(TRUE, NoPin)
           next == IF callerPin # NoPin THEN "pin" ELSE IF normally THEN "ready" ELSE "identify"
       IN  Become(s, [ses[s] EXCEPT !.normally = normally, !.step = next])
    /\ OnlySession

IsTlsPinExceptionEligible(s, c) == ses[s].normally \/ c \in SelfSigned

ProbePinned(s) ==
    /\ At(s, "pin") /\ HostNameMatches
    /\ IF ProbeTls(FALSE, callerPin)
       THEN /\ IsTlsPinExceptionEligible(s, presented)
            /\ Become(s, [ses[s] EXCEPT !.active = callerPin, !.step = "ready"])
       ELSE Enter(s, "identify")
    /\ OnlySession

ObtainIdentity(s) ==
    /\ At(s, "identify") /\ HostNameMatches /\ IsTlsPinExceptionEligible(s, presented)
    /\ Become(s, [ses[s] EXCEPT !.identity = presented, !.step = "ask"])
    /\ OnlySession

(* MainFrame::VerifyTrust stores the pin before it returns a decision, and *)
(* asks nothing when the key is the stored one.                            *)
VerifyTrust(s, d) ==
    /\ At(s, "ask")
    /\ IF storedPin = ses[s].identity THEN d = "AcceptOnce"
       ELSE d \in {"Reject"} \cup (IF callerPin # NoPin THEN {"ReplaceStored"}
                                   ELSE {"AcceptOnce", "AcceptPermanently"})
    /\ Become(s, [ses[s] EXCEPT !.decision = d, !.step = "decided"])
    /\ storedPin' = IF d \in {"ReplaceStored", "AcceptPermanently"} THEN ses[s].identity
                    ELSE storedPin
    /\ accepted' = IF d = "Reject" THEN accepted ELSE accepted \cup {ses[s].identity}
    /\ ServerSame /\ UNCHANGED <<callerPin, passwordTo>>

(* A changed pin is replaced, and an unknown one cannot be.                *)
IsTlsTrustDecisionAllowed(s) ==
    /\ ses[s].decision # "Reject"
    /\ (ses[s].decision = "ReplaceStored") = (callerPin # NoPin)

RequestTlsTrust(s) ==
    /\ At(s, "decided") /\ IsTlsTrustDecisionAllowed(s) /\ Enter(s, "recheck") /\ OnlySession

RefuseTrust(s) ==
    /\ At(s, "decided") /\ ~IsTlsTrustDecisionAllowed(s) /\ Become(s, ClosedFtp) /\ OnlySession

VerifyChosenPin(s) ==
    /\ At(s, "recheck") /\ HostNameMatches /\ ProbeTls(FALSE, ses[s].identity)
    /\ Become(s, [ses[s] EXCEPT !.active = ses[s].identity, !.step = "ready"])
    /\ OnlySession

-----------------------------------------------------------------------------
RequestPassword(s) ==
    /\ At(s, "ready")
    /\ Become(s, [ses[s] EXCEPT !.password = TRUE, !.step = "login"]) /\ OnlySession

PinOrNothing(s) == ProbeTls(FALSE, ses[s].active)                  \* mutant

(* ConfigureHandle: an active pin replaces the verification of the peer,   *)
(* and the host name is verified either way.                               *)
ConfigureTls(s) == HostNameMatches /\ ProbeTls(ses[s].active = NoPin, ses[s].active)

(* The first login, or libcurl's again when the control connection of a    *)
(* session is gone at its next command.                                    *)
Login(s) ==
    /\ ses[s].step \in {"login", "connected"} /\ ConfigureTls(s)
    /\ passwordTo' = passwordTo \cup {presented} /\ Enter(s, "connected")
    /\ ServerSame /\ UNCHANGED <<storedPin, callerPin, accepted>>

(* Disconnect: a failed probe or login, a stop, a timeout or the end.      *)
DisconnectFtp(s) ==
    /\ ses[s].step \notin {"closed", "decided"} /\ Become(s, ClosedFtp) /\ OnlySession

ChangeCertificate ==
    /\ changes < MaxChanges /\ changes' = changes + 1
    /\ presented' \in Certificates \ {presented}
    /\ UNCHANGED <<storedPin, callerPin, ses, accepted, passwordTo>>

TlsDecisions == {"Reject", "AcceptOnce", "AcceptPermanently", "ReplaceStored"}

FtpNext ==
    \/ ConnectTab \/ ChangeCertificate
    \/ \E s \in FtpSessions :
          \/ ConnectFtp(s) \/ VerifyNormally(s) \/ ProbePinned(s) \/ ObtainIdentity(s)
          \/ RequestTlsTrust(s) \/ RefuseTrust(s) \/ VerifyChosenPin(s)
          \/ RequestPassword(s) \/ Login(s) \/ DisconnectFtp(s)
          \/ \E d \in TlsDecisions : VerifyTrust(s, d)

FtpSpec == FtpInit /\ [][FtpNext]_ftpVars

-----------------------------------------------------------------------------
FtpTypeOK ==
    LET Pin == Certificates \cup {NoPin} IN
    /\ presented \in Certificates /\ changes \in 0 .. MaxChanges
    /\ {storedPin, callerPin} \subseteq Pin
    /\ ses \in [FtpSessions ->
                  [step: {"closed", "verify", "pin", "identify", "ask", "decided", "recheck",
                          "ready", "login", "connected"},
                   active: Pin, normally: BOOLEAN, identity: Pin, decision: TlsDecisions,
                   password: BOOLEAN]]
    /\ accepted \subseteq Certificates /\ passwordTo \subseteq Certificates

(* The password reaches only servers that pass normal verification or      *)
(* whose key the user accepted, also when the server changes between the   *)
(* probes, the question, the login and later logins: "The FTPS certificate *)
(* [...] is settled before the application asks for, stores, or sends the  *)
(* real credential."                                                       *)
PasswordFollowsTrust == FtpTypeOK /\ passwordTo \subseteq TrustedRoot \cup accepted

(* "A matching saved PIN can trust the same host and port again"           *)
(* (docs/configuration.md): a session refuses only what the user rejected, *)
(* also when another session of the tab had the pin replaced meanwhile.    *)
SavedPinTrusts ==
    [][\A s \in FtpSessions : RefuseTrust(s) => ses[s].decision = "Reject"]_ftpVars
=============================================================================
