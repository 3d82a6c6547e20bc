----------------------------- MODULE SftpConnect -----------------------------
(***************************************************************************)
(* Connect in src/protocol/sftpSession.cpp: sockets, the host key and the  *)
(* known_hosts file that all sessions of the process share, and the ways   *)
(* to authenticate.                                                        *)
(*                                                                         *)
(* Each session belongs to the browser or a worker thread of a tab, which  *)
(* asks the interface thread for decisions and credentials and is joined   *)
(* by it when the tab disconnects.                                         *)
(***************************************************************************)
EXTENDS Naturals

CONSTANTS
    Sessions, Hosts, Keys,
    Kinds,              \* AuthenticationKind of the sites
    NoKey, Nobody,
    OneTab,             \* whether all sessions belong to one tab
    MaxAddresses,       \* bound: addresses of a host
    MaxRotations        \* bound: changes of host keys

VARIABLES
    served, rotations,  \* the key each host presents
    knownHosts,         \* the file
    mutex,              \* KnownHostsUpdateMutex
    phase, site,           \* each session, and its host and authentication
    left,               \* addresses, identities or prompts it may still try
    key,                \* mSession's host key
    copy,               \* known_hosts as it read them
    decision,           \* the user's TrustDecision
    open,               \* mSocket, mSession, mSftp
    stopping, joining,      \* stop tokens; whether the interface thread joins threads
    \* history
    agreed,             \* keys the user stored
    trusted,            \* keys the user ever accepted, by host
    disclosed           \* the key of the server a secret of this connection went to

vars == <<served, rotations, knownHosts, mutex, phase, site, left, key, copy, decision, open,
          stopping, joining, agreed, trusted, disclosed>>
world == <<served, rotations, stopping, joining>>
file == <<knownHosts, mutex, copy, decision, agreed, trusted>>

NoSite == [host |-> CHOOSE h \in Hosts : TRUE, kind |-> "Password"]
Closed == [h \in Hosts |-> NoKey]

Init ==
    /\ rotations = 0
    /\ served = [h \in Hosts |-> CHOOSE k \in Keys : TRUE]
    /\ knownHosts = Closed /\ mutex = Nobody
    /\ phase = [s \in Sessions |-> "closed"] /\ site = [s \in Sessions |-> NoSite]
    /\ left = [s \in Sessions |-> 0] /\ key = [s \in Sessions |-> NoKey]
    /\ copy = [s \in Sessions |-> Closed]
    /\ decision = [s \in Sessions |-> "Reject"]
    /\ open = [s \in Sessions |-> {}]
    /\ stopping = [s \in Sessions |-> FALSE] /\ joining = FALSE
    /\ agreed = Closed /\ trusted = [h \in Hosts |-> {}]
    /\ disclosed = [s \in Sessions |-> NoKey]

Goto(s, label) == phase' = [phase EXCEPT ![s] = label]
Try(s, n) == left' = [left EXCEPT ![s] = n]

(* Disconnect; the guard of VerifyHost releases the mutex.                 *)
Disconnect(s) ==
    /\ Goto(s, "closed")
    /\ open' = [open EXCEPT ![s] = {}]
    /\ key' = [key EXCEPT ![s] = NoKey] /\ Try(s, 0)
    /\ copy' = [copy EXCEPT ![s] = Closed] /\ decision' = [decision EXCEPT ![s] = "Reject"]
    /\ disclosed' = [disclosed EXCEPT ![s] = NoKey] /\ site' = [site EXCEPT ![s] = NoSite]
    /\ mutex' = IF mutex = s THEN Nobody ELSE mutex

Step(s, label) ==
    /\ Goto(s, label)
    /\ UNCHANGED <<site, key, copy, decision, disclosed, mutex, open, left>>

-----------------------------------------------------------------------------
(* Sockets                                                                 *)

Connect(s, h, kind) ==
    /\ phase[s] = "closed" /\ ~stopping[s]
    /\ site' = [site EXCEPT ![s] = [host |-> h, kind |-> kind]]
    /\ Goto(s, "resolve")
    /\ UNCHANGED <<left, key, disclosed, open, file, world>>

ResolveAddresses(s) ==
    /\ phase[s] = "resolve"
    /\ \E n \in 1 .. MaxAddresses : Try(s, n)
    /\ Goto(s, "tcp")
    /\ UNCHANGED <<site, key, disclosed, open, file, world>>

(* The addresses in turn, until one answers.                               *)
ConnectTcp(s) ==
    /\ phase[s] = "tcp" /\ left[s] > 0
    /\ \/ Goto(s, "handshake") /\ Try(s, 0) /\ open' = [open EXCEPT ![s] = {"socket"}]
       \/ left[s] > 1 /\ Try(s, left[s] - 1) /\ UNCHANGED <<phase, open>>
    /\ UNCHANGED <<site, key, disclosed, file, world>>

Handshake(s) ==
    /\ phase[s] = "handshake"
    /\ open' = [open EXCEPT ![s] = @ \cup {"session"}]
    /\ key' = [key EXCEPT ![s] = served[site[s].host]]
    /\ Goto(s, "verify")
    /\ UNCHANGED <<site, left, disclosed, file, world>>

-----------------------------------------------------------------------------
(* VerifyHost: "Protect the entire read/check/decision/write transaction." *)

LockLater(s) ==                                                    \* mutant
    /\ phase[s] = "verify"
    /\ copy' = [copy EXCEPT ![s] = knownHosts] /\ Goto(s, "check")
    /\ UNCHANGED <<site, left, key, open, disclosed, knownHosts, mutex, decision, agreed,
                   trusted, world>>

(* The lock does not look at the stop token.                               *)
ReadKnownHosts(s) ==
    /\ phase[s] = "verify" /\ mutex = Nobody /\ mutex' = s
    /\ copy' = [copy EXCEPT ![s] = knownHosts] /\ Goto(s, "check")
    /\ UNCHANGED <<site, left, key, open, disclosed, knownHosts, decision, agreed, trusted,
                   world>>

Stored(s) == copy[s][site[s].host]

CheckHostOnly(s) ==                                                \* mutant
    /\ phase[s] = "check"
    /\ IF Stored(s) # NoKey
       THEN /\ Goto(s, "authenticate") /\ mutex' = Nobody
            /\ copy' = [copy EXCEPT ![s] = Closed]
       ELSE Goto(s, "ask") /\ UNCHANGED <<mutex, copy>>
    /\ UNCHANGED <<site, left, key, open, disclosed, knownHosts, decision, agreed, trusted,
                   world>>

CheckKnownHosts(s) ==
    /\ phase[s] = "check"
    /\ IF Stored(s) = key[s]
       THEN /\ Goto(s, "authenticate") /\ mutex' = Nobody
            /\ copy' = [copy EXCEPT ![s] = Closed]
       ELSE Goto(s, "ask") /\ UNCHANGED <<mutex, copy>>
    /\ UNCHANGED <<site, left, key, open, disclosed, knownHosts, decision, agreed, trusted,
                   world>>

(* The interface thread runs the dialog, unless it is joining.             *)
AnswerTrust(s, d) ==
    /\ phase[s] = "ask" /\ ~joining
    /\ decision' = [decision EXCEPT ![s] = d] /\ Goto(s, "decided")
    /\ trusted' = IF d = "Reject" THEN trusted
                  ELSE [trusted EXCEPT ![site[s].host] = @ \cup {key[s]}]
    /\ UNCHANGED <<site, left, key, open, disclosed, knownHosts, mutex, copy, agreed, world>>

(* "Changed keys are never accepted transiently or through the generic     *)
(* permanent action."                                                      *)
Allowed(s) ==
    decision[s] # "Reject" /\ (decision[s] = "ReplaceStored") = (Stored(s) # NoKey)

Accept(s) ==
    /\ phase[s] = "decided" /\ Allowed(s)
    /\ IF decision[s] = "AcceptOnce"
       THEN /\ Goto(s, "authenticate") /\ mutex' = Nobody
            /\ copy' = [copy EXCEPT ![s] = Closed]
            /\ decision' = [decision EXCEPT ![s] = "Reject"]
       ELSE Goto(s, "store") /\ UNCHANGED <<mutex, copy, decision>>
    /\ UNCHANGED <<site, left, key, open, disclosed, knownHosts, agreed, trusted, world>>

Refuse(s) ==
    /\ phase[s] = "decided" /\ ~Allowed(s) /\ Disconnect(s)
    /\ UNCHANGED <<knownHosts, agreed, trusted, world>>

(* The file is rewritten from the copy and replaced atomically; flushing   *)
(* the directory may still fail.                                           *)
WriteKnownHosts(s) ==
    /\ phase[s] = "store"
    /\ knownHosts' = [copy[s] EXCEPT ![site[s].host] = key[s]]
    /\ agreed' = [agreed EXCEPT ![site[s].host] = key[s]]
    /\ \/ /\ Goto(s, "authenticate") /\ mutex' = Nobody
          /\ copy' = [copy EXCEPT ![s] = Closed]
          /\ decision' = [decision EXCEPT ![s] = "Reject"]
          /\ UNCHANGED <<site, open, key, left, disclosed>>
       \/ Disconnect(s)
    /\ UNCHANGED <<trusted, world>>

-----------------------------------------------------------------------------
(* Authenticate.  A credential is asked of the interface thread; a wrong   *)
(* passphrase is asked for once more.                                      *)

Kind(s) == site[s].kind

Disclose(s) == disclosed' = [disclosed EXCEPT ![s] = key[s]]

Authenticate(s) ==
    /\ phase[s] = "authenticate"
    /\ \/ /\ Kind(s) \in {"Password", "PasswordKeyboardInteractive"}
          /\ Goto(s, "password") /\ UNCHANGED left
       \/ Kind(s) = "KeyboardInteractive" /\ Goto(s, "prompt") /\ UNCHANGED left
       \/ Kind(s) = "PrivateKey" /\ Goto(s, "passphrase") /\ Try(s, 2)
       \/ Kind(s) = "Agent" /\ Goto(s, "identity") /\ Try(s, MaxAddresses)
    /\ UNCHANGED <<site, key, open, disclosed, file, world>>

(* The server that accepts the password may want nothing more; one that    *)
(* rejects it may be waiting for the second factor.                        *)
AuthenticatePassword(s) ==
    /\ phase[s] = "password" /\ ~joining
    /\ Disclose(s)
    /\ \/ Goto(s, "sftp")
       \/ Kind(s) = "PasswordKeyboardInteractive" /\ Goto(s, "prompt")
    /\ UNCHANGED <<site, key, open, left, file, world>>

KeyboardCallback(s) ==
    /\ phase[s] = "prompt" /\ ~joining
    /\ Disclose(s) /\ phase' \in {[phase EXCEPT ![s] = l] : l \in {"prompt", "sftp"}}
    /\ UNCHANGED <<site, key, open, left, file, world>>

AuthenticatePrivateKey(s) ==
    /\ phase[s] = "passphrase" /\ ~joining
    /\ \/ Goto(s, "sftp") /\ Disclose(s) /\ Try(s, 0)
       \/ left[s] > 1 /\ Try(s, left[s] - 1) /\ UNCHANGED <<phase, disclosed>>
    /\ UNCHANGED <<site, key, open, file, world>>

AuthenticateAgent(s) ==
    /\ phase[s] = "identity" /\ left[s] > 0
    /\ Disclose(s)
    /\ \/ Goto(s, "sftp") /\ Try(s, 0)
       \/ left[s] > 1 /\ Try(s, left[s] - 1) /\ UNCHANGED phase
    /\ UNCHANGED <<site, key, open, file, world>>

StartSftp(s) ==
    /\ phase[s] = "sftp"
    /\ open' = [open EXCEPT ![s] = @ \cup {"sftp"}] /\ Goto(s, "connected")
    /\ UNCHANGED <<site, key, left, disclosed, file, world>>

(* Every wait ends at a timeout or a stop request, also one for the        *)
(* interface thread (InvokeUi), and every failure disconnects.  Only the   *)
(* wait for the mutex does neither.                                        *)
Waiting == {"resolve", "tcp", "handshake", "check", "store", "authenticate", "password",
            "prompt", "passphrase", "identity", "sftp"}

GiveUp(s) ==
    /\ phase[s] \in Waiting \/ (phase[s] = "ask" /\ stopping[s])
    /\ Disconnect(s)
    /\ UNCHANGED <<knownHosts, agreed, trusted, world>>

CloseSession(s) ==
    /\ phase[s] = "connected" /\ Disconnect(s)
    /\ UNCHANGED <<knownHosts, agreed, trusted, world>>

-----------------------------------------------------------------------------
(* The interface thread disconnects a tab: it tells the session's thread   *)
(* to stop and waits for it.                                               *)

StopWorkers(s) ==
    /\ ~joining /\ phase[s] # "closed"
    /\ stopping' = [t \in Sessions |-> t = s \/ OneTab] /\ joining' = TRUE
    /\ UNCHANGED <<served, rotations, knownHosts, mutex, phase, site, left, key, copy, decision,
                   open, agreed, trusted, disclosed>>

Joined ==
    /\ joining /\ \A s \in Sessions : stopping[s] => phase[s] = "closed"
    /\ stopping' = [s \in Sessions |-> FALSE] /\ joining' = FALSE
    /\ UNCHANGED <<served, rotations, knownHosts, mutex, phase, site, left, key, copy, decision,
                   open, agreed, trusted, disclosed>>

RotateKey(h) ==
    /\ rotations < MaxRotations /\ rotations' = rotations + 1
    /\ \E k \in Keys : served' = [served EXCEPT ![h] = k]
    /\ UNCHANGED <<stopping, joining, phase, site, left, key, open, disclosed, file>>

SessionStep(s) ==
    \/ ResolveAddresses(s) \/ ConnectTcp(s) \/ Handshake(s) \/ ReadKnownHosts(s)
    \/ CheckKnownHosts(s) \/ Accept(s) \/ Refuse(s) \/ WriteKnownHosts(s)
    \/ Authenticate(s) \/ AuthenticatePassword(s) \/ KeyboardCallback(s)
    \/ AuthenticatePrivateKey(s) \/ AuthenticateAgent(s) \/ StartSftp(s) \/ GiveUp(s)

Decisions == {"Reject", "AcceptOnce", "AcceptPermanently", "ReplaceStored"}

Next ==
    \/ Joined
    \/ \E h \in Hosts : RotateKey(h)
    \/ \E s \in Sessions :
          \/ SessionStep(s) \/ CloseSession(s) \/ StopWorkers(s)
          \/ \E h \in Hosts, kind \in Kinds : Connect(s, h, kind)
          \/ \E d \in Decisions : AnswerTrust(s, d)

Spec == Init /\ [][Next]_vars

(* Threads run, waits end and sessions poll their stop tokens; nobody has  *)
(* to answer.                                                              *)
FairSpec ==
    /\ Spec /\ WF_vars(Joined)
    /\ \A s \in Sessions :
          /\ WF_vars(SessionStep(s))
          /\ WF_vars(stopping[s] /\ (GiveUp(s) \/ CloseSession(s)))

-----------------------------------------------------------------------------
TypeOK ==
    /\ served \in [Hosts -> Keys] /\ rotations \in 0 .. MaxRotations
    /\ {knownHosts, agreed} \subseteq [Hosts -> Keys \cup {NoKey}]
    /\ mutex \in Sessions \cup {Nobody} /\ joining \in BOOLEAN
    /\ phase \in [Sessions -> Waiting \cup {"closed", "verify", "ask", "decided", "connected"}]
    /\ site \in [Sessions -> [host: Hosts, kind: Kinds \cup {NoSite.kind}]]
    /\ left \in [Sessions -> Nat]
    /\ \A s \in Sessions : left[s] <= MaxAddresses \/ left[s] <= 2
    /\ key \in [Sessions -> Keys \cup {NoKey}] /\ disclosed \in [Sessions -> Keys \cup {NoKey}]
    /\ copy \in [Sessions -> [Hosts -> Keys \cup {NoKey}]]
    /\ decision \in [Sessions -> Decisions]
    /\ open \in [Sessions -> SUBSET {"socket", "session", "sftp"}]
    /\ stopping \in [Sessions -> BOOLEAN]
    /\ trusted \in [Hosts -> SUBSET Keys]

(* A session that is not connected and not connecting holds nothing: no    *)
(* socket, no lock, whatever step it failed in.                            *)
ClosedHoldsNothing ==
    \A s \in Sessions : phase[s] = "closed" => open[s] = {} /\ mutex # s

DisclosedIsTrusted ==
    \A s \in Sessions : disclosed[s] # NoKey => disclosed[s] \in trusted[site[s].host]

(* No password, answer or signature goes to a server whose key the user    *)
(* never accepted for that host, by any way to authenticate; and a session *)
(* that ended or failed holds no socket and no lock (Connect, Disconnect). *)
SecretsFollowTrust == TypeOK /\ ClosedHoldsNothing /\ DisclosedIsTrusted

KnownIsAgreed == knownHosts = agreed

(* A stored key changes only by an answer that replaces it.                *)
OnPurpose ==
    \A h \in Hosts : knownHosts[h] # NoKey /\ knownHosts'[h] # knownHosts[h] =>
        \E s \in Sessions : /\ phase[s] = "store" /\ decision[s] = "ReplaceStored"
                            /\ site[s].host = h

(* What a user stored in known_hosts stays, whatever other sessions read   *)
(* and write at the same time ("silently discard the other's new key"),    *)
(* until an answer replaces it.                                            *)
AcceptedKeysStay == [][KnownIsAgreed' /\ OnPurpose]_vars

(* "waits without blocking cancellation" (UiInteractions): a thread told   *)
(* to stop ends, and the interface thread that joins it goes on.           *)
JoinReturns == joining ~> ~joining
=============================================================================
