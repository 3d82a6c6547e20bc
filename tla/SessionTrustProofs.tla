-------------------------- MODULE SessionTrustProofs --------------------------
(***************************************************************************)
(* Proofs about SftpConnect and FtpConnect for any number of sessions,     *)
(* hosts, keys and certificates.  For SFTP the invariant says what the     *)
(* lock on known_hosts is worth: the copy of the session that holds it is  *)
(* the file.  For FTPS it says where a pin may come from.                  *)
(***************************************************************************)
EXTENDS SftpConnect, FtpConnect, TLAPS

-----------------------------------------------------------------------------
(* SFTP                                                                    *)

Holding == {"check", "ask", "decided", "store"}
Verified == {"authenticate", "password", "prompt", "passphrase", "identity", "sftp", "connected"}

SftpConstants == NoKey \notin Keys /\ Nobody \notin Sessions /\ Keys # {} /\ Hosts # {}

Labels == Waiting \cup {"closed", "verify", "ask", "decided", "connected"}

SftpTyping ==
    /\ served \in [Hosts -> Keys]
    /\ knownHosts \in [Hosts -> Keys \cup {NoKey}] /\ agreed \in [Hosts -> Keys \cup {NoKey}]
    /\ phase \in [Sessions -> Labels]
    /\ site \in [Sessions -> [host: Hosts, kind: Kinds \cup {"Password"}]]
    /\ key \in [Sessions -> Keys \cup {NoKey}]
    /\ copy \in [Sessions -> [Hosts -> Keys \cup {NoKey}]]
    /\ decision \in [Sessions -> Decisions]
    /\ disclosed \in [Sessions -> Keys \cup {NoKey}]
    /\ trusted \in [Hosts -> SUBSET Keys]

(* The lock: who is between reading known_hosts and replacing it holds it, *)
(* and nobody has written since.                                           *)
LockIsHeld == \A s \in Sessions : phase[s] \in Holding => mutex = s /\ copy[s] = knownHosts

(* What is stored was accepted, and who went on beyond verification has a  *)
(* key that was; who is about to store one replaces another on purpose.    *)
StoredIsTrusted == \A h \in Hosts : agreed[h] # NoKey => agreed[h] \in trusted[h]
KeyIsTrusted ==
    \A s \in Sessions :
       /\ phase[s] \in Holding \cup {"verify"} => key[s] \in Keys
       /\ phase[s] = "decided" /\ decision[s] # "Reject" => key[s] \in trusted[site[s].host]
       /\ phase[s] = "store" => key[s] \in trusted[site[s].host]
       /\ phase[s] \in Verified => key[s] \in trusted[site[s].host]
       /\ phase[s] = "closed" => disclosed[s] = NoKey
       /\ phase[s] = "store" => (decision[s] = "ReplaceStored") = (copy[s][site[s].host] # NoKey)

SftpInv ==
    /\ SftpTyping /\ LockIsHeld /\ KnownIsAgreed
    /\ StoredIsTrusted /\ KeyIsTrusted /\ DisclosedIsTrusted

LEMMA SftpInitInv == ASSUME SftpConstants, Init PROVE SftpInv
  <1>1. (CHOOSE k \in Keys : TRUE) \in Keys /\ (CHOOSE h \in Hosts : TRUE) \in Hosts
    BY DEF SftpConstants
  <1>2. SftpTyping
    BY <1>1 DEF Init, SftpTyping, Closed, NoSite, Decisions, Labels
  <1>3. LockIsHeld /\ KnownIsAgreed /\ StoredIsTrusted /\ KeyIsTrusted /\ DisclosedIsTrusted
    BY DEF Init, LockIsHeld, KnownIsAgreed, StoredIsTrusted, KeyIsTrusted, DisclosedIsTrusted,
           Closed, Holding, Verified
  <1> QED BY <1>2, <1>3 DEF SftpInv

(* Between the verification of the host and the end, only the step, what   *)
(* is open and how often it may still try change.                          *)
LEMMA SecretStep ==
    ASSUME NEW s \in Sessions, phase \in [Sessions -> Labels],
           Authenticate(s) \/ AuthenticatePassword(s) \/ KeyboardCallback(s)
           \/ AuthenticatePrivateKey(s) \/ AuthenticateAgent(s) \/ StartSftp(s)
    PROVE  /\ phase[s] \in Verified
           /\ \E l \in Verified : phase' = [phase EXCEPT ![s] = l]
           /\ disclosed' = disclosed \/ disclosed' = [disclosed EXCEPT ![s] = key[s]]
           /\ UNCHANGED <<site, key, file, world>>
  <1>1. CASE Authenticate(s)
    BY <1>1 DEF Authenticate, Goto, Disclose, Verified
  <1>2. CASE AuthenticatePassword(s)
    BY <1>2 DEF AuthenticatePassword, Goto, Disclose, Verified
  <1>3. CASE KeyboardCallback(s)
    BY <1>3 DEF KeyboardCallback, Disclose, Verified
  <1>4. CASE AuthenticatePrivateKey(s)
    <2>1. /\ phase[s] \in Verified
          /\ UNCHANGED <<site, key, file, world>>
          /\ disclosed' = disclosed \/ disclosed' = [disclosed EXCEPT ![s] = key[s]]
      BY <1>4 DEF AuthenticatePrivateKey, Disclose, Verified
    <2>2. CASE Goto(s, "sftp") BY <2>1, <2>2 DEF Goto, Disclose, Verified
    <2>3. CASE UNCHANGED phase BY <2>1, <2>3 DEF Verified
    <2> QED BY <1>4, <2>2, <2>3 DEF AuthenticatePrivateKey
  <1>5. CASE AuthenticateAgent(s)
    <2>1. /\ phase[s] \in Verified
          /\ UNCHANGED <<site, key, file, world>>
          /\ disclosed' = disclosed \/ disclosed' = [disclosed EXCEPT ![s] = key[s]]
      BY <1>5 DEF AuthenticateAgent, Disclose, Verified
    <2>2. CASE Goto(s, "sftp") BY <2>1, <2>2 DEF Goto, Disclose, Verified
    <2>3. CASE UNCHANGED phase BY <2>1, <2>3 DEF Verified
    <2> QED BY <1>5, <2>2, <2>3 DEF AuthenticateAgent
  <1>6. CASE StartSftp(s)
    BY <1>6 DEF StartSftp, Goto, Disclose, Verified
  <1> QED BY <1>1, <1>2, <1>3, <1>4, <1>5, <1>6

LEMMA SftpTypingStep == ASSUME SftpConstants, SftpTyping, KeyIsTrusted, [Next]_vars PROVE SftpTyping'
  <1> USE DEF SftpTyping, Goto, Labels, Waiting
  <1>1. Closed \in [Hosts -> Keys \cup {NoKey}] /\ NoSite \in [host: Hosts, kind: Kinds \cup {"Password"}]
    BY DEF Closed, NoSite, SftpConstants
  <1>2. ASSUME NEW s \in Sessions, Disconnect(s), UNCHANGED <<knownHosts, agreed, trusted, world>>
        PROVE  SftpTyping'
    BY <1>1, <1>2 DEF Disconnect, world, Decisions
  <1>3. ASSUME NEW s \in Sessions, NEW h \in Hosts, NEW kind \in Kinds, Connect(s, h, kind) PROVE SftpTyping'
    BY <1>3 DEF Connect, file, world
  <1>4. ASSUME NEW s \in Sessions, ResolveAddresses(s) PROVE SftpTyping'
    BY <1>4 DEF ResolveAddresses, file, world
  <1>5. ASSUME NEW s \in Sessions, ConnectTcp(s) PROVE SftpTyping'
    BY <1>5 DEF ConnectTcp, file, world
  <1>6. ASSUME NEW s \in Sessions, Handshake(s) PROVE SftpTyping'
    BY <1>6 DEF Handshake, file, world
  <1>7. ASSUME NEW s \in Sessions, ReadKnownHosts(s) PROVE SftpTyping'
    BY <1>7 DEF ReadKnownHosts, world
  <1>8. ASSUME NEW s \in Sessions, CheckKnownHosts(s) PROVE SftpTyping'
    <2>1. /\ copy' = copy \/ copy' = [copy EXCEPT ![s] = Closed]
          /\ phase' = [phase EXCEPT ![s] = "authenticate"] \/ phase' = [phase EXCEPT ![s] = "ask"]
      BY <1>8 DEF CheckKnownHosts
    <2>2. copy' \in [Sessions -> [Hosts -> Keys \cup {NoKey}]]
      <3>1. CASE copy' = copy BY <3>1
      <3>2. CASE copy' = [copy EXCEPT ![s] = Closed] BY <1>1, <3>2
      <3> QED BY <2>1, <3>1, <3>2
    <2>4. phase' \in [Sessions -> Labels]
      BY <2>1
    <2> QED BY <1>8, <2>2, <2>4 DEF CheckKnownHosts, world
  <1>9. ASSUME NEW s \in Sessions, NEW d \in Decisions, AnswerTrust(s, d) PROVE SftpTyping'
    BY <1>9 DEF AnswerTrust, KeyIsTrusted, Holding, world
  <1>10. ASSUME NEW s \in Sessions, Accept(s) PROVE SftpTyping'
    <2>1. /\ copy' = copy \/ copy' = [copy EXCEPT ![s] = Closed]
          /\ decision' = decision \/ decision' = [decision EXCEPT ![s] = "Reject"]
          /\ phase' = [phase EXCEPT ![s] = "authenticate"] \/ phase' = [phase EXCEPT ![s] = "store"]
      BY <1>10 DEF Accept
    <2>2. copy' \in [Sessions -> [Hosts -> Keys \cup {NoKey}]]
      <3>1. CASE copy' = copy BY <3>1
      <3>2. CASE copy' = [copy EXCEPT ![s] = Closed] BY <1>1, <3>2
      <3> QED BY <2>1, <3>1, <3>2
    <2>4. phase' \in [Sessions -> Labels]
      BY <2>1
    <2>3. decision' \in [Sessions -> Decisions]
      BY <2>1 DEF Decisions
    <2> QED BY <1>10, <2>2, <2>3, <2>4 DEF Accept, world
  <1>11. ASSUME NEW s \in Sessions, WriteKnownHosts(s) PROVE SftpTyping'
    <2>1. /\ knownHosts' = [copy[s] EXCEPT ![site[s].host] = key[s]]
          /\ agreed' = [agreed EXCEPT ![site[s].host] = key[s]]
      BY <1>11 DEF WriteKnownHosts
    <2>2. /\ knownHosts' \in [Hosts -> Keys \cup {NoKey}]
          /\ agreed' \in [Hosts -> Keys \cup {NoKey}]
      BY <2>1
    <2>3. trusted' = trusted /\ served' = served
      BY <1>11 DEF WriteKnownHosts, world
    <2>4. CASE Disconnect(s)
      <3>1. /\ phase' = [phase EXCEPT ![s] = "closed"] /\ key' = [key EXCEPT ![s] = NoKey]
            /\ copy' = [copy EXCEPT ![s] = Closed] /\ decision' = [decision EXCEPT ![s] = "Reject"]
            /\ disclosed' = [disclosed EXCEPT ![s] = NoKey] /\ site' = [site EXCEPT ![s] = NoSite]
        BY <2>4 DEF Disconnect
      <3>2. /\ copy' \in [Sessions -> [Hosts -> Keys \cup {NoKey}]]
            /\ site' \in [Sessions -> [host: Hosts, kind: Kinds \cup {"Password"}]]
        BY <1>1, <3>1
      <3>3. decision' \in [Sessions -> Decisions]
        BY <3>1 DEF Decisions
      <3> QED BY <2>2, <2>3, <3>1, <3>2, <3>3
    <2>5. CASE ~Disconnect(s)
      <3>1. /\ phase' = [phase EXCEPT ![s] = "authenticate"] /\ key' = key /\ disclosed' = disclosed
            /\ copy' = [copy EXCEPT ![s] = Closed] /\ decision' = [decision EXCEPT ![s] = "Reject"]
            /\ site' = site
        BY <1>11, <2>5 DEF WriteKnownHosts
      <3>2. copy' \in [Sessions -> [Hosts -> Keys \cup {NoKey}]]
        BY <1>1, <3>1
      <3>3. decision' \in [Sessions -> Decisions]
        BY <3>1 DEF Decisions
      <3> QED BY <2>2, <2>3, <3>1, <3>2, <3>3
    <2> QED BY <2>4, <2>5
  <1>12. ASSUME NEW s \in Sessions,
                Authenticate(s) \/ AuthenticatePassword(s) \/ KeyboardCallback(s)
                \/ AuthenticatePrivateKey(s) \/ AuthenticateAgent(s) \/ StartSftp(s)
         PROVE  SftpTyping'
    <2>1. /\ \E l \in Labels : phase' = [phase EXCEPT ![s] = l] \/ phase' = phase
          /\ disclosed' = disclosed \/ disclosed' = [disclosed EXCEPT ![s] = key[s]]
          /\ UNCHANGED <<served, knownHosts, agreed, site, key, copy, decision, trusted>>
      BY <1>12, SecretStep DEF SftpTyping, Labels, Verified, Waiting, file, world
    <2>2. phase' \in [Sessions -> Labels]
      BY <2>1
    <2>3. disclosed' \in [Sessions -> Keys \cup {NoKey}]
      BY <2>1
    <2> QED BY <2>1, <2>2, <2>3
  <1>13. ASSUME (\E s \in Sessions : StopWorkers(s)) \/ Joined PROVE SftpTyping'
    BY <1>13 DEF StopWorkers, Joined
  <1>14. ASSUME NEW h \in Hosts, RotateKey(h) PROVE SftpTyping'
    BY <1>14 DEF RotateKey, file
  <1>15. ASSUME NEW s \in Sessions, SessionStep(s) \/ CloseSession(s) PROVE SftpTyping'
    <2>1. CASE GiveUp(s) \/ CloseSession(s) \/ Refuse(s)
      BY ONLY <1>2, <2>1 DEF GiveUp, CloseSession, Refuse
    <2> QED
      BY ONLY <1>4, <1>5, <1>6, <1>7, <1>8, <1>10, <1>11, <1>12, <1>15, <2>1 DEF SessionStep
  <1>16. CASE UNCHANGED vars
    BY <1>16 DEF vars
  <1> HIDE DEF SftpTyping
  <1> QED
    BY ONLY <1>3, <1>9, <1>13, <1>14, <1>15, <1>16, [Next]_vars DEF Next


-----------------------------------------------------------------------------
(* What a step of one session means for the others                         *)

(* Only s moves; the file stays as it is, and the lock is s's to take or   *)
(* to release.                                                             *)
Moves(s) ==
    /\ \A t \in Sessions : t # s =>
          /\ phase'[t] = phase[t] /\ key'[t] = key[t] /\ site'[t] = site[t] /\ copy'[t] = copy[t]
          /\ decision'[t] = decision[t] /\ disclosed'[t] = disclosed[t]
    /\ knownHosts' = knownHosts /\ agreed' = agreed
    /\ \A h \in Hosts : trusted[h] \subseteq trusted'[h]
    /\ mutex' = mutex \/ mutex = s \/ mutex = Nobody

(* What the invariant asks of s itself after the step.                     *)
Sound(s) ==
    /\ phase'[s] \in Holding => mutex' = s /\ copy'[s] = knownHosts
    /\ phase'[s] \in Holding \cup {"verify"} => key'[s] \in Keys
    /\ phase'[s] = "decided" /\ decision'[s] # "Reject" => key'[s] \in trusted'[site'[s].host]
    /\ phase'[s] \in Verified \cup {"store"} => key'[s] \in trusted'[site'[s].host]
    /\ phase'[s] = "closed" => disclosed'[s] = NoKey
    /\ phase'[s] = "store" =>
          (decision'[s] = "ReplaceStored") = (copy'[s][site'[s].host] # NoKey)
    /\ disclosed'[s] # NoKey => disclosed'[s] \in trusted'[site'[s].host]

LEMMA MovesKeeps ==
    ASSUME SftpConstants, SftpInv, SftpTyping', NEW s \in Sessions, Moves(s), Sound(s)
    PROVE  SftpInv'
  <1> USE DEF SftpInv, Moves, Sound
  <1>1. LockIsHeld'
    BY DEF LockIsHeld, SftpConstants
  <1>2. KnownIsAgreed'
    BY DEF KnownIsAgreed
  <1>3. StoredIsTrusted'
    BY DEF StoredIsTrusted
  <1>4. \A t \in Sessions : site[t].host \in Hosts
    BY DEF SftpTyping
  <1>5. KeyIsTrusted'
    BY <1>4 DEF KeyIsTrusted
  <1>6. DisclosedIsTrusted'
    BY <1>4 DEF DisclosedIsTrusted
  <1> QED BY <1>1, <1>2, <1>3, <1>5, <1>6

LEMMA SftpInvStep == ASSUME SftpConstants, SftpInv, [Next]_vars PROVE SftpInv'
  <1>1. SftpTyping'
    BY SftpTypingStep DEF SftpInv
  <1>2. SUFFICES ASSUME NEW s \in Sessions, ~WriteKnownHosts(s),
                        \/ SessionStep(s) \/ CloseSession(s)
                        \/ \E h \in Hosts, kind \in Kinds : Connect(s, h, kind)
                        \/ \E d \in Decisions : AnswerTrust(s, d)
                 PROVE  Moves(s) /\ Sound(s)
    <2>1. ASSUME NEW s \in Sessions, WriteKnownHosts(s) PROVE SftpInv'
      <3>1. /\ phase[s] = "store" /\ mutex = s /\ copy[s] = knownHosts /\ knownHosts = agreed
            /\ key[s] \in trusted[site[s].host]
        BY <2>1 DEF WriteKnownHosts, SftpInv, LockIsHeld, Holding, KnownIsAgreed, KeyIsTrusted
      <3>2. KnownIsAgreed'
        BY <2>1, <3>1 DEF WriteKnownHosts, KnownIsAgreed
      <3>3. LockIsHeld'
        BY <2>1, <3>1 DEF WriteKnownHosts, Disconnect, Goto, SftpInv, SftpTyping, LockIsHeld, Holding
      <3>4. StoredIsTrusted'
        BY <2>1, <3>1 DEF WriteKnownHosts, StoredIsTrusted, SftpInv, SftpTyping
      <3>5. \A t \in Sessions : t # s =>
               /\ phase'[t] = phase[t] /\ key'[t] = key[t] /\ site'[t] = site[t]
               /\ decision'[t] = decision[t] /\ disclosed'[t] = disclosed[t]
               /\ copy'[t] = copy[t]
        <4>1. /\ SftpTyping
              /\ \/ phase' = [phase EXCEPT ![s] = "authenticate"] \/ phase' = [phase EXCEPT ![s] = "closed"]
              /\ key' = key \/ key' = [key EXCEPT ![s] = NoKey]
              /\ site' = site \/ site' = [site EXCEPT ![s] = NoSite]
              /\ decision' = [decision EXCEPT ![s] = "Reject"]
              /\ copy' = [copy EXCEPT ![s] = Closed]
              /\ disclosed' = disclosed \/ disclosed' = [disclosed EXCEPT ![s] = NoKey]
          BY <2>1 DEF WriteKnownHosts, Disconnect, Goto, SftpInv
        <4>2. ASSUME NEW t \in Sessions, t # s
              PROVE  /\ phase'[t] = phase[t] /\ key'[t] = key[t] /\ site'[t] = site[t]
                     /\ decision'[t] = decision[t] /\ disclosed'[t] = disclosed[t]
                     /\ copy'[t] = copy[t]
          <5>1. phase'[t] = phase[t] BY <4>1, <4>2 DEF SftpTyping
          <5>2. key'[t] = key[t] BY <4>1, <4>2 DEF SftpTyping
          <5>3. site'[t] = site[t] BY <4>1, <4>2 DEF SftpTyping
          <5>4. decision'[t] = decision[t] BY <4>1, <4>2 DEF SftpTyping
          <5>5. disclosed'[t] = disclosed[t] BY <4>1, <4>2 DEF SftpTyping
          <5>6. copy'[t] = copy[t] BY <4>1, <4>2 DEF SftpTyping
          <5> QED BY <5>1, <5>2, <5>3, <5>4, <5>5, <5>6
        <4> QED BY <4>2
      <3>6. /\ trusted' = trusted
            /\ \/ phase'[s] = "closed" /\ disclosed'[s] = NoKey
               \/ phase'[s] = "authenticate" /\ disclosed' = disclosed /\ key' = key /\ site' = site
        <4>1. DOMAIN phase = Sessions /\ DOMAIN disclosed = Sessions
          BY DEF SftpInv, SftpTyping
        <4>2. CASE Disconnect(s)
          BY <2>1, <4>1, <4>2 DEF WriteKnownHosts, Disconnect, Goto
        <4>3. CASE ~Disconnect(s)
          BY <2>1, <4>1, <4>3 DEF WriteKnownHosts, Goto
        <4> QED BY <4>2, <4>3
      <3>7. KeyIsTrusted'
        BY <3>1, <3>5, <3>6 DEF KeyIsTrusted, Holding, Verified, SftpInv
      <3>8. DisclosedIsTrusted'
        BY <3>5, <3>6 DEF DisclosedIsTrusted, SftpInv
      <3> QED BY <1>1, <3>2, <3>3, <3>4, <3>7, <3>8 DEF SftpInv
    <2>2. ASSUME UNCHANGED <<knownHosts, agreed, trusted, phase, site, key, copy, decision,
                             disclosed, mutex>>
          PROVE  SftpInv'
      BY <1>1, <2>2 DEF SftpInv, LockIsHeld, KnownIsAgreed, StoredIsTrusted, KeyIsTrusted,
                        DisclosedIsTrusted
    <2>3. ASSUME Joined \/ (\E h \in Hosts : RotateKey(h)) \/ (\E s \in Sessions : StopWorkers(s))
                 \/ UNCHANGED vars
          PROVE  SftpInv'
      BY <2>2, <2>3 DEF Joined, RotateKey, StopWorkers, vars, file
    <2> QED
      BY <1>1, <1>2, <2>1, <2>3, MovesKeeps DEF Next
  <1> DEFINE host == site[s].host
  <1>3. /\ SftpTyping /\ host \in Hosts
        /\ phase[s] \in Holding => mutex = s /\ copy[s] = knownHosts
        /\ phase[s] \in Holding \cup {"verify"} => key[s] \in Keys
        /\ phase[s] = "decided" /\ decision[s] # "Reject" => key[s] \in trusted[host]
        /\ phase[s] \in Verified \cup {"store"} => key[s] \in trusted[host]
        /\ phase[s] = "closed" => disclosed[s] = NoKey
        /\ phase[s] = "store" => (decision[s] = "ReplaceStored") = (copy[s][host] # NoKey)
        /\ disclosed[s] # NoKey => disclosed[s] \in trusted[host]
    BY DEF SftpInv, SftpTyping, LockIsHeld, KeyIsTrusted, DisclosedIsTrusted
  <1>4. /\ phase \in [Sessions -> Labels] /\ site \in [Sessions -> [host: Hosts, kind: Kinds \cup {"Password"}]]
        /\ DOMAIN key = Sessions /\ DOMAIN copy = Sessions /\ DOMAIN decision = Sessions
        /\ DOMAIN disclosed = Sessions /\ DOMAIN trusted = Hosts
        /\ served \in [Hosts -> Keys]
    BY <1>3 DEF SftpTyping
  <1> HIDE DEF host
  <1>5. CASE Disconnect(s) /\ UNCHANGED <<knownHosts, agreed, trusted, world>>
    BY <1>4, <1>5 DEF Disconnect, Goto, Moves, Sound, Holding, Verified
  <1>6. CASE GiveUp(s) \/ CloseSession(s) \/ Refuse(s)
    BY <1>5, <1>6 DEF GiveUp, CloseSession, Refuse
  <1>7. ASSUME NEW h \in Hosts, NEW kind \in Kinds, Connect(s, h, kind) PROVE Moves(s) /\ Sound(s)
    <2>1. /\ phase[s] = "closed" /\ phase' = [phase EXCEPT ![s] = "resolve"]
          /\ site' = [site EXCEPT ![s] = [host |-> h, kind |-> kind]]
          /\ UNCHANGED <<key, disclosed, knownHosts, mutex, copy, decision, agreed, trusted>>
      BY <1>7 DEF Connect, Goto, file
    <2> QED BY <1>3, <1>4, <2>1 DEF Moves, Sound, Holding, Verified
  <1>8. CASE ResolveAddresses(s) \/ ConnectTcp(s)
    BY <1>3, <1>4, <1>8 DEF ResolveAddresses, ConnectTcp, Goto, Moves, Sound, Holding, Verified, file, host
  <1>9. CASE Handshake(s)
    BY <1>3, <1>4, <1>9 DEF Handshake, Goto, Moves, Sound, Holding, Verified, file, host
  <1>10. CASE ReadKnownHosts(s)
    BY <1>3, <1>4, <1>10 DEF ReadKnownHosts, Goto, Moves, Sound, Holding, Verified, host
  <1>11. CASE CheckKnownHosts(s)
    <2>1. /\ phase[s] = "check"
          /\ UNCHANGED <<site, key, disclosed, knownHosts, decision, agreed, trusted>>
          /\ \/ /\ phase' = [phase EXCEPT ![s] = "authenticate"] /\ Stored(s) = key[s]
                /\ mutex' = Nobody /\ copy' = [copy EXCEPT ![s] = Closed]
             \/ /\ phase' = [phase EXCEPT ![s] = "ask"] /\ UNCHANGED <<mutex, copy>>
      BY <1>11 DEF CheckKnownHosts, Goto
    <2>2. Stored(s) # NoKey => Stored(s) \in trusted[host]
      BY <1>3, <2>1 DEF SftpInv, KnownIsAgreed, StoredIsTrusted, Stored, Holding, host
    <2> QED BY <1>3, <1>4, <2>1, <2>2 DEF Moves, Sound, Holding, Verified, host, SftpConstants
  <1>12. ASSUME NEW d \in Decisions, AnswerTrust(s, d) PROVE Moves(s) /\ Sound(s)
    BY <1>3, <1>4, <1>12 DEF AnswerTrust, Goto, Moves, Sound, Holding, Verified, host
  <1>13. CASE Accept(s)
    <2>1. /\ phase[s] = "decided" /\ decision[s] # "Reject"
          /\ (decision[s] = "ReplaceStored") = (copy[s][host] # NoKey)
          /\ UNCHANGED <<site, key, disclosed, knownHosts, agreed, trusted>>
          /\ \/ /\ phase' = [phase EXCEPT ![s] = "authenticate"] /\ mutex' = Nobody
                /\ copy' = [copy EXCEPT ![s] = Closed]
                /\ decision' = [decision EXCEPT ![s] = "Reject"]
             \/ /\ phase' = [phase EXCEPT ![s] = "store"] /\ UNCHANGED <<mutex, copy, decision>>
      BY <1>13 DEF Accept, Allowed, Stored, Goto, host
    <2> QED BY <1>3, <1>4, <2>1 DEF Moves, Sound, Holding, Verified, host
  <1>14. CASE Authenticate(s) \/ AuthenticatePassword(s) \/ KeyboardCallback(s)
              \/ AuthenticatePrivateKey(s) \/ AuthenticateAgent(s) \/ StartSftp(s)
    <2>1. /\ phase[s] \in Verified
          /\ \E l \in Verified : phase' = [phase EXCEPT ![s] = l]
          /\ disclosed' = disclosed \/ disclosed' = [disclosed EXCEPT ![s] = key[s]]
          /\ UNCHANGED <<knownHosts, agreed, site, key, copy, decision, trusted, mutex>>
      BY <1>4, <1>14, SecretStep DEF file
    <2> QED
      BY <1>3, <1>4, <2>1 DEF Moves, Sound, Holding, Verified, host
  <1> QED
    BY <1>2, <1>6, <1>7, <1>8, <1>9, <1>10, <1>11, <1>12, <1>13, <1>14 DEF SessionStep

LEMMA SftpInvariance == ASSUME SftpConstants PROVE Spec => []SftpInv
  <1>1. Init => SftpInv
    BY SftpInitInv
  <1>2. SftpInv /\ [Next]_vars => SftpInv'
    BY SftpInvStep
  <1> QED BY <1>1, <1>2, PTL DEF Spec

(* The rest of the types, and what a closed session has let go.            *)
SftpRest ==
    /\ rotations \in 0 .. MaxRotations /\ joining \in BOOLEAN
    /\ mutex \in Sessions \cup {Nobody}
    /\ left \in [Sessions -> Nat] /\ \A s \in Sessions : left[s] <= MaxAddresses \/ left[s] <= 2
    /\ open \in [Sessions -> SUBSET {"socket", "session", "sftp"}]
    /\ stopping \in [Sessions -> BOOLEAN]
    /\ \A s \in Sessions : mutex = s => phase[s] \in Holding
    /\ \A s \in Sessions : phase[s] = "closed" => open[s] = {}

Bounds == MaxAddresses \in Nat /\ MaxRotations \in Nat
          /\ Kinds \subseteq {"Password", "PrivateKey", "Agent", "KeyboardInteractive",
                              "PasswordKeyboardInteractive"}

LEMMA SftpRestInit == ASSUME SftpConstants, Bounds, Init PROVE SftpRest
  <1>1. rotations = 0 /\ joining = FALSE /\ mutex = Nobody
    BY DEF Init
  <1>2. left \in [Sessions -> Nat] /\ \A s \in Sessions : left[s] <= MaxAddresses \/ left[s] <= 2
    BY DEF Init
  <1>3. /\ open \in [Sessions -> SUBSET {"socket", "session", "sftp"}]
        /\ \A s \in Sessions : open[s] = {}
    BY DEF Init
  <1>4. stopping \in [Sessions -> BOOLEAN]
    BY DEF Init
  <1>5. \A s \in Sessions : mutex # s
    BY DEF Init, SftpConstants
  <1>6. rotations \in 0 .. MaxRotations
    BY <1>1 DEF Bounds
  <1> QED BY <1>1, <1>2, <1>3, <1>4, <1>5, <1>6 DEF SftpRest

LEMMA SftpRestStep ==
    ASSUME SftpConstants, Bounds, SftpTyping, SftpRest, [Next]_vars
    PROVE  SftpRest'
  <1> USE DEF SftpRest, Bounds, Goto, Try
  <1>1. /\ phase \in [Sessions -> Labels] /\ DOMAIN phase = Sessions /\ Nobody \notin Sessions
    BY DEF SftpTyping, SftpConstants
  <1>2. CASE UNCHANGED vars \/ Joined \/ (\E h \in Hosts : RotateKey(h)) \/ (\E s \in Sessions : StopWorkers(s))
    <2>1. UNCHANGED <<mutex, phase, left, open>>
      BY <1>2 DEF vars, Joined, RotateKey, StopWorkers, file
    <2>2. rotations' \in 0 .. MaxRotations
      BY <1>2 DEF vars, Joined, RotateKey, StopWorkers
    <2>3. joining' \in BOOLEAN
      BY <1>2 DEF vars, Joined, RotateKey, StopWorkers
    <2>4. stopping' \in [Sessions -> BOOLEAN]
      <3>1. CASE \E s \in Sessions : StopWorkers(s)
        <4>1. PICK s \in Sessions : stopping' = [t \in Sessions |-> t = s \/ OneTab]
          BY <3>1 DEF StopWorkers
        <4>2. \A t \in Sessions : (t = s \/ OneTab) \in BOOLEAN
          BY Zenon
        <4> QED BY <4>1, <4>2, Zenon
      <3> QED BY <1>2, <3>1 DEF vars, Joined, RotateKey
    <2> QED BY <2>1, <2>2, <2>3, <2>4
  <1>3. ASSUME NEW s \in Sessions, Disconnect(s), UNCHANGED <<rotations, joining, stopping>>
        PROVE  SftpRest'
    BY <1>1, <1>3 DEF Disconnect, Holding
  <1>4. ASSUME NEW s \in Sessions, GiveUp(s) \/ CloseSession(s) \/ Refuse(s) PROVE SftpRest'
    BY <1>3, <1>4 DEF GiveUp, CloseSession, Refuse, world
  <1>5. ASSUME NEW s \in Sessions, NEW h \in Hosts, NEW kind \in Kinds, Connect(s, h, kind) PROVE SftpRest'
    BY <1>1, <1>5 DEF Connect, file, world, Holding
  <1>6. ASSUME NEW s \in Sessions, ResolveAddresses(s) PROVE SftpRest'
    BY <1>1, <1>6 DEF ResolveAddresses, file, world, Holding
  <1>7. ASSUME NEW s \in Sessions, ConnectTcp(s) PROVE SftpRest'
    <2>1. CASE phase' = [phase EXCEPT ![s] = "handshake"] /\ left' = [left EXCEPT ![s] = 0]
               /\ open' = [open EXCEPT ![s] = {"socket"}]
      BY <1>1, <1>7, <2>1 DEF ConnectTcp, file, world, Holding
    <2>2. CASE left[s] > 1 /\ left' = [left EXCEPT ![s] = left[s] - 1] /\ UNCHANGED <<phase, open>>
      BY <1>1, <1>7, <2>2 DEF ConnectTcp, file, world
    <2> QED BY <1>7, <2>1, <2>2 DEF ConnectTcp
  <1>8. ASSUME NEW s \in Sessions, Handshake(s) PROVE SftpRest'
    BY <1>1, <1>8 DEF Handshake, file, world, Holding
  <1>9. ASSUME NEW s \in Sessions, ReadKnownHosts(s) PROVE SftpRest'
    BY <1>1, <1>9 DEF ReadKnownHosts, world, Holding
  <1>10. ASSUME NEW s \in Sessions, CheckKnownHosts(s) PROVE SftpRest'
    BY <1>1, <1>10 DEF CheckKnownHosts, world, Holding
  <1>11. ASSUME NEW s \in Sessions, NEW d \in Decisions, AnswerTrust(s, d) PROVE SftpRest'
    BY <1>1, <1>11 DEF AnswerTrust, world, Holding
  <1>12. ASSUME NEW s \in Sessions, Accept(s) PROVE SftpRest'
    BY <1>1, <1>12 DEF Accept, world, Holding
  <1>13. ASSUME NEW s \in Sessions, WriteKnownHosts(s) PROVE SftpRest'
    <2>1. CASE Disconnect(s)
      BY <1>3, <1>13, <2>1 DEF WriteKnownHosts, world
    <2>2. CASE ~Disconnect(s)
      <3>1. /\ phase' = [phase EXCEPT ![s] = "authenticate"] /\ mutex' = Nobody
            /\ UNCHANGED <<open, left, rotations, joining, stopping>>
        BY <1>13, <2>2 DEF WriteKnownHosts, world
      <3> QED BY <1>1, <3>1 DEF Holding
    <2> QED BY <2>1, <2>2
  <1>14. ASSUME NEW s \in Sessions,
                Authenticate(s) \/ AuthenticatePassword(s) \/ KeyboardCallback(s)
                \/ AuthenticatePrivateKey(s) \/ AuthenticateAgent(s) \/ StartSftp(s)
         PROVE  SftpRest'
    <2>1. /\ phase[s] \in Verified
          /\ \E l \in Verified : phase' = [phase EXCEPT ![s] = l]
          /\ UNCHANGED <<rotations, joining, stopping, mutex>>
      BY <1>1, <1>14, SecretStep DEF file, world
    <2>2. open' = open \/ open' = [open EXCEPT ![s] = @ \cup {"sftp"}]
      BY <1>14 DEF Authenticate, AuthenticatePassword, KeyboardCallback,
           AuthenticatePrivateKey, AuthenticateAgent, StartSftp
    <2>3. \/ left' = left
          \/ \E n \in {0, 2, MaxAddresses} : left' = [left EXCEPT ![s] = n]
          \/ left[s] > 1 /\ left' = [left EXCEPT ![s] = left[s] - 1]
      BY <1>14 DEF Authenticate, AuthenticatePassword, KeyboardCallback,
           AuthenticatePrivateKey, AuthenticateAgent, StartSftp
    <2>4. left' \in [Sessions -> Nat] /\ \A t \in Sessions : left'[t] <= MaxAddresses \/ left'[t] <= 2
      <3>1. CASE left' = left BY <3>1
      <3>2. ASSUME NEW n \in {0, 2, MaxAddresses}, left' = [left EXCEPT ![s] = n]
            PROVE  left' \in [Sessions -> Nat] /\ \A t \in Sessions : left'[t] <= MaxAddresses \/ left'[t] <= 2
        BY <3>2
      <3>3. CASE left[s] > 1 /\ left' = [left EXCEPT ![s] = left[s] - 1] BY <3>3
      <3> QED BY <2>3, <3>1, <3>2, <3>3
    <2>5. open' \in [Sessions -> SUBSET {"socket", "session", "sftp"}]
      BY <2>2
    <2>6. \A t \in Sessions : phase'[t] = "closed" => open'[t] = {}
      BY <1>1, <2>1, <2>2 DEF Verified
    <2>7. \A t \in Sessions : mutex' = t => phase'[t] \in Holding
      BY <1>1, <2>1 DEF Verified, Holding
    <2> QED BY <2>1, <2>4, <2>5, <2>6, <2>7
  <1> QED
    BY <1>2, <1>4, <1>5, <1>6, <1>7, <1>8, <1>9, <1>10, <1>11, <1>12, <1>13, <1>14
    DEF Next, SessionStep

(* What a user stored stays stored: no session of any number overwrites a  *)
(* key another one wrote, and a stored key changes only by an answer that  *)
(* replaces it (KnownHostsUpdateMutex in VerifyHost: the answer is judged  *)
(* by the copy, which the lock keeps equal to the file).                   *)
THEOREM StoredKeysStay == ASSUME SftpConstants PROVE Spec => AcceptedKeysStay
  <1>1. ASSUME SftpInv, SftpInv', [Next]_vars PROVE [KnownIsAgreed' /\ OnPurpose]_vars
    <2>1. SUFFICES ASSUME NEW h \in Hosts, knownHosts[h] # NoKey, knownHosts'[h] # knownHosts[h]
                   PROVE  \E s \in Sessions : /\ phase[s] = "store" /\ site[s].host = h
                                              /\ decision[s] = "ReplaceStored"
      BY <1>1 DEF OnPurpose, SftpInv
    <2>2. PICK s \in Sessions : WriteKnownHosts(s)
      BY <1>1, <2>1 DEF Next, SessionStep, Joined, RotateKey, StopWorkers, CloseSession, Connect,
           AnswerTrust, ResolveAddresses, ConnectTcp, Handshake, ReadKnownHosts, CheckKnownHosts,
           Accept, Refuse, Authenticate, AuthenticatePassword, KeyboardCallback,
           AuthenticatePrivateKey, AuthenticateAgent, StartSftp, GiveUp, file, vars
    <2>3. phase[s] = "store" /\ copy[s] = knownHosts
      BY <1>1, <2>2 DEF WriteKnownHosts, SftpInv, LockIsHeld, Holding
    <2>4. site[s].host = h
      BY <1>1, <2>1, <2>2, <2>3 DEF WriteKnownHosts, SftpInv, SftpTyping
    <2> QED BY <1>1, <2>1, <2>3, <2>4 DEF SftpInv, KeyIsTrusted
  <1> QED BY <1>1, SftpInvariance, PTL DEF AcceptedKeysStay, Spec

(* No secret goes to a server whose key the user never accepted for that   *)
(* host, by any of the ways Authenticate has, and a session that is closed *)
(* holds no socket and no lock (Disconnect, the guard in VerifyHost).      *)
THEOREM SecretsAreTrusted == ASSUME SftpConstants, Bounds PROVE Spec => []SecretsFollowTrust
  <1>1. SftpInv /\ SftpRest => SecretsFollowTrust
    <2>1. SftpInv /\ SftpRest => ClosedHoldsNothing
      BY DEF SftpInv, SftpRest, ClosedHoldsNothing, Holding
    <2>2. SftpInv /\ SftpRest => TypeOK
      BY DEF SftpInv, SftpTyping, SftpRest, TypeOK, Labels, NoSite
    <2> QED BY <2>1, <2>2 DEF SecretsFollowTrust, SftpInv
  <1>2. Init => SftpRest
    BY SftpRestInit
  <1>3. SftpInv /\ SftpRest /\ [Next]_vars => SftpRest'
    BY SftpRestStep DEF SftpInv
  <1> QED BY <1>1, <1>2, <1>3, SftpInvariance, PTL DEF Spec

-----------------------------------------------------------------------------
(* FTPS                                                                    *)

FtpConstants == NoPin \notin Certificates /\ MaxChanges \in Nat

Steps == {"closed", "verify", "pin", "identify", "ask", "decided", "recheck", "ready", "login",
          "connected"}
Pins == Certificates \cup {NoPin}
Session ==
    [step: Steps, active: Pins, normally: BOOLEAN, identity: Pins, decision: TlsDecisions,
     password: BOOLEAN]

(* What one session may hold when acc was accepted: a pin in force was     *)
(* accepted, and so was an identity it is about to adopt.                  *)
Trustworthy(session, acc) ==
    /\ session \in Session
    /\ session.active \in acc \cup {NoPin}
    /\ session.step = "decided" /\ session.decision # "Reject" => session.identity \in acc
    /\ session.step = "recheck" => session.identity \in acc
    /\ session.step = "ask" => session.identity \in Certificates

Followed == passwordTo \subseteq TrustedRoot \cup accepted

FtpInv ==
    /\ presented \in Certificates /\ accepted \subseteq Certificates
    /\ changes \in 0 .. MaxChanges /\ passwordTo \subseteq Certificates
    /\ storedPin \in accepted \cup {NoPin} /\ callerPin \in accepted \cup {NoPin}
    /\ ses \in [FtpSessions -> Session]
    /\ \A s \in FtpSessions : Trustworthy(ses[s], accepted)
    /\ Followed

LEMMA ClosedIsTrustworthy == ASSUME NEW acc PROVE Trustworthy(ClosedFtp, acc)
  BY DEF Trustworthy, ClosedFtp, Session, Steps, Pins, TlsDecisions

(* More acceptance takes nothing away.                                     *)
LEMMA AcceptanceGrows ==
    ASSUME NEW session, NEW acc, NEW more, acc \subseteq more, Trustworthy(session, acc)
    PROVE  Trustworthy(session, more)
  BY DEF Trustworthy

(* A session that becomes something trustworthy keeps the invariant.       *)
LEMMA BecomeKeeps ==
    ASSUME FtpInv, NEW s \in FtpSessions, NEW session, Become(s, session),
           Trustworthy(session, accepted'), accepted \subseteq accepted',
           accepted' \subseteq Certificates, presented' \in Certificates,
           storedPin' \in accepted' \cup {NoPin}, callerPin' = callerPin, Followed',
           changes' = changes, passwordTo' \subseteq Certificates
    PROVE  FtpInv'
  <1>1. session \in Session
    BY DEF Trustworthy
  <1>2. ses' \in [FtpSessions -> Session]
    BY <1>1 DEF FtpInv, Become
  <1>3. ASSUME NEW t \in FtpSessions PROVE Trustworthy(ses'[t], accepted')
    <2>1. CASE t = s
      BY <2>1 DEF FtpInv, Become
    <2>2. CASE t # s
      BY <2>2, AcceptanceGrows DEF FtpInv, Become
    <2> QED BY <2>1, <2>2
  <1> QED BY <1>2, <1>3 DEF FtpInv

(* Steps that only change one session.                                     *)
LEMMA OnlyBecomeKeeps ==
    ASSUME FtpInv, NEW s \in FtpSessions, NEW session, Become(s, session), OnlySession,
           Trustworthy(session, accepted)
    PROVE  FtpInv'
  <1>1. Followed'
    BY DEF FtpInv, Followed, OnlySession
  <1> QED BY <1>1, BecomeKeeps DEF FtpInv, OnlySession

LEMMA FtpStep == ASSUME FtpConstants, FtpInv, FtpNext PROVE FtpInv'
  <1>0. CASE ConnectTab
    BY <1>0 DEF FtpInv, ConnectTab, ServerSame, Followed
  <1>1. CASE ChangeCertificate
    <2>1. changes' \in 0 .. MaxChanges
      BY <1>1 DEF FtpConstants, FtpInv, ChangeCertificate
    <2>2. presented' \in Certificates /\ UNCHANGED <<storedPin, callerPin, ses, accepted, passwordTo>>
      BY <1>1 DEF ChangeCertificate
    <2> QED BY <2>1, <2>2 DEF FtpInv, Followed
  <1>2. SUFFICES ASSUME NEW s \in FtpSessions,
                        \/ ConnectFtp(s) \/ VerifyNormally(s) \/ ProbePinned(s) \/ ObtainIdentity(s)
                        \/ RequestTlsTrust(s) \/ RefuseTrust(s) \/ VerifyChosenPin(s)
                        \/ RequestPassword(s) \/ Login(s) \/ DisconnectFtp(s)
                        \/ \E d \in TlsDecisions : VerifyTrust(s, d)
                 PROVE  FtpInv'
    BY <1>0, <1>1 DEF FtpNext
  <1>3. PICK old : old = ses[s]
    OBVIOUS
  <1>4. /\ Trustworthy(old, accepted) /\ old \in Session
    BY <1>3 DEF FtpInv, Trustworthy
  <1>5. ASSUME NEW l \in Steps \ {"decided", "recheck", "ask"}, Enter(s, l), OnlySession PROVE FtpInv'
    <2>1. Trustworthy([old EXCEPT !.step = l], accepted)
      BY <1>4, <1>5 DEF Trustworthy, Session
    <2> QED BY <1>3, <1>5, <2>1, OnlyBecomeKeeps DEF Enter
  <1>6. CASE ConnectFtp(s)
    BY <1>5, <1>6 DEF ConnectFtp, Steps
  <1>7. CASE VerifyNormally(s)
    <2>1. PICK n \in BOOLEAN, l \in {"pin", "ready", "identify"} :
             Become(s, [old EXCEPT !.normally = n, !.step = l]) /\ OnlySession
      BY <1>3, <1>7 DEF VerifyNormally, ProbeTls
    <2>2. Trustworthy([old EXCEPT !.normally = n, !.step = l], accepted)
      BY <1>4 DEF Trustworthy, Session, Steps
    <2> QED BY <2>1, <2>2, OnlyBecomeKeeps
  <1>8. CASE ProbePinned(s)
    <2>1. CASE Enter(s, "identify")
      BY <1>5, <1>8, <2>1 DEF ProbePinned, Steps
    <2>2. CASE Become(s, [old EXCEPT !.active = callerPin, !.step = "ready"])
      <3>1. Trustworthy([old EXCEPT !.active = callerPin, !.step = "ready"], accepted)
        BY <1>4 DEF Trustworthy, Session, Steps, Pins, FtpInv
      <3> QED BY <1>8, <2>2, <3>1, OnlyBecomeKeeps DEF ProbePinned
    <2> QED BY <1>3, <1>8, <2>1, <2>2 DEF ProbePinned
  <1>9. CASE ObtainIdentity(s)
    <2>1. Trustworthy([old EXCEPT !.identity = presented, !.step = "ask"], accepted)
      BY <1>4 DEF Trustworthy, Session, Steps, Pins, FtpInv
    <2> QED BY <1>3, <1>9, <2>1, OnlyBecomeKeeps DEF ObtainIdentity
  <1>10. CASE RequestTlsTrust(s)
    <2>1. Trustworthy([old EXCEPT !.step = "recheck"], accepted)
      BY <1>3, <1>4, <1>10 DEF Trustworthy, Session, Steps, RequestTlsTrust, At,
                              IsTlsTrustDecisionAllowed
    <2> QED BY <1>3, <1>10, <2>1, OnlyBecomeKeeps DEF RequestTlsTrust, Enter
  <1>11. CASE RefuseTrust(s) \/ DisconnectFtp(s)
    BY <1>11, ClosedIsTrustworthy, OnlyBecomeKeeps DEF RefuseTrust, DisconnectFtp
  <1>12. CASE VerifyChosenPin(s)
    <2>1. Trustworthy([old EXCEPT !.active = old.identity, !.step = "ready"], accepted)
      BY <1>3, <1>4, <1>12 DEF Trustworthy, Session, Steps, VerifyChosenPin, At
    <2> QED BY <1>3, <1>12, <2>1, OnlyBecomeKeeps DEF VerifyChosenPin
  <1>13. CASE RequestPassword(s)
    <2>1. Trustworthy([old EXCEPT !.password = TRUE, !.step = "login"], accepted)
      BY <1>4 DEF Trustworthy, Session, Steps
    <2> QED BY <1>3, <1>13, <2>1, OnlyBecomeKeeps DEF RequestPassword
  <1>14. CASE Login(s)
    <2>1. Trustworthy([old EXCEPT !.step = "connected"], accepted)
      BY <1>4 DEF Trustworthy, Session, Steps
    <2>2. presented \in TrustedRoot \cup accepted
      BY <1>3, <1>4, <1>14 DEF Login, ConfigureTls, ProbeTls, Trustworthy
    <2>3. Followed'
      BY <1>14, <2>2 DEF Login, Followed, FtpInv
    <2> QED
      BY <1>3, <1>14, <2>1, <2>3, BecomeKeeps DEF Login, Enter, ServerSame, FtpInv
  <1>15. ASSUME NEW d \in TlsDecisions, VerifyTrust(s, d) PROVE FtpInv'
    <2>1. old.identity \in Certificates
      BY <1>3, <1>4, <1>15 DEF VerifyTrust, At, Trustworthy
    <2>2. /\ accepted \subseteq accepted' /\ accepted' \subseteq Certificates
          /\ d # "Reject" => old.identity \in accepted'
      BY <1>3, <1>15, <2>1 DEF VerifyTrust, FtpInv
    <2>3. Trustworthy([old EXCEPT !.decision = d, !.step = "decided"], accepted')
      BY <1>4, <2>2 DEF Trustworthy, Session, Steps
    <2>4. storedPin' \in accepted' \cup {NoPin} /\ Followed'
      BY <1>3, <1>15, <2>2 DEF VerifyTrust, FtpInv, Followed
    <2> QED
      BY <1>3, <1>15, <2>2, <2>3, <2>4, BecomeKeeps DEF VerifyTrust, ServerSame, FtpInv
  <1> QED
    BY <1>2, <1>6, <1>7, <1>8, <1>9, <1>10, <1>11, <1>12, <1>13, <1>14, <1>15

(* The password reaches only servers that pass normal verification or      *)
(* whose key the user accepted, whatever the servers do between probe,     *)
(* question and login (PrepareTlsTrust, ConfigureHandle).                  *)
THEOREM PasswordIsTrusted == ASSUME FtpConstants PROVE FtpSpec => []PasswordFollowsTrust
  <1>1. FtpInit => FtpInv
    <2>1. FtpInit => \A s \in FtpSessions : ses[s] = ClosedFtp /\ Trustworthy(ses[s], accepted)
      BY ClosedIsTrustworthy DEF FtpInit
    <2>2. ClosedFtp \in Session
      BY ClosedIsTrustworthy DEF Trustworthy
    <2>3. FtpInit => ses \in [FtpSessions -> Session]
      BY <2>2 DEF FtpInit
    <2> QED BY <2>1, <2>3 DEF FtpInit, FtpInv, Followed, FtpConstants
  <1>2. FtpInv /\ [FtpNext]_ftpVars => FtpInv'
    <2>1. FtpInv /\ UNCHANGED ftpVars => FtpInv'
      BY DEF FtpInv, ftpVars, Followed
    <2> QED BY <2>1, FtpStep
  <1>3. FtpInv => PasswordFollowsTrust
    BY DEF FtpInv, FtpTypeOK, PasswordFollowsTrust, Followed, Session, Steps, Pins
  <1> QED BY <1>1, <1>2, <1>3, PTL DEF FtpSpec
=============================================================================
