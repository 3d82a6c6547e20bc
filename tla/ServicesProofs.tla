---------------------------- MODULE ServicesProofs ----------------------------
(***************************************************************************)
(* Proofs about the two services that all worker threads share.            *)
(*                                                                         *)
(* TransferRuntime, for any number of workers, any limit and any aliasing  *)
(* of paths: the three safety invariants together with the typing are      *)
(* inductive.  Releasing a key is safe only because no other worker holds  *)
(* it, and a slot is free only because the counter is exact.               *)
(*                                                                         *)
(* UiDispatch, for any finite set of workers, any number of questions,     *)
(* starts and stops: three facts are inductive together, who has the turn  *)
(* (Exclusive), which call each worker polls for (Polling), and how often  *)
(* the promise of a call was set (SetByValue).  The bound on the calls is  *)
(* part of the typing and needs the workers that still may hand one over   *)
(* (Bounded).                                                              *)
(***************************************************************************)
EXTENDS TransferRuntime, UiDispatch, FiniteSetTheorems, TLAPS

-----------------------------------------------------------------------------
(* The transfer runtime                                                    *)


Typing ==
    /\ activeTransfers \in Nat
    /\ activeLocal \subseteq LocalKeys /\ activeRemote \subseteq RemoteKeys
    /\ phase \in [Workers -> Phases]
    /\ stopRequested \in [Workers -> BOOLEAN]
    /\ heldLocal \in [Workers -> SUBSET LocalKeys]
    /\ heldRemote \in [Workers -> SUBSET RemoteKeys]

LeaseInv == Typing /\ LeasesCounted
ReservationInv == Typing /\ LocalWritersExclusive /\ ReservationsOwned

LEMMA LeasedFinite == IsFiniteSet(Leased)
  BY RuntimeAssumption, FS_Subset DEF Leased

(* Granting a lease adds one worker to the lease holders.                  *)
LEMMA AcquireCounts ==
    ASSUME LeaseInv, NEW w \in Workers, AcquireTransfer(w)
    PROVE  LeasesCounted'
  <1>1. Leased' = Leased \cup {w} /\ w \notin Leased
    BY DEF LeaseInv, Typing, AcquireTransfer, Leased, Phases
  <1>2. Cardinality(Leased') = Cardinality(Leased) + 1
    BY <1>1, LeasedFinite, FS_AddElement
  <1>3. activeTransfers' = activeTransfers + 1 /\ activeTransfers < Limit
    BY DEF AcquireTransfer, SlotFree
  <1>4. activeTransfers \in Nat /\ activeTransfers = Cardinality(Leased)
    BY DEF LeaseInv, Typing, LeasesCounted
  <1> QED BY <1>2, <1>3, <1>4, RuntimeAssumption DEF LeasesCounted

(* Releasing a lease removes one, so the counter was positive.             *)
LEMMA ReleaseCounts ==
    ASSUME LeaseInv, NEW w \in Workers, ReleaseLease(w)
    PROVE  LeasesCounted'
  <1>1. Leased' = Leased \ {w} /\ w \in Leased
    BY DEF LeaseInv, Typing, ReleaseLease, Leased, Phases
  <1>2. Cardinality(Leased') = Cardinality(Leased) - 1
    BY <1>1, LeasedFinite, FS_RemoveElement
  <1>3. Cardinality(Leased) \in Nat /\ Cardinality(Leased') \in Nat
    BY <1>1, LeasedFinite, FS_RemoveElement, FS_CardinalityType
  <1>4. activeTransfers = Cardinality(Leased) /\ activeTransfers <= Limit
    BY DEF LeaseInv, LeasesCounted
  <1>5. activeTransfers' = activeTransfers - 1
    BY <1>2, <1>3, <1>4 DEF ReleaseLease
  <1> QED BY <1>2, <1>3, <1>4, <1>5, RuntimeAssumption DEF LeasesCounted

(* Every action keeps the typing, one step per kind of action.             *)
LEMMA TypingStep == ASSUME Typing, [Next]_vars PROVE Typing'
  <1>1. ASSUME NEW w \in Workers, BeginAcquire(w) PROVE Typing'
    BY <1>1 DEF BeginAcquire, reservationVars, Typing, Phases
  <1>2. ASSUME NEW w \in Workers, RequestStop(w) PROVE Typing'
    BY <1>2 DEF RequestStop, leaseVars, reservationVars, Typing
  <1>3. ASSUME NEW w \in Workers, AcquireTransfer(w) PROVE Typing'
    BY <1>3 DEF AcquireTransfer, reservationVars, Typing, Phases
  <1>4. ASSUME NEW w \in Workers, AbandonAcquire(w) PROVE Typing'
    BY <1>4 DEF AbandonAcquire, reservationVars, Typing, Phases
  <1>5. ASSUME NEW w \in Workers, ReleaseLease(w) PROVE Typing'
    BY <1>5 DEF ReleaseLease, reservationVars, Typing, Phases
  <1>6. ASSUME NEW w \in Workers, NEW key \in LocalKeys, ReserveLocal(w, key)
        PROVE  Typing'
    BY <1>6 DEF ReserveLocal, leaseVars, Typing
  <1>7. ASSUME NEW w \in Workers, NEW key \in LocalKeys, ReleaseLocal(w, key)
        PROVE  Typing'
    BY <1>7 DEF ReleaseLocal, leaseVars, Typing
  <1>8. ASSUME NEW w \in Workers, NEW key \in RemoteKeys, ReserveRemote(w, key)
        PROVE  Typing'
    BY <1>8 DEF ReserveRemote, leaseVars, Typing
  <1>9. ASSUME NEW w \in Workers, NEW key \in RemoteKeys, ReleaseRemote(w, key)
        PROVE  Typing'
    BY <1>9 DEF ReleaseRemote, leaseVars, Typing
  <1>10. ASSUME NEW key \in LocalKeys PROVE PartialOf[key] \in LocalKeys
    BY RuntimeAssumption
  <1>11. CASE UNCHANGED vars
    BY <1>11 DEF vars, Typing
  <1> QED
    BY <1>1, <1>2, <1>3, <1>4, <1>5, <1>6, <1>7, <1>8, <1>9, <1>10, <1>11
       DEF Next, ReserveDestination, ReservePartial

LEMMA LeaseInvStep == ASSUME LeaseInv, [Next]_vars PROVE LeaseInv'
  <1>1. Typing'
    BY TypingStep DEF LeaseInv
  <1>2. ASSUME NEW w \in Workers, BeginAcquire(w) \/ AbandonAcquire(w)
        PROVE  LeasesCounted'
    <2>1. Leased' = Leased /\ activeTransfers' = activeTransfers
      BY <1>2 DEF BeginAcquire, AbandonAcquire, Leased, LeaseInv, Typing, Phases
    <2> QED BY <2>1 DEF LeaseInv, LeasesCounted
  <1>3. ASSUME UNCHANGED leaseVars PROVE LeasesCounted'
    BY <1>3 DEF leaseVars, LeaseInv, LeasesCounted, Leased
  <1>4. ASSUME NEW w \in Workers, RequestStop(w) PROVE UNCHANGED leaseVars
    BY <1>4 DEF RequestStop
  <1>5. ASSUME NEW w \in Workers, NEW key \in LocalKeys,
               \/ ReserveDestination(w, key) \/ ReservePartial(w, key)
               \/ ReleaseLocal(w, key)
        PROVE  UNCHANGED leaseVars
    BY <1>5 DEF ReserveDestination, ReservePartial, ReserveLocal, ReleaseLocal
  <1>6. ASSUME NEW w \in Workers, NEW key \in RemoteKeys,
               ReserveRemote(w, key) \/ ReleaseRemote(w, key)
        PROVE  UNCHANGED leaseVars
    BY <1>6 DEF ReserveRemote, ReleaseRemote
  <1>7. UNCHANGED vars => UNCHANGED leaseVars
    BY DEF vars, leaseVars
  <1>8. LeasesCounted'
    BY <1>2, <1>3, <1>4, <1>5, <1>6, <1>7, AcquireCounts, ReleaseCounts DEF Next
  <1> QED BY <1>1, <1>8 DEF LeaseInv

(* The counter of active transfers is exact and bounded by the limit.      *)
THEOREM LeasesAreCounted == Spec => []LeasesCounted
  <1>1. Init => LeaseInv
    <2>1. Init => Leased = {}
      BY DEF Init, Leased
    <2>2. Init => Typing
      BY DEF Init, Typing, Phases
    <2>3. Cardinality({}) = 0
      BY FS_EmptySet
    <2>4. Init => activeTransfers = 0
      BY DEF Init
    <2>5. Init => LeasesCounted
      BY <2>1, <2>3, <2>4, RuntimeAssumption DEF LeasesCounted
    <2> QED BY <2>2, <2>5 DEF LeaseInv
  <1>2. LeaseInv /\ [Next]_vars => LeaseInv'
    BY LeaseInvStep
  <1>3. LeaseInv => LeasesCounted
    BY DEF LeaseInv
  <1> QED BY <1>1, <1>2, <1>3, PTL DEF Spec

-----------------------------------------------------------------------------
(* A key no reservation conflicts with is exclusive when it is added.      *)
LEMMA ReserveLocalKeeps ==
    ASSUME ReservationInv, Typing', NEW w \in Workers, NEW key \in LocalKeys,
           ReserveLocal(w, key)
    PROVE  ReservationInv'
  <1>1. \A v \in Workers : \A y \in heldLocal[v] : y # key /\ <<key, y>> \notin Aliases
    BY DEF ReservationInv, ReservationsOwned, ReserveLocal, LocalInUse
  <1>2. \A v \in Workers : heldLocal'[v] = IF v = w THEN heldLocal[w] \cup {key}
                                                    ELSE heldLocal[v]
    BY DEF ReservationInv, Typing, ReserveLocal
  <1>3. LocalWritersExclusive'
    <2> SUFFICES ASSUME NEW u \in Workers, NEW v \in Workers, u # v,
                        NEW x \in heldLocal'[u], NEW y \in heldLocal'[v]
                 PROVE  x # y /\ <<x, y>> \notin Aliases
      BY DEF LocalWritersExclusive
    <2>1. x \in LocalKeys /\ y \in LocalKeys
      BY DEF Typing
    <2>2. CASE x \in heldLocal[u] /\ y \in heldLocal[v]
      BY <2>2 DEF ReservationInv, LocalWritersExclusive
    <2>3. CASE x = key /\ y \in heldLocal[v]
      BY <2>3, <1>1
    <2>4. CASE x \in heldLocal[u] /\ y = key
      BY <2>1, <2>4, <1>1, RuntimeAssumption
    <2> QED BY <1>2, <2>2, <2>3, <2>4
  <1>4. ReservationsOwned'
    BY <1>2 DEF ReservationInv, ReservationsOwned, ReserveLocal
  <1> QED BY <1>3, <1>4 DEF ReservationInv

(* A released key was held by its worker alone.                            *)
LEMMA ReleaseLocalKeeps ==
    ASSUME ReservationInv, Typing', NEW w \in Workers, NEW key \in LocalKeys,
           ReleaseLocal(w, key)
    PROVE  ReservationInv'
  <1>1. \A v \in Workers : heldLocal'[v] = IF v = w THEN heldLocal[w] \ {key}
                                                    ELSE heldLocal[v]
    BY DEF ReservationInv, Typing, ReleaseLocal
  <1>2. \A v \in Workers : v # w => key \notin heldLocal[v]
    BY DEF ReservationInv, LocalWritersExclusive, ReleaseLocal
  <1>3. LocalWritersExclusive'
    BY <1>1 DEF ReservationInv, LocalWritersExclusive
  <1>4. ReservationsOwned'
    BY <1>1, <1>2 DEF ReservationInv, ReservationsOwned, ReleaseLocal
  <1> QED BY <1>3, <1>4 DEF ReservationInv

LEMMA ReserveRemoteKeeps ==
    ASSUME ReservationInv, Typing', NEW w \in Workers, NEW key \in RemoteKeys,
           ReserveRemote(w, key)
    PROVE  ReservationInv'
  <1>1. \A v \in Workers : heldRemote'[v] = IF v = w THEN {key} ELSE heldRemote[v]
    BY DEF ReservationInv, Typing, ReserveRemote
  <1>2. heldRemote[w] = {} /\ \A v \in Workers : key \notin heldRemote[v]
    BY DEF ReservationInv, ReservationsOwned, ReserveRemote
  <1>3. ReservationsOwned'
    BY <1>1, <1>2 DEF ReservationInv, ReservationsOwned, ReserveRemote
  <1> QED BY <1>3 DEF ReservationInv, LocalWritersExclusive, ReserveRemote

LEMMA ReleaseRemoteKeeps ==
    ASSUME ReservationInv, Typing', NEW w \in Workers, NEW key \in RemoteKeys,
           \A v \in Workers : \A x, y \in heldRemote[v] : x = y,
           ReleaseRemote(w, key)
    PROVE  ReservationInv'
  <1>1. \A v \in Workers : heldRemote'[v] = IF v = w THEN {} ELSE heldRemote[v]
    BY DEF ReservationInv, Typing, ReleaseRemote
  <1>2. heldRemote[w] = {key} /\ \A v \in Workers : v # w => key \notin heldRemote[v]
    BY DEF ReservationInv, ReservationsOwned, ReleaseRemote
  <1>3. ReservationsOwned'
    BY <1>1, <1>2 DEF ReservationInv, ReservationsOwned, ReleaseRemote
  <1> QED BY <1>3 DEF ReservationInv, LocalWritersExclusive, ReleaseRemote

(* An upload reserves a single remote key.                                 *)
OneRemoteKey == \A v \in Workers : \A x, y \in heldRemote[v] : x = y

LEMMA OneRemoteKeyStep ==
    ASSUME Typing, OneRemoteKey, [Next]_vars PROVE OneRemoteKey'
  BY DEF OneRemoteKey, Typing, Next, vars, BeginAcquire, RequestStop,
         AcquireTransfer, AbandonAcquire, ReleaseLease, ReserveDestination,
         ReservePartial, ReserveLocal, ReserveRemote, ReleaseLocal, ReleaseRemote,
         leaseVars, reservationVars

LEMMA ReservationInvStep ==
    ASSUME ReservationInv, OneRemoteKey, [Next]_vars PROVE ReservationInv'
  <1>1. Typing'
    BY TypingStep DEF ReservationInv
  <1>2. CASE UNCHANGED reservationVars
    BY <1>1, <1>2 DEF reservationVars, ReservationInv, LocalWritersExclusive,
                      ReservationsOwned
  <1>3. ASSUME NEW w \in Workers,
               \/ BeginAcquire(w) \/ RequestStop(w) \/ AcquireTransfer(w)
               \/ AbandonAcquire(w) \/ ReleaseLease(w)
        PROVE  UNCHANGED reservationVars
    BY <1>3 DEF BeginAcquire, RequestStop, AcquireTransfer, AbandonAcquire, ReleaseLease
  <1>4. ASSUME NEW w \in Workers, NEW key \in LocalKeys, ReserveDestination(w, key)
        PROVE  ReservationInv'
    BY <1>1, <1>4, ReserveLocalKeeps DEF ReserveDestination
  <1>5. ASSUME NEW w \in Workers, NEW key \in LocalKeys, ReservePartial(w, key)
        PROVE  ReservationInv'
    <2>1. PartialOf[key] \in LocalKeys
      BY RuntimeAssumption
    <2> QED BY <1>1, <1>5, <2>1, ReserveLocalKeeps DEF ReservePartial
  <1>6. ASSUME NEW w \in Workers, NEW key \in LocalKeys, ReleaseLocal(w, key)
        PROVE  ReservationInv'
    BY <1>1, <1>6, ReleaseLocalKeeps
  <1>7. ASSUME NEW w \in Workers, NEW key \in RemoteKeys, ReserveRemote(w, key)
        PROVE  ReservationInv'
    BY <1>1, <1>7, ReserveRemoteKeeps
  <1>8. ASSUME NEW w \in Workers, NEW key \in RemoteKeys, ReleaseRemote(w, key)
        PROVE  ReservationInv'
    BY <1>1, <1>8, ReleaseRemoteKeeps DEF OneRemoteKey
  <1>9. UNCHANGED vars => UNCHANGED reservationVars
    BY DEF vars, reservationVars
  <1> QED BY <1>2, <1>3, <1>4, <1>5, <1>6, <1>7, <1>8, <1>9 DEF Next

LEMMA ReservationInvHolds == Spec => [](ReservationInv /\ OneRemoteKey)
  <1>1. Init => ReservationInv /\ OneRemoteKey
    BY DEF Init, ReservationInv, Typing, Phases, LocalWritersExclusive,
           ReservationsOwned, OneRemoteKey
  <1>2. ReservationInv /\ OneRemoteKey /\ [Next]_vars => (ReservationInv /\ OneRemoteKey)'
    BY ReservationInvStep, OneRemoteKeyStep DEF ReservationInv
  <1> QED BY <1>1, <1>2, PTL DEF Spec

(* No two transfers of any tabs write one local file.                      *)
THEOREM WritersAreExclusive == Spec => []LocalWritersExclusive
  <1>1. ReservationInv => LocalWritersExclusive
    BY DEF ReservationInv
  <1> QED BY <1>1, ReservationInvHolds, PTL

(* The active destination sets hold exactly the live reservations.         *)
THEOREM ReservationsAreOwned == Spec => []ReservationsOwned
  <1>1. ReservationInv => ReservationsOwned
    BY DEF ReservationInv
  <1> QED BY <1>1, ReservationInvHolds, PTL

-----------------------------------------------------------------------------
(* InvokeUi                                                                *)


Stages == {"off", "idle", "turn", "asleep", "granted", "waiting", "abandoning"}
Polls == {"waiting", "abandoning"}

UiTyping ==
    /\ promptActive \in BOOLEAN /\ enabled \in BOOLEAN /\ generation \in Nat
    /\ calls \in Seq(Invocation)
    /\ stage \in [Callers -> Stages]
    /\ expected \in [Callers -> Nat]
    /\ stop \in [Callers -> BOOLEAN]
    /\ ui \in {"loop", "disabled", "telling", "joining", "exited"}

Granted(c) == stage[c] = "granted"
Open(i) == calls[i].place \in {"queued", "running"}

(* The turn is taken by one worker or by one call, or free.                *)
Exclusive ==
    /\ \A c, d \in Callers : Granted(c) /\ Granted(d) => c = d
    /\ \A i, k \in DOMAIN calls : Open(i) /\ Open(k) => i = k
    /\ \A c \in Callers, i \in DOMAIN calls : ~(Granted(c) /\ Open(i))
    /\ promptActive <=>
          (\E c \in Callers : Granted(c)) \/ (\E i \in DOMAIN calls : Open(i))

(* A worker that polls has handed a call over for its connection.          *)
IsLast(c, i) ==
    /\ i \in DOMAIN calls /\ calls[i].caller = c
    /\ \A k \in DOMAIN calls : calls[k].caller = c => k <= i
Polling ==
    \A c \in Callers : stage[c] \in Polls =>
        \E i \in DOMAIN calls : IsLast(c, i) /\ calls[i].generation = expected[c]

SetByValue ==
    \A i \in DOMAIN calls : calls[i].settings = IF calls[i].value = "none" THEN 0 ELSE 1

Bounded == Len(calls) + Cardinality(InFlight) <= MaxCalls

-----------------------------------------------------------------------------
(* What the CHOOSEs of the module return                                   *)

LEMMA CallOfIsLast ==
    ASSUME UiTyping, Polling, NEW c \in Callers, stage[c] \in Polls
    PROVE  IsLast(c, CallOf(c)) /\ calls[CallOf(c)].generation = expected[c]
  <1>1. PICK i \in DOMAIN calls : IsLast(c, i) /\ calls[i].generation = expected[c]
    BY DEF Polling
  <1>2. DOMAIN calls \subseteq Nat
    BY DEF UiTyping
  <1>3. \A k \in DOMAIN calls : IsLast(c, k) => k = i
    BY <1>1, <1>2 DEF IsLast
  <1>4. IsLast(c, CallOf(c))
    BY <1>1 DEF CallOf, IsLast
  <1>5. CallOf(c) = i
    BY <1>3, <1>4 DEF IsLast
  <1> QED BY <1>1, <1>4, <1>5

LEMMA OldestQueued ==
    ASSUME UiTyping, Exclusive, At("queued") # {}
    PROVE  (CHOOSE i \in At("queued") : \A k \in At("queued") : i <= k) \in At("queued")
  <1>1. PICK i \in At("queued") : TRUE
    OBVIOUS
  <1>2. \A k \in At("queued") : k = i
    BY DEF Exclusive, Open, At
  <1>3. i \in Nat
    BY DEF UiTyping, At
  <1>4. \A k \in At("queued") : i <= k
    BY <1>2, <1>3
  <1> QED BY <1>4

LEMMA InnermostRunning ==
    ASSUME UiTyping, Exclusive, At("running") # {}
    PROVE  (CHOOSE i \in At("running") : \A k \in At("running") : i >= k) \in At("running")
  <1>1. PICK i \in At("running") : TRUE
    OBVIOUS
  <1>2. \A k \in At("running") : k = i
    BY DEF Exclusive, Open, At
  <1>3. i \in Nat
    BY DEF UiTyping, At
  <1>4. \A k \in At("running") : i >= k
    BY <1>2, <1>3
  <1> QED BY <1>4

-----------------------------------------------------------------------------
(* Six actions replace one call by a later state of itself.                *)

Later(old, new) ==
    /\ new \in Invocation
    /\ new.caller = old.caller /\ new.generation = old.generation
    /\ (new.settings = IF new.value = "none" THEN 0 ELSE 1)
Replaces(i, new) ==
    /\ i \in DOMAIN calls /\ calls' = [calls EXCEPT ![i] = new] /\ Later(calls[i], new)

Sound(call) == call \in Invocation /\ (call.settings = IF call.value = "none" THEN 0 ELSE 1)

LEMMA DeliveredIsLater ==
    ASSUME NEW call \in Invocation, Sound(call), NEW v \in {"answer", "cancelled"},
           NEW new, new = Delivered(call, v)
    PROVE  Later(call, new) /\ new.place = call.place
  <1>1. CASE call.value # "none"
    BY <1>1 DEF Sound, Later, Delivered
  <1>2. CASE call.value = "none"
    <2>1. new = [call EXCEPT !.value = v, !.settings = 1]
      BY <1>2 DEF Sound, Delivered
    <2>2. new \in Invocation
      <3>1. [call EXCEPT !.value = v] \in Invocation
        BY DEF Invocation
      <3>2. new = [[call EXCEPT !.value = v] EXCEPT !.settings = 1]
        BY <2>1 DEF Invocation
      <3>3. \A m \in Invocation : [m EXCEPT !.settings = 1] \in Invocation
        BY DEF Invocation
      <3> QED BY <3>1, <3>2, <3>3
    <2>3. /\ new.caller = call.caller /\ new.generation = call.generation
          /\ new.place = call.place /\ new.value = v /\ new.settings = 1
      BY <2>1 DEF Invocation
    <2> QED BY <2>2, <2>3 DEF Later
  <1> QED BY <1>1, <1>2

LEMMA MovedIsLater ==
    ASSUME NEW call \in Invocation, Sound(call),
           NEW p \in {"queued", "running", "closing", "answering", "obsolete", "done"},
           NEW new, new = [call EXCEPT !.place = p]
    PROVE  Later(call, new) /\ new.place = p
  BY DEF Sound, Later, Invocation

LEMMA AbandonedIsLater ==
    ASSUME NEW call \in Invocation, Sound(call),
           NEW new, new = [call EXCEPT !.abandoned = TRUE]
    PROVE  Later(call, new) /\ new.place = call.place
  BY DEF Sound, Later, Invocation

-----------------------------------------------------------------------------
(* The inductive invariant, and what a step keeps of it                    *)

Inv == UiTyping /\ Exclusive /\ Polling /\ SetByValue /\ Bounded

Finite == IsFiniteSet(Callers) /\ MaxCalls \in Nat

LEMMA InFlightFinite ==
    ASSUME IsFiniteSet(Callers)
    PROVE  IsFiniteSet(InFlight) /\ Cardinality(InFlight) \in Nat
  BY FS_Subset, FS_CardinalityType DEF InFlight

(* No more workers on their way to a call than before.                     *)
LEMMA FewerInFlight ==
    ASSUME Finite, Inv, InFlight' \subseteq InFlight, Len(calls') = Len(calls)
    PROVE  Bounded'
  <1>1. /\ IsFiniteSet(InFlight') /\ Cardinality(InFlight') <= Cardinality(InFlight)
        /\ Cardinality(InFlight') \in Nat /\ Cardinality(InFlight) \in Nat
    BY InFlightFinite, FS_Subset, FS_CardinalityType DEF Finite
  <1>2. Len(calls) \in Nat
    BY DEF Inv, UiTyping
  <1> QED BY <1>1, <1>2 DEF Inv, Bounded, Finite

PhasesKept ==
    /\ stage' \in [Callers -> Stages] /\ expected' = expected
    /\ \A c \in Callers :
          /\ stage'[c] = "granted" <=> stage[c] = "granted"
          /\ stage'[c] \in Polls => stage[c] \in Polls
          /\ stage'[c] \in {"turn", "asleep", "granted"} => stage[c] \in {"turn", "asleep", "granted"}

LEMMA AwakeKeeps == ASSUME UiTyping, stage' = Awake(stage), expected' = expected PROVE PhasesKept
  BY DEF UiTyping, Stages, Polls, Awake, PhasesKept

LEMMA Replaced ==
    ASSUME UiTyping, NEW i, NEW new, Replaces(i, new)
    PROVE  /\ calls' \in Seq(Invocation) /\ Len(calls') = Len(calls)
           /\ DOMAIN calls' = DOMAIN calls /\ calls'[i] = new
           /\ \A k \in DOMAIN calls : k # i => calls'[k] = calls[k]
           /\ \A k \in DOMAIN calls : calls'[k].caller = calls[k].caller
                                      /\ calls'[k].generation = calls[k].generation
  BY DEF UiTyping, Replaces, Later

LEMMA ReplacingKeeps ==
    ASSUME Finite, Inv, NEW i, NEW new, Replaces(i, new), PhasesKept
    PROVE  calls' \in Seq(Invocation) /\ Polling' /\ SetByValue' /\ Bounded'
  <1>1. /\ calls' \in Seq(Invocation) /\ Len(calls') = Len(calls)
        /\ DOMAIN calls' = DOMAIN calls /\ calls'[i] = new
        /\ \A k \in DOMAIN calls : k # i => calls'[k] = calls[k]
        /\ \A k \in DOMAIN calls : calls'[k].caller = calls[k].caller
                                   /\ calls'[k].generation = calls[k].generation
    BY Replaced DEF Inv
  <1>2. Polling'
    <2> SUFFICES ASSUME NEW c \in Callers, stage'[c] \in Polls
                 PROVE  \E k \in DOMAIN calls' : IsLast(c, k)' /\ calls'[k].generation = expected'[c]
      BY DEF Polling
    <2>1. PICK k \in DOMAIN calls : IsLast(c, k) /\ calls[k].generation = expected[c]
      BY DEF PhasesKept, Inv, Polling
    <2> QED BY <1>1, <2>1 DEF IsLast, PhasesKept
  <1>3. SetByValue'
    BY <1>1 DEF Inv, SetByValue, Replaces, Later
  <1>4. InFlight' \subseteq InFlight
    BY DEF PhasesKept, InFlight
  <1> QED BY <1>1, <1>2, <1>3, <1>4, FewerInFlight

(* A call that keeps the turn, or keeps not having it.                     *)
LEMMA QuietReplacing ==
    ASSUME Inv, NEW i, NEW new, Replaces(i, new), PhasesKept, promptActive' = promptActive,
           new.place \in {"queued", "running"} <=> Open(i)
    PROVE  Exclusive'
  <1>1. \A k \in DOMAIN calls : Open(k)' <=> Open(k)
    BY Replaced DEF Inv, Open
  <1>2. DOMAIN calls' = DOMAIN calls
    BY Replaced DEF Inv
  <1> QED BY <1>1, <1>2 DEF Inv, Exclusive, Granted, PhasesKept

(* A call that lets the turn go.                                           *)
LEMMA ReleasingReplacing ==
    ASSUME Inv, NEW i, NEW new, Replaces(i, new), PhasesKept, promptActive' = FALSE,
           Open(i), new.place \notin {"queued", "running"}
    PROVE  Exclusive'
  <1>1. DOMAIN calls' = DOMAIN calls /\ i \in DOMAIN calls
    BY Replaced DEF Inv, Replaces
  <1>2. \A k \in DOMAIN calls : ~Open(k)'
    <2>1. calls'[i] = new /\ \A k \in DOMAIN calls : k # i => calls'[k] = calls[k]
      BY Replaced DEF Inv
    <2>2. \A k \in DOMAIN calls : Open(k) => k = i
      BY <1>1 DEF Inv, Exclusive
    <2> QED BY <2>1, <2>2 DEF Open
  <1>3. \A c \in Callers : ~Granted(c) /\ ~Granted(c)'
    BY <1>1 DEF Inv, Exclusive, Granted, PhasesKept
  <1> QED BY <1>1, <1>2, <1>3 DEF Exclusive

-----------------------------------------------------------------------------
(* One lemma per action that changes a call                                *)

LEMMA SoundCalls == ASSUME Inv, NEW i \in DOMAIN calls PROVE calls[i] \in Invocation /\ Sound(calls[i])
  BY DEF Inv, UiTyping, SetByValue, Sound

LEMMA DispatchKeeps == ASSUME Finite, Inv, Dispatch PROVE Inv'
  <1> DEFINE i == CHOOSE i \in At("queued") : \A k \in At("queued") : i <= k
             p == IF Obsolete(i) THEN "obsolete" ELSE "running"
             new == [calls[i] EXCEPT !.place = p]
  <1>1. i \in DOMAIN calls /\ calls[i].place = "queued"
    BY OldestQueued DEF Dispatch, Inv, At
  <1>3. calls' = [calls EXCEPT ![i] = new]
    BY <1>1 DEF Dispatch
  <1>8. p \in {"obsolete", "running"} /\ (p = "obsolete" <=> Obsolete(i))
    OBVIOUS
  <1>9. new = [calls[i] EXCEPT !.place = p]
    OBVIOUS
  <1> HIDE DEF p, new, i
  <1>2. Later(calls[i], new) /\ new.place = p
    BY <1>1, <1>8, <1>9, SoundCalls, MovedIsLater
  <1>4. Replaces(i, new)
    BY <1>1, <1>2, <1>3 DEF Replaces
  <1>5. expected' = expected /\ stop' = stop /\ enabled' = enabled /\ generation' = generation /\ ui' = ui
    BY DEF Dispatch
  <1>6. CASE Obsolete(i)
    <2>1. promptActive' = FALSE /\ stage' = Awake(stage)
      BY <1>6 DEF Dispatch, ReleasePrompt, i
    <2>2. PhasesKept
      BY <2>1, <1>5, AwakeKeeps DEF Inv
    <2>3. Exclusive'
      BY <1>1, <1>2, <1>4, <1>6, <1>8, <2>1, <2>2, ReleasingReplacing DEF Open
    <2> QED BY <1>4, <1>5, <2>1, <2>2, <2>3, ReplacingKeeps DEF Inv, UiTyping, PhasesKept
  <1>7. CASE ~Obsolete(i)
    <2>1. promptActive' = promptActive /\ stage' = stage
      BY <1>7 DEF Dispatch, i
    <2>2. PhasesKept
      BY <2>1, <1>5 DEF Inv, UiTyping, PhasesKept
    <2>3. Exclusive'
      BY <1>1, <1>2, <1>4, <1>7, <1>8, <2>1, <2>2, QuietReplacing DEF Open
    <2> QED BY <1>4, <1>5, <2>1, <2>2, <2>3, ReplacingKeeps DEF Inv, UiTyping, PhasesKept
  <1> QED BY <1>6, <1>7

LEMMA CloseDialogKeeps == ASSUME Finite, Inv, CloseDialog PROVE Inv'
  <1> DEFINE i == CHOOSE i \in At("running") : \A k \in At("running") : i >= k
             new == [calls[i] EXCEPT !.place = "closing"]
  <1>1. i \in DOMAIN calls /\ calls[i].place = "running"
    BY InnermostRunning DEF CloseDialog, Inv, At
  <1>3. calls' = [calls EXCEPT ![i] = new]
    BY <1>1 DEF CloseDialog
  <1>8. new = [calls[i] EXCEPT !.place = "closing"]
    OBVIOUS
  <1> HIDE DEF new, i
  <1>2. Later(calls[i], new) /\ new.place = "closing"
    BY <1>1, <1>8, SoundCalls, MovedIsLater
  <1>4. Replaces(i, new)
    BY <1>1, <1>2, <1>3 DEF Replaces
  <1>5. /\ promptActive' = FALSE /\ stage' = Awake(stage)
        /\ expected' = expected /\ stop' = stop /\ enabled' = enabled /\ generation' = generation
        /\ ui' = ui
    BY DEF CloseDialog, ReleasePrompt
  <1>6. PhasesKept
    BY <1>5, AwakeKeeps DEF Inv
  <1>7. Exclusive'
    BY <1>1, <1>2, <1>4, <1>5, <1>6, ReleasingReplacing DEF Open
  <1> QED BY <1>4, <1>5, <1>6, <1>7, ReplacingKeeps DEF Inv, UiTyping, PhasesKept

(* The result of a call is chosen, delivered, given up or cancelled: the   *)
(* turn is not concerned.                                                  *)
OnlyPhasesAndCalls ==
    UNCHANGED <<promptActive, enabled, generation, expected, stop, ui>>

LEMMA AnsweringKeeps ==
    ASSUME Finite, Inv, OnlyPhasesAndCalls, PhasesKept, NEW i, NEW new, Replaces(i, new),
           new.place \in {"queued", "running"} <=> Open(i)
    PROVE  Inv'
  <1>1. Exclusive'
    BY QuietReplacing DEF OnlyPhasesAndCalls
  <1> QED BY <1>1, ReplacingKeeps DEF Inv, UiTyping, PhasesKept, OnlyPhasesAndCalls

LEMMA ChooseResultKeeps == ASSUME Finite, Inv, ChooseResult PROVE Inv'
  <1>1. PICK i \in At("closing") :
           calls' = [calls EXCEPT ![i].place =
               IF calls[i].abandoned \/ generation # calls[i].generation
               THEN "obsolete" ELSE "answering"]
    BY DEF ChooseResult
  <1> DEFINE p == IF calls[i].abandoned \/ generation # calls[i].generation
                  THEN "obsolete" ELSE "answering"
             new == [calls[i] EXCEPT !.place = p]
  <1>2. i \in DOMAIN calls /\ calls[i].place = "closing"
    BY DEF At
  <1>3. calls' = [calls EXCEPT ![i] = new]
    BY <1>1, <1>2
  <1>4. p \in {"obsolete", "answering"}
    OBVIOUS
  <1>5. new = [calls[i] EXCEPT !.place = p]
    OBVIOUS
  <1> HIDE DEF p, new
  <1>6. Later(calls[i], new) /\ new.place = p
    BY <1>2, <1>4, <1>5, SoundCalls, MovedIsLater
  <1>7. OnlyPhasesAndCalls /\ PhasesKept
    BY DEF ChooseResult, workerVars, OnlyPhasesAndCalls, Inv, UiTyping, PhasesKept
  <1> QED BY <1>2, <1>3, <1>4, <1>6, <1>7, AnsweringKeeps DEF Replaces, Open

LEMMA FinishKeeps == ASSUME Finite, Inv, Finish PROVE Inv'
  <1>1. PICK i \in At("answering") \cup At("obsolete") :
           calls' = [calls EXCEPT ![i] =
               [Delivered(@, IF @.place = "answering" THEN "answer" ELSE "cancelled")
                   EXCEPT !.place = "done"]]
    BY DEF Finish
  <1> DEFINE v == IF calls[i].place = "answering" THEN "answer" ELSE "cancelled"
             given == Delivered(calls[i], v)
             new == [given EXCEPT !.place = "done"]
  <1>2. i \in DOMAIN calls /\ calls[i].place \in {"answering", "obsolete"}
    BY DEF At
  <1>3. calls' = [calls EXCEPT ![i] = new]
    BY <1>1, <1>2
  <1>4. v \in {"answer", "cancelled"}
    OBVIOUS
  <1>5. given = Delivered(calls[i], v) /\ new = [given EXCEPT !.place = "done"]
    OBVIOUS
  <1> HIDE DEF v, given, new
  <1>6. Later(calls[i], given)
    BY <1>2, <1>4, <1>5, SoundCalls, DeliveredIsLater
  <1>7. given \in Invocation /\ Sound(given)
    BY <1>6 DEF Later, Sound
  <1>8. Later(given, new) /\ new.place = "done"
    BY <1>5, <1>7, MovedIsLater
  <1>9. Later(calls[i], new)
    BY <1>6, <1>8 DEF Later
  <1>10. OnlyPhasesAndCalls /\ PhasesKept
    BY DEF Finish, workerVars, OnlyPhasesAndCalls, Inv, UiTyping, PhasesKept
  <1> QED BY <1>2, <1>3, <1>8, <1>9, <1>10, AnsweringKeeps DEF Replaces, Open

LEMMA AbandonKeeps == ASSUME Finite, Inv, NEW c \in Callers, Abandon(c) PROVE Inv'
  <1> DEFINE i == CallOf(c)
             new == [calls[i] EXCEPT !.abandoned = TRUE]
  <1>1. i \in DOMAIN calls
    BY CallOfIsLast DEF Abandon, Inv, IsLast, Polls
  <1>2. calls' = [calls EXCEPT ![i] = new]
    BY <1>1 DEF Abandon
  <1>3. new = [calls[i] EXCEPT !.abandoned = TRUE]
    OBVIOUS
  <1> HIDE DEF i, new
  <1>4. Later(calls[i], new) /\ new.place = calls[i].place
    BY <1>1, <1>3, SoundCalls, AbandonedIsLater
  <1>5. OnlyPhasesAndCalls
    BY DEF Abandon, OnlyPhasesAndCalls
  <1>6. PhasesKept
    BY DEF Abandon, Goto, Inv, UiTyping, Stages, Polls, PhasesKept
  <1> QED BY <1>1, <1>2, <1>4, <1>5, <1>6, AnsweringKeeps DEF Replaces, Open

LEMMA CancelKeeps == ASSUME Finite, Inv, NEW c \in Callers, CancelForItself(c) PROVE Inv'
  <1> DEFINE i == CallOf(c)
             new == Delivered(calls[i], "cancelled")
  <1>1. i \in DOMAIN calls
    BY CallOfIsLast DEF CancelForItself, Inv, IsLast, Polls
  <1>2. calls' = [calls EXCEPT ![i] = new]
    BY <1>1 DEF CancelForItself
  <1>3. new = Delivered(calls[i], "cancelled")
    OBVIOUS
  <1> HIDE DEF i, new
  <1>4. Later(calls[i], new) /\ new.place = calls[i].place
    BY <1>1, <1>3, SoundCalls, DeliveredIsLater
  <1>5. OnlyPhasesAndCalls
    BY DEF CancelForItself, OnlyPhasesAndCalls
  <1>6. PhasesKept
    BY DEF CancelForItself, Goto, Inv, UiTyping, Stages, Polls, PhasesKept
  <1> QED BY <1>1, <1>2, <1>4, <1>5, <1>6, AnsweringKeeps DEF Replaces, Open

-----------------------------------------------------------------------------
(* The steps that leave the calls alone                                    *)

(* Nobody gets or loses the turn.                                          *)
LEMMA PhaseStep ==
    ASSUME Finite, Inv, calls' = calls, PhasesKept, promptActive' = promptActive
    PROVE  Exclusive' /\ Polling' /\ SetByValue' /\ Bounded'
  <1>1. Exclusive'
    BY DEF Inv, Exclusive, Granted, Open, PhasesKept
  <1>2. Polling'
    BY DEF Inv, Polling, IsLast, PhasesKept
  <1>3. SetByValue'
    BY DEF Inv, SetByValue
  <1>4. InFlight' \subseteq InFlight
    BY DEF PhasesKept, InFlight
  <1> QED BY <1>1, <1>2, <1>3, <1>4, FewerInFlight

(* One more worker wants to ask; there is room for its call.               *)
LEMMA AskKeeps == ASSUME Finite, Inv, NEW c \in Callers, Ask(c) PROVE Inv'
  <1>1. UiTyping'
    BY DEF Ask, Goto, Inv, UiTyping, Stages
  <1>2. Exclusive' /\ Polling' /\ SetByValue'
    BY DEF Ask, Goto, Inv, UiTyping, Exclusive, Polling, SetByValue, Granted, Open, IsLast, Polls
  <1>3. InFlight' = InFlight \cup {c} /\ c \notin InFlight
    BY DEF Ask, Goto, InFlight, Inv, UiTyping
  <1>4. Cardinality(InFlight') = Cardinality(InFlight) + 1 /\ Cardinality(InFlight) \in Nat
    BY <1>3, InFlightFinite, FS_AddElement DEF Finite
  <1>5. Len(calls) + Cardinality(InFlight) < MaxCalls /\ Len(calls') = Len(calls) /\ Len(calls) \in Nat
    BY DEF Ask, Inv, UiTyping
  <1>6. Bounded'
    BY <1>4, <1>5 DEF Bounded, Finite
  <1> QED BY <1>1, <1>2, <1>6 DEF Inv

LEMMA TakeTurnKeeps == ASSUME Finite, Inv, NEW c \in Callers, TakeTurn(c) PROVE Inv'
  <1>1. UiTyping'
    BY DEF TakeTurn, Goto, Inv, UiTyping, Stages
  <1>2. calls' = calls /\ expected' = expected
    BY DEF TakeTurn
  <1>3. CASE Goto(c, "granted") /\ promptActive' = TRUE /\ TurnFree(c)
    <2>1. \A d \in Callers : ~Granted(d) /\ (Granted(d)' => d = c)
      BY <1>3 DEF Goto, Inv, UiTyping, Exclusive, Granted, TurnFree
    <2>2. \A i \in DOMAIN calls : ~Open(i) /\ ~Open(i)'
      BY <1>2, <1>3 DEF Inv, Exclusive, Open, TurnFree
    <2>3. Granted(c)'
      BY <1>3 DEF Goto, Granted, Inv, UiTyping
    <2>4. Exclusive'
      BY <1>2, <1>3, <2>1, <2>2, <2>3 DEF Exclusive
    <2>5. Polling' /\ SetByValue'
      BY <1>2, <1>3 DEF Goto, Inv, UiTyping, Polling, SetByValue, IsLast, Polls
    <2>6. InFlight' \subseteq InFlight
      BY <1>3 DEF TakeTurn, Goto, Inv, UiTyping, InFlight
    <2> QED BY <1>1, <1>2, <2>4, <2>5, <2>6, FewerInFlight DEF Inv
  <1>4. CASE (Goto(c, "idle") \/ Goto(c, "asleep")) /\ promptActive' = promptActive
    <2>1. PhasesKept
      BY <1>2, <1>4 DEF TakeTurn, Goto, Inv, UiTyping, Stages, Polls, PhasesKept
    <2> QED BY <1>1, <1>2, <1>4, <2>1, PhaseStep DEF Inv
  <1> QED BY <1>3, <1>4 DEF TakeTurn

(* The worker that has the turn passes it to its call.                     *)
LEMMA HandOverKeeps == ASSUME Finite, Inv, NEW c \in Callers, HandOver(c) PROVE Inv'
  <1> DEFINE new == [caller |-> c, generation |-> expected[c], place |-> "queued",
                     abandoned |-> FALSE, value |-> "none", settings |-> 0]
  <1>1. calls' = Append(calls, new) /\ calls \in Seq(Invocation) /\ new \in Invocation
    BY DEF HandOver, Inv, UiTyping, Invocation
  <1>2. PICK n \in Nat :
        /\ calls' \in Seq(Invocation) /\ Len(calls') = n /\ n = Len(calls) + 1
        /\ DOMAIN calls' = DOMAIN calls \cup {n} /\ n \notin DOMAIN calls /\ calls'[n] = new
        /\ \A k \in DOMAIN calls : calls'[k] = calls[k] /\ k < n
    BY <1>1
  <1>3. new.caller = c /\ new.generation = expected[c] /\ new.place = "queued" /\ new.value = "none"
        /\ new.settings = 0
    OBVIOUS
  <1> HIDE DEF new
  <1>4. UiTyping'
    BY <1>2 DEF HandOver, Goto, Inv, UiTyping, Stages
  <1>5. Exclusive'
    <2>1. \A d \in Callers : ~Granted(d)'
      BY DEF HandOver, Goto, Inv, UiTyping, Exclusive, Granted
    <2>2. \A k \in DOMAIN calls : ~Open(k) /\ ~Open(k)'
      BY <1>2 DEF HandOver, Inv, Exclusive, Granted, Open
    <2>3. Open(n)'
      BY <1>2, <1>3 DEF Open
    <2>4. promptActive' = TRUE
      BY DEF HandOver, Inv, Exclusive, Granted, UiTyping
    <2> QED BY <1>2, <2>1, <2>2, <2>3, <2>4 DEF Exclusive
  <1>6. Polling'
    <2> SUFFICES ASSUME NEW d \in Callers, stage'[d] \in Polls
                 PROVE  \E k \in DOMAIN calls' : IsLast(d, k)' /\ calls'[k].generation = expected'[d]
      BY DEF Polling
    <2>1. CASE d = c
      <3>1. IsLast(d, n)' /\ calls'[n].generation = expected'[d]
        BY <1>2, <1>3, <2>1 DEF HandOver, IsLast, Inv, UiTyping
      <3> QED BY <3>1, <1>2
    <2>2. CASE d # c
      <3>1. stage[d] \in Polls
        BY <2>2 DEF HandOver, Goto, Inv, UiTyping
      <3>2. PICK k \in DOMAIN calls : IsLast(d, k) /\ calls[k].generation = expected[d]
        BY <3>1 DEF Inv, Polling
      <3>3. IsLast(d, k)'
        BY <1>2, <1>3, <2>2, <3>2 DEF IsLast
      <3> QED BY <1>2, <3>2, <3>3 DEF HandOver
    <2> QED BY <2>1, <2>2
  <1>7. SetByValue'
    BY <1>2, <1>3 DEF Inv, SetByValue
  <1>8. Bounded'
    <2>1. InFlight' = InFlight \ {c} /\ c \in InFlight
      BY DEF HandOver, Goto, Inv, UiTyping, InFlight
    <2>2. Cardinality(InFlight') = Cardinality(InFlight) - 1 /\ Cardinality(InFlight) \in Nat
      BY <2>1, InFlightFinite, FS_RemoveElement DEF Finite
    <2>3. Len(calls') = Len(calls) + 1 /\ Len(calls) \in Nat
      BY <1>2 DEF Inv, UiTyping
    <2> QED BY <2>2, <2>3 DEF Inv, Bounded, Finite
  <1> QED BY <1>4, <1>5, <1>6, <1>7, <1>8 DEF Inv

(* A worker stops polling or leaves; the interface thread stops and joins. *)
LEMMA LeaveKeeps ==
    ASSUME Finite, Inv, NEW c \in Callers, TakeResult(c) \/ Exit(c)
    PROVE  Inv'
  <1>1. UiTyping'
    BY DEF TakeResult, Exit, Goto, Inv, UiTyping, Stages
  <1>2. calls' = calls /\ promptActive' = promptActive
    BY DEF TakeResult, Exit
  <1>3. PhasesKept
    BY DEF TakeResult, Exit, Goto, Inv, UiTyping, Stages, Polls, PhasesKept
  <1> QED BY <1>1, <1>2, <1>3, PhaseStep DEF Inv

LEMMA StoppingKeeps ==
    ASSUME Finite, Inv, Disable \/ Invalidate \/ TellToStop \/ Join
    PROVE  Inv'
  <1>1. /\ stage' = Awake(stage) \/ stage' = stage
        /\ calls' = calls /\ promptActive' = promptActive /\ expected' = expected
    BY DEF Disable, Invalidate, TellToStop, Join, workerVars
  <1>2. PhasesKept
    <2>1. CASE stage' = Awake(stage) BY <1>1, <2>1, AwakeKeeps DEF Inv
    <2>2. CASE stage' = stage BY <1>1, <2>2 DEF Inv, UiTyping, PhasesKept
    <2> QED BY <1>1, <2>1, <2>2
  <1>3. UiTyping'
    <2>1. stage' \in [Callers -> Stages] /\ expected' = expected /\ calls' = calls /\ promptActive' = promptActive
      BY <1>1, <1>2 DEF PhasesKept
    <2>2. CASE Disable BY <2>1, <2>2 DEF Disable, workerVars, Inv, UiTyping
    <2>3. CASE Invalidate BY <2>1, <2>3 DEF Invalidate, Inv, UiTyping
    <2>4. CASE TellToStop BY <2>1, <2>4 DEF TellToStop, Inv, UiTyping
    <2>5. CASE Join BY <2>1, <2>5 DEF Join, workerVars, Inv, UiTyping
    <2> QED BY <2>2, <2>3, <2>4, <2>5
  <1> QED BY <1>1, <1>2, <1>3, PhaseStep DEF Inv

LEMMA StartKeeps == ASSUME Finite, Inv, Start PROVE Inv'
  <1>1. UiTyping'
    BY DEF Start, Inv, UiTyping, Stages
  <1>2. calls' = calls /\ promptActive' = promptActive
    BY DEF Start
  <1>3. \A c \in Callers : stage[c] = "off" /\ stage'[c] = "idle"
    BY DEF Start
  <1>4. Exclusive'
    BY <1>2, <1>3 DEF Inv, Exclusive, Granted, Open
  <1>5. Polling' /\ SetByValue'
    BY <1>2, <1>3 DEF Inv, Polling, Polls, SetByValue
  <1>6. InFlight' \subseteq InFlight
    BY <1>3 DEF InFlight
  <1> QED BY <1>1, <1>2, <1>4, <1>5, <1>6, FewerInFlight DEF Inv

-----------------------------------------------------------------------------
(* The theorems                                                            *)

LEMMA InitInv == ASSUME Finite, UiInit PROVE Inv
  <1>1. UiTyping
    <2>1. calls \in Seq(Invocation)
      BY DEF UiInit
    <2>2. stage \in [Callers -> Stages] /\ expected \in [Callers -> Nat] /\ stop \in [Callers -> BOOLEAN]
      BY DEF UiInit, Stages
    <2> QED BY <2>1, <2>2 DEF UiInit, UiTyping
  <1>4. DOMAIN calls = {} /\ promptActive = FALSE /\ \A c \in Callers : stage[c] = "off"
    BY DEF UiInit
  <1>5. Exclusive /\ Polling /\ SetByValue
    BY <1>4 DEF Exclusive, Polling, Polls, SetByValue, Granted
  <1>2. InFlight = {} /\ Len(calls) = 0
    BY DEF UiInit, InFlight
  <1>3. Bounded
    BY <1>2, FS_EmptySet DEF Bounded, Finite
  <1> QED BY <1>1, <1>3, <1>5 DEF Inv

LEMMA NextKeepsInv == ASSUME Finite, Inv, [UiNext]_uiVars PROVE Inv'
  <1>1. CASE Dispatch BY <1>1, DispatchKeeps
  <1>2. CASE ChooseResult BY <1>2, ChooseResultKeeps
  <1>3. CASE Finish BY <1>3, FinishKeeps
  <1>4. CASE TellToStop \/ Join \/ Disable \/ Invalidate BY <1>4, StoppingKeeps
  <1>5. CASE CloseDialog BY <1>5, CloseDialogKeeps
  <1>6. CASE Start BY <1>6, StartKeeps
  <1>7. ASSUME NEW c \in Callers, Ask(c) PROVE Inv' BY <1>7, AskKeeps
  <1>8. ASSUME NEW c \in Callers, CallerStep(c) PROVE Inv'
    BY <1>8, TakeTurnKeeps, HandOverKeeps, LeaveKeeps, AbandonKeeps, CancelKeeps DEF CallerStep
  <1>9. CASE UNCHANGED uiVars
    BY <1>9 DEF uiVars, Inv, UiTyping, Exclusive, Polling, SetByValue, Bounded, InFlight, Granted,
                Open, IsLast
  <1> QED BY <1>1, <1>2, <1>3, <1>4, <1>5, <1>6, <1>7, <1>8, <1>9 DEF UiNext, UiStep

(* One holder as a number.                                                 *)
LEMMA OneHolder == ASSUME IsFiniteSet(Callers), Inv PROVE TurnHasOneHolder
  <1> DEFINE G == {c \in Callers : stage[c] = "granted"}
             O == At("queued") \cup At("running")
  <1>1. O = {i \in DOMAIN calls : Open(i)} /\ G = {c \in Callers : Granted(c)}
    BY DEF At, Open, Granted
  <1> HIDE DEF G, O
  <1>2. CASE ~promptActive
    <2>1. G = {} /\ O = {}
      BY <1>1, <1>2 DEF Inv, Exclusive
    <2>2. Cardinality(G) = 0 /\ Cardinality(O) = 0
      BY <2>1, FS_EmptySet
    <2> QED BY <1>2, <2>2 DEF TurnHasOneHolder, G, O
  <1>3. CASE promptActive /\ \E c \in Callers : Granted(c)
    <2>1. PICK c \in Callers : Granted(c)
      BY <1>3
    <2>2. G = {c} /\ O = {}
      BY <1>1, <2>1 DEF Inv, Exclusive
    <2>3. Cardinality(G) = 1 /\ Cardinality(O) = 0
      BY <2>2, FS_EmptySet, FS_Singleton
    <2> QED BY <1>3, <2>3 DEF TurnHasOneHolder, G, O
  <1>4. CASE promptActive /\ \E i \in DOMAIN calls : Open(i)
    <2>1. PICK i \in DOMAIN calls : Open(i)
      BY <1>4
    <2>2. O = {i} /\ G = {}
      BY <1>1, <2>1 DEF Inv, Exclusive
    <2>3. Cardinality(O) = 1 /\ Cardinality(G) = 0
      BY <2>2, FS_EmptySet, FS_Singleton
    <2> QED BY <1>4, <2>3 DEF TurnHasOneHolder, G, O
  <1> QED BY <1>2, <1>3, <1>4 DEF Inv, Exclusive

LEMMA InvImpliesTyping == ASSUME Finite, Inv PROVE UiTypeOK
  <1>1. Len(calls) <= MaxCalls
    BY InFlightFinite DEF Inv, Bounded, UiTyping, Finite
  <1>2. \A c \in Callers : stage[c] \in {"waiting", "abandoning"} =>
            calls[CallOf(c)].caller = c /\ calls[CallOf(c)].generation = expected[c]
    BY CallOfIsLast DEF Inv, IsLast, Polls
  <1> QED BY <1>1, <1>2 DEF Inv, UiTyping, Stages, UiTypeOK

(* Over any number of workers, questions, stops and restarts: at most one  *)
(* question has the turn, the turn is never lost, each worker polls for    *)
(* its own call, and every promise is set at most once (InvokeUi).         *)
THEOREM QuestionsTakeTurns ==
    ASSUME IsFiniteSet(Callers), MaxCalls \in Nat
    PROVE  UiSpec => []TurnsAreConsistent
  <1>1. Finite
    BY DEF Finite
  <1>2. UiInit => Inv
    BY <1>1, InitInv
  <1>3. Inv /\ [UiNext]_uiVars => Inv'
    BY <1>1, NextKeepsInv
  <1>4. Inv => DeliveredOnce
    BY DEF Inv, SetByValue, DeliveredOnce
  <1>5. Inv => TurnsAreConsistent
    BY <1>1, <1>4, InvImpliesTyping, OneHolder DEF Finite, TurnsAreConsistent
  <1> QED BY <1>2, <1>3, <1>5, PTL DEF UiSpec
=============================================================================
