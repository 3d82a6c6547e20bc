--------------------------- MODULE TransferRuntime ---------------------------
(***************************************************************************)
(* The process-wide coordination shared by the controllers of all          *)
(* connection tabs (src/core/transferRuntime.cpp): a bounded number of     *)
(* transfer leases, and exclusive reservations of write destinations.      *)
(*                                                                         *)
(* Every operation holds State::mutex for its whole body and is one        *)
(* action.  A lease and a reservation are move-only values released by     *)
(* their destructors: a worker holds at most one lease, taken before any   *)
(* of its reservations and released after the last one                     *)
(* (RemoteController::Impl::TransferLoop and ProcessTransfer).             *)
(* A download reserves its destination and then its partial file; an       *)
(* upload reserves one remote key (endpoint and path).                     *)
(***************************************************************************)
EXTENDS Integers, FiniteSets

CONSTANTS
    Workers,            \* the transfer workers of all controllers
    Limit,              \* State::concurrencyLimit
    LocalKeys,          \* normalized absolute local paths
    RemoteKeys,         \* endpoint identity and remote path
    PartialOf,          \* the .havremote.part file of a local destination
    Aliases             \* pairs of paths the file system resolves to one file

ASSUME RuntimeAssumption ==
    /\ Limit \in 1 .. 16
    /\ IsFiniteSet(Workers)
    /\ PartialOf \in [LocalKeys -> LocalKeys]
    /\ Aliases \in SUBSET (LocalKeys \X LocalKeys)
    /\ \A x, y \in LocalKeys : <<x, y>> \in Aliases => <<y, x>> \in Aliases

VARIABLES
    activeTransfers,        \* State::activeTransfers
    activeLocal,            \* State::activeLocalDestinations
    activeRemote,           \* State::activeRemoteDestinations
    phase,                  \* where each worker is
    stopRequested,          \* the worker's stop token
    heldLocal,              \* local reservations each worker holds
    heldRemote              \* remote reservations each worker holds

vars == <<activeTransfers, activeLocal, activeRemote, phase, stopRequested,
          heldLocal, heldRemote>>
leaseVars == <<activeTransfers, phase>>
reservationVars == <<activeLocal, activeRemote, heldLocal, heldRemote>>

Phases == {"idle", "waiting", "leased"}

Init ==
    /\ activeTransfers = 0
    /\ activeLocal = {} /\ activeRemote = {}
    /\ phase = [w \in Workers |-> "idle"]
    /\ stopRequested = [w \in Workers |-> FALSE]
    /\ heldLocal = [w \in Workers |-> {}]
    /\ heldRemote = [w \in Workers |-> {}]

(* A worker found queued work and calls AcquireTransfer.                   *)
BeginAcquire(w) ==
    /\ phase[w] = "idle" /\ ~stopRequested[w]
    /\ phase' = [phase EXCEPT ![w] = "waiting"]
    /\ UNCHANGED <<activeTransfers, stopRequested, reservationVars>>

RequestStop(w) ==
    /\ stopRequested' = [stopRequested EXCEPT ![w] = TRUE]
    /\ UNCHANGED <<leaseVars, reservationVars>>

SlotFree == activeTransfers < Limit

(* One turn of the loop in AcquireTransfer that leaves it.  The 25 ms      *)
(* timed wait makes every waiter look again, whether notified or not.      *)
AcquireTransfer(w) ==
    /\ phase[w] = "waiting"
    /\ ~stopRequested[w]
    /\ SlotFree
    /\ activeTransfers' = activeTransfers + 1
    /\ phase' = [phase EXCEPT ![w] = "leased"]
    /\ UNCHANGED <<stopRequested, reservationVars>>

AbandonOnceNotified(w) ==                                          \* mutant
    /\ phase[w] = "waiting"
    /\ stopRequested[w]
    /\ SlotFree
    /\ phase' = [phase EXCEPT ![w] = "idle"]
    /\ UNCHANGED <<activeTransfers, stopRequested, reservationVars>>

AbandonAcquire(w) ==
    /\ phase[w] = "waiting"
    /\ stopRequested[w]
    /\ phase' = [phase EXCEPT ![w] = "idle"]
    /\ UNCHANGED <<activeTransfers, stopRequested, reservationVars>>

(* TransferLease::Release, by the destructor at the end of the iteration.  *)
ReleaseWithoutCount(w) ==                                          \* mutant
    /\ phase[w] = "leased" /\ heldLocal[w] = {} /\ heldRemote[w] = {}
    /\ UNCHANGED activeTransfers
    /\ phase' = [phase EXCEPT ![w] = "idle"]
    /\ UNCHANGED <<stopRequested, reservationVars>>

ReleaseLease(w) ==
    /\ phase[w] = "leased" /\ heldLocal[w] = {} /\ heldRemote[w] = {}
    /\ activeTransfers' = IF activeTransfers > 0 THEN activeTransfers - 1
                                                 ELSE activeTransfers
    /\ phase' = [phase EXCEPT ![w] = "idle"]
    /\ UNCHANGED <<stopRequested, reservationVars>>

(* A path conflicts with itself and with every alias the callback names.   *)
SpellingInUse(key) == key \in activeLocal                          \* mutant
LocalInUse(key) == \E other \in activeLocal : other = key \/ <<key, other>> \in Aliases

(* The first reservation of a download, and the second one, made only      *)
(* while the first is held.  When the second is refused the job fails and  *)
(* the first is released (ReleaseLocal).                                   *)
ReserveLocal(w, key) ==
    /\ ~LocalInUse(key)
    /\ activeLocal' = activeLocal \cup {key}
    /\ heldLocal' = [heldLocal EXCEPT ![w] = @ \cup {key}]
    /\ UNCHANGED <<leaseVars, stopRequested, activeRemote, heldRemote>>

ReserveDestination(w, key) ==
    /\ phase[w] = "leased" /\ heldLocal[w] = {} /\ heldRemote[w] = {}
    /\ ReserveLocal(w, key)

ReservePartial(w, key) ==
    /\ phase[w] = "leased" /\ heldLocal[w] = {key}
    /\ ReserveLocal(w, PartialOf[key])

ReserveRemote(w, key) ==
    /\ phase[w] = "leased" /\ heldLocal[w] = {} /\ heldRemote[w] = {}
    /\ key \notin activeRemote
    /\ activeRemote' = activeRemote \cup {key}
    /\ heldRemote' = [heldRemote EXCEPT ![w] = {key}]
    /\ UNCHANGED <<leaseVars, stopRequested, activeLocal, heldLocal>>

(* DestinationReservation::Release of both local reservations of a file,   *)
(* one destructor after the other.                                         *)
ReleaseKeepsKey(w, key) ==                                         \* mutant
    /\ key \in heldLocal[w]
    /\ heldLocal' = [heldLocal EXCEPT ![w] = @ \ {key}]
    /\ UNCHANGED <<leaseVars, stopRequested, activeLocal, activeRemote, heldRemote>>

ReleaseLocal(w, key) ==
    /\ key \in heldLocal[w]
    /\ activeLocal' = activeLocal \ {key}
    /\ heldLocal' = [heldLocal EXCEPT ![w] = @ \ {key}]
    /\ UNCHANGED <<leaseVars, stopRequested, activeRemote, heldRemote>>

ReleaseRemote(w, key) ==
    /\ key \in heldRemote[w]
    /\ activeRemote' = activeRemote \ {key}
    /\ heldRemote' = [heldRemote EXCEPT ![w] = {}]
    /\ UNCHANGED <<leaseVars, stopRequested, activeLocal, heldLocal>>

Next ==
    \E w \in Workers :
        \/ BeginAcquire(w) \/ RequestStop(w)
        \/ AcquireTransfer(w) \/ AbandonAcquire(w) \/ ReleaseLease(w)
        \/ \E key \in LocalKeys :
               \/ ReserveDestination(w, key) \/ ReservePartial(w, key)
               \/ ReleaseLocal(w, key)
        \/ \E key \in RemoteKeys : ReserveRemote(w, key) \/ ReleaseRemote(w, key)

(* A waiter wakes up every 25 ms; a leased worker ends its transfer and    *)
(* its destructors run.                                                    *)
Fairness ==
    \A w \in Workers :
        /\ WF_vars(AcquireTransfer(w))
        /\ WF_vars(AbandonAcquire(w))
        /\ WF_vars(ReleaseLease(w))
        /\ WF_vars(\E key \in LocalKeys : ReleaseLocal(w, key))
        /\ WF_vars(\E key \in RemoteKeys : ReleaseRemote(w, key))

Spec == Init /\ [][Next]_vars
FairSpec == Spec /\ Fairness

-----------------------------------------------------------------------------
TypeOK ==
    /\ activeTransfers \in 0 .. Limit
    /\ activeLocal \subseteq LocalKeys /\ activeRemote \subseteq RemoteKeys
    /\ phase \in [Workers -> Phases]
    /\ stopRequested \in [Workers -> BOOLEAN]
    /\ heldLocal \in [Workers -> SUBSET LocalKeys]
    /\ heldRemote \in [Workers -> SUBSET RemoteKeys]

Leased == {w \in Workers : phase[w] = "leased"}

(* However acquisition, stop requests and releases interleave, the counter *)
(* is the number of live leases and never exceeds the configured limit: no *)
(* lease is leaked or released twice (AcquireTransfer, Release).           *)
LeasesCounted == activeTransfers = Cardinality(Leased) /\ activeTransfers <= Limit

(* No two workers, of any tabs, hold reservations of one file, whether     *)
(* spelled alike or aliased, as a destination or as somebody's partial     *)
(* file (ReserveLocalDestination).                                         *)
LocalWritersExclusive ==
    \A v, w \in Workers : v # w =>
        \A x \in heldLocal[v], y \in heldLocal[w] :
            x # y /\ <<x, y>> \notin Aliases

(* The sets of active destinations hold exactly what live reservations     *)
(* own: nothing stays reserved after its transfer, nothing is freed while  *)
(* it is being written (DestinationReservation::Release).                  *)
ReservationsOwned ==
    /\ activeLocal = UNION {heldLocal[w] : w \in Workers}
    /\ activeRemote = UNION {heldRemote[w] : w \in Workers}
    /\ \A v, w \in Workers : v # w => heldRemote[v] \cap heldRemote[w] = {}

(* A worker told to stop while it waits for a slot leaves the wait even    *)
(* when no slot is ever freed (the bounded poll of AcquireTransfer).       *)
StopEndsTheWait ==
    \A w \in Workers :
        stopRequested[w] /\ phase[w] = "waiting" ~> phase[w] # "waiting"
=============================================================================
