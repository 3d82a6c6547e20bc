------------------------------ MODULE UiDispatch ------------------------------
(***************************************************************************)
(* RemoteController::Impl::InvokeUi: how a worker thread has a callback    *)
(* run by the interface thread and waits for its result without blocking   *)
(* the interface thread that may be waiting for the worker.                *)
(*                                                                         *)
(* A worker waits for its turn (promptActive, one question at a time),     *)
(* hands a call to the event queue and polls for the result every 25 ms.   *)
(* The interface thread runs calls from its event loop, or from the nested *)
(* loop of a dialog; it may stop all workers and join them at any time.    *)
(***************************************************************************)
EXTENDS Naturals, Sequences, FiniteSets

CONSTANTS
    Callers,            \* worker threads: the browser and the transfer workers
    MaxCalls,           \* bound: calls handed to the event queue
    MaxGeneration       \* bound: starts and stops

VARIABLES
    promptActive, enabled, generation,      \* UiDispatch
    calls,              \* every Invocation, in the order handed over
    stage,              \* where each worker is in InvokeUi
    expected,           \* the generation each worker was started for
    stop,               \* its stop token
    ui                  \* where the interface thread is

uiVars == <<promptActive, enabled, generation, calls, stage, expected, stop, ui>>
workerVars == <<stage, expected, stop>>

Invocation == [caller: Callers, generation: Nat,
               place: {"queued", "running", "closing", "answering", "obsolete", "done"},
               abandoned: BOOLEAN,
               value: {"none", "answer", "cancelled"},
               settings: Nat]            \* how often set_value was called

UiInit ==
    /\ promptActive = FALSE /\ enabled = TRUE /\ generation = 0
    /\ calls = <<>>
    /\ stage = [c \in Callers |-> "off"]
    /\ expected = [c \in Callers |-> 0]
    /\ stop = [c \in Callers |-> FALSE]
    /\ ui = "loop"

At(place) == {i \in DOMAIN calls : calls[i].place = place}
Goto(c, label) == stage' = [stage EXCEPT ![c] = label]
Awake(phases) == [c \in Callers |-> IF phases[c] = "asleep" THEN "turn" ELSE phases[c]]

-----------------------------------------------------------------------------
(* The worker                                                              *)

InFlight == {c \in Callers : stage[c] \in {"turn", "asleep", "granted"}}

Ask(c) ==
    /\ stage[c] = "idle" /\ ~stop[c]
    /\ Len(calls) + Cardinality(InFlight) < MaxCalls
    /\ Goto(c, "turn")
    /\ UNCHANGED <<promptActive, enabled, generation, calls, expected, stop, ui>>

Refused(c) == stop[c] \/ ~enabled \/ generation # expected[c]

TurnAlwaysFree(c) == TRUE                                          \* mutant
TurnFree(c) == ~promptActive

(* promptCv.wait and the test after it, under promptMutex: refused, given  *)
(* the turn, or asleep until notified.                                     *)
TakeTurn(c) ==
    /\ stage[c] = "turn"
    /\ \/ Refused(c) /\ Goto(c, "idle") /\ UNCHANGED promptActive
       \/ ~Refused(c) /\ TurnFree(c) /\ Goto(c, "granted") /\ promptActive' = TRUE
       \/ ~Refused(c) /\ ~TurnFree(c) /\ Goto(c, "asleep") /\ UNCHANGED promptActive
    /\ UNCHANGED <<enabled, generation, calls, expected, stop, ui>>

HandOver(c) ==
    /\ stage[c] = "granted"
    /\ calls' = Append(calls, [caller |-> c, generation |-> expected[c],
                               place |-> "queued", abandoned |-> FALSE, value |-> "none",
                               settings |-> 0])
    /\ Goto(c, "waiting")
    /\ UNCHANGED <<promptActive, enabled, generation, expected, stop, ui>>

CallOf(c) == CHOOSE i \in DOMAIN calls :
    calls[i].caller = c /\ \A k \in DOMAIN calls : calls[k].caller = c => k <= i

(* The promise is set by whoever exchanges delivered first.                *)
Delivered(call, v) ==
    IF call.value # "none" THEN call
    ELSE [call EXCEPT !.value = v, !.settings = @ + 1]

(* One turn of the polling loop: take the result, or, once told to stop,   *)
(* abandon the call and give oneself a result unless one was delivered.    *)
TakeResult(c) ==
    /\ stage[c] \in {"waiting", "abandoning"}
    /\ calls[CallOf(c)].value # "none"
    /\ Goto(c, "idle")
    /\ UNCHANGED <<promptActive, enabled, generation, calls, expected, stop, ui>>

AbandonAtExit(c) ==                                                \* mutant
    /\ stage[c] = "waiting" /\ stop[c] /\ ~enabled /\ calls[CallOf(c)].value = "none"
    /\ calls' = [calls EXCEPT ![CallOf(c)].abandoned = TRUE]
    /\ Goto(c, "abandoning")
    /\ UNCHANGED <<promptActive, enabled, generation, expected, stop, ui>>

Abandon(c) ==
    /\ stage[c] = "waiting" /\ stop[c] /\ calls[CallOf(c)].value = "none"
    /\ calls' = [calls EXCEPT ![CallOf(c)].abandoned = TRUE]
    /\ Goto(c, "abandoning")
    /\ UNCHANGED <<promptActive, enabled, generation, expected, stop, ui>>

CancelForItself(c) ==
    /\ stage[c] = "abandoning"
    /\ calls' = [calls EXCEPT ![CallOf(c)] = Delivered(@, "cancelled")]
    /\ Goto(c, "waiting")
    /\ UNCHANGED <<promptActive, enabled, generation, expected, stop, ui>>

(* A worker told to stop leaves its loop between two questions.            *)
Exit(c) ==
    /\ stage[c] = "idle" /\ stop[c]
    /\ Goto(c, "off")
    /\ UNCHANGED <<promptActive, enabled, generation, calls, expected, stop, ui>>

CallerStep(c) ==
    \/ TakeTurn(c) \/ HandOver(c) \/ TakeResult(c) \/ Abandon(c) \/ CancelForItself(c)
    \/ Exit(c)

-----------------------------------------------------------------------------
(* The interface thread.  It dispatches in its loop, also under an open    *)
(* dialog, but not between a dialog and the end of its call.               *)

Dispatching ==
    ui = "loop" /\ At("closing") \cup At("answering") \cup At("obsolete") = {}

Obsolete(i) ==
    calls[i].abandoned \/ ~enabled \/ generation # calls[i].generation

ReleaseNobody ==                                                   \* mutant
    /\ promptActive' = FALSE
    /\ UNCHANGED stage

ReleasePrompt ==
    /\ promptActive' = FALSE
    /\ stage' = Awake(stage)

(* The oldest call of the event queue: obsolete, or its callback starts.   *)
Dispatch ==
    /\ Dispatching /\ At("queued") # {}
    /\ LET i == CHOOSE i \in At("queued") : \A k \in At("queued") : i <= k
       IN  IF Obsolete(i)
           THEN calls' = [calls EXCEPT ![i].place = "obsolete"] /\ ReleasePrompt
           ELSE calls' = [calls EXCEPT ![i].place = "running"] /\ UNCHANGED <<promptActive, stage>>
    /\ UNCHANGED <<enabled, generation, expected, stop, ui>>

(* The callback returns (the innermost dialog first).                      *)
CloseDialog ==
    /\ Dispatching /\ At("running") # {}
    /\ LET i == CHOOSE i \in At("running") : \A k \in At("running") : i >= k
       IN  calls' = [calls EXCEPT ![i].place = "closing"]
    /\ ReleasePrompt
    /\ UNCHANGED <<enabled, generation, expected, stop, ui>>

(* The result is chosen and then delivered; the worker may give up in      *)
(* between.                                                                *)
ChooseResult ==
    /\ \E i \in At("closing") :
          calls' = [calls EXCEPT ![i].place =
              IF calls[i].abandoned \/ generation # calls[i].generation
              THEN "obsolete" ELSE "answering"]
    /\ UNCHANGED <<promptActive, enabled, generation, workerVars, ui>>

Finish ==
    /\ \E i \in At("answering") \cup At("obsolete") :
          calls' = [calls EXCEPT ![i] =
              [Delivered(@, IF @.place = "answering" THEN "answer" ELSE "cancelled")
                  EXCEPT !.place = "done"]]
    /\ UNCHANGED <<promptActive, enabled, generation, workerVars, ui>>

(* Start, Shutdown, and StopWorkers: invalidate, tell, join.               *)
Start ==
    /\ Dispatching /\ generation < MaxGeneration
    /\ \A c \in Callers : stage[c] = "off"
    /\ enabled' = TRUE
    /\ generation' = generation + 1
    /\ stage' = [c \in Callers |-> "idle"]
    /\ expected' = [c \in Callers |-> generation']
    /\ stop' = [c \in Callers |-> FALSE]
    /\ UNCHANGED <<promptActive, calls, ui>>

Disable ==
    /\ Dispatching
    /\ enabled' = FALSE /\ ui' = "disabled"
    /\ UNCHANGED <<promptActive, generation, calls, workerVars>>

Invalidate ==
    /\ ui = "disabled" \/ (Dispatching /\ generation < MaxGeneration)
    /\ generation' = generation + 1
    /\ stage' = Awake(stage)
    /\ ui' = "telling"
    /\ UNCHANGED <<promptActive, enabled, calls, expected, stop>>

TellToStop ==
    /\ ui = "telling"
    /\ stop' = [c \in Callers |-> TRUE]
    /\ stage' = Awake(stage)
    /\ ui' = "joining"
    /\ UNCHANGED <<promptActive, enabled, generation, calls, expected>>

Join ==
    /\ ui = "joining" /\ \A c \in Callers : stage[c] = "off"
    /\ ui' = IF enabled THEN "loop" ELSE "exited"
    /\ UNCHANGED <<promptActive, enabled, generation, calls, workerVars>>

UiStep ==
    \/ Dispatch \/ ChooseResult \/ Finish \/ TellToStop \/ Join \/ (ui = "disabled" /\ Invalidate)

UiNext ==
    \/ UiStep \/ CloseDialog \/ Start \/ Disable \/ Invalidate
    \/ \E c \in Callers : Ask(c) \/ CallerStep(c)

UiSpec == UiInit /\ [][UiNext]_uiVars

(* Workers poll and the event loop runs; dialogs may stay open for ever.   *)
UiFairness == WF_uiVars(UiStep) /\ \A c \in Callers : WF_uiVars(CallerStep(c))
UiFairSpec == UiSpec /\ UiFairness

-----------------------------------------------------------------------------
(* A worker polls for a call of its own, made for the connection it works  *)
(* for.                                                                    *)
UiTypeOK ==
    /\ promptActive \in BOOLEAN /\ enabled \in BOOLEAN /\ generation \in Nat
    /\ calls \in Seq(Invocation) /\ Len(calls) <= MaxCalls
    /\ stage \in [Callers -> {"off", "idle", "turn", "asleep", "granted", "waiting",
                              "abandoning"}]
    /\ expected \in [Callers -> Nat]
    /\ stop \in [Callers -> BOOLEAN]
    /\ ui \in {"loop", "disabled", "telling", "joining", "exited"}
    /\ \A c \in Callers : stage[c] \in {"waiting", "abandoning"} =>
           calls[CallOf(c)].caller = c /\ calls[CallOf(c)].generation = expected[c]

(* The turn is taken exactly while somebody has it: a worker about to hand *)
(* its call over, or one call, abandoned or obsolete as it may be, that    *)
(* the interface thread has not let go of.  So no two callbacks ever show  *)
(* their dialogs on top of each other, across stops and restarts, and the  *)
(* turn is never lost (promptActive, releasePrompt).                       *)
TurnHasOneHolder ==
    Cardinality({c \in Callers : stage[c] = "granted"})
        + Cardinality(At("queued") \cup At("running")) = IF promptActive THEN 1 ELSE 0

(* The result of a call is set once, though the interface thread and the   *)
(* stopping worker may both come to set it, the one long after the other   *)
(* (delivered; a promise set twice throws on the interface thread).        *)
DeliveredOnce == \A i \in DOMAIN calls : calls[i].settings <= 1

(* The three together: one question at a time, each answered once.         *)
TurnsAreConsistent == UiTypeOK /\ TurnHasOneHolder /\ DeliveredOnce

(* Stopping the workers returns although the calls they wait for can only  *)
(* run on the thread that stops them.                                      *)
JoinReturns == ui = "joining" ~> ui # "joining"

(* A user who closes every dialog.                                         *)
DialogsClose == WF_uiVars(CloseDialog)

(* With such a user every question ends: nobody sleeps through a free      *)
(* turn, and an abandoned call frees the turn for the workers of the next  *)
(* connection.                                                             *)
QuestionsEnd ==
    DialogsClose =>
        \A c \in Callers : stage[c] \notin {"off", "idle"} ~> stage[c] \in {"off", "idle"}
=============================================================================
