------------------------- MODULE ThoughtCoordinator -------------------------
(***************************************************************************)
(* ThoughtCoordinator and the worker threads it starts.  Any thread may    *)
(* call its methods in any order; each holds the lock from its first read  *)
(* to its last write, so a call is one step.  A worker runs outside the    *)
(* lock: it looks at its cancel event, calls the provider, looks again,    *)
(* and takes the lock once more to settle.                                 *)
(*                                                                         *)
(* A worker is named by the generation it was started with, and so is the  *)
(* result it produces.  Nothing stops a cancelled worker: it goes on until *)
(* its provider call returns, and settles late.                            *)
(***************************************************************************)
EXTENDS Naturals, FiniteSets

CONSTANTS
  None,            \* Python's None
  MaxGeneration,   \* no thought starts beyond this generation: bounds a run
  StartMayFail     \* Thread.start may raise ("can't start new thread")

ASSUME CoordinatorAssumption ==
  MaxGeneration \in Nat /\ StartMayFail \in BOOLEAN /\ None \notin Nat

VARIABLES
  state,           \* _state
  generation,      \* _generation
  cancelEvent,     \* _cancelled: the worker whose event it is, or None
  cancelled,       \* the workers whose event is set
  thread,          \* _thread: a worker, or None
  lastResult,      \* _last_result: the worker it came from, or None
  foreground,      \* _foreground_active
  worker,          \* where each worker thread is
  interrupted      \* history variable: workers whose thought was cancelled

coordinatorVars ==
  <<state, generation, cancelEvent, cancelled, thread, lastResult, foreground,
    worker, interrupted>>

Worker == 1 .. MaxGeneration

Unborn  == {"none", "done"}
Phase   == Unborn \cup {"entered", "calling", "answered", "result", "empty"}

Alive(w) == worker[w] \notin Unborn

CoordinatorTypeOK ==
  /\ state \in {"idle", "running"}
  /\ generation \in Nat
  /\ cancelEvent \in Worker \cup {None}
  /\ cancelled \subseteq Worker
  /\ thread \in Worker \cup {None}
  /\ lastResult \in Worker \cup {None}
  /\ foreground \in BOOLEAN
  /\ worker \in [Worker -> Phase]
  /\ interrupted \subseteq Nat

CoordinatorInit ==
  /\ state = "idle"
  /\ generation = 0
  /\ cancelEvent = None
  /\ cancelled = {}
  /\ thread = None
  /\ lastResult = None
  /\ foreground = FALSE
  /\ worker = [w \in Worker |-> "none"]
  /\ interrupted = {}

-----------------------------------------------------------------------------
(* start                                                                   *)

(* Mutant: a worker that was cancelled but still runs is not waited for.   *)
StartAllowedBesideWorker == ~foreground /\ state # "running"

StartAllowed ==
  /\ ~foreground
  /\ state # "running"
  /\ thread # None => ~Alive(thread)

(* Mutant: the last result stays until the next one.                       *)
ClaimKeepingResult ==
  /\ StartAllowed
  /\ generation < MaxGeneration
  /\ generation' = generation + 1
  /\ cancelEvent' = generation + 1
  /\ state' = "running"
  /\ thread' = generation + 1
  /\ UNCHANGED <<cancelled, lastResult, foreground, interrupted>>

(* Everything up to thread.start().                                        *)
Claim ==
  /\ StartAllowed
  /\ generation < MaxGeneration
  /\ generation' = generation + 1
  /\ cancelEvent' = generation + 1
  /\ state' = "running"
  /\ lastResult' = None
  /\ thread' = generation + 1
  /\ UNCHANGED <<cancelled, foreground, interrupted>>

StartThought ==
  /\ Claim
  /\ worker' = [worker EXCEPT ![generation + 1] = "entered"]

(* thread.start() raises: the claim stands and no worker exists.           *)
StartFails ==
  /\ StartMayFail
  /\ Claim
  /\ UNCHANGED worker

-----------------------------------------------------------------------------
(* Foreground, cancellation, shutdown                                      *)

(* _cancel_locked                                                          *)
CancelLocked ==
  /\ UNCHANGED <<cancelEvent, thread, worker>>
  /\ IF state = "running"
     THEN /\ generation' = generation + 1
          /\ cancelled' = cancelled \cup ({cancelEvent} \ {None})
          /\ state' = "idle"
          /\ lastResult' = None
          /\ interrupted' = interrupted \cup {generation}
     ELSE UNCHANGED <<generation, cancelled, state, lastResult, interrupted>>

(* Mutant: a turn does not cancel the thought that is running.             *)
BeginForegroundGently ==
  /\ foreground' = TRUE
  /\ UNCHANGED <<state, generation, cancelEvent, cancelled, thread, lastResult,
                 worker, interrupted>>

BeginForeground == foreground' = TRUE /\ CancelLocked

CancelForForeground == CancelLocked /\ UNCHANGED foreground

EndForeground ==
  /\ foreground' = FALSE
  /\ UNCHANGED <<state, generation, cancelEvent, cancelled, thread, lastResult,
                 worker, interrupted>>

(* The second critical section of shutdown; the first is BeginForeground.  *)
ClearResult ==
  /\ lastResult' = None
  /\ UNCHANGED <<state, generation, cancelEvent, cancelled, thread, foreground,
                 worker, interrupted>>

-----------------------------------------------------------------------------
(* A worker thread: ThoughtWorker.run inside _run                          *)

MoveTo(w, phase) ==
  /\ worker' = [worker EXCEPT ![w] = phase]
  /\ UNCHANGED <<state, generation, cancelEvent, cancelled, thread, lastResult,
                 foreground, interrupted>>

EnterWorker(w) ==
  /\ worker[w] = "entered"
  /\ MoveTo(w, IF w \in cancelled THEN "empty" ELSE "calling")

(* The provider answers or raises (a timeout, a transport error).          *)
ProviderReturns(w) ==
  /\ worker[w] = "calling"
  /\ \E outcome \in {"answered", "empty"} : MoveTo(w, outcome)

(* The second look at the event, then TypedThoughtResult.from_payload,     *)
(* which raises on a malformed payload.                                    *)
TakeAnswer(w) ==
  /\ worker[w] = "answered"
  /\ \E outcome \in {"result", "empty"} :
       MoveTo(w, IF w \in cancelled THEN "empty" ELSE outcome)

Current(w) == w = generation /\ state = "running" /\ w \notin cancelled

(* Mutant: the result is stored without asking whether it is current.      *)
SettleAnyway(w) ==
  /\ worker[w] \in {"result", "empty"}
  /\ worker' = [worker EXCEPT ![w] = "done"]
  /\ thread' = IF thread = w THEN None ELSE thread
  /\ lastResult' = IF worker[w] = "result" THEN w ELSE None
  /\ state' = "idle"
  /\ cancelEvent' = None
  /\ UNCHANGED <<generation, cancelled, foreground, interrupted>>

(* Mutant: without a result the worker returns early.                      *)
SettleOnlyResult(w) ==
  /\ worker[w] \in {"result", "empty"}
  /\ worker' = [worker EXCEPT ![w] = "done"]
  /\ thread' = IF thread = w THEN None ELSE thread
  /\ IF Current(w) /\ worker[w] = "result"
     THEN lastResult' = w /\ state' = "idle" /\ cancelEvent' = None
     ELSE UNCHANGED <<lastResult, state, cancelEvent>>
  /\ UNCHANGED <<generation, cancelled, foreground, interrupted>>

(* Mutant: a settled thought leaves a state of its own.                    *)
SettleFinished(w) ==
  /\ worker[w] \in {"result", "empty"}
  /\ worker' = [worker EXCEPT ![w] = "done"]
  /\ thread' = IF thread = w THEN None ELSE thread
  /\ IF Current(w)
     THEN /\ lastResult' = IF worker[w] = "result" THEN w ELSE None
          /\ state' = "finished"
          /\ cancelEvent' = None
     ELSE UNCHANGED <<lastResult, state, cancelEvent>>
  /\ UNCHANGED <<generation, cancelled, foreground, interrupted>>

(* The finally block of _run.  The policies it consults decide nothing.    *)
Settle(w) ==
  /\ worker[w] \in {"result", "empty"}
  /\ worker' = [worker EXCEPT ![w] = "done"]
  /\ thread' = IF thread = w THEN None ELSE thread
  /\ IF Current(w)
     THEN /\ lastResult' = IF worker[w] = "result" THEN w ELSE None
          /\ state' = "idle"
          /\ cancelEvent' = None
     ELSE UNCHANGED <<lastResult, state, cancelEvent>>
  /\ UNCHANGED <<generation, cancelled, foreground, interrupted>>

WorkerStep(w) ==
  EnterWorker(w) \/ ProviderReturns(w) \/ TakeAnswer(w) \/ Settle(w)

CoordinatorNext ==
  \/ StartThought \/ StartFails
  \/ BeginForeground \/ EndForeground \/ CancelForForeground \/ ClearResult
  \/ \E w \in Worker : WorkerStep(w)

CoordinatorSpec == CoordinatorInit /\ [][CoordinatorNext]_coordinatorVars

-----------------------------------------------------------------------------
(* Properties.                                                             *)

(* However often turns cancel and ticks restart, at most one worker thread *)
(* exists, the late ones included: a hung provider never piles up threads. *)
SingleWorker == Cardinality({w \in Worker : Alive(w)}) <= 1

(* A turn that has the floor never shares it with a running thought.       *)
ForegroundExclusive == foreground => state = "idle"

(* What a cancelled thought answers late is never kept.                    *)
InterruptedNeverKept == lastResult \notin interrupted

(* The coordinator with its threads implements the slot.                   *)
Slot == INSTANCE ThoughtSlot
          WITH slot <- IF state = "running" THEN generation ELSE None,
               result <- lastResult

ImplementsSlot == Slot!SlotSpec

(* Refuted when threads may fail to start.  ADR-020: thought start failure *)
(* restores a valid idle state.  A slot nobody works on is not idle, and   *)
(* no later tick can start a thought in it.                                *)
RunningHasWorker == state = "running" => Alive(generation)
=============================================================================
