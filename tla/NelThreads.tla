----------------------------- MODULE NelThreads -----------------------------
(***************************************************************************)
(* The threads of one Nel process: the main thread that reads a line and   *)
(* thinks, the clock thread whose ticks may start a background thought,    *)
(* and the worker threads of ThoughtCoordinator.  The clock thread decides *)
(* from three reads (operational state, foreground flag, thought state),   *)
(* each at a moment of its own, and acts on them later; the user may type, *)
(* or leave, in between.                                                   *)
(*                                                                         *)
(* What a turn does while it has the floor is one step here.  Background   *)
(* thoughts are enabled (the gate in on_clock_tick is open).               *)
(*                                                                         *)
(* The process starts its clock once and stops it from the main thread     *)
(* only: of the loops and callers of Clock, this is the instance with one  *)
(* of each, and the loop's callback is the tick, step by step.             *)
(***************************************************************************)
EXTENDS ThoughtCoordinator

CONSTANT Main  \* the main thread

ASSUME MainAssumption == Main \notin Nat

Engine == INSTANCE DecisionEngine

VARIABLES
  main,        \* where the main thread is: main.run, Nel.think, Nel.stop
  opState,     \* StateManager.state
  clock,       \* where the clock thread is: Clock.loop, Nel.on_clock_tick
  running, stopEvent, clockThread,  \* the Clock object
  seen,        \* what the tick has read so far
  due          \* BACKGROUND_THOUGHT_INTERVAL_SECONDS have passed since the last

clockObject == <<running, stopEvent, clockThread>>
threadVars == <<main, opState, clock, clockObject, seen, due>>
vars == <<coordinatorVars, threadVars>>

MainPhase ==
  {"building", "failed", "prompt", "foreground", "turn", "answered", "raised",
   "leaving", "joining", "forgetting", "shutdown", "clearing", "stopped"}

TickPhase == {"foreground", "decide", "build", "start"}

(* The Clock of this process.                                              *)
Ticker ==
  INSTANCE Clock WITH
    Caller <- {Main},
    MaxLoops <- 1,
    LoopMayNotStart <- StartMayFail,
    loop <- [l \in {1} |-> IF clock \in TickPhase THEN "callback" ELSE clock],
    stopping <- [s \in {Main, 1} |->
                   IF s = Main /\ main = "joining" THEN "join"
                   ELSE IF s = Main /\ main = "forgetting" THEN "forget"
                   ELSE "no"],
    joined <- [s \in {Main, 1} |->
                 IF s = Main /\ main \in {"joining", "forgetting"} THEN 1 ELSE None],
    selfStopped <- {}

NothingSeen == [opState |-> "idle", foreground |-> FALSE]

TypeOK ==
  /\ CoordinatorTypeOK
  /\ main \in MainPhase
  /\ opState \in {"idle", "thinking"}
  /\ clock \in Ticker!LoopPhase \cup TickPhase
  /\ Ticker!ClockTypeOK
  /\ seen \in [opState : {"idle", "thinking"}, foreground : BOOLEAN]
  /\ due \in BOOLEAN

Init ==
  /\ CoordinatorInit
  /\ main = "building"
  /\ opState = "idle"
  /\ clock = "none"
  /\ running = FALSE /\ stopEvent = FALSE /\ clockThread = None
  /\ seen = NothingSeen
  /\ due = FALSE

-----------------------------------------------------------------------------
(* The main thread.                                                        *)

MainTo(from, to) == main = from /\ main' = to

(* The last step of Nel.__init__.  An error of Thread.start ends the       *)
(* program, and there is nothing to stop.                                  *)
Build ==
  /\ \/ MainTo("building", "prompt") /\ clock' = "waiting" /\ Ticker!StartClock
     \/ MainTo("building", "failed") /\ clock' = "unstarted" /\ Ticker!StartClockFails
  /\ UNCHANGED <<coordinatorVars, opState, seen, due>>

(* Nel.think on an input that has a route.  An input that has none returns *)
(* before the foreground begins and changes nothing.                       *)
BeginTurn ==
  /\ MainTo("prompt", "foreground")
  /\ BeginForeground
  /\ UNCHANGED <<opState, clock, clockObject, seen, due>>

SetThinking ==
  /\ MainTo("foreground", "turn")
  /\ opState' = "thinking"
  /\ UNCHANGED <<coordinatorVars, clock, clockObject, seen, due>>

(* The turn answers or raises an ApplicationError, which main.run prints,  *)
(* or raises something else, which ends the program; finally: state IDLE.  *)
SetIdle ==
  /\ \E outcome \in {"answered", "raised"} : MainTo("turn", outcome)
  /\ opState' = "idle"
  /\ UNCHANGED <<coordinatorVars, clock, clockObject, seen, due>>

EndTurn ==
  /\ MainTo("answered", "prompt") \/ MainTo("raised", "leaving")
  /\ EndForeground
  /\ UNCHANGED <<opState, clock, clockObject, seen, due>>

(* The user types exit, or the input ends.                                 *)
Exit ==
  /\ MainTo("prompt", "leaving")
  /\ UNCHANGED <<coordinatorVars, opState, clock, clockObject, seen, due>>

(* Clock.stop: its first section, the join, its second section.            *)
StopClock ==
  /\ MainTo("leaving", "joining")
  /\ UNCHANGED clock /\ Ticker!StopClock(Main)
  /\ UNCHANGED <<coordinatorVars, opState, seen, due>>

JoinClock ==
  /\ MainTo("joining", "forgetting")
  /\ UNCHANGED clock /\ Ticker!Join(Main)
  /\ UNCHANGED <<coordinatorVars, opState, seen, due>>

ForgetClock ==
  /\ MainTo("forgetting", "shutdown")
  /\ UNCHANGED clock /\ Ticker!Forget(Main)
  /\ UNCHANGED <<coordinatorVars, opState, seen, due>>

(* Mutant: shutdown only forgets the result.                               *)
ShutdownWithoutCancel ==
  /\ MainTo("shutdown", "clearing")
  /\ UNCHANGED <<coordinatorVars, opState, clock, clockObject, seen, due>>

(* Mutant: shutdown waits until the last worker is over.                   *)
ShutdownWaiting ==
  /\ MainTo("shutdown", "clearing")
  /\ \A w \in Worker : ~Alive(w)
  /\ BeginForeground
  /\ UNCHANGED <<opState, clock, clockObject, seen, due>>

(* ThoughtCoordinator.shutdown, two critical sections.  Workers are daemon *)
(* threads: neither they nor their provider calls are waited for.          *)
Shutdown ==
  /\ MainTo("shutdown", "clearing")
  /\ BeginForeground
  /\ UNCHANGED <<opState, clock, clockObject, seen, due>>

ShutdownClears ==
  /\ MainTo("clearing", "stopped")
  /\ ClearResult
  /\ UNCHANGED <<opState, clock, clockObject, seen, due>>

TurnStep == SetThinking \/ SetIdle \/ EndTurn
StopStep == StopClock \/ JoinClock \/ ForgetClock \/ Shutdown \/ ShutdownClears

-----------------------------------------------------------------------------
(* The clock thread.                                                       *)

ClockTo(from, to) == clock = from /\ clock' = to

(* The wait times out; on_clock_tick finds a thought due and reads the     *)
(* operational state.  A tick with nothing due changes nothing.            *)
Tick ==
  /\ due
  /\ ClockTo("waiting", "foreground")
  /\ UNCHANGED main /\ Ticker!Interval(1)
  /\ seen' = [NothingSeen EXCEPT !.opState = opState]
  /\ UNCHANGED <<coordinatorVars, opState, due>>

ReadForeground ==
  /\ ClockTo("foreground", "decide")
  /\ seen' = [seen EXCEPT !.foreground = foreground]
  /\ UNCHANGED <<coordinatorVars, main, opState, clockObject, due>>

(* Reads the thought state and asks DecisionEngine about an event without  *)
(* input.                                                                  *)
BackgroundEvent ==
  [kind |-> "background_event", chars |-> 0, json |-> 0, blank |-> TRUE,
   parse |-> Engine!NotCommand, opState |-> seen.opState,
   foreground |-> seen.foreground, thought |-> state]

Decide ==
  /\ LET start == Engine!Decide(BackgroundEvent) = "thought_start"
     IN ClockTo("decide", IF start THEN "build" ELSE "waiting")
  /\ UNCHANGED <<coordinatorVars, main, opState, clockObject, seen, due>>

(* ThoughtService.build_context reads the store, and may raise.            *)
BuildContext ==
  /\ ClockTo("build", "start") \/ ClockTo("build", "waiting")
  /\ UNCHANGED <<coordinatorVars, main, opState, clockObject, seen, due>>

(* ThoughtCoordinator.start.  Only a thought that starts resets the        *)
(* interval; a refusal and a failure are tried again at the next tick.     *)
StartBackground ==
  /\ ClockTo("start", "waiting")
  /\ \/ StartThought /\ due' = FALSE
     \/ StartFails /\ UNCHANGED due
     \/ ~StartAllowed /\ UNCHANGED <<coordinatorVars, due>>
     \/ generation >= MaxGeneration /\ UNCHANGED <<coordinatorVars, due>>
  /\ UNCHANGED <<main, opState, clockObject, seen>>

NoticeStop ==
  /\ ClockTo("waiting", "ending")
  /\ UNCHANGED main /\ Ticker!NoticeStop(1)
  /\ UNCHANGED <<coordinatorVars, opState, seen, due>>

EndLoop ==
  /\ ClockTo("ending", "gone")
  /\ UNCHANGED main /\ Ticker!EndLoop(1)
  /\ UNCHANGED <<coordinatorVars, opState, seen, due>>

ClockStep ==
  \/ Tick \/ ReadForeground \/ Decide \/ BuildContext \/ StartBackground
  \/ NoticeStop \/ EndLoop

IntervalPasses ==
  /\ ~due /\ Ticker!Ticking(1)
  /\ due' = TRUE
  /\ UNCHANGED <<coordinatorVars, main, opState, clock, clockObject, seen>>

-----------------------------------------------------------------------------

ThoughtStep(w) == WorkerStep(w) /\ UNCHANGED threadVars

Next ==
  \/ Build \/ BeginTurn \/ TurnStep \/ Exit \/ StopStep
  \/ ClockStep \/ IntervalPasses
  \/ \E w \in Worker : ThoughtStep(w)

Spec == Init /\ [][Next]_vars

(* The scheduler runs every thread that can run.  Nobody has to type, and  *)
(* nobody has to leave; nor does a provider call have to return, whatever  *)
(* timeout its client was given.                                           *)
Fairness ==
  /\ WF_vars(TurnStep) /\ WF_vars(StopStep) /\ WF_vars(ClockStep)
  /\ \A w \in Worker :
       WF_vars((EnterWorker(w) \/ TakeAnswer(w) \/ Settle(w)) /\ UNCHANGED threadVars)

FairSpec == Spec /\ Fairness

-----------------------------------------------------------------------------
(* Properties.                                                             *)

(* While a turn computes, no thought is in the slot and every worker that  *)
(* still runs has been told to stop: its answer will be dropped.           *)
TurnUndisturbed ==
  opState = "thinking" =>
    state = "idle" /\ \A w \in Worker : Alive(w) => w \in cancelled

(* After Nel.stop nothing is running and no result is kept, whatever late  *)
(* workers do, and the clock's thread is over and forgotten.  A process    *)
(* that never came up leaves no thought behind either.                     *)
QuietAfterStop ==
  /\ main \in {"stopped", "failed"} => state = "idle" /\ lastResult = None
  /\ main = "stopped" => clock = "gone" /\ clockThread = None /\ ~running

(* Leaving always comes to an end: the clock thread notices the event even *)
(* when it is in the middle of a tick, and a worker that hangs in its      *)
(* provider call keeps nobody.                                             *)
StopCompletes == main = "leaving" ~> main = "stopped"

(* Unless provider calls hang, a thought that has its thread settles by    *)
(* itself, without a turn to cancel it, whether the provider answers or    *)
(* fails.                                                                  *)
ThoughtSettles ==
  []<>(\A w \in Worker : worker[w] # "calling") =>
    (state = "running" /\ Alive(generation) ~> state = "idle")
=============================================================================
