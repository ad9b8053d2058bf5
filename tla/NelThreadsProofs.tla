-------------------------- MODULE NelThreadsProofs --------------------------
(***************************************************************************)
(* Proofs about the threads of Nel, for any bound on the generations and   *)
(* whether or not threads may fail to start.                               *)
(*                                                                         *)
(* First the coordinator, whoever calls it.  The argument: a thread that   *)
(* lives is the one _thread names, so a new one waits for it; a running    *)
(* thought is the one of the current generation, with an event that is     *)
(* still unset; an interrupted generation is strictly in the past.         *)
(*                                                                         *)
(* Then the process: it is a user of its coordinator and of its clock like *)
(* any other, so that what is proved of these holds in it; and what it     *)
(* adds, the main thread with its turns and its leaving.                   *)
(***************************************************************************)
EXTENDS NelThreads, FiniteSetTheorems, TLAPS

-----------------------------------------------------------------------------
(* The coordinator.                                                        *)

(* No worker lives but the one _thread names, and none is ahead of the     *)
(* generation counter.                                                     *)
ThreadInv ==
  \A w \in Worker :
    /\ Alive(w) => thread = w
    /\ worker[w] # "none" => w <= generation

(* The running thought is the current generation, undisturbed.             *)
RunningInv ==
  state = "running" =>
    /\ ~foreground
    /\ generation \in Worker /\ generation \notin cancelled
    /\ cancelEvent = generation
    /\ lastResult = None

(* Interrupted generations are past, and a kept result is none of them.    *)
PastInv ==
  /\ \A i \in interrupted : i < generation
  /\ \A w \in cancelled : w <= generation
  /\ lastResult \notin interrupted

CInv == CoordinatorTypeOK /\ ThreadInv /\ RunningInv /\ PastInv

-----------------------------------------------------------------------------

LEMMA NumbersAndNone == MaxGeneration \in Nat /\ None \notin Nat
BY CoordinatorAssumption

LEMMA InitHolds == CoordinatorInit => CInv
<1> SUFFICES ASSUME CoordinatorInit PROVE CInv
  OBVIOUS
<1>1. CoordinatorTypeOK
  BY DEF CoordinatorInit, CoordinatorTypeOK, Phase, Unborn
<1>2. ThreadInv
  BY DEF CoordinatorInit, ThreadInv, Unborn, Alive
<1>3. RunningInv /\ PastInv
  BY DEF CoordinatorInit, RunningInv, PastInv
<1>4. QED
  BY <1>1, <1>2, <1>3 DEF CInv

(* A claim takes a generation nobody has had.                              *)
LEMMA ClaimPreserves ==
  ASSUME CInv, StartThought \/ StartFails
  PROVE  CInv'
<1> DEFINE next == generation + 1
<1> USE NumbersAndNone
<1>1. /\ next \in Worker /\ next > generation /\ generation \in Nat
      /\ worker' \in [Worker -> Phase]
      /\ \A w \in Worker : worker'[w] = worker[w] \/ w = next
      /\ worker[next] = "none"
  BY DEF CInv, CoordinatorTypeOK, ThreadInv, StartThought, StartFails, Claim, Worker, Phase
<1>2. /\ generation' = next /\ cancelEvent' = next /\ thread' = next
      /\ state' = "running" /\ lastResult' = None
      /\ UNCHANGED <<cancelled, foreground, interrupted>>
      /\ ~foreground /\ (thread # None => ~Alive(thread))
  BY DEF StartThought, StartFails, Claim, StartAllowed
<1>3. CoordinatorTypeOK'
  BY <1>1, <1>2 DEF CInv, CoordinatorTypeOK
<1>4. ThreadInv'
  <2>1. \A w \in Worker : ~Alive(w)
    BY <1>2 DEF CInv, ThreadInv, Worker
  <2>2. QED
    BY <1>1, <1>2, <2>1 DEF CInv, CoordinatorTypeOK, ThreadInv, Alive, Worker
<1>5. RunningInv'
  BY <1>1, <1>2 DEF CInv, CoordinatorTypeOK, PastInv, RunningInv, Worker
<1>6. PastInv'
  <2>1. \A w \in cancelled : w \in Nat
    BY DEF CInv, CoordinatorTypeOK, Worker
  <2>2. None \notin interrupted
    BY DEF CInv, CoordinatorTypeOK
  <2>3. QED
    BY <1>1, <1>2, <2>1, <2>2 DEF CInv, CoordinatorTypeOK, PastInv
<1>7. QED
  BY <1>3, <1>4, <1>5, <1>6 DEF CInv

LEMMA CancelPreserves ==
  ASSUME CInv, CancelLocked, foreground' \in BOOLEAN
  PROVE  CInv' /\ state' = "idle"
<1> USE NumbersAndNone
<1>1. CASE state = "running"
  <2>1. /\ generation' = generation + 1 /\ generation \in Worker /\ generation \in Nat
        /\ cancelled' = cancelled \cup {generation}
        /\ interrupted' = interrupted \cup {generation}
        /\ state' = "idle" /\ lastResult' = None
        /\ UNCHANGED <<cancelEvent, thread, worker>>
    BY <1>1 DEF CInv, CoordinatorTypeOK, RunningInv, CancelLocked, Worker
  <2>2. CoordinatorTypeOK'
    BY <2>1 DEF CInv, CoordinatorTypeOK
  <2>3. ThreadInv'
    BY <2>1 DEF CInv, ThreadInv, Alive, Worker
  <2>4. PastInv'
    <3>1. \A i \in interrupted' : i < generation'
      BY <2>1 DEF CInv, CoordinatorTypeOK, PastInv
    <3>2. \A w \in cancelled' : w <= generation'
      BY <2>1 DEF CInv, CoordinatorTypeOK, PastInv, Worker
    <3>3. lastResult' \notin interrupted'
      BY <2>1 DEF CInv, CoordinatorTypeOK
    <3>4. QED
      BY <3>1, <3>2, <3>3 DEF PastInv
  <2>5. QED
    BY <2>1, <2>2, <2>3, <2>4 DEF CInv, RunningInv
<1>2. CASE state # "running"
  <2>1. UNCHANGED <<state, generation, cancelEvent, cancelled, thread, lastResult,
                    worker, interrupted>>
    BY <1>2 DEF CancelLocked
  <2>2. state' = "idle"
    BY <1>2, <2>1 DEF CInv, CoordinatorTypeOK
  <2>3. QED
    BY <2>1, <2>2 DEF CInv, CoordinatorTypeOK, ThreadInv, RunningInv, PastInv, Alive
<1>3. QED
  BY <1>1, <1>2

LEMMA ReleasePreserves ==
  ASSUME CInv, EndForeground \/ ClearResult
  PROVE  CInv'
<1> USE NumbersAndNone
<1>1. /\ UNCHANGED <<state, generation, cancelEvent, cancelled, thread, worker, interrupted>>
      /\ \/ foreground' = FALSE /\ lastResult' = lastResult
         \/ foreground' = foreground /\ lastResult' = None
  BY DEF EndForeground, ClearResult
<1>2. CoordinatorTypeOK'
  BY <1>1 DEF CInv, CoordinatorTypeOK
<1>3. ThreadInv'
  BY <1>1 DEF CInv, ThreadInv, Alive
<1>4. RunningInv'
  BY <1>1 DEF CInv, RunningInv
<1>5. PastInv'
  BY <1>1 DEF CInv, CoordinatorTypeOK, PastInv
<1>6. QED
  BY <1>2, <1>3, <1>4, <1>5 DEF CInv

LEMMA MovePreserves ==
  ASSUME CInv, NEW w \in Worker, Alive(w), NEW phase \in Phase, MoveTo(w, phase)
  PROVE  CInv'
<1> USE NumbersAndNone
<1>1. CoordinatorTypeOK' /\ RunningInv' /\ PastInv'
  BY DEF CInv, CoordinatorTypeOK, RunningInv, PastInv, MoveTo, Worker
<1>2. ThreadInv'
  BY DEF CInv, CoordinatorTypeOK, ThreadInv, MoveTo, Alive, Unborn, Worker
<1>3. QED
  BY <1>1, <1>2 DEF CInv

LEMMA SettlePreserves ==
  ASSUME CInv, NEW w \in Worker, Settle(w)
  PROVE  CInv'
<1> USE NumbersAndNone
<1>1. Alive(w) /\ thread = w /\ w <= generation
  BY DEF CInv, ThreadInv, Settle, Alive, Unborn
<1>2. CoordinatorTypeOK'
  BY DEF CInv, CoordinatorTypeOK, Settle, Phase, Unborn
<1>3. ThreadInv'
  BY <1>1 DEF CInv, CoordinatorTypeOK, ThreadInv, Settle, Alive, Unborn, Worker
<1>4. RunningInv'
  BY DEF CInv, CoordinatorTypeOK, RunningInv, Settle, Current
<1>5. PastInv'
  <2>1. UNCHANGED <<generation, cancelled, interrupted>>
    BY DEF Settle
  <2>2. lastResult' = lastResult \/ lastResult' = None \/ (Current(w) /\ lastResult' = w)
    BY DEF Settle
  <2>3. Current(w) => w \notin interrupted
    BY DEF CInv, CoordinatorTypeOK, PastInv, Current
  <2>4. None \notin interrupted
    BY DEF CInv, CoordinatorTypeOK
  <2>5. QED
    BY <2>1, <2>2, <2>3, <2>4 DEF CInv, PastInv
<1>6. QED
  BY <1>2, <1>3, <1>4, <1>5 DEF CInv

LEMMA StepPreserves == CInv /\ [CoordinatorNext]_coordinatorVars => CInv'
<1> SUFFICES ASSUME CInv, [CoordinatorNext]_coordinatorVars PROVE CInv'
  OBVIOUS
<1>1. CASE StartThought \/ StartFails
  BY <1>1, ClaimPreserves
<1>2. CASE BeginForeground \/ CancelForForeground
  BY <1>2, CancelPreserves DEF BeginForeground, CancelForForeground, CInv, CoordinatorTypeOK
<1>3. CASE EndForeground \/ ClearResult
  BY <1>3, ReleasePreserves
<1>4. ASSUME NEW w \in Worker, WorkerStep(w) PROVE CInv'
  <2>1. CASE EnterWorker(w) \/ ProviderReturns(w) \/ TakeAnswer(w)
    BY <2>1, MovePreserves
       DEF EnterWorker, ProviderReturns, TakeAnswer, Alive, Unborn, Phase
  <2>2. QED
    BY <1>4, <2>1, SettlePreserves DEF WorkerStep
<1>5. CASE UNCHANGED coordinatorVars
  BY <1>5 DEF coordinatorVars, CInv, CoordinatorTypeOK, ThreadInv, RunningInv, PastInv, Alive
<1>6. QED
  BY <1>1, <1>2, <1>3, <1>4, <1>5 DEF CoordinatorNext

(* The inductive invariant, whoever calls the coordinator and in whatever  *)
(* order.                                                                  *)
THEOREM CoordinatorInvariance == CoordinatorSpec => []CInv
BY InitHolds, StepPreserves, PTL DEF CoordinatorSpec

(* Types.                                                                  *)
THEOREM CoordinatorTypeCorrect == CoordinatorSpec => []CoordinatorTypeOK
<1>1. CInv => CoordinatorTypeOK
  BY DEF CInv
<1>2. QED
  BY <1>1, CoordinatorInvariance, PTL

(* One worker thread at most, late ones included: start looks at the       *)
(* thread itself, not only at _state.                                      *)
THEOREM OneWorker == CoordinatorSpec => []SingleWorker
<1>1. CInv => SingleWorker
  <2> SUFFICES ASSUME CInv PROVE SingleWorker
    OBVIOUS
  <2> DEFINE living == {w \in Worker : Alive(w)}
  <2>1. living \subseteq {thread}
    BY DEF CInv, ThreadInv
  <2>2. IsFiniteSet({thread}) /\ Cardinality({thread}) = 1
    BY FS_Singleton
  <2>3. Cardinality(living) <= Cardinality({thread})
    BY <2>1, <2>2, FS_Subset
  <2>4. QED
    BY <2>2, <2>3 DEF SingleWorker
<1>2. QED
  BY <1>1, CoordinatorInvariance, PTL

(* A foreground turn never shares the floor with a running thought.        *)
THEOREM ForegroundIsExclusive == CoordinatorSpec => []ForegroundExclusive
<1>1. CInv => ForegroundExclusive
  BY DEF CInv, CoordinatorTypeOK, RunningInv, ForegroundExclusive
<1>2. QED
  BY <1>1, CoordinatorInvariance, PTL

(* The late answer of a cancelled thought is never kept.                   *)
THEOREM LateAnswersAreLost == CoordinatorSpec => []InterruptedNeverKept
<1>1. CInv => InterruptedNeverKept
  BY DEF CInv, PastInv, InterruptedNeverKept
<1>2. QED
  BY <1>1, CoordinatorInvariance, PTL

-----------------------------------------------------------------------------
(* Threads, events and generations amount to the one slot of ThoughtSlot:  *)
(* a late worker settles without touching it.                              *)
THEOREM CoordinatorImplementsSlot == CoordinatorSpec => ImplementsSlot
<1> DEFINE occupant == IF state = "running" THEN generation ELSE None
           view == <<occupant, foreground, lastResult>>
<1> USE NumbersAndNone
<1>1. CoordinatorInit => Slot!SlotInit
  BY DEF CoordinatorInit, Slot!SlotInit
<1>2. ASSUME CInv, [CoordinatorNext]_coordinatorVars
      PROVE  [Slot!SlotNext]_view
  <2> USE <1>2 DEF CInv, CoordinatorTypeOK
  <2>1. CASE StartThought \/ StartFails
    <3>1. Slot!Enter
      BY <2>1 DEF StartThought, StartFails, Claim, StartAllowed, Slot!Enter
    <3>2. QED
      BY <3>1 DEF Slot!SlotNext
  <2>2. CASE BeginForeground
    <3>1. Slot!TakeFloor
      BY <2>2 DEF BeginForeground, CancelLocked, Slot!TakeFloor, Slot!TurnOut
    <3>2. QED
      BY <3>1 DEF Slot!SlotNext
  <2>3. CASE CancelForForeground
    <3>1. Slot!Cancel \/ UNCHANGED view
      BY <2>3 DEF CancelForForeground, CancelLocked, Slot!Cancel, Slot!TurnOut
    <3>2. QED
      BY <3>1 DEF Slot!SlotNext
  <2>4. CASE EndForeground
    <3>1. Slot!LeaveFloor
      BY <2>4 DEF EndForeground, Slot!LeaveFloor
    <3>2. QED
      BY <3>1 DEF Slot!SlotNext
  <2>5. CASE ClearResult
    <3>1. Slot!Forget
      BY <2>5 DEF ClearResult, Slot!Forget
    <3>2. QED
      BY <3>1 DEF Slot!SlotNext
  <2>6. ASSUME NEW w \in Worker, WorkerStep(w)
        PROVE  [Slot!SlotNext]_view
    <3>1. CASE EnterWorker(w) \/ ProviderReturns(w) \/ TakeAnswer(w)
      BY <3>1 DEF EnterWorker, ProviderReturns, TakeAnswer, MoveTo
    <3>2. CASE Settle(w) /\ Current(w)
      <4>1. Slot!Leave
        BY <3>2 DEF Settle, Current, Slot!Leave, Worker
      <4>2. QED
        BY <4>1 DEF Slot!SlotNext
    <3>3. CASE Settle(w) /\ ~Current(w)
      BY <3>3 DEF Settle
    <3>4. QED
      BY <2>6, <3>1, <3>2, <3>3 DEF WorkerStep
  <2>7. CASE UNCHANGED coordinatorVars
    BY <2>7 DEF coordinatorVars
  <2>8. QED
    BY <2>1, <2>2, <2>3, <2>4, <2>5, <2>6, <2>7 DEF CoordinatorNext
<1>3. CInv /\ [CoordinatorNext]_coordinatorVars => [Slot!SlotNext]_view
  BY <1>2
<1>4. QED
  BY <1>1, <1>3, CoordinatorInvariance, PTL
     DEF CoordinatorSpec, ImplementsSlot, Slot!SlotSpec, Slot!slotVars

-----------------------------------------------------------------------------
(* The process.                                                            *)

LEMMA Names == None \notin Nat /\ Main \notin Nat /\ MaxGeneration \in Nat
BY CoordinatorAssumption, MainAssumption

LEMMA OneLoopOfThisProcess == Ticker!Loop = {1} /\ Ticker!Stopper = {Main, 1}
<1>1. 1 .. 1 = {1}
  OBVIOUS
<1>2. QED
  BY <1>1 DEF Ticker!Loop, Ticker!Stopper

-----------------------------------------------------------------------------
(* The coordinator within the process.                                     *)

LEMMA StepOfCoordinator ==
  ASSUME [Next]_vars PROVE [CoordinatorNext]_coordinatorVars
<1>1. CASE Build \/ TurnStep \/ Exit \/ StopStep \/ BeginTurn
  BY <1>1 DEF Build, BeginTurn, TurnStep, SetThinking, SetIdle, EndTurn, Exit, StopStep,
     StopClock, JoinClock, ForgetClock, Shutdown, ShutdownClears, CoordinatorNext
<1>2. CASE ClockStep
  BY <1>2 DEF ClockStep, Tick, ReadForeground, Decide, BuildContext, StartBackground,
     NoticeStop, EndLoop, CoordinatorNext
<1>3. CASE IntervalPasses \/ UNCHANGED vars
  BY <1>3 DEF IntervalPasses, vars
<1>4. CASE \E w \in Worker : ThoughtStep(w)
  BY <1>4 DEF ThoughtStep, CoordinatorNext
<1>5. QED
  BY <1>1, <1>2, <1>3, <1>4 DEF Next

(* The process, its main thread and its ticks, is one of the users of the  *)
(* coordinator that the theorems about it speak of.                        *)
THEOREM ProcessUsesCoordinator == Spec => CoordinatorSpec
<1>1. Init => CoordinatorInit
  BY DEF Init
<1>2. [Next]_vars => [CoordinatorNext]_coordinatorVars
  BY StepOfCoordinator
<1>3. QED
  BY <1>1, <1>2, PTL DEF Spec, CoordinatorSpec

-----------------------------------------------------------------------------
(* The clock within the process.                                           *)

(* What the clock knows of the two threads: where the loop is, and whether *)
(* the main thread is inside stop.                                         *)
LoopView == IF clock \in TickPhase THEN "callback" ELSE clock
InStop   == main \in {"joining", "forgetting"}

(* A step that moves neither is none of the clock.                         *)
LEMMA ClockStutters ==
  ASSUME LoopView' = LoopView, UNCHANGED clockObject,
         main' = main \/ (~InStop /\ ~InStop')
  PROVE  UNCHANGED Ticker!clockVars
<1>1. (main = "joining") = (main' = "joining") /\ (main = "forgetting") = (main' = "forgetting")
      /\ InStop = InStop'
  BY DEF InStop
<1>2. QED
  BY <1>1 DEF LoopView, InStop, clockObject, Ticker!clockVars

(* A tick that is over is the end of a callback.                           *)
LEMMA TickEnds ==
  ASSUME clock \in TickPhase, clock' = "waiting", UNCHANGED <<main, clockObject>>
  PROVE  Ticker!CallbackEnds(1)
BY Names DEF TickPhase, clockObject, Ticker!CallbackEnds, Ticker!LoopTo, Ticker!LoopOnly

LEMMA StepOfMain ==
  ASSUME Build \/ BeginTurn \/ TurnStep \/ Exit \/ StopStep
  PROVE  [Ticker!ClockNext]_(Ticker!clockVars)
<1>1. CASE Build
  BY <1>1 DEF Build, Ticker!ClockNext
<1>2. CASE BeginTurn \/ TurnStep \/ Exit \/ Shutdown \/ ShutdownClears
  <2>1. LoopView' = LoopView /\ UNCHANGED clockObject /\ ~InStop /\ ~InStop'
    BY <1>2 DEF BeginTurn, TurnStep, SetThinking, SetIdle, EndTurn, Exit, Shutdown,
       ShutdownClears, MainTo, LoopView, InStop
  <2>2. QED
    BY <2>1, ClockStutters
<1>3. CASE StopClock \/ JoinClock \/ ForgetClock
  BY <1>3, OneLoopOfThisProcess
     DEF StopClock, JoinClock, ForgetClock, Ticker!ClockNext, Ticker!StopStep
<1>4. QED
  BY <1>1, <1>2, <1>3 DEF StopStep

LEMMA StepOfTick ==
  ASSUME ClockStep PROVE [Ticker!ClockNext]_(Ticker!clockVars)
<1>1. CASE Tick \/ NoticeStop \/ EndLoop
  BY <1>1, OneLoopOfThisProcess
     DEF Tick, NoticeStop, EndLoop, Ticker!ClockNext, Ticker!LoopStep
<1>2. CASE ReadForeground \/ Decide \/ BuildContext \/ StartBackground
  <2>1. clock \in TickPhase /\ clock' \in TickPhase \cup {"waiting"}
        /\ UNCHANGED <<main, clockObject>>
    BY <1>2 DEF ReadForeground, Decide, BuildContext, StartBackground, ClockTo, TickPhase
  <2>2. CASE clock' = "waiting"
    BY <2>1, <2>2, TickEnds, OneLoopOfThisProcess DEF Ticker!ClockNext, Ticker!LoopStep
  <2>3. CASE clock' \in TickPhase
    BY <2>1, <2>3, ClockStutters DEF LoopView
  <2>4. QED
    BY <2>1, <2>2, <2>3
<1>3. QED
  BY <1>1, <1>2 DEF ClockStep

LEMMA StepOfClock ==
  ASSUME [Next]_vars PROVE [Ticker!ClockNext]_(Ticker!clockVars)
<1>1. CASE IntervalPasses \/ UNCHANGED vars \/ \E w \in Worker : ThoughtStep(w)
  <2>1. UNCHANGED <<main, clock, clockObject>>
    BY <1>1 DEF IntervalPasses, vars, threadVars, ThoughtStep
  <2>2. QED
    BY <2>1, ClockStutters DEF LoopView
<1>2. QED
  BY <1>1, StepOfMain, StepOfTick DEF Next

(* The process is one of the users of the clock, with one loop, whose      *)
(* callback is the tick, and one caller, the main thread.                  *)
THEOREM ProcessUsesClock == Spec => Ticker!ClockSpec
<1>1. Init => Ticker!ClockInit
  BY OneLoopOfThisProcess DEF Init, TickPhase, Ticker!ClockInit
<1>2. [Next]_vars => [Ticker!ClockNext]_(Ticker!clockVars)
  BY StepOfClock
<1>3. QED
  BY <1>1, <1>2, PTL DEF Spec, Ticker!ClockSpec

-----------------------------------------------------------------------------
(* The inductive invariant of the process.                                 *)

(* While the main thread has the floor it says so, and it computes only    *)
(* then.                                                                   *)
FloorInv ==
  /\ main \in {"foreground", "turn", "answered", "raised", "clearing", "stopped"} => foreground
  /\ opState = "thinking" => main = "turn"

(* A worker that lives is the running thought or has been told to stop.    *)
WorkerInv ==
  \A w \in Worker : Alive(w) => w \in cancelled \/ (state = "running" /\ w = generation)

(* The clock's thread is made by Build and over before Shutdown.           *)
ClockThreadInv ==
  /\ main = "building" => clock = "none"
  /\ main = "failed" => clock = "unstarted"
  /\ main \in {"forgetting", "shutdown", "clearing", "stopped"} => clock = "gone"
  /\ clock = "gone" => ~running /\ clockThread = None

(* No thought before the clock has started or after its end.               *)
BoundaryInv ==
  /\ main \in {"building", "failed"} => state = "idle" /\ lastResult = None
  /\ main = "stopped" => lastResult = None

PInv == CInv /\ TypeOK /\ FloorInv /\ WorkerInv /\ ClockThreadInv /\ BoundaryInv

LEMMA InitProcess == Init => PInv
<1> SUFFICES ASSUME Init PROVE PInv
  OBVIOUS
<1>1. CInv
  BY InitHolds DEF Init
<1>2. TypeOK
  BY <1>1, OneLoopOfThisProcess
     DEF CInv, Init, TypeOK, MainPhase, TickPhase, NothingSeen,
         Ticker!ClockTypeOK, Ticker!LoopPhase
<1>3. FloorInv /\ WorkerInv /\ ClockThreadInv /\ BoundaryInv
  BY DEF Init, CoordinatorInit, FloorInv, WorkerInv, ClockThreadInv, BoundaryInv, Alive, Unborn
<1>4. QED
  BY <1>1, <1>2, <1>3 DEF PInv

(* What the types of the process come to.                                  *)
LEMMA TypesNow ==
  ASSUME TypeOK
  PROVE  /\ running \in BOOLEAN /\ stopEvent \in BOOLEAN /\ clockThread \in {1, None}
         /\ seen \in [opState : {"idle", "thinking"}, foreground : BOOLEAN]
BY OneLoopOfThisProcess DEF TypeOK, Ticker!ClockTypeOK

LEMMA TypesNext ==
  ASSUME CInv', main' \in MainPhase, clock' \in Ticker!LoopPhase \cup TickPhase,
         opState' \in {"idle", "thinking"}, due' \in BOOLEAN,
         seen' \in [opState : {"idle", "thinking"}, foreground : BOOLEAN],
         running' \in BOOLEAN, stopEvent' \in BOOLEAN, clockThread' \in {1, None}
  PROVE  TypeOK'
<1>1. Ticker!ClockTypeOK'
  BY OneLoopOfThisProcess DEF Ticker!ClockTypeOK, Ticker!LoopPhase, TickPhase
<1>2. QED
  BY <1>1 DEF CInv, TypeOK

LEMMA WorkersPreserved ==
  ASSUME CInv, WorkerInv, [CoordinatorNext]_coordinatorVars
  PROVE  WorkerInv'
<1> USE NumbersAndNone
<1>1. CASE StartThought \/ StartFails
  <2>1. \A w \in Worker : ~Alive(w)
    BY <1>1 DEF CInv, ThreadInv, StartThought, StartFails, Claim, StartAllowed, Worker
  <2>2. \A w \in Worker : worker'[w] = worker[w] \/ w = generation + 1
    BY <1>1 DEF CInv, CoordinatorTypeOK, StartThought, StartFails, Claim
  <2>3. QED
    BY <1>1, <2>1, <2>2 DEF WorkerInv, Alive, StartThought, StartFails, Claim
<1>2. CASE BeginForeground \/ CancelForForeground
  BY <1>2 DEF CInv, CoordinatorTypeOK, RunningInv, WorkerInv, Alive, BeginForeground,
              CancelForForeground, CancelLocked
<1>3. CASE EndForeground \/ ClearResult \/ UNCHANGED coordinatorVars
  BY <1>3 DEF WorkerInv, Alive, EndForeground, ClearResult, coordinatorVars
<1>4. ASSUME NEW w \in Worker, WorkerStep(w) PROVE WorkerInv'
  <2>1. CASE EnterWorker(w) \/ ProviderReturns(w) \/ TakeAnswer(w)
    <3>1. /\ Alive(w) /\ UNCHANGED <<state, generation, cancelled>>
          /\ \A v \in Worker : v # w => worker'[v] = worker[v]
      BY <2>1 DEF CInv, CoordinatorTypeOK, EnterWorker, ProviderReturns, TakeAnswer, MoveTo,
                  Alive, Unborn
    <3>2. QED
      BY <3>1 DEF WorkerInv, Alive
  <2>2. CASE Settle(w)
    <3>1. \A v \in Worker : ~Alive(v)'
      BY <2>2 DEF CInv, CoordinatorTypeOK, ThreadInv, Settle, Alive, Unborn
    <3>2. QED
      BY <3>1 DEF WorkerInv
  <2>3. QED
    BY <1>4, <2>1, <2>2 DEF WorkerStep
<1>5. QED
  BY <1>1, <1>2, <1>3, <1>4 DEF CoordinatorNext

(* Only a turn in progress, a start and a shutdown touch the floor.        *)
LEMMA MainPreserves ==
  ASSUME PInv, CInv', Build \/ BeginTurn \/ TurnStep \/ Exit \/ StopStep
  PROVE  TypeOK' /\ FloorInv' /\ ClockThreadInv' /\ BoundaryInv'
<1> USE Names
<1>1. CASE Build
  <2>1. /\ main = "building" /\ clock = "none"
        /\ \/ main' = "prompt" /\ clock' = "waiting"
           \/ main' = "failed" /\ clock' = "unstarted"
        /\ running' = TRUE /\ stopEvent' = FALSE /\ clockThread' = 1
        /\ UNCHANGED <<coordinatorVars, opState, seen, due>>
    BY <1>1, OneLoopOfThisProcess
       DEF PInv, ClockThreadInv, Build, MainTo, Ticker!StartClock, Ticker!StartClockFails,
           Ticker!NewLoop
  <2>2. TypeOK'
    BY <2>1, TypesNow, TypesNext DEF PInv, TypeOK, MainPhase, Ticker!LoopPhase
  <2>3. QED
    BY <2>1, <2>2
       DEF PInv, FloorInv, ClockThreadInv, BoundaryInv, coordinatorVars
<1>2. CASE BeginTurn \/ TurnStep \/ Exit \/ Shutdown \/ ShutdownClears
  <2>1. /\ UNCHANGED <<clock, clockObject, seen, due>>
        /\ main' \in MainPhase /\ opState' \in {"idle", "thinking"}
    BY <1>2 DEF PInv, TypeOK, MainPhase, BeginTurn, TurnStep, SetThinking, SetIdle, EndTurn,
       Exit, Shutdown, ShutdownClears, MainTo
  <2>2. TypeOK'
    BY <2>1, TypesNow, TypesNext DEF PInv, TypeOK, clockObject
  <2>3. FloorInv'
    BY <1>2 DEF PInv, FloorInv, BeginTurn, TurnStep, SetThinking, SetIdle, EndTurn,
       Exit, Shutdown, ShutdownClears, MainTo, BeginForeground, EndForeground, ClearResult,
       coordinatorVars
  <2>4. ClockThreadInv'
    BY <1>2, <2>1 DEF PInv, ClockThreadInv, BeginTurn, TurnStep, SetThinking, SetIdle,
       EndTurn, Exit, Shutdown, ShutdownClears, MainTo, clockObject
  <2>5. BoundaryInv'
    BY <1>2 DEF BeginTurn, TurnStep, SetThinking, SetIdle, EndTurn, Exit, Shutdown,
       ShutdownClears, MainTo, ClearResult, BoundaryInv
  <2>6. QED
    BY <2>2, <2>3, <2>4, <2>5
<1>3. CASE StopClock \/ JoinClock \/ ForgetClock
  <2>1. /\ UNCHANGED <<coordinatorVars, opState, clock, seen, due>>
        /\ \/ main = "leaving" /\ main' = "joining" /\ running' = FALSE /\ stopEvent' = TRUE
              /\ UNCHANGED clockThread
           \/ main = "joining" /\ main' = "forgetting" /\ clock = "gone" /\ UNCHANGED clockObject
           \/ main = "forgetting" /\ main' = "shutdown" /\ UNCHANGED <<running, stopEvent>>
              /\ clockThread' \in {clockThread, None}
    <3>1. CASE StopClock
      BY <1>3, <3>1 DEF StopClock, MainTo, Ticker!StopClock
    <3>2. CASE JoinClock
      BY <3>2, OneLoopOfThisProcess DEF JoinClock, MainTo, Ticker!Join, clockObject, TickPhase
    <3>3. CASE ForgetClock
      BY <3>3 DEF ForgetClock, MainTo, Ticker!Forget
    <3>4. QED
      BY <1>3, <3>1, <3>2, <3>3
  <2>2. TypeOK'
    BY <2>1, TypesNow, TypesNext DEF PInv, TypeOK, MainPhase, clockObject
  <2>3. FloorInv' /\ ClockThreadInv' /\ BoundaryInv'
    BY <2>1 DEF PInv, FloorInv, ClockThreadInv, BoundaryInv, clockObject, coordinatorVars
  <2>4. QED
    BY <2>2, <2>3
<1>4. QED
  BY <1>1, <1>2, <1>3 DEF StopStep

LEMMA TickPreserves ==
  ASSUME PInv, CInv', ClockStep \/ IntervalPasses
  PROVE  TypeOK' /\ FloorInv' /\ ClockThreadInv' /\ BoundaryInv'
<1> USE Names
<1>1. CASE ReadForeground \/ Decide \/ BuildContext \/ StartBackground
  <2>1. /\ clock \in TickPhase /\ clock' \in TickPhase \cup {"waiting"}
        /\ UNCHANGED <<main, opState, clockObject, foreground>>
        /\ due' \in {due, FALSE}
        /\ seen' \in {seen, [seen EXCEPT !.foreground = foreground]}
    BY <1>1 DEF ReadForeground, Decide, BuildContext, StartBackground, ClockTo, TickPhase,
       coordinatorVars, StartThought, StartFails, Claim
  <2>2. main \notin {"building", "failed", "stopped"}
    BY <2>1 DEF PInv, ClockThreadInv, TickPhase
  <2>3. TypeOK'
    <3>1. foreground \in BOOLEAN
      BY DEF PInv, CInv, CoordinatorTypeOK
    <3>2. seen' \in [opState : {"idle", "thinking"}, foreground : BOOLEAN]
      BY <2>1, <3>1, TypesNow DEF PInv
    <3>3. QED
      BY <2>1, <3>2, TypesNow, TypesNext
         DEF PInv, TypeOK, clockObject, Ticker!LoopPhase
  <2>4. FloorInv' /\ ClockThreadInv' /\ BoundaryInv'
    BY <2>1, <2>2 DEF PInv, FloorInv, ClockThreadInv, BoundaryInv, TickPhase, clockObject
  <2>5. QED
    BY <2>3, <2>4
<1>2. CASE Tick \/ NoticeStop \/ EndLoop \/ IntervalPasses
  <2>1. /\ UNCHANGED <<coordinatorVars, main, opState, stopEvent>>
        /\ due' \in {due, TRUE}
        /\ seen' \in {seen, [NothingSeen EXCEPT !.opState = opState]}
        /\ \/ UNCHANGED <<clock, clockObject>>
           \/ /\ clock = "waiting" /\ clock' \in {"foreground", "ending"}
              /\ UNCHANGED clockObject
           \/ /\ clock = "ending" /\ clock' = "gone" /\ running' = FALSE
              /\ clockThread' = IF clockThread = 1 THEN None ELSE clockThread
    BY <1>2 DEF Tick, NoticeStop, EndLoop, IntervalPasses, ClockTo, clockObject,
       Ticker!Interval, Ticker!NoticeStop, Ticker!EndLoop, Ticker!LoopOnly
  <2>2. TypeOK'
    <3>1. seen' \in [opState : {"idle", "thinking"}, foreground : BOOLEAN]
      BY <2>1, TypesNow DEF PInv, TypeOK, NothingSeen
    <3>2. QED
      BY <2>1, <3>1, TypesNow, TypesNext
         DEF PInv, TypeOK, clockObject, Ticker!LoopPhase, TickPhase
  <2>3. FloorInv' /\ BoundaryInv'
    BY <2>1 DEF PInv, FloorInv, BoundaryInv, coordinatorVars
  <2>4. ClockThreadInv'
    BY <2>1, TypesNow DEF PInv, ClockThreadInv, clockObject
  <2>5. QED
    BY <2>2, <2>3, <2>4
<1>3. QED
  BY <1>1, <1>2 DEF ClockStep

(* A worker that settles late finds the state idle and keeps its answer to *)
(* itself.                                                                 *)
LEMMA ThoughtPreserves ==
  ASSUME PInv, CInv', NEW w \in Worker, ThoughtStep(w)
  PROVE  TypeOK' /\ FloorInv' /\ ClockThreadInv' /\ BoundaryInv'
<1>1. UNCHANGED <<main, opState, clock, clockObject, seen, due, foreground>>
  BY DEF ThoughtStep, threadVars, WorkerStep, EnterWorker, ProviderReturns, TakeAnswer,
     MoveTo, Settle
<1>2. TypeOK'
  BY <1>1, TypesNow, TypesNext DEF PInv, TypeOK, clockObject
<1>3. state # "running" => UNCHANGED <<state, lastResult>>
  BY DEF ThoughtStep, WorkerStep, EnterWorker, ProviderReturns, TakeAnswer, MoveTo, Settle,
     Current
<1>4. main = "stopped" => state # "running"
  BY DEF PInv, FloorInv, CInv, RunningInv
<1>5. FloorInv' /\ ClockThreadInv' /\ BoundaryInv'
  BY <1>1, <1>3, <1>4 DEF PInv, FloorInv, ClockThreadInv, BoundaryInv, clockObject
<1>6. QED
  BY <1>2, <1>5

LEMMA ProcessPreserved == PInv /\ [Next]_vars => PInv'
<1> SUFFICES ASSUME PInv, [Next]_vars PROVE PInv'
  OBVIOUS
<1>1. CInv' /\ WorkerInv'
  BY StepOfCoordinator, StepPreserves, WorkersPreserved DEF PInv
<1>2. CASE Build \/ BeginTurn \/ TurnStep \/ Exit \/ StopStep
  BY <1>1, <1>2, MainPreserves DEF PInv
<1>3. CASE ClockStep \/ IntervalPasses
  BY <1>1, <1>3, TickPreserves DEF PInv
<1>4. CASE \E w \in Worker : ThoughtStep(w)
  BY <1>1, <1>4, ThoughtPreserves DEF PInv
<1>5. CASE UNCHANGED vars
  <2>1. UNCHANGED <<main, opState, clock, clockObject, seen, due, foreground, state, lastResult>>
    BY <1>5 DEF vars, coordinatorVars, threadVars
  <2>2. TypeOK'
    BY <1>1, <2>1, TypesNow, TypesNext DEF PInv, TypeOK, clockObject
  <2>3. FloorInv' /\ ClockThreadInv' /\ BoundaryInv'
    BY <2>1 DEF PInv, FloorInv, ClockThreadInv, BoundaryInv, clockObject
  <2>4. QED
    BY <1>1, <2>2, <2>3 DEF PInv
<1>6. QED
  BY <1>2, <1>3, <1>4, <1>5 DEF Next

LEMMA ProcessInvariant == Spec => []PInv
BY InitProcess, ProcessPreserved, PTL DEF Spec

(* Every variable of the process keeps its type.                           *)
THEOREM ProcessTypeCorrect == Spec => []TypeOK
<1>1. PInv => TypeOK
  BY DEF PInv
<1>2. QED
  BY <1>1, ProcessInvariant, PTL

(* However ticks and turns interleave, no thought is in the slot while a   *)
(* turn computes, and every worker still alive knows that it is cancelled. *)
THEOREM TurnsAreUndisturbed == Spec => []TurnUndisturbed
<1>1. PInv => TurnUndisturbed
  BY DEF PInv, CInv, CoordinatorTypeOK, RunningInv, FloorInv, WorkerInv, TurnUndisturbed
<1>2. QED
  BY <1>1, ProcessInvariant, PTL

(* After Nel.stop nothing runs and no result is kept, whenever the user    *)
(* left and however late a worker settles.                                 *)
THEOREM StopIsQuiet == Spec => []QuietAfterStop
<1>1. PInv => QuietAfterStop
  BY DEF PInv, CInv, CoordinatorTypeOK, RunningInv, FloorInv, ClockThreadInv, BoundaryInv,
         QuietAfterStop
<1>2. QED
  BY <1>1, ProcessInvariant, PTL
=============================================================================
