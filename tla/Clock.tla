-------------------------------- MODULE Clock --------------------------------
(***************************************************************************)
(* The Clock: a thread that calls its callback at every interval, until an *)
(* event is set.  Any thread may call start and stop, as often as it likes *)
(* and at once with others; each holds the lock for a critical section,    *)
(* which is one step here, but stop gives the lock back to join the thread *)
(* it stops, unless it is called by that thread, in its callback.          *)
(*                                                                         *)
(* A loop is one run of Clock.loop in a thread of its own.                 *)
(***************************************************************************)
EXTENDS Naturals, FiniteSets

CONSTANTS
  Caller,          \* threads that call stop and are not loops
  None,            \* Python's None
  MaxLoops,        \* bound: threads the clock creates
  LoopMayNotStart  \* Thread.start may raise ("can't start new thread")

ASSUME ClockAssumption ==
  /\ MaxLoops \in Nat /\ LoopMayNotStart \in BOOLEAN
  /\ None \notin Nat /\ Caller \cap Nat = {}

VARIABLES
  running,         \* running
  stopEvent,       \* _stop_event
  clockThread,     \* _thread: a loop, or None
  loop,            \* where each loop is
  stopping,        \* where each thread is in stop, between two sections
  joined,          \* the thread a stop has read in its first section
  selfStopped      \* history: the loops whose callback has called stop

clockVars ==
  <<running, stopEvent, clockThread, loop, stopping, joined, selfStopped>>

Loop == 1 .. MaxLoops
Stopper == Caller \cup Loop

(* "unstarted" is a Thread object whose start() raised.                    *)
LoopPhase == {"none", "unstarted", "waiting", "callback", "ending", "gone"}

Ticking(l) == loop[l] \in {"waiting", "callback"}
LoopAlive(l) == Ticking(l) \/ loop[l] = "ending"

ClockTypeOK ==
  /\ running \in BOOLEAN /\ stopEvent \in BOOLEAN
  /\ clockThread \in Loop \cup {None}
  /\ loop \in [Loop -> LoopPhase]
  /\ stopping \in [Stopper -> {"no", "join", "forget"}]
  /\ joined \in [Stopper -> Loop \cup {None}]
  /\ selfStopped \subseteq Loop

ClockInit ==
  /\ running = FALSE /\ stopEvent = FALSE
  /\ clockThread = None
  /\ loop = [l \in Loop |-> "none"]
  /\ stopping = [s \in Stopper |-> "no"]
  /\ joined = [s \in Stopper |-> None]
  /\ selfStopped = {}

-----------------------------------------------------------------------------
(* start                                                                   *)

(* Mutant: start trusts the flag.                                          *)
NoThreadByFlag == ~running

NoThread == clockThread # None => ~LoopAlive(clockThread)

NewLoop(l, phase) ==
  /\ NoThread
  /\ loop[l] = "none" /\ \A k \in 1 .. (l - 1) : loop[k] # "none"
  /\ stopEvent' = FALSE
  /\ running' = TRUE
  /\ clockThread' = l
  /\ loop' = [loop EXCEPT ![l] = phase]
  /\ UNCHANGED <<stopping, joined, selfStopped>>

StartClock == \E l \in Loop : NewLoop(l, "waiting")

(* Thread.start() raises: flag, event and thread keep what they were given.*)
StartClockFails == LoopMayNotStart /\ \E l \in Loop : NewLoop(l, "unstarted")

(* Mutant: the event is cleared before the thread is looked at.            *)
StartAgainClearing ==
  /\ ~NoThread
  /\ stopEvent' = FALSE
  /\ UNCHANGED <<running, clockThread, loop, stopping, joined, selfStopped>>

(* A thread that is alive is left alone, even one about to end.            *)
StartAgain == ~NoThread /\ UNCHANGED clockVars

-----------------------------------------------------------------------------
(* loop, in its own thread                                                 *)

LoopTo(l, from, to) ==
  /\ loop[l] = from
  /\ loop' = [loop EXCEPT ![l] = to]

LoopOnly == UNCHANGED <<running, stopEvent, clockThread, stopping, joined, selfStopped>>

(* The wait times out.                                                     *)
Interval(l) == LoopTo(l, "waiting", "callback") /\ ~stopEvent /\ LoopOnly

(* The callback returns, or raises, which is only logged.                  *)
CallbackEnds(l) == LoopTo(l, "callback", "waiting") /\ stopping[l] = "no" /\ LoopOnly

NoticeStop(l) == LoopTo(l, "waiting", "ending") /\ stopEvent /\ LoopOnly

(* The finally block; the thread is over.                                  *)
EndLoop(l) ==
  /\ LoopTo(l, "ending", "gone")
  /\ running' = FALSE
  /\ clockThread' = IF clockThread = l THEN None ELSE clockThread
  /\ UNCHANGED <<stopEvent, stopping, joined, selfStopped>>

LoopStep(l) == Interval(l) \/ CallbackEnds(l) \/ NoticeStop(l) \/ EndLoop(l)

-----------------------------------------------------------------------------
(* stop, by a caller or by the callback of a loop                          *)

(* The first section.                                                      *)
StopClock(s) ==
  /\ stopping[s] = "no" /\ (s \in Loop => loop[s] = "callback")
  /\ running' = FALSE
  /\ stopEvent' = TRUE
  /\ joined' = [joined EXCEPT ![s] = clockThread]
  /\ stopping' = [stopping EXCEPT ![s] =
                    IF clockThread \in {None, s} THEN "forget" ELSE "join"]
  /\ selfStopped' = selfStopped \cup ({s} \cap Loop)
  /\ UNCHANGED <<clockThread, loop>>

(* Mutant: stop does not wait for the thread.                              *)
JoinAtOnce(s) ==
  /\ stopping[s] = "join"
  /\ stopping' = [stopping EXCEPT ![s] = "forget"]
  /\ UNCHANGED <<running, stopEvent, clockThread, loop, joined, selfStopped>>

(* join returns when the thread is over, and raises, out of stop, when it  *)
(* was never started.                                                      *)
Join(s) ==
  /\ stopping[s] = "join"
  /\ \/ /\ loop[joined[s]] = "gone"
        /\ stopping' = [stopping EXCEPT ![s] = "forget"]
        /\ UNCHANGED joined
     \/ /\ loop[joined[s]] = "unstarted"
        /\ stopping' = [stopping EXCEPT ![s] = "no"]
        /\ joined' = [joined EXCEPT ![s] = None]
  /\ UNCHANGED <<running, stopEvent, clockThread, loop, selfStopped>>

(* The second section: by now another thread may have started the clock    *)
(* again.                                                                  *)
Forget(s) ==
  /\ stopping[s] = "forget"
  /\ clockThread' = IF clockThread = joined[s] THEN None ELSE clockThread
  /\ stopping' = [stopping EXCEPT ![s] = "no"]
  /\ joined' = [joined EXCEPT ![s] = None]
  /\ UNCHANGED <<running, stopEvent, loop, selfStopped>>

StopStep(s) == Join(s) \/ Forget(s)

-----------------------------------------------------------------------------

ClockNext ==
  \/ StartClock \/ StartClockFails \/ StartAgain
  \/ \E l \in Loop : LoopStep(l)
  \/ \E s \in Stopper : StopClock(s) \/ StopStep(s)

ClockSpec == ClockInit /\ [][ClockNext]_clockVars

(* Threads that can run are run, and callbacks return: they read the       *)
(* database, whose waits time out, and start a thread.  Nobody has to call *)
(* start or stop.                                                          *)
ClockFairness ==
  /\ \A l \in Loop : WF_clockVars(LoopStep(l))
  /\ \A s \in Stopper : WF_clockVars(StopStep(s))

FairClockSpec == ClockSpec /\ ClockFairness

-----------------------------------------------------------------------------
(* Properties.                                                             *)

(* However starts, stops and the end of loops overlap, one loop at most    *)
(* calls the callback.  A loop that has stopped its own clock goes on until*)
(* it looks at the event, which a start may have cleared by then, and is   *)
(* not counted.                                                            *)
OneLoop ==
  Cardinality({l \in Loop : Ticking(l)} \ selfStopped) <= 1

(* The flag tells the truth but for one case: a clock that says it runs has*)
(* the loop that start made, unless start raised, which leaves the flag    *)
(* set; and beside a clock that says it does not, a loop still ticks only  *)
(* while a stop waits for it.                                              *)
RunningIsTrue ==
  selfStopped = {} =>
    /\ running => /\ clockThread # None
                  /\ Ticking(clockThread) \/ loop[clockThread] = "unstarted"
    /\ \A l \in Loop : Ticking(l) /\ ~running =>
         \E s \in Stopper : stopping[s] = "join" /\ joined[s] = l

(* stop returns, whoever else starts and stops the clock at the same time, *)
(* as long as no callback stops it from inside.                            *)
StopReturns ==
  \A c \in Caller : stopping[c] = "join" ~> stopping[c] = "no" \/ selfStopped # {}
=============================================================================
