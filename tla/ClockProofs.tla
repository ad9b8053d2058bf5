---------------------------- MODULE ClockProofs ----------------------------
(***************************************************************************)
(* Proofs about Clock, for any callers and any number of threads, and      *)
(* whether or not Thread.start may fail.  The argument: a loop that lives  *)
(* is the one _thread names, so that a start which finds that thread over  *)
(* finds none, and a stop which forgets the thread it joined forgets a dead*)
(* one; the flag and the event are set by whoever last started or stopped  *)
(* the clock, and never disagree.  A loop that stopped its own clock is    *)
(* outside all this: _thread forgets it while it lives.                    *)
(***************************************************************************)
EXTENDS Clock, FiniteSetTheorems, TLAPS

(* A loop that lives is the one _thread names.                             *)
AliveIsNamed ==
  \A l \in Loop : LoopAlive(l) /\ l \notin selfStopped => clockThread = l

(* What is about to be forgotten is over, or forgets itself.               *)
ForgottenIsOver ==
  \A s \in Stopper : stopping[s] = "forget" /\ joined[s] # None =>
    loop[joined[s]] = "gone" \/ joined[s] \in selfStopped

(* No variable names a loop that is yet to be made.                        *)
NamedIsMade ==
  /\ clockThread # None => loop[clockThread] # "none"
  /\ \A s \in Stopper : joined[s] # None => loop[joined[s]] # "none"

LoopInv == ClockTypeOK /\ AliveIsNamed /\ ForgottenIsOver /\ NamedIsMade

(* A clock that runs has not been told to stop, and a loop that ends has.  *)
EventAgrees ==
  /\ running => ~stopEvent
  /\ \A l \in Loop : loop[l] = "ending" => ~running

FlagInv ==
  selfStopped = {} => EventAgrees /\ RunningIsTrue

ClockInv == LoopInv /\ FlagInv

-----------------------------------------------------------------------------
(* The loops.                                                              *)

LEMMA ThreadsAreNotNone == None \notin Loop /\ Loop \cap Caller = {}
BY ClockAssumption DEF Loop

LEMMA InitLoops == ClockInit => LoopInv
BY ThreadsAreNotNone
   DEF ClockInit, LoopInv, ClockTypeOK, AliveIsNamed, ForgottenIsOver,
       NamedIsMade, LoopAlive, Ticking, LoopPhase

(* A start that finds the named thread over finds every loop over.         *)
LEMMA NobodyLives ==
  ASSUME LoopInv, NoThread, NEW l \in Loop, LoopAlive(l)
  PROVE  l \in selfStopped
BY ThreadsAreNotNone DEF LoopInv, AliveIsNamed, NoThread

LEMMA NewLoopPreserves ==
  ASSUME LoopInv, NEW l \in Loop, NEW phase \in {"waiting", "unstarted"},
         NewLoop(l, phase)
  PROVE  LoopInv'
<1>1. /\ loop[l] = "none"
      /\ clockThread' = l /\ loop' = [loop EXCEPT ![l] = phase]
      /\ stopEvent' = FALSE /\ running' = TRUE
      /\ UNCHANGED <<stopping, joined, selfStopped>>
  BY DEF NewLoop
<1>2. ClockTypeOK'
  BY <1>1 DEF LoopInv, ClockTypeOK, LoopPhase
<1>3. AliveIsNamed'
  <2>1. \A k \in Loop : k # l => (LoopAlive(k)' => LoopAlive(k))
    BY <1>1 DEF LoopInv, ClockTypeOK, LoopAlive, Ticking
  <2>2. QED
    BY <1>1, <2>1, NobodyLives DEF AliveIsNamed, NewLoop
<1>4. ForgottenIsOver' /\ NamedIsMade'
  BY <1>1 DEF LoopInv, ClockTypeOK, ForgottenIsOver, NamedIsMade
<1>5. QED
  BY <1>2, <1>3, <1>4 DEF LoopInv

LEMMA LoopStepPreserves ==
  ASSUME LoopInv, NEW l \in Loop, LoopStep(l)
  PROVE  LoopInv'
<1>1. CASE Interval(l) \/ CallbackEnds(l) \/ NoticeStop(l)
  <2>1. /\ loop[l] \in {"waiting", "callback"}
        /\ \E to \in {"waiting", "callback", "ending"} :
             loop' = [loop EXCEPT ![l] = to]
        /\ UNCHANGED <<running, stopEvent, clockThread, stopping, joined, selfStopped>>
    BY <1>1 DEF Interval, CallbackEnds, NoticeStop, LoopTo, LoopOnly
  <2>2. ClockTypeOK'
    BY <2>1 DEF LoopInv, ClockTypeOK, LoopPhase
  <2>3. AliveIsNamed'
    BY <2>1 DEF LoopInv, ClockTypeOK, AliveIsNamed, LoopAlive, Ticking
  <2>4. ForgottenIsOver' /\ NamedIsMade'
    BY <2>1 DEF LoopInv, ClockTypeOK, ForgottenIsOver, NamedIsMade
  <2>5. QED
    BY <2>2, <2>3, <2>4 DEF LoopInv
<1>2. CASE EndLoop(l)
  <2>1. /\ loop[l] = "ending" /\ loop' = [loop EXCEPT ![l] = "gone"]
        /\ running' = FALSE
        /\ clockThread' = IF clockThread = l THEN None ELSE clockThread
        /\ UNCHANGED <<stopEvent, stopping, joined, selfStopped>>
    BY <1>2 DEF EndLoop, LoopTo
  <2>2. ClockTypeOK'
    BY <2>1 DEF LoopInv, ClockTypeOK, LoopPhase
  <2>3. AliveIsNamed'
    BY <2>1 DEF LoopInv, ClockTypeOK, AliveIsNamed, LoopAlive, Ticking
  <2>4. ForgottenIsOver' /\ NamedIsMade'
    BY <2>1 DEF LoopInv, ClockTypeOK, ForgottenIsOver, NamedIsMade
  <2>5. QED
    BY <2>2, <2>3, <2>4 DEF LoopInv
<1>3. QED
  BY <1>1, <1>2 DEF LoopStep

LEMMA StopPreserves ==
  ASSUME LoopInv, NEW s \in Stopper, StopClock(s)
  PROVE  LoopInv'
<1>1. /\ running' = FALSE /\ stopEvent' = TRUE
      /\ joined' = [joined EXCEPT ![s] = clockThread]
      /\ stopping' = [stopping EXCEPT ![s] =
                        IF clockThread \in {None, s} THEN "forget" ELSE "join"]
      /\ selfStopped' = selfStopped \cup ({s} \cap Loop)
      /\ UNCHANGED <<clockThread, loop>>
  BY DEF StopClock
<1>2. ClockTypeOK'
  BY <1>1 DEF LoopInv, ClockTypeOK
<1>3. AliveIsNamed'
  BY <1>1 DEF LoopInv, AliveIsNamed, LoopAlive, Ticking
<1>4. ForgottenIsOver'
  <2> SUFFICES ASSUME NEW t \in Stopper, stopping'[t] = "forget", joined'[t] # None
               PROVE  loop'[joined'[t]] = "gone" \/ joined'[t] \in selfStopped'
    BY DEF ForgottenIsOver
  <2>1. CASE t = s
    <3>1. clockThread = s /\ s \in Loop
      BY <1>1, <2>1 DEF LoopInv, ClockTypeOK
    <3>2. QED
      BY <1>1, <2>1, <3>1 DEF LoopInv, ClockTypeOK
  <2>2. CASE t # s
    BY <1>1, <2>2 DEF LoopInv, ClockTypeOK, ForgottenIsOver
  <2>3. QED
    BY <2>1, <2>2
<1>5. NamedIsMade'
  BY <1>1 DEF LoopInv, ClockTypeOK, NamedIsMade
<1>6. QED
  BY <1>2, <1>3, <1>4, <1>5 DEF LoopInv

LEMMA StopStepPreserves ==
  ASSUME LoopInv, NEW s \in Stopper, StopStep(s)
  PROVE  LoopInv'
<1>1. CASE Join(s)
  <2>1. /\ UNCHANGED <<running, stopEvent, clockThread, loop, selfStopped>>
        /\ \/ /\ loop[joined[s]] = "gone"
              /\ stopping' = [stopping EXCEPT ![s] = "forget"]
              /\ UNCHANGED joined
           \/ /\ stopping' = [stopping EXCEPT ![s] = "no"]
              /\ joined' = [joined EXCEPT ![s] = None]
    BY <1>1 DEF Join
  <2>2. ClockTypeOK' /\ AliveIsNamed'
    BY <2>1 DEF LoopInv, ClockTypeOK, AliveIsNamed, LoopAlive, Ticking
  <2>3. ForgottenIsOver' /\ NamedIsMade'
    BY <2>1 DEF LoopInv, ClockTypeOK, ForgottenIsOver, NamedIsMade
  <2>4. QED
    BY <2>2, <2>3 DEF LoopInv
<1>2. CASE Forget(s)
  <2>1. /\ stopping[s] = "forget"
        /\ clockThread' = IF clockThread = joined[s] THEN None ELSE clockThread
        /\ stopping' = [stopping EXCEPT ![s] = "no"]
        /\ joined' = [joined EXCEPT ![s] = None]
        /\ UNCHANGED <<running, stopEvent, loop, selfStopped>>
    BY <1>2 DEF Forget
  <2>2. ClockTypeOK'
    BY <2>1 DEF LoopInv, ClockTypeOK
  <2>3. AliveIsNamed'
    <3> SUFFICES ASSUME NEW l \in Loop, LoopAlive(l), l \notin selfStopped
                 PROVE  clockThread' = l
      BY <2>1 DEF AliveIsNamed, LoopAlive, Ticking
    <3>1. clockThread = l
      BY DEF LoopInv, AliveIsNamed
    <3>2. joined[s] # l
      BY <2>1, ThreadsAreNotNone DEF LoopInv, ForgottenIsOver, LoopAlive, Ticking
    <3>3. QED
      BY <2>1, <3>1, <3>2
  <2>4. ForgottenIsOver' /\ NamedIsMade'
    BY <2>1 DEF LoopInv, ClockTypeOK, ForgottenIsOver, NamedIsMade
  <2>5. QED
    BY <2>2, <2>3, <2>4 DEF LoopInv
<1>3. QED
  BY <1>1, <1>2 DEF StopStep

LEMMA LoopsPreserved == LoopInv /\ [ClockNext]_clockVars => LoopInv'
<1> SUFFICES ASSUME LoopInv, [ClockNext]_clockVars PROVE LoopInv'
  OBVIOUS
<1>1. CASE StartClock \/ StartClockFails
  BY <1>1, NewLoopPreserves DEF StartClock, StartClockFails
<1>2. CASE \E l \in Loop : LoopStep(l)
  BY <1>2, LoopStepPreserves
<1>3. CASE \E s \in Stopper : StopClock(s)
  BY <1>3, StopPreserves
<1>4. CASE \E s \in Stopper : StopStep(s)
  BY <1>4, StopStepPreserves
<1>5. CASE StartAgain \/ UNCHANGED clockVars
  BY <1>5 DEF StartAgain, clockVars, LoopInv, ClockTypeOK, AliveIsNamed,
              ForgottenIsOver, NamedIsMade, LoopAlive, Ticking
<1>6. QED
  BY <1>1, <1>2, <1>3, <1>4, <1>5 DEF ClockNext

-----------------------------------------------------------------------------
(* The flag and the event, as long as no callback stops its own clock.     *)

LEMMA InitFlag == ClockInit => FlagInv
BY ThreadsAreNotNone
   DEF ClockInit, FlagInv, EventAgrees, RunningIsTrue, Ticking

LEMMA NewLoopKeepsFlag ==
  ASSUME LoopInv, FlagInv, selfStopped = {},
         NEW l \in Loop, NEW phase \in {"waiting", "unstarted"}, NewLoop(l, phase)
  PROVE  (EventAgrees /\ RunningIsTrue)'
<1>1. /\ clockThread' = l /\ loop' = [loop EXCEPT ![l] = phase]
      /\ stopEvent' = FALSE /\ running' = TRUE
      /\ NoThread
  BY DEF NewLoop
<1>2. \A k \in Loop : ~LoopAlive(k)
  BY <1>1, NobodyLives
<1>3. loop'[l] = phase /\ \A k \in Loop : k # l => loop'[k] = loop[k]
  BY <1>1 DEF LoopInv, ClockTypeOK
<1>4. EventAgrees'
  BY <1>1, <1>2, <1>3 DEF EventAgrees, LoopAlive
<1>5. RunningIsTrue'
  BY <1>1, <1>3, ThreadsAreNotNone DEF RunningIsTrue, Ticking
<1>6. QED
  BY <1>4, <1>5

LEMMA LoopStepKeepsFlag ==
  ASSUME LoopInv, FlagInv, selfStopped = {}, NEW l \in Loop, LoopStep(l)
  PROVE  (EventAgrees /\ RunningIsTrue)'
<1>1. EventAgrees /\ RunningIsTrue
  BY DEF FlagInv
<1>2. CASE Interval(l) \/ CallbackEnds(l)
  <2>1. /\ Ticking(l)
        /\ \E to \in {"waiting", "callback"} : loop' = [loop EXCEPT ![l] = to]
        /\ UNCHANGED <<running, stopEvent, clockThread, stopping, joined, selfStopped>>
    BY <1>2 DEF Interval, CallbackEnds, LoopTo, LoopOnly, Ticking
  <2>2. \A k \in Loop : /\ Ticking(k)' <=> Ticking(k)
                        /\ loop'[k] = "ending" => loop[k] = "ending"
                        /\ loop'[k] = "unstarted" <=> loop[k] = "unstarted"
    BY <2>1 DEF LoopInv, ClockTypeOK, Ticking
  <2>3. EventAgrees'
    BY <1>1, <2>1, <2>2 DEF EventAgrees
  <2>4. RunningIsTrue'
    BY <1>1, <2>1, <2>2 DEF RunningIsTrue, LoopInv, ClockTypeOK
  <2>5. QED
    BY <2>3, <2>4
<1>3. CASE NoticeStop(l) \/ EndLoop(l)
  <2>1. /\ ~running /\ ~running'
        /\ \E to \in {"ending", "gone"} : loop' = [loop EXCEPT ![l] = to]
        /\ UNCHANGED <<stopEvent, stopping, joined, selfStopped>>
    BY <1>1, <1>3 DEF NoticeStop, EndLoop, LoopTo, LoopOnly, EventAgrees
  <2>2. \A k \in Loop : Ticking(k)' => Ticking(k)
    BY <2>1 DEF LoopInv, ClockTypeOK, Ticking
  <2>3. RunningIsTrue'
    BY <1>1, <2>1, <2>2 DEF RunningIsTrue
  <2>4. QED
    BY <2>1, <2>3 DEF EventAgrees
<1>4. QED
  BY <1>2, <1>3 DEF LoopStep

(* Whoever stops the clock waits for the loop that ticks.                  *)
LEMMA StopKeepsFlag ==
  ASSUME LoopInv, FlagInv, NEW s \in Stopper, StopClock(s), selfStopped' = {}
  PROVE  (EventAgrees /\ RunningIsTrue)'
<1>1. /\ stopping[s] = "no"
      /\ running' = FALSE
      /\ joined' = [joined EXCEPT ![s] = clockThread]
      /\ stopping' = [stopping EXCEPT ![s] =
                        IF clockThread \in {None, s} THEN "forget" ELSE "join"]
      /\ selfStopped = {} /\ s \notin Loop
      /\ UNCHANGED <<clockThread, loop>>
  BY DEF StopClock
<1>2. ASSUME NEW l \in Loop, Ticking(l)
      PROVE  stopping'[s] = "join" /\ joined'[s] = l
  <2>1. clockThread = l /\ clockThread \notin {None, s}
    BY <1>1, <1>2, ThreadsAreNotNone DEF LoopInv, AliveIsNamed, LoopAlive
  <2>2. QED
    BY <1>1, <2>1 DEF LoopInv, ClockTypeOK
<1>3. \A l \in Loop : Ticking(l)' <=> Ticking(l)
  BY <1>1 DEF Ticking
<1>4. RunningIsTrue'
  BY <1>1, <1>2, <1>3 DEF RunningIsTrue
<1>5. QED
  BY <1>1, <1>4 DEF EventAgrees

LEMMA StopStepKeepsFlag ==
  ASSUME LoopInv, FlagInv, selfStopped = {}, NEW s \in Stopper, StopStep(s)
  PROVE  (EventAgrees /\ RunningIsTrue)'
<1>1. EventAgrees /\ RunningIsTrue
  BY DEF FlagInv
<1>2. CASE Join(s)
  <2>1. /\ UNCHANGED <<running, stopEvent, clockThread, loop, selfStopped>>
        /\ loop[joined[s]] \in {"gone", "unstarted"}
        /\ \A t \in Stopper : t # s => /\ stopping'[t] = stopping[t]
                                       /\ joined'[t] = joined[t]
    BY <1>2 DEF Join, LoopInv, ClockTypeOK
  <2>2. RunningIsTrue'
    BY <1>1, <2>1 DEF RunningIsTrue, Ticking
  <2>3. QED
    BY <1>1, <2>1, <2>2 DEF EventAgrees
<1>3. CASE Forget(s)
  <2>1. /\ stopping[s] = "forget"
        /\ clockThread' = IF clockThread = joined[s] THEN None ELSE clockThread
        /\ \A t \in Stopper : t # s => /\ stopping'[t] = stopping[t]
                                       /\ joined'[t] = joined[t]
        /\ UNCHANGED <<running, stopEvent, loop, selfStopped>>
    BY <1>3 DEF Forget, LoopInv, ClockTypeOK
  <2>2. running => clockThread' = clockThread
    BY <1>1, <2>1 DEF RunningIsTrue, LoopInv, ForgottenIsOver, Ticking
  <2>3. RunningIsTrue'
    BY <1>1, <2>1, <2>2 DEF RunningIsTrue, Ticking
  <2>4. QED
    BY <1>1, <2>1, <2>3 DEF EventAgrees
<1>4. QED
  BY <1>2, <1>3 DEF StopStep

LEMMA FlagPreserved ==
  ASSUME LoopInv, FlagInv, [ClockNext]_clockVars
  PROVE  FlagInv'
<1> SUFFICES ASSUME selfStopped' = {} PROVE (EventAgrees /\ RunningIsTrue)'
  BY DEF FlagInv
<1>1. CASE StartClock \/ StartClockFails
  <2>1. selfStopped = {}
    BY <1>1 DEF StartClock, StartClockFails, NewLoop
  <2>2. QED
    BY <1>1, <2>1, NewLoopKeepsFlag DEF StartClock, StartClockFails
<1>2. CASE \E l \in Loop : LoopStep(l)
  <2>1. selfStopped = {}
    BY <1>2 DEF LoopStep, Interval, CallbackEnds, NoticeStop, EndLoop, LoopOnly
  <2>2. QED
    BY <1>2, <2>1, LoopStepKeepsFlag
<1>3. CASE \E s \in Stopper : StopClock(s)
  BY <1>3, StopKeepsFlag
<1>4. CASE \E s \in Stopper : StopStep(s)
  <2>1. selfStopped = {}
    BY <1>4 DEF StopStep, Join, Forget
  <2>2. QED
    BY <1>4, <2>1, StopStepKeepsFlag
<1>5. CASE StartAgain \/ UNCHANGED clockVars
  BY <1>5 DEF StartAgain, clockVars, FlagInv, EventAgrees, RunningIsTrue, Ticking
<1>6. QED
  BY <1>1, <1>2, <1>3, <1>4, <1>5 DEF ClockNext

-----------------------------------------------------------------------------

LEMMA ClockInvariant == ClockSpec => []ClockInv
<1>1. ClockInit => ClockInv
  BY InitLoops, InitFlag DEF ClockInv
<1>2. ClockInv /\ [ClockNext]_clockVars => ClockInv'
  BY LoopsPreserved, FlagPreserved DEF ClockInv
<1>3. QED
  BY <1>1, <1>2, PTL DEF ClockSpec

(* Every variable of the clock stays within its type, whoever calls it.    *)
THEOREM ClockTypeCorrect == ClockSpec => []ClockTypeOK
<1>1. ClockInv => ClockTypeOK
  BY DEF ClockInv, LoopInv
<1>2. QED
  BY <1>1, ClockInvariant, PTL

(* However starts and stops of any number of threads overlap, and whichever*)
(* threads fail to start, one loop at most calls the callback, self-stopped*)
(* ones aside.                                                             *)
THEOREM OneLoopAlways == ClockSpec => []OneLoop
<1>1. ASSUME LoopInv PROVE OneLoop
  <2> DEFINE ticking == {l \in Loop : Ticking(l)} \ selfStopped
  <2>1. ticking \subseteq {clockThread}
    BY <1>1 DEF LoopInv, AliveIsNamed, LoopAlive
  <2>2. Cardinality(ticking) <= Cardinality({clockThread}) /\ IsFiniteSet({clockThread})
    BY <2>1, FS_Singleton, FS_Subset
  <2>3. Cardinality({clockThread}) = 1
    BY FS_Singleton
  <2>4. QED
    BY <2>2, <2>3 DEF OneLoop
<1>2. QED
  BY <1>1, ClockInvariant, PTL DEF ClockInv

(* The flag running is true of the loops at every moment: what it says is  *)
(* so, or a stop is waiting for it to become so.                           *)
THEOREM RunningIsTrueAlways == ClockSpec => []RunningIsTrue
<1>1. ClockInv => RunningIsTrue
  BY DEF ClockInv, FlagInv, RunningIsTrue
<1>2. QED
  BY <1>1, ClockInvariant, PTL
=============================================================================
