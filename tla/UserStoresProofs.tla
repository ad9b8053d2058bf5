-------------------------- MODULE UserStoresProofs --------------------------
(***************************************************************************)
(* Proofs about UserStores, for any keys, values, texts and processes.     *)
(* The ground of the argument is shared by the stores: a process is inside *)
(* one command at a time, and it holds the file's one write lock exactly   *)
(* while it is inside a write transaction of one of them.                  *)
(***************************************************************************)
EXTENDS UserStores, Sequences, FiniteSetTheorems, TLAPS

(* Inside a write transaction.                                             *)
Writing(c) ==
  fpc[c] \in {"write", "commit"} \/ mpc[c] = "commit" \/ ppc[c] = "commit"

LockControl(c) ==
  /\ lock = c <=> Writing(c)
  /\ fpc[c] # "idle" => mpc[c] = "idle" /\ ppc[c] = "idle"
  /\ mpc[c] # "idle" => ppc[c] = "idle"

FactControl(c) ==
  /\ fpc[c] = "idle" <=> freq[c] = None
  /\ fpc[c] = "look" => freq[c].kind = "correct"
  /\ fpc[c] \in {"begin", "write", "commit"} => freq[c].kind # "propose"
  /\ fpc[c] \in {"compare", "history"} => freq[c].kind = "propose"
  /\ fpc[c] \in {"write", "commit"} /\ freq[c].kind # "retire" =>
       ftodo[c] \subseteq DOMAIN freq[c].batch
  /\ fpc[c] # "idle" /\ freq[c].kind \in {"correct", "propose"} =>
       \A j, k \in DOMAIN freq[c].batch : j = k

MemoryControl(c) == mpc[c] # "idle" => mtext[c] # None /\ manswer[c] = "none"

PreferenceControl(c) ==
  /\ ppc[c] = "idle" <=> preq[c] = None
  /\ ppc[c] = "look" => preq[c].value = None
  /\ ppc[c] # "idle" /\ preq[c].value # None => preq[c].target = "candidate"

Control(c) ==
  LockControl(c) /\ FactControl(c) /\ MemoryControl(c) /\ PreferenceControl(c)

TInv == TypeOK /\ \A c \in Client : Control(c)

-----------------------------------------------------------------------------
(* Data.                                                                   *)

LEMMA NoneIsNothing ==
  /\ None \notin Facts!Fact /\ None \notin Facts!Request
  /\ None \notin Preferences!Preference /\ None \notin Preferences!Request
  /\ None \notin Value /\ None \notin Client /\ None \notin Text
BY StoresAssumption
   DEF Facts!FactAssumption, Memories!MemoryAssumption, Preferences!PreferenceAssumption

(* A batch gives a value to some keys.                                     *)
LEMMA BatchShape ==
  ASSUME NEW batch \in Facts!Batch
  PROVE  /\ DOMAIN batch \subseteq FactKey
         /\ \A k \in DOMAIN batch : batch[k] \in Value
BY DEF Facts!Batch

LEMMA SingleIsBatch ==
  ASSUME NEW k \in FactKey, NEW v \in Value
  PROVE  [key \in {k} |-> v] \in Facts!Batch
<1>1. {k} \in (SUBSET FactKey) \ {{}}
  OBVIOUS
<1>2. [key \in {k} |-> v] \in [{k} -> Value]
  OBVIOUS
<1>3. QED
  BY <1>1, <1>2 DEF Facts!Batch

(* What a command other than retire works on, and what retire works on.    *)
LEMMA RequestShape ==
  ASSUME NEW r \in Facts!Request
  PROVE  /\ r.kind # "retire" => r.batch \in Facts!Batch
         /\ r.kind = "retire" => r.key \in FactKey
BY DEF Facts!Request

LEMMA AssignedIsFact ==
  ASSUME Facts!TypeOK, NEW k \in FactKey, NEW v \in Value
  PROVE  Facts!Assigned(k, v) \in Facts!Fact \cup {None}
BY DEF Facts!TypeOK, Facts!Assigned, Facts!Fact, Facts!FactState

-----------------------------------------------------------------------------
(* The steps of the facts.                                                 *)

FactTaken(c, r, there) ==
  \/ there = "begin" /\ r.kind \in {"many", "retire"}
  \/ /\ \/ there = "look" /\ r.kind = "correct"
        \/ there = "compare" /\ r.kind = "propose"
     /\ \A j, k \in DOMAIN r.batch : j = k

LEMMA FactSubmits ==
  ASSUME NEW c \in Client, Facts!Submit(c)
  PROVE  \E r \in Facts!Request, there \in {"look", "begin", "compare"} :
           FactTaken(c, r, there) /\ Facts!Start(c, r, there)
<1>1. CASE Facts!CorrectFact(c)
  <2>1. PICK k \in FactKey, v \in Value :
          Facts!Start(c, [kind |-> "correct", batch |-> [key \in {k} |-> v]], "look")
    BY <1>1 DEF Facts!CorrectFact
  <2> DEFINE r == [kind |-> "correct", batch |-> [key \in {k} |-> v]]
  <2>2. r \in Facts!Request
    BY SingleIsBatch DEF Facts!Request
  <2>3. \A i, j \in DOMAIN r.batch : i = j
    OBVIOUS
  <2>4. FactTaken(c, r, "look")
    BY <2>3 DEF FactTaken
  <2>5. QED
    BY <2>1, <2>2, <2>4
<1>2. CASE Facts!SetMany(c)
  BY <1>2 DEF Facts!SetMany, Facts!Request, FactTaken
<1>3. CASE Facts!RetireFact(c)
  BY <1>3 DEF Facts!RetireFact, Facts!Request, FactTaken
<1>4. CASE Facts!Propose(c)
  <2>1. PICK k \in FactKey, v \in Value :
          Facts!Start(c, [kind |-> "propose", batch |-> [key \in {k} |-> v]], "compare")
    BY <1>4 DEF Facts!Propose
  <2> DEFINE r == [kind |-> "propose", batch |-> [key \in {k} |-> v]]
  <2>2. r \in Facts!Request
    BY SingleIsBatch DEF Facts!Request
  <2>3. \A i, j \in DOMAIN r.batch : i = j
    OBVIOUS
  <2>4. FactTaken(c, r, "compare")
    BY <2>3 DEF FactTaken
  <2>5. QED
    BY <2>1, <2>2, <2>4
<1>5. QED
  BY <1>1, <1>2, <1>3, <1>4 DEF Facts!Submit

LEMMA FactWorkTypes ==
  ASSUME TInv, NEW c \in Client, Facts!Work(c)
  PROVE  Facts!TypeOK'
<1>1. Facts!TypeOK /\ FactControl(c)
  BY DEF TInv, TypeOK, Control
<1>2. fpc[c] # "idle" => freq[c] \in Facts!Request
  BY <1>1 DEF Facts!TypeOK, FactControl
<1>3. \A outcome : Facts!Answered(c, outcome) /\ outcome \in
          {"none", "changed", "unchanged", "stored", "missing", "failed"} \cup Facts!Label =>
        /\ fpc' \in [Client -> {"idle", "look", "begin", "write", "commit", "compare", "history"}]
        /\ freq' \in [Client -> Facts!Request \cup {None}]
        /\ ftodo' \in [Client -> SUBSET FactKey]
        /\ fbefore' \in [Client -> Value \cup {None}]
        /\ fanswer' \in [Client -> {"none", "changed", "unchanged", "stored",
                                     "missing", "clarify", "rejected", "failed"} \cup Facts!Label]
  BY <1>1 DEF Facts!Answered, Facts!TypeOK
<1>4. Facts!Rollback(c) =>
        lock' \in Client \cup {None} /\ factStaged' \in [FactKey -> Facts!Fact \cup {None}]
  BY <1>1 DEF Facts!Rollback, Facts!TypeOK, Facts!NothingStaged
<1>5. CASE Facts!Look(c)
  <2>1. PICK k \in DOMAIN freq[c].batch :
          fbefore' = [fbefore EXCEPT ![c] = Facts!Visible(facts[k])]
    BY <1>5 DEF Facts!Look
  <2>2. k \in FactKey
    BY <1>1, <1>2, <1>5, RequestShape, BatchShape DEF Facts!Look, FactControl
  <2>3. Facts!Visible(facts[k]) \in Value \cup {None}
    BY <1>1, <2>2 DEF Facts!TypeOK, Facts!Visible, Facts!Fact
  <2>4. QED
    BY <1>1, <1>5, <2>1, <2>3 DEF Facts!Look, Facts!TypeOK, Facts!tables
<1>6. CASE Facts!Compare(c)
  <2>1. PICK k \in DOMAIN freq[c].batch :
          \/ \E label \in {"same", "correction"} : Facts!Reply(c, label)
          \/ /\ fpc' = [fpc EXCEPT ![c] = "history"]
             /\ fapt' = [fapt EXCEPT ![c] = {Facts!Apt(facts[k], freq[c].batch[k])}]
             /\ UNCHANGED <<freq, ftodo, fbefore, fanswer>>
    BY <1>6 DEF Facts!Compare
  <2>2. Facts!Apt(facts[k], freq[c].batch[k]) \in Facts!Label
    BY DEF Facts!Apt, Facts!Label
  <2>3. QED
    BY <1>1, <1>3, <1>6, <2>1, <2>2
       DEF Facts!Compare, Facts!Reply, Facts!Label, Facts!TypeOK, Facts!tables
<1>7. CASE Facts!LookBack(c)
  <2>1. \E label \in {"reactivation", "new"} : Facts!Reply(c, label)
    BY <1>7 DEF Facts!LookBack
  <2>2. QED
    BY <1>1, <1>3, <1>7, <2>1 DEF Facts!LookBack, Facts!Reply, Facts!Label, Facts!TypeOK, Facts!tables
<1>8. CASE Facts!Begin(c)
  <2>1. (IF freq[c].kind = "retire" THEN {freq[c].key} ELSE DOMAIN freq[c].batch) \subseteq FactKey
    BY <1>2, <1>8, RequestShape, BatchShape DEF Facts!Begin
  <2>2. QED
    BY <1>1, <1>8, <2>1 DEF Facts!Begin, Facts!TypeOK, Facts!tables
<1>9. CASE Facts!SetFact(c)
  <2>1. PICK k \in ftodo[c] :
          \/ Facts!Rollback(c) /\ Facts!Reply(c, "failed")
          \/ /\ factStaged' = [factStaged EXCEPT ![k] = Facts!Assigned(k, freq[c].batch[k])]
             /\ ftodo' = [ftodo EXCEPT ![c] = @ \ {k}]
             /\ fpc' = [fpc EXCEPT ![c] = IF ftodo[c] = {k} THEN "commit" ELSE "write"]
             /\ UNCHANGED <<lock, freq, fbefore, fanswer, fapt>>
    BY <1>9 DEF Facts!SetFact
  <2>2. CASE Facts!Rollback(c) /\ Facts!Reply(c, "failed")
    BY <1>1, <1>3, <1>4, <1>9, <2>2 DEF Facts!SetFact, Facts!Reply, Facts!TypeOK, Facts!tables
  <2>3. CASE /\ factStaged' = [factStaged EXCEPT ![k] = Facts!Assigned(k, freq[c].batch[k])]
             /\ ftodo' = [ftodo EXCEPT ![c] = @ \ {k}]
             /\ fpc' = [fpc EXCEPT ![c] = IF ftodo[c] = {k} THEN "commit" ELSE "write"]
             /\ UNCHANGED <<lock, freq, fbefore, fanswer, fapt>>
    <3>1. Facts!Assigned(k, freq[c].batch[k]) \in Facts!Fact \cup {None}
      <4>1. freq[c].batch \in Facts!Batch /\ k \in DOMAIN freq[c].batch
        BY <1>1, <1>2, <1>9, RequestShape DEF Facts!SetFact, FactControl
      <4>2. k \in FactKey /\ freq[c].batch[k] \in Value
        BY <4>1, BatchShape
      <4>3. QED
        BY <1>1, <4>2, AssignedIsFact
    <3>2. QED
      BY <1>1, <1>9, <2>3, <3>1 DEF Facts!SetFact, Facts!TypeOK, Facts!tables
  <2>4. QED
    BY <2>1, <2>2, <2>3
<1>10. CASE Facts!Retire(c)
  <2>1. freq[c].key \in FactKey
    BY <1>2, <1>10, RequestShape DEF Facts!Retire
  <2>2. CASE \E outcome \in {"missing", "unchanged", "failed"} :
               Facts!Rollback(c) /\ Facts!Reply(c, outcome)
    BY <1>1, <1>3, <1>4, <1>10, <2>2 DEF Facts!Retire, Facts!Reply, Facts!TypeOK, Facts!tables
  <2>3. CASE /\ facts[freq[c].key] # None
             /\ factStaged' = [factStaged EXCEPT ![freq[c].key] =
                                 [version |-> facts[freq[c].key].version + 1,
                                  value |-> facts[freq[c].key].value, state |-> "retired"]]
             /\ fpc' = [fpc EXCEPT ![c] = "commit"]
             /\ UNCHANGED <<lock, freq, ftodo, fbefore, fanswer, fapt>>
    <3>1. facts[freq[c].key] \in Facts!Fact
      BY <1>1, <2>1, <2>3 DEF Facts!TypeOK
    <3>2. [version |-> facts[freq[c].key].version + 1,
           value |-> facts[freq[c].key].value, state |-> "retired"] \in Facts!Fact
      BY <3>1 DEF Facts!Fact, Facts!FactState
    <3>3. QED
      BY <1>1, <1>10, <2>3, <3>2 DEF Facts!Retire, Facts!TypeOK, Facts!tables
  <2>4. QED
    BY <1>10, <2>2, <2>3 DEF Facts!Retire
<1>11. CASE Facts!Commit(c)
  <2>1. /\ facts' \in [FactKey -> Facts!Fact \cup {None}]
        /\ factHistory' \in [FactKey -> SUBSET Facts!Fact]
    BY <1>1, <1>11 DEF Facts!Commit, Facts!TypeOK
  <2>2. Facts!Outcome(c) \in {"stored", "changed", "unchanged"}
    BY DEF Facts!Outcome
  <2>3. fapt' \in [Client -> SUBSET Facts!Label]
    BY <1>1, <1>11 DEF Facts!Commit, Facts!TypeOK, Facts!Apt, Facts!Label
  <2>4. QED
    BY <1>1, <1>3, <1>11, <2>1, <2>2, <2>3 DEF Facts!Commit, Facts!TypeOK, Facts!NothingStaged
<1>12. CASE Facts!StorageError(c) \/ Facts!Crash(c)
  BY <1>1, <1>3, <1>4, <1>12
     DEF Facts!StorageError, Facts!Crash, Facts!Reply, Facts!TypeOK, Facts!tables
<1>13. QED
  BY <1>5, <1>6, <1>7, <1>8, <1>9, <1>10, <1>11, <1>12 DEF Facts!Work

(* How a step of a fact command moves its client: it ends the command, or  *)
(* goes on inside it, taking the lock or keeping it.                       *)
FactEnds(c) ==
  /\ fpc' = [fpc EXCEPT ![c] = "idle"]
  /\ freq' = [freq EXCEPT ![c] = None]
  /\ ftodo' = [ftodo EXCEPT ![c] = {}]
  /\ lock' = IF lock = c THEN None ELSE lock

FactLooked(c) ==
  /\ \/ fpc[c] = "look" /\ fpc' = [fpc EXCEPT ![c] = "begin"]
     \/ fpc[c] = "compare" /\ fpc' = [fpc EXCEPT ![c] = "history"]
  /\ UNCHANGED <<lock, freq, ftodo>>

FactBegun(c) ==
  /\ fpc[c] = "begin" /\ fpc' = [fpc EXCEPT ![c] = "write"]
  /\ lock = None /\ lock' = c /\ freq' = freq
  /\ \E keys : /\ ftodo' = [ftodo EXCEPT ![c] = keys]
               /\ freq[c].kind # "retire" => keys = DOMAIN freq[c].batch

FactWritten(c) ==
  /\ fpc[c] = "write"
  /\ \E there \in {"write", "commit"} : fpc' = [fpc EXCEPT ![c] = there]
  /\ \E keys \in SUBSET ftodo[c] : ftodo' = [ftodo EXCEPT ![c] = keys]
  /\ UNCHANGED <<lock, freq>>

LEMMA FactWorkShape ==
  ASSUME TInv, NEW c \in Client, Facts!Work(c)
  PROVE  /\ FactEnds(c) \/ FactLooked(c) \/ FactBegun(c) \/ FactWritten(c)
         /\ fpc[c] # "idle" /\ mpc[c] = "idle" /\ ppc[c] = "idle"
<1>1. Facts!TypeOK /\ Control(c) /\ None \notin Client
  BY NoneIsNothing DEF TInv, TypeOK, Control
<1>2. fpc[c] # "idle"
  BY DEF Facts!Work, Facts!Look, Facts!Compare, Facts!LookBack, Facts!Begin, Facts!SetFact,
         Facts!Retire, Facts!Commit, Facts!StorageError, Facts!Crash
<1>3. /\ mpc[c] = "idle" /\ ppc[c] = "idle"
      /\ lock = c <=> fpc[c] \in {"write", "commit"}
  BY <1>1, <1>2 DEF Control, LockControl, Writing
<1>4. CASE Facts!Look(c)
  BY <1>2, <1>3, <1>4 DEF Facts!Look, FactLooked
<1>5. CASE Facts!Compare(c)
  <2>1. PICK k \in DOMAIN freq[c].batch :
          \/ \E label : Facts!Answered(c, label)
          \/ /\ fpc' = [fpc EXCEPT ![c] = "history"]
             /\ UNCHANGED <<freq, ftodo, fbefore, fanswer>>
    BY <1>5 DEF Facts!Compare, Facts!Reply
  <2>2. fpc[c] = "compare" /\ lock' = lock
    BY <1>5 DEF Facts!Compare
  <2>3. QED
    BY <1>2, <1>3, <2>1, <2>2 DEF Facts!Answered, FactEnds, FactLooked
<1>6. CASE Facts!LookBack(c)
  <2>1. fpc[c] = "history" /\ lock' = lock /\ \E label : Facts!Answered(c, label)
    BY <1>6 DEF Facts!LookBack, Facts!Reply
  <2>2. QED
    BY <1>2, <1>3, <2>1 DEF Facts!Answered, FactEnds
<1>7. CASE Facts!Begin(c)
  BY <1>2, <1>3, <1>7 DEF Facts!Begin, FactBegun
<1>8. CASE Facts!SetFact(c)
  <2>1. PICK k \in ftodo[c] :
          \/ Facts!Rollback(c) /\ Facts!Answered(c, "failed")
          \/ /\ ftodo' = [ftodo EXCEPT ![c] = @ \ {k}]
             /\ fpc' = [fpc EXCEPT ![c] = IF ftodo[c] = {k} THEN "commit" ELSE "write"]
             /\ UNCHANGED <<lock, freq>>
    BY <1>8 DEF Facts!SetFact, Facts!Reply
  <2>2. fpc[c] = "write"
    BY <1>8 DEF Facts!SetFact
  <2>3. QED
    BY <1>2, <1>3, <2>1, <2>2 DEF Facts!Rollback, Facts!Answered, FactEnds, FactWritten
<1>9. CASE Facts!Retire(c)
  <2>1. \/ \E outcome : Facts!Rollback(c) /\ Facts!Answered(c, outcome)
        \/ fpc' = [fpc EXCEPT ![c] = "commit"] /\ UNCHANGED <<lock, freq, ftodo>>
    BY <1>9 DEF Facts!Retire, Facts!Reply
  <2>2. fpc[c] = "write" /\ ftodo = [ftodo EXCEPT ![c] = ftodo[c]]
    BY <1>1, <1>9 DEF Facts!Retire, Facts!TypeOK
  <2>3. QED
    BY <1>2, <1>3, <2>1, <2>2 DEF Facts!Rollback, Facts!Answered, FactEnds, FactWritten
<1>10. CASE Facts!Commit(c)
  BY <1>2, <1>3, <1>10 DEF Facts!Commit, Facts!Answered, FactEnds
<1>11. CASE Facts!StorageError(c) \/ Facts!Crash(c)
  BY <1>2, <1>3, <1>11 DEF Facts!StorageError, Facts!Crash, Facts!Reply, Facts!Rollback, Facts!Answered,
               FactEnds
<1>12. QED
  BY <1>2, <1>3, <1>4, <1>5, <1>6, <1>7, <1>8, <1>9, <1>10, <1>11 DEF Facts!Work

LEMMA FactWorkControl ==
  ASSUME TInv, NEW c \in Client, Facts!Work(c), UNCHANGED <<mpc, ppc, mtext, manswer, preq>>,
         NEW d \in Client
  PROVE  Control(d)'
<1>1. /\ Facts!TypeOK /\ Control(c) /\ Control(d) /\ None \notin Client
      /\ fpc[c] # "idle" /\ mpc[c] = "idle" /\ ppc[c] = "idle"
  BY NoneIsNothing, FactWorkShape DEF TInv, TypeOK
<1>2. CASE FactEnds(c)
  BY <1>1, <1>2 DEF FactEnds, Facts!TypeOK, Control, LockControl, Writing, FactControl,
                    MemoryControl, PreferenceControl
<1>3. CASE FactLooked(c)
  BY <1>1, <1>3 DEF FactLooked, Facts!TypeOK, Control, LockControl, Writing, FactControl,
                    MemoryControl, PreferenceControl
<1>4. CASE FactBegun(c)
  BY <1>1, <1>4 DEF FactBegun, Facts!TypeOK, Control, LockControl, Writing, FactControl,
                    MemoryControl, PreferenceControl
<1>5. CASE FactWritten(c)
  BY <1>1, <1>5 DEF FactWritten, Facts!TypeOK, Control, LockControl, Writing, FactControl,
                    MemoryControl, PreferenceControl
<1>6. QED
  BY <1>2, <1>3, <1>4, <1>5, FactWorkShape

-----------------------------------------------------------------------------
(* The steps of the memories.                                              *)

LEMMA MemoryWorkTyped ==
  ASSUME TInv, NEW c \in Client, Memories!Work(c)
  PROVE  Memories!TypeOK'
<1>1. Memories!TypeOK /\ MemoryControl(c)
  BY DEF TInv, TypeOK, Control
<1>2. CASE Memories!Lookup(c) \/ Memories!Insert(c)
  BY <1>1, <1>2 DEF Memories!Lookup, Memories!Insert, Memories!Reply, Memories!TypeOK
<1>3. CASE Memories!Commit(c)
  <2>1. mtext[c] \in Text
    BY <1>1, <1>3 DEF Memories!Commit, Memories!TypeOK, MemoryControl
  <2>2. events' \in Seq(Text)
    BY <1>1, <1>3, <2>1 DEF Memories!Commit, Memories!TypeOK
  <2>3. QED
    BY <1>1, <1>3, <2>2 DEF Memories!Commit, Memories!Reply, Memories!TypeOK
<1>4. CASE Memories!StorageError(c) \/ Memories!Crash(c)
  BY <1>1, <1>4
     DEF Memories!StorageError, Memories!Crash, Memories!Ends, Memories!Reply, Memories!TypeOK
<1>5. QED
  BY <1>2, <1>3, <1>4 DEF Memories!Work

LEMMA MemoryWorkControl ==
  ASSUME TInv, NEW c \in Client, Memories!Work(c), UNCHANGED <<fpc, freq, ftodo, ppc, preq>>,
         NEW d \in Client
  PROVE  Control(d)'
<1>1. /\ Memories!TypeOK /\ Control(c) /\ Control(d) /\ None \notin Client
      /\ mpc[c] # "idle" /\ fpc[c] = "idle" /\ ppc[c] = "idle"
  BY NoneIsNothing
     DEF TInv, TypeOK, Control, LockControl, Memories!Work, Memories!Lookup, Memories!Insert,
         Memories!Commit, Memories!StorageError, Memories!Crash, Memories!Ends
<1> USE DEF Memories!Reply, Memories!TypeOK, Control, LockControl, Writing, FactControl,
            MemoryControl, PreferenceControl
<1>2. CASE Memories!Lookup(c)
  BY <1>1, <1>2 DEF Memories!Lookup
<1>3. CASE Memories!Insert(c)
  BY <1>1, <1>3 DEF Memories!Insert
<1>4. CASE Memories!Commit(c)
  BY <1>1, <1>4 DEF Memories!Commit
<1>5. CASE Memories!StorageError(c) \/ Memories!Crash(c)
  BY <1>1, <1>5 DEF Memories!StorageError, Memories!Crash, Memories!Ends
<1>6. QED
  BY <1>2, <1>3, <1>4, <1>5 DEF Memories!Work

-----------------------------------------------------------------------------
(* The steps of the preferences.                                           *)

LEMMA PreferenceSubmits ==
  ASSUME NEW c \in Client, Preferences!Submit(c)
  PROVE  \E r \in Preferences!Request, there \in {"begin", "look"} :
           /\ there = "look" <=> r.value = None
           /\ r.value # None => r.target = "candidate"
           /\ Preferences!Start(c, r, there)
<1>1. CASE Preferences!CreateCandidate(c)
  <2>1. PICK k \in PreferenceKey, v \in Value :
          Preferences!Start(c, [key |-> k, value |-> v, target |-> "candidate"], "begin")
    BY <1>1 DEF Preferences!CreateCandidate
  <2>2. [key |-> k, value |-> v, target |-> "candidate"] \in Preferences!Request /\ v # None
    BY NoneIsNothing DEF Preferences!Request, Preferences!PreferenceState
  <2>3. QED
    BY <2>1, <2>2
<1>2. CASE Preferences!TransitionPreference(c)
  <2>1. PICK k \in PreferenceKey, target \in Preferences!PreferenceState :
          Preferences!Start(c, [key |-> k, value |-> None, target |-> target], "look")
    BY <1>2 DEF Preferences!TransitionPreference
  <2>2. [key |-> k, value |-> None, target |-> target] \in Preferences!Request
    BY DEF Preferences!Request
  <2>3. QED
    BY <2>1, <2>2
<1>3. QED
  BY <1>1, <1>2 DEF Preferences!Submit

LEMMA PreferenceWorkTyped ==
  ASSUME TInv, NEW c \in Client, Preferences!Work(c)
  PROVE  Preferences!TypeOK'
<1>1. Preferences!TypeOK /\ PreferenceControl(c)
  BY DEF TInv, TypeOK, Control
<1>2. ppc[c] # "idle" => preq[c] \in Preferences!Request
  BY <1>1 DEF Preferences!TypeOK, PreferenceControl
<1>3. CASE Preferences!Look(c)
  <2>1. preq[c].key \in PreferenceKey
    BY <1>2, <1>3 DEF Preferences!Look, Preferences!Request
  <2>2. QED
    BY <1>1, <1>3, <2>1
       DEF Preferences!Look, Preferences!Reply, Preferences!GoTo, Preferences!TypeOK,
           Preferences!tables
<1>4. CASE Preferences!Write(c)
  <2> DEFINE row == prefs[preq[c].key]
  <2>1. /\ ppc[c] = "begin" /\ preq[c] \in Preferences!Request
        /\ row \in Preferences!Preference \cup {None}
    BY <1>1, <1>2, <1>4 DEF Preferences!Write, Preferences!Request, Preferences!TypeOK
  <2>2. CASE \E outcome \in {"rejected", "failed"} :
               Preferences!Reply(c, outcome) /\ UNCHANGED <<lock, prefStaged>>
    BY <1>1, <1>4, <2>2
       DEF Preferences!Write, Preferences!Reply, Preferences!TypeOK, Preferences!tables
  <2>3. CASE /\ Preferences!Accepted(c, row) /\ lock' = c
             /\ prefStaged' = [version |-> IF row = None THEN 1 ELSE row.version + 1,
                               value   |-> IF preq[c].value = None THEN row.value
                                           ELSE preq[c].value,
                               state   |-> preq[c].target]
             /\ Preferences!GoTo(c, "commit") /\ UNCHANGED pseen
    <3>1. preq[c].value = None => row \in Preferences!Preference
      BY <2>1, <2>3 DEF Preferences!Accepted
    <3>2. (IF row = None THEN 1 ELSE row.version + 1) \in Nat \ {0}
      BY <2>1 DEF Preferences!Preference
    <3>3. (IF preq[c].value = None THEN row.value ELSE preq[c].value) \in Value
      BY <2>1, <3>1 DEF Preferences!Preference, Preferences!Request
    <3>4. prefStaged' \in Preferences!Preference
      BY <2>1, <2>3, <3>2, <3>3 DEF Preferences!Preference, Preferences!Request
    <3>5. QED
      BY <1>1, <1>4, <2>3, <3>4
         DEF Preferences!Write, Preferences!GoTo, Preferences!TypeOK, Preferences!tables
  <2>4. QED
    BY <1>4, <2>2, <2>3 DEF Preferences!Write
<1>5. CASE Preferences!Commit(c)
  <2>1. preq[c].key \in PreferenceKey
    BY <1>2, <1>5 DEF Preferences!Commit, Preferences!Request
  <2>2. QED
    BY <1>1, <1>5, <2>1 DEF Preferences!Commit, Preferences!GoTo, Preferences!TypeOK
<1>6. CASE Preferences!ReadBack(c)
  BY <1>1, <1>6
     DEF Preferences!ReadBack, Preferences!Reply, Preferences!TypeOK, Preferences!tables
<1>7. CASE Preferences!StorageError(c) \/ Preferences!Crash(c)
  BY <1>1, <1>7
     DEF Preferences!StorageError, Preferences!Crash, Preferences!Ends, Preferences!Reply,
         Preferences!TypeOK, Preferences!tables
<1>8. QED
  BY <1>3, <1>4, <1>5, <1>6, <1>7 DEF Preferences!Work

LEMMA PreferenceWorkControl ==
  ASSUME TInv, NEW c \in Client, Preferences!Work(c),
         UNCHANGED <<fpc, freq, ftodo, mpc, mtext, manswer>>, NEW d \in Client
  PROVE  Control(d)'
<1>1. /\ Preferences!TypeOK /\ Control(c) /\ Control(d) /\ None \notin Client
      /\ ppc[c] # "idle" /\ fpc[c] = "idle" /\ mpc[c] = "idle"
  BY NoneIsNothing
     DEF TInv, TypeOK, Control, LockControl, Preferences!Work, Preferences!Look,
         Preferences!Write, Preferences!Commit, Preferences!ReadBack,
         Preferences!StorageError, Preferences!Crash, Preferences!Ends
<1> USE DEF Preferences!Reply, Preferences!GoTo, Preferences!TypeOK, Control, LockControl,
            Writing, FactControl, MemoryControl, PreferenceControl
<1>2. CASE Preferences!Look(c)
  <2>1. \/ ppc' = [ppc EXCEPT ![c] = "idle"] /\ preq' = [preq EXCEPT ![c] = None]
        \/ ppc' = [ppc EXCEPT ![c] = "begin"] /\ preq' = preq
    BY <1>2 DEF Preferences!Look
  <2>2. QED
    BY <1>1, <1>2, <2>1 DEF Preferences!Look
<1>3. CASE Preferences!Write(c)
  <2>1. \/ /\ ppc' = [ppc EXCEPT ![c] = "idle"] /\ preq' = [preq EXCEPT ![c] = None]
           /\ lock' = lock
        \/ ppc' = [ppc EXCEPT ![c] = "commit"] /\ preq' = preq /\ lock' = c
    BY <1>3 DEF Preferences!Write
  <2>2. QED
    BY <1>1, <1>3, <2>1 DEF Preferences!Write
<1>4. CASE Preferences!Commit(c)
  BY <1>1, <1>4 DEF Preferences!Commit
<1>5. CASE Preferences!ReadBack(c)
  BY <1>1, <1>5 DEF Preferences!ReadBack
<1>6. CASE Preferences!StorageError(c) \/ Preferences!Crash(c)
  BY <1>1, <1>6 DEF Preferences!StorageError, Preferences!Crash, Preferences!Ends
<1>7. QED
  BY <1>2, <1>3, <1>4, <1>5, <1>6 DEF Preferences!Work

-----------------------------------------------------------------------------
(* The steps of a process, taken together.                                 *)

(* A process between two commands holds no lock.                           *)
LEMMA FreeHoldsNothing ==
  ASSUME TInv, NEW c \in Client, Free(c)
  PROVE  lock # c
BY DEF TInv, Control, LockControl, Writing, Free

LEMMA FactStepTyped ==
  ASSUME TInv, NEW c \in Client, FactStep(c)
  PROVE  TInv'
<1>1. /\ Facts!TypeOK /\ Memories!TypeOK /\ Preferences!TypeOK /\ commands \in 0 .. MaxCommands
      /\ \A d \in Client : Control(d)
      /\ UNCHANGED <<events, mpc, prefs, prefHistory, prefStaged, ppc, preq, pseen>>
      /\ MaxCommands \in Nat
  BY StoresAssumption DEF TInv, TypeOK, FactStep
<1>2. CASE Facts!Work(c) /\ UNCHANGED <<manswer, mtext, panswer, commands>>
  <2>1. Facts!TypeOK' /\ \A d \in Client : Control(d)'
    BY <1>1, <1>2, FactWorkTypes, FactWorkControl
  <2>2. lock' \in Client \cup {None}
    BY <2>1 DEF Facts!TypeOK
  <2>3. QED
    BY <1>1, <1>2, <2>1, <2>2 DEF TInv, TypeOK, Memories!TypeOK, Preferences!TypeOK
<1>3. CASE /\ Free(c) /\ ForgetMemoryAnswer(c) /\ ForgetPreferenceAnswer(c)
           /\ (Another /\ Facts!Submit(c)) \/ (UNCHANGED commands /\ Facts!TurnAway(c))
  <2>1. commands' \in 0 .. MaxCommands
    BY <1>1, <1>3 DEF Another
  <2>2. /\ manswer' = [manswer EXCEPT ![c] = "none"] /\ mtext' = [mtext EXCEPT ![c] = None]
        /\ panswer' = [panswer EXCEPT ![c] = "none"]
        /\ fpc[c] = "idle" /\ mpc[c] = "idle" /\ ppc[c] = "idle"
    BY <1>3 DEF ForgetMemoryAnswer, ForgetPreferenceAnswer, Free
  <2>3. CASE Facts!TurnAway(c)
    <3>1. Facts!TypeOK' /\ lock' = lock /\ UNCHANGED <<fpc, freq, ftodo>>
      BY <1>1, <2>3 DEF Facts!TurnAway, Facts!TypeOK, Facts!tables
    <3>2. Memories!TypeOK' /\ Preferences!TypeOK'
      BY <1>1, <2>2, <3>1 DEF Memories!TypeOK, Preferences!TypeOK
    <3>3. ASSUME NEW d \in Client PROVE Control(d)'
      BY <1>1, <2>2, <3>1
         DEF Control, LockControl, Writing, FactControl, MemoryControl, PreferenceControl,
             Memories!TypeOK
    <3>4. QED
      BY <2>1, <3>1, <3>2, <3>3 DEF TInv, TypeOK
  <2>4. CASE Facts!Submit(c)
    <3>1. PICK r \in Facts!Request, there \in {"look", "begin", "compare"} :
            FactTaken(c, r, there) /\ Facts!Start(c, r, there)
      BY <2>4, FactSubmits
    <3>2. Facts!TypeOK' /\ lock' = lock
      BY <1>1, <3>1 DEF Facts!Start, Facts!TypeOK, Facts!tables
    <3>3. Memories!TypeOK' /\ Preferences!TypeOK'
      BY <1>1, <2>2, <3>2 DEF Memories!TypeOK, Preferences!TypeOK
    <3>4. /\ fpc' = [fpc EXCEPT ![c] = there] /\ freq' = [freq EXCEPT ![c] = r]
          /\ ftodo' = ftodo /\ r # None
      BY <3>1, NoneIsNothing DEF Facts!Start
    <3>5. ASSUME NEW d \in Client PROVE Control(d)'
      BY <1>1, <2>2, <3>1, <3>2, <3>4
         DEF Control, LockControl, Writing, FactControl, MemoryControl, PreferenceControl,
             Memories!TypeOK, Facts!TypeOK, FactTaken
    <3>6. QED
      BY <2>1, <3>2, <3>3, <3>5 DEF TInv, TypeOK
  <2>5. QED
    BY <1>3, <2>3, <2>4
<1>4. QED
  BY <1>2, <1>3 DEF FactStep

LEMMA MemoryStepTyped ==
  ASSUME TInv, NEW c \in Client, MemoryStep(c)
  PROVE  TInv'
<1>1. /\ Facts!TypeOK /\ Memories!TypeOK /\ Preferences!TypeOK /\ commands \in 0 .. MaxCommands
      /\ \A d \in Client : Control(d)
      /\ UNCHANGED <<facts, factHistory, factStaged, fpc, freq, ftodo, fbefore, fapt,
                     prefs, prefHistory, prefStaged, ppc, preq, pseen>>
      /\ MaxCommands \in Nat
  BY StoresAssumption DEF TInv, TypeOK, MemoryStep
<1>2. CASE Memories!Work(c) /\ UNCHANGED <<fanswer, panswer, commands>>
  <2>1. Memories!TypeOK' /\ \A d \in Client : Control(d)'
    BY <1>1, <1>2, MemoryWorkTyped, MemoryWorkControl
  <2>2. lock' \in Client \cup {None}
    BY <2>1 DEF Memories!TypeOK
  <2>3. QED
    BY <1>1, <1>2, <2>1, <2>2 DEF TInv, TypeOK, Facts!TypeOK, Preferences!TypeOK
<1>3. CASE /\ Free(c) /\ ForgetFactAnswer(c) /\ ForgetPreferenceAnswer(c)
           /\ (Another /\ Memories!Submit(c)) \/ (UNCHANGED commands /\ Memories!TurnAway(c))
  <2>1. commands' \in 0 .. MaxCommands
    BY <1>1, <1>3 DEF Another
  <2>2. /\ fanswer' = [fanswer EXCEPT ![c] = "none"] /\ panswer' = [panswer EXCEPT ![c] = "none"]
        /\ fpc[c] = "idle" /\ mpc[c] = "idle" /\ ppc[c] = "idle"
        /\ lock' = lock
    BY <1>3 DEF ForgetFactAnswer, ForgetPreferenceAnswer, Free, Memories!Submit,
                Memories!TurnAway
  <2>3. Memories!TypeOK'
    BY <1>1, <1>3 DEF Memories!Submit, Memories!TurnAway, Memories!TypeOK
  <2>4. Facts!TypeOK' /\ Preferences!TypeOK'
    BY <1>1, <2>2 DEF Facts!TypeOK, Preferences!TypeOK
  <2>5. \/ UNCHANGED mpc
        \/ /\ mpc' = [mpc EXCEPT ![c] = "lookup"] /\ manswer' = [manswer EXCEPT ![c] = "none"]
           /\ \E t \in Text : mtext' = [mtext EXCEPT ![c] = t]
    BY <1>3 DEF Memories!Submit, Memories!TurnAway
  <2>6. \A d \in Client \ {c} : mtext'[d] = mtext[d] /\ manswer'[d] = manswer[d]
    BY <1>1, <1>3 DEF Memories!Submit, Memories!TurnAway, Memories!TypeOK
  <2>7. ASSUME NEW d \in Client PROVE Control(d)'
    BY <1>1, <2>2, <2>5, <2>6, NoneIsNothing
       DEF Control, LockControl, Writing, FactControl, MemoryControl, PreferenceControl,
           Memories!TypeOK
  <2>8. QED
    BY <2>1, <2>3, <2>4, <2>7 DEF TInv, TypeOK
<1>4. QED
  BY <1>2, <1>3 DEF MemoryStep

LEMMA PreferenceStepTyped ==
  ASSUME TInv, NEW c \in Client, PreferenceStep(c)
  PROVE  TInv'
<1>1. /\ Facts!TypeOK /\ Memories!TypeOK /\ Preferences!TypeOK /\ commands \in 0 .. MaxCommands
      /\ \A d \in Client : Control(d)
      /\ UNCHANGED <<facts, factHistory, factStaged, fpc, freq, ftodo, fbefore, fapt, events, mpc>>
      /\ MaxCommands \in Nat
  BY StoresAssumption DEF TInv, TypeOK, PreferenceStep
<1>2. CASE Preferences!Work(c) /\ UNCHANGED <<fanswer, manswer, mtext, commands>>
  <2>1. Preferences!TypeOK' /\ \A d \in Client : Control(d)'
    BY <1>1, <1>2, PreferenceWorkTyped, PreferenceWorkControl
  <2>2. lock' \in Client \cup {None}
    BY <2>1 DEF Preferences!TypeOK
  <2>3. QED
    BY <1>1, <1>2, <2>1, <2>2 DEF TInv, TypeOK, Facts!TypeOK, Memories!TypeOK
<1>3. CASE /\ Free(c) /\ ForgetFactAnswer(c) /\ ForgetMemoryAnswer(c)
           /\ (Another /\ Preferences!Submit(c)) \/ (UNCHANGED commands /\ Preferences!TurnAway(c))
  <2>1. commands' \in 0 .. MaxCommands
    BY <1>1, <1>3 DEF Another
  <2>2. /\ fanswer' = [fanswer EXCEPT ![c] = "none"]
        /\ manswer' = [manswer EXCEPT ![c] = "none"] /\ mtext' = [mtext EXCEPT ![c] = None]
        /\ fpc[c] = "idle" /\ mpc[c] = "idle" /\ ppc[c] = "idle"
    BY <1>3 DEF ForgetFactAnswer, ForgetMemoryAnswer, Free
  <2>3. CASE Preferences!TurnAway(c)
    <3>1. Preferences!TypeOK' /\ lock' = lock /\ UNCHANGED <<ppc, preq>>
      BY <1>1, <2>3 DEF Preferences!TurnAway, Preferences!TypeOK, Preferences!tables
    <3>2. Facts!TypeOK' /\ Memories!TypeOK'
      BY <1>1, <2>2, <3>1 DEF Facts!TypeOK, Memories!TypeOK
    <3>3. ASSUME NEW d \in Client PROVE Control(d)'
      BY <1>1, <2>2, <3>1
         DEF Control, LockControl, Writing, FactControl, MemoryControl, PreferenceControl,
             Memories!TypeOK
    <3>4. QED
      BY <2>1, <3>1, <3>2, <3>3 DEF TInv, TypeOK
  <2>4. CASE Preferences!Submit(c)
    <3>1. PICK r \in Preferences!Request, there \in {"begin", "look"} :
            /\ there = "look" <=> r.value = None
            /\ r.value # None => r.target = "candidate"
            /\ Preferences!Start(c, r, there)
      BY <2>4, PreferenceSubmits
    <3>2. Preferences!TypeOK' /\ lock' = lock
      BY <1>1, <3>1 DEF Preferences!Start, Preferences!TypeOK, Preferences!tables
    <3>3. Facts!TypeOK' /\ Memories!TypeOK'
      BY <1>1, <2>2, <3>2 DEF Facts!TypeOK, Memories!TypeOK
    <3>4. /\ ppc' = [ppc EXCEPT ![c] = there] /\ preq' = [preq EXCEPT ![c] = r] /\ r # None
      BY <3>1, NoneIsNothing DEF Preferences!Start
    <3>5. ASSUME NEW d \in Client PROVE Control(d)'
      BY <1>1, <2>2, <3>1, <3>2, <3>4
         DEF Control, LockControl, Writing, FactControl, MemoryControl, PreferenceControl,
             Memories!TypeOK, Preferences!TypeOK
    <3>6. QED
      BY <2>1, <3>2, <3>3, <3>5 DEF TInv, TypeOK
  <2>5. QED
    BY <1>3, <2>3, <2>4
<1>4. QED
  BY <1>2, <1>3 DEF PreferenceStep

LEMMA InitTyped == Init => TInv
<1> SUFFICES ASSUME Init PROVE TInv
  OBVIOUS
<1>1. Facts!TypeOK
  BY DEF Init, Facts!Init, Facts!TypeOK, Facts!NothingStaged
<1>2. Memories!TypeOK
  BY DEF Init, Memories!Init, Memories!TypeOK
<1>3. Preferences!TypeOK
  BY DEF Init, Preferences!Init, Preferences!TypeOK
<1>4. commands \in 0 .. MaxCommands
  BY StoresAssumption DEF Init
<1>5. \A c \in Client : Control(c)
  BY NoneIsNothing
     DEF Init, Facts!Init, Memories!Init, Preferences!Init, Control, LockControl, Writing,
         FactControl, MemoryControl, PreferenceControl
<1>6. QED
  BY <1>1, <1>2, <1>3, <1>4, <1>5 DEF TInv, TypeOK

LEMMA NextTyped == TInv /\ [Next]_vars => TInv'
<1> SUFFICES ASSUME TInv, [Next]_vars PROVE TInv'
  OBVIOUS
<1>1. CASE UNCHANGED vars
  BY <1>1
     DEF vars, factVars, memoryVars, preferenceVars, TInv, TypeOK, Facts!TypeOK,
         Memories!TypeOK, Preferences!TypeOK, Control, LockControl, Writing, FactControl,
         MemoryControl, PreferenceControl
<1>2. QED
  BY <1>1, FactStepTyped, MemoryStepTyped, PreferenceStepTyped DEF Next

(* A process inside a write transaction of any store holds the one lock of *)
(* the file, whatever commands the processes run and however they fail.    *)
THEOREM LockDiscipline == Spec => []TInv
BY InitTyped, NextTyped, PTL DEF Spec

(* The types of the three stores and of the bound on commands.             *)
THEOREM TypeCorrect == Spec => []TypeOK
<1>1. TInv => TypeOK
  BY DEF TInv
<1>2. QED
  BY <1>1, LockDiscipline, PTL

-----------------------------------------------------------------------------
(* Memories: nothing told is lost, and the race for a duplicate is bounded.*)

(* The processes that looked for text t, found nothing and are not done.   *)
Racing(t) ==
  {c \in Client : mpc[c] \in {"insert", "commit"} /\ Fingerprint[mtext[c]] = Fingerprint[t]}

(* A process that races for a text and a stored copy of it are both paid   *)
(* for by one process: once a copy is stored, nobody joins the race.       *)
RaceInv ==
  \A t \in Text :
    Cardinality(Memories!Copies(t)) + Cardinality(Racing(t)) <= Cardinality(Client)

ToldInv(c) ==
  /\ manswer[c] = "accepted" => mtext[c] \in Memories!Stored
  /\ manswer[c] = "duplicate" => Memories!Known(mtext[c])

MInv == TInv /\ RaceInv /\ \A c \in Client : ToldInv(c)

LEMMA ClientsFinite == IsFiniteSet(Client)
BY StoresAssumption DEF Memories!MemoryAssumption, Memories!IsFiniteSet, IsFiniteSet

LEMMA SameCardinality == \A S : Memories!Cardinality(S) = Cardinality(S)
BY DEF Memories!Cardinality, Cardinality

LEMMA CopiesFinite ==
  ASSUME events \in Seq(Text), NEW t
  PROVE  IsFiniteSet(Memories!Copies(t))
<1>1. IsFiniteSet(1 .. Len(events))
  BY FS_Interval
<1>2. Memories!Copies(t) \subseteq 1 .. Len(events)
  BY DEF Memories!Copies
<1>3. QED
  BY <1>1, <1>2, FS_Subset

(* How one step of the system changes the memories and who races: nothing, *)
(* or a race joined, left, or ended with a copy stored.                    *)
JoinsRace(c) ==
  /\ UNCHANGED <<events, mtext>> /\ mpc[c] = "lookup"
  /\ ~Memories!Known(mtext[c])
  /\ mpc' = [mpc EXCEPT ![c] = "insert"]

StoresCopy(c) ==
  /\ mpc[c] = "commit"
  /\ events' = Append(events, mtext[c]) /\ mtext' = mtext
  /\ mpc' = [mpc EXCEPT ![c] = "idle"]
  /\ manswer' = [manswer EXCEPT ![c] = "accepted"]

NoneJoins ==
  /\ events' = events
  /\ \A d \in Client :
       mpc'[d] \in {"insert", "commit"} => mpc[d] \in {"insert", "commit"} /\ mtext'[d] = mtext[d]

LEMMA MemoryEffect ==
  ASSUME TInv, [Next]_vars
  PROVE  NoneJoins \/ \E c \in Client : JoinsRace(c) \/ StoresCopy(c)
<1>1. Memories!TypeOK
  BY DEF TInv, TypeOK
<1>2. ASSUME NEW c \in Client, FactStep(c) \/ PreferenceStep(c) PROVE NoneJoins
  <2>1. UNCHANGED <<events, mpc>>
    BY <1>2 DEF FactStep, PreferenceStep
  <2>2. UNCHANGED mtext \/ (mpc[c] = "idle" /\ mtext' = [mtext EXCEPT ![c] = None])
    BY <1>2 DEF FactStep, PreferenceStep, Free, ForgetMemoryAnswer
  <2>3. QED
    BY <1>1, <2>1, <2>2 DEF NoneJoins, Memories!TypeOK
<1>3. ASSUME NEW c \in Client, MemoryStep(c)
      PROVE  NoneJoins \/ JoinsRace(c) \/ StoresCopy(c)
  <2>1. CASE Memories!Submit(c) \/ Memories!TurnAway(c)
    BY <1>1, <2>1 DEF Memories!Submit, Memories!TurnAway, Memories!TypeOK, NoneJoins
  <2>2. CASE Memories!Lookup(c)
    BY <1>1, <2>2 DEF Memories!Lookup, Memories!Reply, Memories!TypeOK, NoneJoins, JoinsRace
  <2>3. CASE Memories!Insert(c)
    BY <1>1, <2>3 DEF Memories!Insert, Memories!TypeOK, NoneJoins
  <2>4. CASE Memories!Commit(c)
    BY <2>4 DEF Memories!Commit, Memories!Reply, StoresCopy
  <2>5. CASE Memories!StorageError(c) \/ Memories!Crash(c)
    BY <1>1, <2>5
       DEF Memories!StorageError, Memories!Crash, Memories!Ends, Memories!Reply,
           Memories!TypeOK, NoneJoins
  <2>6. QED
    BY <1>3, <2>1, <2>2, <2>3, <2>4, <2>5 DEF MemoryStep, Memories!Work
<1>4. CASE UNCHANGED vars
  BY <1>4 DEF vars, memoryVars, NoneJoins
<1>5. QED
  BY <1>2, <1>3, <1>4 DEF Next

LEMMA RaceBounded ==
  ASSUME TInv, RaceInv, [Next]_vars, NEW t \in Text
  PROVE  (Cardinality(Memories!Copies(t)) + Cardinality(Racing(t)) <= Cardinality(Client))'
<1> DEFINE copies == Memories!Copies(t)
           racing == Racing(t)
<1>1. /\ Memories!TypeOK /\ Memories!TypeOK'
      /\ events \in Seq(Text) /\ events' \in Seq(Text)
  BY NextTyped DEF TInv, TypeOK, Memories!TypeOK
<1>2. /\ IsFiniteSet(Client) /\ IsFiniteSet(copies) /\ IsFiniteSet(racing)
      /\ racing \subseteq Client /\ racing' \subseteq Client
  <2>1. racing \subseteq Client /\ racing' \subseteq Client
    BY DEF Racing
  <2>2. QED
    BY <1>1, <2>1, ClientsFinite, CopiesFinite, FS_Subset
<1>3. /\ Cardinality(copies) \in Nat /\ Cardinality(racing) \in Nat
      /\ Cardinality(Client) \in Nat
      /\ Cardinality(copies) + Cardinality(racing) <= Cardinality(Client)
  BY <1>2, FS_CardinalityType DEF RaceInv
<1>4. CASE NoneJoins
  <2>1. copies' = copies
    BY <1>4 DEF NoneJoins, Memories!Copies
  <2>2. racing' \subseteq racing
    BY <1>4 DEF NoneJoins, Racing
  <2>3. Cardinality(racing') <= Cardinality(racing) /\ Cardinality(racing') \in Nat
    BY <1>2, <2>2, FS_Subset, FS_CardinalityType
  <2>4. QED
    BY <1>3, <2>1, <2>3
<1>5. ASSUME NEW c \in Client, JoinsRace(c)
      PROVE  Cardinality(copies') + Cardinality(racing') <= Cardinality(Client)
  <2>1. copies' = copies
    BY <1>5 DEF JoinsRace, Memories!Copies
  <2>2. CASE Fingerprint[mtext[c]] = Fingerprint[t]
    <3>1. copies = {}
      BY <1>5, <2>2 DEF JoinsRace, Memories!Known, Memories!Stored, Memories!Copies
    <3>2. Cardinality(copies') = 0
      BY <2>1, <3>1, FS_EmptySet
    <3>3. Cardinality(racing') <= Cardinality(Client) /\ Cardinality(racing') \in Nat
      BY <1>2, FS_Subset, FS_CardinalityType
    <3>4. QED
      BY <3>2, <3>3
  <2>3. CASE Fingerprint[mtext[c]] # Fingerprint[t]
    <3>1. racing' = racing
      BY <1>1, <1>5, <2>3 DEF JoinsRace, Racing, Memories!TypeOK
    <3>2. QED
      BY <1>3, <2>1, <3>1
  <2>4. QED
    BY <2>2, <2>3
<1>6. ASSUME NEW c \in Client, StoresCopy(c)
      PROVE  Cardinality(copies') + Cardinality(racing') <= Cardinality(Client)
  <2>1. /\ mtext[c] \in Text /\ mpc[c] = "commit"
        /\ Len(events) \in Nat /\ DOMAIN events = 1 .. Len(events)
        /\ DOMAIN events' = 1 .. Len(events) + 1
        /\ events'[Len(events) + 1] = mtext[c]
        /\ \A i \in 1 .. Len(events) : events'[i] = events[i]
    <3>1. mtext[c] \in Text /\ mpc[c] = "commit"
      BY <1>1, <1>6 DEF StoresCopy, TInv, Control, MemoryControl, Memories!TypeOK
    <3>2. QED
      BY <1>1, <1>6, <3>1 DEF StoresCopy
  <2>2. CASE Fingerprint[mtext[c]] = Fingerprint[t]
    <3>1. copies' = copies \cup {Len(events) + 1} /\ Len(events) + 1 \notin copies
      BY <2>1, <2>2 DEF Memories!Copies
    <3>2. racing' = racing \ {c} /\ c \in racing
      BY <1>1, <1>6, <2>1, <2>2 DEF StoresCopy, Racing, Memories!TypeOK
    <3>3. Cardinality(copies') = Cardinality(copies) + 1
      BY <1>2, <3>1, FS_AddElement
    <3>4. Cardinality(racing') = Cardinality(racing) - 1
      BY <1>2, <3>2, FS_RemoveElement
    <3>5. QED
      BY <1>3, <3>3, <3>4
  <2>3. CASE Fingerprint[mtext[c]] # Fingerprint[t]
    <3>1. copies' = copies
      BY <2>1, <2>3 DEF Memories!Copies
    <3>2. racing' = racing
      BY <1>1, <1>6, <2>3 DEF StoresCopy, Racing, Memories!TypeOK
    <3>3. QED
      BY <1>3, <3>1, <3>2
  <2>4. QED
    BY <2>2, <2>3
<1>7. QED
  BY <1>4, <1>5, <1>6, MemoryEffect

(* An answer about a memory stays true while it stands: memories are only  *)
(* appended, and the next command of the same process forgets the answer.  *)
LEMMA ToldStaysTrue ==
  ASSUME TInv, [Next]_vars, NEW d \in Client, ToldInv(d)
  PROVE  ToldInv(d)'
<1>1. Memories!TypeOK /\ events \in Seq(Text) /\ MemoryControl(d)
  BY DEF TInv, TypeOK, Memories!TypeOK, Control
<1>2. Memories!Stored \subseteq Memories!Stored'
  <2>1. CASE events' = events
    BY <2>1 DEF Memories!Stored
  <2>2. ASSUME NEW c \in Client, StoresCopy(c)
        PROVE  Memories!Stored \subseteq Memories!Stored'
    <3>1. mtext[c] \in Text
      BY <1>1, <2>2 DEF StoresCopy, TInv, Control, MemoryControl, Memories!TypeOK
    <3>2. QED
      BY <1>1, <2>2, <3>1 DEF StoresCopy, Memories!Stored
  <2>3. QED
    BY <2>1, <2>2, MemoryEffect DEF NoneJoins, JoinsRace
<1>3. CASE manswer'[d] = manswer[d] /\ mtext'[d] = mtext[d]
  BY <1>2, <1>3 DEF ToldInv, Memories!Known
<1>4. CASE manswer'[d] \notin {"accepted", "duplicate"}
  BY <1>4 DEF ToldInv
<1>5. ASSUME NEW c \in Client, FactStep(c) \/ PreferenceStep(c)
      PROVE  ToldInv(d)'
  <2>1. \/ UNCHANGED <<manswer, mtext>>
        \/ /\ manswer' = [manswer EXCEPT ![c] = "none"]
           /\ mtext' = [mtext EXCEPT ![c] = None]
    BY <1>5 DEF FactStep, PreferenceStep, ForgetMemoryAnswer
  <2>2. QED
    BY <1>1, <1>3, <1>4, <2>1 DEF Memories!TypeOK
<1>6. ASSUME NEW c \in Client, MemoryStep(c)
      PROVE  ToldInv(d)'
  <2>1. CASE d # c
    BY <1>1, <1>3, <1>6, <2>1
       DEF MemoryStep, Memories!Submit, Memories!TurnAway, Memories!Work, Memories!Lookup,
           Memories!Insert, Memories!Commit, Memories!StorageError, Memories!Crash,
           Memories!Ends, Memories!Reply, Memories!TypeOK
  <2>2. CASE d = c /\ Memories!Lookup(c)
    BY <1>1, <1>3, <2>2
       DEF Memories!Lookup, Memories!Reply, Memories!TypeOK, ToldInv, Memories!Known,
           Memories!Stored
  <2>3. CASE d = c /\ Memories!Commit(c)
    <3>1. manswer'[d] = "accepted" /\ mtext'[d] = mtext[d] /\ mtext[d] \in Text
          /\ events' = Append(events, mtext[d])
      BY <1>1, <2>3 DEF Memories!Commit, Memories!Reply, Memories!TypeOK, MemoryControl
    <3>2. mtext[d] \in Memories!Stored'
      <4>1. Len(events) + 1 \in DOMAIN events' /\ events'[Len(events) + 1] = mtext[d]
        BY <1>1, <3>1
      <4>2. QED
        BY <4>1 DEF Memories!Stored
    <3>3. QED
      BY <3>1, <3>2 DEF ToldInv
  <2>4. CASE /\ d = c
             /\ \/ Memories!Submit(c) \/ Memories!TurnAway(c) \/ Memories!Insert(c)
                \/ Memories!StorageError(c) \/ Memories!Crash(c)
    BY <1>1, <1>4, <2>4
       DEF Memories!Submit, Memories!TurnAway, Memories!Insert, Memories!StorageError,
           Memories!Crash, Memories!Ends, Memories!Reply, Memories!TypeOK, MemoryControl
  <2>5. QED
    BY <1>6, <2>1, <2>2, <2>3, <2>4 DEF MemoryStep, Memories!Work
<1>7. CASE UNCHANGED vars
  BY <1>3, <1>7 DEF vars, memoryVars
<1>8. QED
  BY <1>5, <1>6, <1>7 DEF Next

LEMMA MemoriesHold == Spec => []MInv
<1>1. Init => MInv
  <2> SUFFICES ASSUME Init PROVE MInv
    OBVIOUS
  <2>1. \A t : Memories!Copies(t) = {} /\ Racing(t) = {}
    BY DEF Init, Memories!Init, Memories!Copies, Racing
  <2>2. Cardinality(Client) \in Nat
    BY ClientsFinite, FS_CardinalityType
  <2>3. RaceInv
    BY <2>1, <2>2, FS_EmptySet DEF RaceInv
  <2>4. QED
    BY <2>3, InitTyped DEF MInv, ToldInv, Init, Memories!Init
<1>2. MInv /\ [Next]_vars => MInv'
  <2> SUFFICES ASSUME MInv, [Next]_vars PROVE MInv'
    OBVIOUS
  <2>1. TInv'
    BY NextTyped DEF MInv
  <2>2. RaceInv'
    BY RaceBounded DEF MInv, RaceInv
  <2>3. \A c \in Client : ToldInv(c)'
    BY ToldStaysTrue DEF MInv
  <2>4. QED
    BY <2>1, <2>2, <2>3 DEF MInv
<1>3. QED
  BY <1>1, <1>2, PTL DEF Spec

(* However many processes ask for the same memory at once, it is stored at *)
(* most once for each of them: the lookup ends the race for all who come   *)
(* after the first commit, though it holds no lock.                        *)
THEOREM DuplicatesAreBounded == Spec => []DuplicatesBounded
<1>1. MInv => DuplicatesBounded
  <2> SUFFICES ASSUME MInv, NEW t \in Text
               PROVE  Cardinality(Memories!Copies(t)) <= Cardinality(Client)
    BY SameCardinality DEF DuplicatesBounded, Memories!DuplicatesBounded
  <2>1. IsFiniteSet(Racing(t)) /\ IsFiniteSet(Memories!Copies(t))
    BY ClientsFinite, FS_Subset, CopiesFinite
       DEF Racing, MInv, TInv, TypeOK, Memories!TypeOK
  <2>2. Cardinality(Racing(t)) \in Nat /\ Cardinality(Memories!Copies(t)) \in Nat
        /\ Cardinality(Client) \in Nat
    BY <2>1, ClientsFinite, FS_CardinalityType
  <2>3. QED
    BY <2>2 DEF MInv, RaceInv
<1>2. QED
  BY <1>1, MemoriesHold, PTL

(* A user who was told that a memory is saved, or that it was there        *)
(* already, was told something that no later command undoes.               *)
THEOREM ToldMemoriesAreKept == Spec => []ToldMemoriesKept
<1>1. MInv => ToldMemoriesKept
  BY DEF MInv, ToldInv, ToldMemoriesKept, Memories!ToldMemoriesKept
<1>2. QED
  BY <1>1, MemoriesHold, PTL
=============================================================================
