-------------------------- MODULE UserLedgersProofs --------------------------
(***************************************************************************)
(* Proofs about the versioned stores of UserStores, facts and preferences. *)
(* Each implements RecordLedger.  What a fact transaction has staged is    *)
(* computed from rows that the lock keeps as they are until its commit; a  *)
(* preference's transition is checked on a row read before the lock, and   *)
(* the argument is about what may have become of that row since.           *)
(***************************************************************************)
EXTENDS UserStoresProofs

(* What the open transaction of a fact command has staged, and what a      *)
(* proposal knows after its first read.                                    *)
RetiredRow(row) == [version |-> row.version + 1, value |-> row.value, state |-> "retired"]

FactTx(c) ==
  /\ fpc[c] = "history" => fapt[c] \cap {"new", "reactivation"} # {}
  /\ fpc[c] \in {"write", "commit"} /\ freq[c].kind # "retire" =>
       /\ fpc[c] = "commit" => ftodo[c] = {}
       /\ \A k \in FactKey :
            factStaged[k] = IF k \in DOMAIN freq[c].batch \ ftodo[c]
                            THEN Facts!Assigned(k, freq[c].batch[k]) ELSE None
  /\ fpc[c] = "write" /\ freq[c].kind = "retire" => factStaged = Facts!NothingStaged
  /\ fpc[c] = "commit" /\ freq[c].kind = "retire" =>
       /\ facts[freq[c].key] # None /\ facts[freq[c].key].state = "active"
       /\ \A k \in FactKey :
            factStaged[k] = IF k = freq[c].key THEN RetiredRow(facts[k]) ELSE None

FactsQuiet ==
  (\A c \in Client : fpc[c] \notin {"write", "commit"}) => factStaged = Facts!NothingStaged

FInv == TInv /\ FactsQuiet /\ \A c \in Client : FactTx(c)

-----------------------------------------------------------------------------

(* _set_fact writes unless the fact says just that already, and what it    *)
(* writes is an active fact of that value.                                 *)
LEMMA AssignedShape ==
  ASSUME Facts!TypeOK, NEW k \in FactKey, NEW v \in Value
  PROVE  /\ Facts!Assigned(k, v) = None <=> Facts!Visible(facts[k]) = v
         /\ Facts!Assigned(k, v) # None =>
              /\ Facts!Assigned(k, v) \in Facts!Fact
              /\ Facts!Assigned(k, v).value = v /\ Facts!Assigned(k, v).state = "active"
              /\ Facts!Assigned(k, v).version = IF facts[k] = None THEN 1
                                                ELSE facts[k].version + 1
<1>1. facts[k] \in Facts!Fact \cup {None}
  BY DEF Facts!TypeOK
<1>2. /\ [version |-> 1, value |-> v, state |-> "active"] \in Facts!Fact
      /\ facts[k] # None =>
           [version |-> facts[k].version + 1, value |-> v, state |-> "active"] \in Facts!Fact
  BY <1>1 DEF Facts!Fact, Facts!FactState
<1>3. Facts!Assigned(k, v) = None <=> Facts!Visible(facts[k]) = v
  BY <1>1, <1>2, NoneIsNothing
     DEF Facts!Assigned, Facts!Visible, Facts!Fact, Facts!FactState
<1>4. QED
  BY <1>1, <1>2, <1>3 DEF Facts!Assigned

(* Only the holder of the lock touches the staged rows and the tables.     *)
LEMMA FactReadersChangeNothing ==
  ASSUME TInv, NEW c \in Client, Facts!Work(c), lock # c
  PROVE  /\ UNCHANGED <<facts, factHistory, factStaged>>
         /\ fpc[c] \notin {"write", "commit"}
<1>1. fpc[c] \notin {"write", "commit"}
  BY DEF TInv, Control, LockControl, Writing
<1>2. QED
  BY <1>1 DEF Facts!Work, Facts!Look, Facts!Compare, Facts!LookBack, Facts!Begin,
              Facts!SetFact, Facts!Retire, Facts!Commit, Facts!StorageError, Facts!Crash,
              Facts!Rollback, Facts!tables

(* A step of one client leaves the control of every other; labels that     *)
(* were true of a proposal are only added to.                              *)
LEMMA FactOthersLeft ==
  ASSUME TInv, NEW c \in Client, Facts!Work(c), NEW d \in Client \ {c}
  PROVE  /\ fpc'[d] = fpc[d] /\ freq'[d] = freq[d] /\ ftodo'[d] = ftodo[d]
         /\ fapt[d] \subseteq fapt'[d]
<1>1. Facts!TypeOK
  BY DEF TInv, TypeOK
<1>2. fpc'[d] = fpc[d] /\ freq'[d] = freq[d] /\ ftodo'[d] = ftodo[d]
  BY <1>1, FactWorkShape
     DEF FactEnds, FactLooked, FactBegun, FactWritten, Facts!TypeOK
<1>3. fapt[d] \subseteq fapt'[d]
  <2>1. CASE Facts!Commit(c)
    BY <1>1, <2>1 DEF Facts!Commit, Facts!TypeOK
  <2>2. CASE ~Facts!Commit(c)
    <3>1. fapt' = fapt \/ \E labels : fapt' = [fapt EXCEPT ![c] = labels]
      BY <2>2 DEF Facts!Work, Facts!Look, Facts!Compare, Facts!LookBack, Facts!Begin,
                  Facts!SetFact, Facts!Retire, Facts!StorageError, Facts!Crash, Facts!Reply
    <3>2. QED
      BY <1>1, <3>1 DEF Facts!TypeOK
  <2>3. QED
    BY <2>1, <2>2
<1>4. QED
  BY <1>2, <1>3

LEMMA FactTxOfOthers ==
  ASSUME FInv, NEW c \in Client, Facts!Work(c), NEW d \in Client \ {c}
  PROVE  FactTx(d)'
<1>1. /\ fpc'[d] = fpc[d] /\ freq'[d] = freq[d] /\ ftodo'[d] = ftodo[d]
      /\ fapt[d] \subseteq fapt'[d]
      /\ FactTx(d)
  BY FactOthersLeft DEF FInv
<1>2. CASE fpc[d] \in {"write", "commit"}
  <2>1. lock # c
    BY <1>2 DEF FInv, TInv, Control, LockControl, Writing
  <2>2. UNCHANGED <<facts, factStaged>>
    BY <2>1, FactReadersChangeNothing DEF FInv
  <2>3. QED
    BY <1>1, <1>2, <2>2 DEF FactTx, Facts!Assigned, Facts!NothingStaged, RetiredRow
<1>3. CASE fpc[d] \notin {"write", "commit"}
  BY <1>1, <1>3 DEF FactTx
<1>4. QED
  BY <1>2, <1>3

LEMMA FactTxOwn ==
  ASSUME FInv, NEW c \in Client, Facts!Work(c)
  PROVE  FactTx(c)'
<1>1. Facts!TypeOK /\ FactTx(c) /\ FactControl(c)
  BY DEF FInv, TInv, TypeOK, Control
<1>2. CASE fpc'[c] \in {"idle", "begin"}
  BY <1>2 DEF FactTx
<1>3. CASE FactEnds(c)
  BY <1>1, <1>2, <1>3 DEF FactEnds, Facts!TypeOK
<1>4. CASE Facts!Look(c)
  BY <1>1, <1>2, <1>4 DEF Facts!Look, Facts!TypeOK
<1>5. CASE Facts!Compare(c) /\ ~FactEnds(c)
  <2>1. PICK k \in DOMAIN freq[c].batch :
          /\ Facts!Visible(facts[k]) = None
          /\ fpc' = [fpc EXCEPT ![c] = "history"]
          /\ fapt' = [fapt EXCEPT ![c] = {Facts!Apt(facts[k], freq[c].batch[k])}]
    <3>1. fpc[c] = "compare" /\ lock' = lock /\ lock # c
      BY <1>5 DEF Facts!Compare, FInv, TInv, Control, LockControl, Writing
    <3>2. \A label : ~Facts!Reply(c, label)
      BY <1>5, <3>1 DEF Facts!Reply, Facts!Answered, FactEnds
    <3>3. QED
      BY <1>5, <3>2 DEF Facts!Compare
  <2>2. freq[c] \in Facts!Request /\ freq[c].kind # "retire"
    BY <1>1, <1>5 DEF Facts!Compare, FactControl, Facts!TypeOK
  <2>3. k \in FactKey
    BY <2>2, RequestShape, BatchShape
  <2>4. Facts!Apt(facts[k], freq[c].batch[k]) \in {"new", "reactivation"}
    BY <1>1, <2>1, <2>3, NoneIsNothing
       DEF Facts!Apt, Facts!Visible, Facts!TypeOK, Facts!Fact
  <2>5. fpc'[c] = "history" /\ fapt'[c] = {Facts!Apt(facts[k], freq[c].batch[k])}
    BY <1>1, <2>1 DEF Facts!TypeOK
  <2>6. QED
    BY <2>4, <2>5 DEF FactTx
<1>6. CASE Facts!Begin(c)
  <2>1. /\ lock = None /\ UNCHANGED <<factStaged, freq>> /\ fpc'[c] = "write"
        /\ ftodo'[c] = IF freq[c].kind = "retire" THEN {freq[c].key} ELSE DOMAIN freq[c].batch
    BY <1>1, <1>6 DEF Facts!Begin, Facts!TypeOK
  <2>2. factStaged = Facts!NothingStaged
    BY <2>1, NoneIsNothing DEF FInv, FactsQuiet, TInv, Control, LockControl, Writing
  <2>3. QED
    BY <2>1, <2>2 DEF FactTx, Facts!NothingStaged
<1>7. CASE Facts!SetFact(c) /\ ~FactEnds(c)
  <2>1. fpc[c] = "write" /\ freq[c].kind # "retire" /\ UNCHANGED <<facts, factHistory>>
    BY <1>7 DEF Facts!SetFact, Facts!tables
  <2>2. PICK k \in ftodo[c] :
          /\ factStaged' = [factStaged EXCEPT ![k] = Facts!Assigned(k, freq[c].batch[k])]
          /\ ftodo' = [ftodo EXCEPT ![c] = @ \ {k}]
          /\ fpc' = [fpc EXCEPT ![c] = IF ftodo[c] = {k} THEN "commit" ELSE "write"]
          /\ freq' = freq
    <3>1. ~(Facts!Rollback(c) /\ Facts!Reply(c, "failed"))
      BY <1>7 DEF Facts!Reply, Facts!Answered, Facts!Rollback, FactEnds
    <3>2. QED
      BY <1>7, <3>1 DEF Facts!SetFact
  <2>3. k \in FactKey /\ k \in DOMAIN freq[c].batch
    BY <1>1, <2>1 DEF FactControl, Facts!TypeOK
  <2>4. /\ freq'[c] = freq[c] /\ ftodo'[c] = ftodo[c] \ {k}
        /\ fpc'[c] = "commit" => ftodo'[c] = {}
        /\ fpc'[c] \in {"write", "commit"}
    BY <1>1, <2>2 DEF Facts!TypeOK
  <2>5. ASSUME NEW j \in FactKey
        PROVE  (factStaged[j] = IF j \in DOMAIN freq[c].batch \ ftodo[c]
                                THEN Facts!Assigned(j, freq[c].batch[j]) ELSE None)'
    <3>1. Facts!Assigned(j, freq[c].batch[j])' = Facts!Assigned(j, freq[c].batch[j])
      BY <2>1, <2>4 DEF Facts!Assigned
    <3>2. CASE j = k
      BY <1>1, <2>2, <2>3, <2>4, <3>1, <3>2 DEF Facts!TypeOK
    <3>3. CASE j # k
      BY <1>1, <2>1, <2>2, <2>3, <2>4, <3>1, <3>3 DEF Facts!TypeOK, FactTx
    <3>4. QED
      BY <3>2, <3>3
  <2>6. QED
    BY <2>1, <2>4, <2>5 DEF FactTx
<1>8. CASE Facts!Retire(c) /\ ~FactEnds(c)
  <2>1. fpc[c] = "write" /\ freq[c].kind = "retire" /\ UNCHANGED <<facts, factHistory>>
    BY <1>8 DEF Facts!Retire, Facts!tables
  <2>2. \A outcome : ~(Facts!Rollback(c) /\ Facts!Reply(c, outcome))
    BY <1>8 DEF Facts!Reply, Facts!Answered, Facts!Rollback, FactEnds
  <2>3. /\ facts[freq[c].key] # None /\ facts[freq[c].key].state = "active"
        /\ factStaged' = [factStaged EXCEPT ![freq[c].key] = RetiredRow(facts[freq[c].key])]
        /\ fpc' = [fpc EXCEPT ![c] = "commit"] /\ freq' = freq
    BY <1>8, <2>2 DEF Facts!Retire, RetiredRow
  <2>4. factStaged = Facts!NothingStaged /\ freq[c].key \in FactKey
    BY <1>1, <2>1, RequestShape DEF FactTx, FactControl, Facts!TypeOK
  <2>5. QED
    BY <1>1, <2>1, <2>3, <2>4 DEF FactTx, RetiredRow, Facts!NothingStaged, Facts!TypeOK
<1>9. Facts!LookBack(c) \/ Facts!Commit(c) \/ Facts!StorageError(c) \/ Facts!Crash(c)
        => fpc'[c] = "idle"
  BY <1>1 DEF Facts!LookBack, Facts!Commit, Facts!StorageError, Facts!Crash, Facts!Reply,
              Facts!Answered, Facts!TypeOK
<1>10. QED
  BY <1>2, <1>3, <1>4, <1>5, <1>6, <1>7, <1>8, <1>9 DEF Facts!Work

LEMMA FactsQuietKept ==
  ASSUME FInv, NEW c \in Client, Facts!Work(c)
  PROVE  FactsQuiet'
<1>1. Facts!TypeOK /\ \A d \in Client : Control(d)
  BY DEF FInv, TInv, TypeOK
<1>2. SUFFICES ASSUME \A d \in Client : fpc'[d] \notin {"write", "commit"}
               PROVE  factStaged' = Facts!NothingStaged
  BY DEF FactsQuiet, Facts!NothingStaged
<1>3. CASE lock = c
  <2>1. FactEnds(c)
    BY <1>1, <1>2, <1>3, FactWorkShape, NoneIsNothing
       DEF FInv, FactLooked, FactBegun, FactWritten, Facts!TypeOK, Control, LockControl, Writing
  <2>2. fpc[c] \in {"write", "commit"} /\ lock' = None
    BY <1>1, <1>3, <2>1, FactWorkShape DEF FInv, FactEnds, Control, LockControl, Writing
  <2>3. CASE Facts!SetFact(c)
    <3>1. \/ Facts!Rollback(c)
          \/ lock' = lock
      BY <2>3 DEF Facts!SetFact
    <3>2. QED
      BY <1>3, <2>2, <3>1, NoneIsNothing DEF Facts!Rollback
  <2>4. CASE Facts!Retire(c)
    <3>1. \/ Facts!Rollback(c)
          \/ lock' = lock
      BY <2>4 DEF Facts!Retire
    <3>2. QED
      BY <1>3, <2>2, <3>1, NoneIsNothing DEF Facts!Rollback
  <2>5. QED
    BY <1>3, <2>2, <2>3, <2>4
       DEF Facts!Work, Facts!Look, Facts!Compare, Facts!LookBack, Facts!Begin, Facts!Commit,
           Facts!StorageError, Facts!Crash, Facts!Rollback
<1>4. CASE lock # c
  <2>1. factStaged' = factStaged /\ fpc[c] \notin {"write", "commit"}
    BY <1>4, FactReadersChangeNothing DEF FInv
  <2>2. \A d \in Client : fpc[d] \notin {"write", "commit"}
    BY <1>2, <2>1, FactOthersLeft DEF FInv
  <2>3. QED
    BY <2>1, <2>2 DEF FInv, FactsQuiet
<1>5. QED
  BY <1>3, <1>4

(* The commands of the other stores, and the taking up of a command, leave *)
(* what transactions have established.                                     *)
LEMMA FactsUntouched ==
  ASSUME FInv, UNCHANGED <<facts, factStaged, fapt>>, NEW c \in Client,
         \/ UNCHANGED <<fpc, freq, ftodo>>
         \/ /\ fpc[c] = "idle"
            /\ \E r, there : /\ fpc' = [fpc EXCEPT ![c] = there]
                             /\ freq' = [freq EXCEPT ![c] = r]
                             /\ there \in {"look", "begin", "compare"}
            /\ ftodo' = ftodo
  PROVE  FactsQuiet' /\ \A d \in Client : FactTx(d)'
<1>1. Facts!TypeOK /\ FactsQuiet
  BY DEF FInv, TInv, TypeOK
<1>2. ASSUME NEW d \in Client PROVE FactTx(d)'
  <2>1. FactTx(d)
    BY DEF FInv
  <2>2. CASE UNCHANGED <<fpc, freq, ftodo>> \/ d # c
    <3>1. fpc'[d] = fpc[d] /\ freq'[d] = freq[d] /\ ftodo'[d] = ftodo[d]
      BY <1>1, <2>2 DEF Facts!TypeOK
    <3>2. QED
      BY <2>1, <3>1 DEF FactTx, Facts!Assigned, Facts!NothingStaged, RetiredRow
  <2>3. CASE d = c /\ fpc'[c] \in {"look", "begin", "compare"}
    BY <2>3 DEF FactTx
  <2>4. QED
    BY <1>1, <2>2, <2>3 DEF Facts!TypeOK
<1>3. FactsQuiet'
  BY <1>1 DEF FactsQuiet, Facts!NothingStaged, Facts!TypeOK
<1>4. QED
  BY <1>2, <1>3

LEMMA FactsPreserved == FInv /\ [Next]_vars => FInv'
<1> SUFFICES ASSUME FInv, [Next]_vars PROVE FInv'
  OBVIOUS
<1>1. TInv'
  BY NextTyped DEF FInv
<1>2. ASSUME NEW c \in Client, Facts!Work(c)
      PROVE  FactsQuiet' /\ \A d \in Client : FactTx(d)'
  <2>1. \A d \in Client : d = c \/ d \in Client \ {c}
    OBVIOUS
  <2>2. QED
    BY <1>2, <2>1, FactsQuietKept, FactTxOwn, FactTxOfOthers
<1>3. ASSUME NEW c \in Client, FactStep(c)
      PROVE  FactsQuiet' /\ \A d \in Client : FactTx(d)'
  <2>1. CASE Facts!TurnAway(c)
    BY <2>1, FactsUntouched DEF Facts!TurnAway, Facts!tables
  <2>2. CASE Facts!Submit(c)
    <3>1. PICK r \in Facts!Request, there \in {"look", "begin", "compare"} :
            Facts!Start(c, r, there)
      BY <2>2, FactSubmits
    <3>2. QED
      BY <3>1, FactsUntouched DEF Facts!Start, Facts!tables
  <2>3. QED
    BY <1>2, <1>3, <2>1, <2>2 DEF FactStep
<1>4. ASSUME NEW c \in Client, MemoryStep(c) \/ PreferenceStep(c)
      PROVE  FactsQuiet' /\ \A d \in Client : FactTx(d)'
  BY <1>4, FactsUntouched DEF MemoryStep, PreferenceStep
<1>5. CASE UNCHANGED vars
  <2>1. UNCHANGED <<facts, factStaged, fapt, fpc, freq, ftodo>>
    BY <1>5 DEF vars, factVars
  <2>2. FactsQuiet' /\ \A d \in Client : FactTx(d)'
    BY <2>1 DEF FInv, FactsQuiet, FactTx, Facts!Assigned, Facts!NothingStaged, RetiredRow
  <2>3. QED
    BY <1>1, <2>2 DEF FInv
<1>6. QED
  BY <1>1, <1>3, <1>4, <1>5 DEF FInv, Next

LEMMA FactsHold == Spec => []FInv
<1>1. Init => FInv
  BY InitTyped DEF Init, Facts!Init, FInv, FactsQuiet, FactTx
<1>2. QED
  BY <1>1, FactsPreserved, PTL DEF Spec

-----------------------------------------------------------------------------
(* What a commit of facts does.                                            *)

LEMMA OnlyCommitChangesFacts ==
  ASSUME [Next]_vars
  PROVE  UNCHANGED <<facts, factHistory>> \/ \E c \in Client : Facts!Commit(c)
<1>1. ASSUME NEW c \in Client, FactStep(c), ~Facts!Commit(c)
      PROVE  UNCHANGED <<facts, factHistory>>
  <2>1. CASE Facts!Submit(c)
    BY <2>1, FactSubmits DEF Facts!Start, Facts!tables
  <2>2. CASE ~Facts!Submit(c)
    BY <1>1, <2>2 DEF FactStep, Facts!TurnAway, Facts!Work, Facts!Look, Facts!Compare,
                      Facts!LookBack, Facts!Begin, Facts!SetFact, Facts!Retire,
                      Facts!StorageError, Facts!Crash, Facts!tables
  <2>3. QED
    BY <2>1, <2>2
<1>2. ASSUME NEW c \in Client, MemoryStep(c) \/ PreferenceStep(c)
      PROVE  UNCHANGED <<facts, factHistory>>
  BY <1>2 DEF MemoryStep, PreferenceStep
<1>3. CASE UNCHANGED vars
  BY <1>3 DEF vars, factVars
<1>4. QED
  BY <1>1, <1>2, <1>3 DEF Next

(* Whether the command of client c writes key k, and the row it writes.    *)
Writes(c, k) ==
  IF freq[c].kind = "retire" THEN k = freq[c].key
  ELSE k \in DOMAIN freq[c].batch /\ Facts!Assigned(k, freq[c].batch[k]) # None

RowWritten(c, k) ==
  IF freq[c].kind = "retire" THEN RetiredRow(facts[k])
  ELSE Facts!Assigned(k, freq[c].batch[k])

LEMMA RetiringTells ==
  ASSUME NEW row \in Facts!Fact, row.state = "active"
  PROVE  Facts!Tells(row, RetiredRow(row))
<1> DEFINE older == [row EXCEPT !.version = @ + 1]
<1>1. /\ older \in Facts!Fact
      /\ older.version = row.version + 1 /\ older.value = row.value
  BY DEF Facts!Fact
<1>2. [row EXCEPT !.version = @ + 1, !.state = "retired"] = [older EXCEPT !.state = "retired"]
  OBVIOUS
<1> HIDE DEF older
<1>3. [older EXCEPT !.state = "retired"] = RetiredRow(row)
  BY <1>1 DEF RetiredRow, Facts!Fact
<1>4. QED
  BY <1>2, <1>3 DEF Facts!Tells

(* The rows a commit changes are those its command asked for, each a new   *)
(* version; the row it supersedes goes to the history.                     *)
LEMMA FactCommitEffect ==
  ASSUME FInv, NEW c \in Client, Facts!Commit(c), NEW k \in FactKey
  PROVE  /\ freq[c] \in Facts!Request /\ freq[c].kind # "propose"
         /\ freq[c].kind = "retire" /\ Writes(c, k) =>
              facts[k] \in Facts!Fact /\ facts[k].state = "active"
         /\ ~Writes(c, k) => facts'[k] = facts[k] /\ factHistory'[k] = factHistory[k]
         /\ Writes(c, k) =>
              /\ facts'[k] = RowWritten(c, k) /\ facts'[k] \in Facts!Fact
              /\ facts'[k] # facts[k]
              /\ facts'[k].version = IF facts[k] = None THEN 1 ELSE facts[k].version + 1
              /\ factHistory'[k] = IF facts[k] = None THEN factHistory[k]
                                   ELSE factHistory[k] \cup {facts[k]}
<1>1. /\ Facts!TypeOK /\ FactControl(c) /\ FactTx(c) /\ fpc[c] = "commit"
      /\ facts[k] \in Facts!Fact \cup {None}
  BY DEF FInv, TInv, TypeOK, Control, Facts!Commit, Facts!TypeOK
<1>2. freq[c] \in Facts!Request /\ freq[c].kind # "propose"
  BY <1>1 DEF FactControl, Facts!TypeOK
<1>3. /\ facts'[k] = IF factStaged[k] = None THEN facts[k] ELSE factStaged[k]
      /\ factHistory'[k] = IF factStaged[k] = None \/ facts[k] = None THEN factHistory[k]
                           ELSE factHistory[k] \cup {facts[k]}
  BY DEF Facts!Commit
<1>4. CASE freq[c].kind = "retire"
  <2>1. factStaged[k] = IF k = freq[c].key THEN RetiredRow(facts[k]) ELSE None
    BY <1>1, <1>4 DEF FactTx
  <2>2. CASE k = freq[c].key
    <3>1. facts[k] \in Facts!Fact /\ facts[k].state = "active"
      BY <1>1, <1>4, <2>2 DEF FactTx
    <3>2. /\ RetiredRow(facts[k]) \in Facts!Fact /\ RetiredRow(facts[k]) # None
          /\ RetiredRow(facts[k]).version = facts[k].version + 1
          /\ RetiredRow(facts[k]) # facts[k] /\ facts[k] # None
      BY <3>1, NoneIsNothing DEF RetiredRow, Facts!Fact, Facts!FactState
    <3>3. QED
      BY <1>2, <1>3, <1>4, <2>1, <2>2, <3>1, <3>2 DEF Writes, RowWritten
  <2>3. CASE k # freq[c].key
    BY <1>2, <1>3, <1>4, <2>1, <2>3 DEF Writes
  <2>4. QED
    BY <2>2, <2>3
<1>5. CASE freq[c].kind # "retire"
  <2>1. factStaged[k] = IF k \in DOMAIN freq[c].batch
                        THEN Facts!Assigned(k, freq[c].batch[k]) ELSE None
    BY <1>1, <1>5 DEF FactTx
  <2>2. CASE Writes(c, k)
    <3>1. /\ k \in DOMAIN freq[c].batch /\ freq[c].batch[k] \in Value
          /\ Facts!Assigned(k, freq[c].batch[k]) # None
      BY <1>2, <1>5, <2>2, RequestShape, BatchShape DEF Writes
    <3>2. /\ Facts!Assigned(k, freq[c].batch[k]) \in Facts!Fact
          /\ Facts!Assigned(k, freq[c].batch[k]).version =
               IF facts[k] = None THEN 1 ELSE facts[k].version + 1
          /\ Facts!Assigned(k, freq[c].batch[k]) # facts[k]
      BY <1>1, <3>1, AssignedShape, NoneIsNothing DEF Facts!Fact
    <3>3. QED
      BY <1>2, <1>3, <1>5, <2>1, <2>2, <3>1, <3>2 DEF RowWritten
  <2>3. CASE ~Writes(c, k)
    BY <1>2, <1>3, <1>5, <2>1, <2>3 DEF Writes
  <2>4. QED
    BY <2>2, <2>3
<1>6. QED
  BY <1>4, <1>5

-----------------------------------------------------------------------------
(* The theorems about facts.                                               *)

(* A batch is stored whole, by one client's commit, and nothing besides:   *)
(* though its keys are written one after the other, and between any two of *)
(* them the process may fail or die.                                       *)
THEOREM BatchIsWhole == Spec => BatchWhole
<1> DEFINE Whole ==
      facts' # facts =>
        \E c \in Client :
          /\ fpc[c] = "commit"
          /\ IF freq[c].kind = "retire"
             THEN \A k \in FactKey : (facts'[k] # facts[k]) <=> (k = freq[c].key)
             ELSE \A k \in FactKey :
                    IF k \in DOMAIN freq[c].batch
                    THEN Facts!Visible(facts'[k]) = freq[c].batch[k]
                    ELSE facts'[k] = facts[k]
<1>1. ASSUME FInv, [Next]_vars PROVE [Whole]_facts
  <2>1. CASE UNCHANGED facts
    BY <2>1
  <2>2. ASSUME NEW c \in Client, Facts!Commit(c) PROVE Whole
    <3>1. fpc[c] = "commit" /\ Facts!TypeOK
      BY <1>1, <2>2 DEF Facts!Commit, FInv, TInv, TypeOK
    <3>2. CASE freq[c].kind = "retire"
      <4>1. \A k \in FactKey : (facts'[k] # facts[k]) <=> (k = freq[c].key)
        BY <1>1, <2>2, <3>2, FactCommitEffect DEF Writes
      <4>2. QED
        BY <3>1, <3>2, <4>1
    <3>3. CASE freq[c].kind # "retire"
      <4>1. ASSUME NEW k \in FactKey, k \in DOMAIN freq[c].batch
            PROVE  Facts!Visible(facts'[k]) = freq[c].batch[k]
        <5>1. freq[c].batch[k] \in Value
          BY <1>1, <2>2, <3>3, <4>1, FactCommitEffect, RequestShape, BatchShape
        <5>2. CASE Writes(c, k)
          <6>1. /\ facts'[k] = Facts!Assigned(k, freq[c].batch[k])
                /\ Facts!Assigned(k, freq[c].batch[k]) # None
            BY <1>1, <2>2, <3>3, <5>2, FactCommitEffect DEF RowWritten, Writes
          <6>2. facts'[k].value = freq[c].batch[k] /\ facts'[k].state = "active"
            BY <3>1, <5>1, <6>1, AssignedShape
          <6>3. QED
            BY <6>1, <6>2 DEF Facts!Visible
        <5>3. CASE ~Writes(c, k)
          <6>1. facts'[k] = facts[k] /\ Facts!Assigned(k, freq[c].batch[k]) = None
            BY <1>1, <2>2, <3>3, <4>1, <5>3, FactCommitEffect DEF Writes
          <6>2. QED
            BY <3>1, <5>1, <6>1, AssignedShape
        <5>4. QED
          BY <5>2, <5>3
      <4>2. ASSUME NEW k \in FactKey, k \notin DOMAIN freq[c].batch
            PROVE  facts'[k] = facts[k]
        BY <1>1, <2>2, <3>3, <4>2, FactCommitEffect DEF Writes
      <4>3. QED
        BY <3>1, <3>3, <4>1, <4>2
    <3>4. QED
      BY <3>2, <3>3
  <2>3. QED
    BY <1>1, <2>1, <2>2, OnlyCommitChangesFacts
<1>2. FInv /\ [Next]_vars => [Whole]_facts
  BY <1>1
<1>3. QED
  BY <1>2, FactsHold, PTL DEF Spec, BatchWhole, Facts!BatchWhole

(* The two fact tables are a ledger: every commit begins a key or follows  *)
(* its latest row with the next version and with something new to say, and *)
(* keeps the row it supersedes.                                            *)
THEOREM FactTablesAreLedger == Spec => FactsAreLedger
<1>1. Init => Facts!Ledger!LedgerInit
  BY DEF Init, Facts!Init, Facts!Ledger!LedgerInit
<1>2. ASSUME FInv, [Next]_vars PROVE [Facts!Ledger!Revise]_<<facts, factHistory>>
  <2>1. CASE UNCHANGED <<facts, factHistory>>
    BY <2>1
  <2>2. ASSUME NEW c \in Client, Facts!Commit(c) PROVE Facts!Ledger!Revise
    <3>1. /\ facts' = [k \in FactKey |-> facts'[k]]
          /\ factHistory' = [k \in FactKey |-> factHistory'[k]]
      BY <2>2 DEF Facts!Commit
    <3>2. ASSUME NEW k \in FactKey
          PROVE  \/ Facts!Ledger!Begins(k) \/ Facts!Ledger!Follows(k)
                 \/ facts'[k] = facts[k] /\ factHistory'[k] = factHistory[k]
      <4>1. facts[k] \in Facts!Fact \cup {None}
        BY <1>2 DEF FInv, TInv, TypeOK, Facts!TypeOK
      <4>2. CASE ~Writes(c, k)
        BY <1>2, <2>2, <4>2, FactCommitEffect
      <4>3. CASE Writes(c, k) /\ facts[k] = None
        <5>1. /\ facts'[k] = RowWritten(c, k) /\ facts'[k] \in Facts!Fact
              /\ facts'[k].version = 1 /\ factHistory'[k] = factHistory[k]
              /\ freq[c].kind # "retire"
          BY <1>2, <2>2, <4>3, FactCommitEffect, NoneIsNothing
        <5>2. facts'[k].state = "active"
          BY <4>3, <5>1 DEF RowWritten, Facts!Assigned
        <5>3. QED
          BY <4>3, <5>1, <5>2 DEF Facts!Ledger!Begins, Facts!BornActive
      <4>4. CASE Writes(c, k) /\ facts[k] # None
        <5>1. /\ facts'[k] = RowWritten(c, k) /\ facts'[k] \in Facts!Fact
              /\ facts'[k].version = facts[k].version + 1
              /\ factHistory'[k] = factHistory[k] \cup {facts[k]}
              /\ facts[k] \in Facts!Fact
              /\ freq[c].kind = "retire" => facts[k].state = "active"
          BY <1>2, <2>2, <4>1, <4>4, FactCommitEffect
        <5>2. Facts!Tells(facts[k], facts'[k])
          <6>1. CASE freq[c].kind = "retire"
            BY <5>1, <6>1, RetiringTells DEF RowWritten
          <6>2. CASE freq[c].kind # "retire"
            <7>1. /\ facts'[k] = Facts!Assigned(k, freq[c].batch[k])
                  /\ Facts!Assigned(k, freq[c].batch[k]) # None
                  /\ freq[c].batch[k] \in Value /\ Facts!TypeOK
              BY <1>2, <2>2, <4>4, <5>1, <6>2, FactCommitEffect, RequestShape, BatchShape
                 DEF Writes, RowWritten, FInv, TInv, TypeOK
            <7>2. /\ facts'[k].value = freq[c].batch[k] /\ facts'[k].state = "active"
                  /\ Facts!Visible(facts[k]) # freq[c].batch[k]
              BY <7>1, AssignedShape
            <7>3. facts[k].state = "retired" \/ facts[k].value # facts'[k].value
              BY <4>4, <7>2 DEF Facts!Visible
            <7>4. QED
              BY <7>2, <7>3 DEF Facts!Tells
          <6>3. QED
            BY <6>1, <6>2
        <5>3. QED
          BY <4>4, <5>1, <5>2 DEF Facts!Ledger!Follows
      <4>5. QED
        BY <4>2, <4>3, <4>4
    <3>3. QED
      BY <3>1, <3>2 DEF Facts!Ledger!Revise
  <2>3. QED
    BY <1>2, <2>1, <2>2, OnlyCommitChangesFacts
<1>3. FInv /\ [Next]_vars => [Facts!Ledger!Revise]_<<facts, factHistory>>
  BY <1>2
<1>4. QED
  BY <1>1, <1>3, FactsHold, PTL
     DEF Spec, FactsAreLedger, Facts!FactsAreLedger, Facts!Ledger!LedgerSpec

(* Who leaves a fact command, and how: the step of that client.            *)
LEMMA OwnFactStep ==
  ASSUME TInv, [Next]_vars, NEW c \in Client, fpc'[c] # fpc[c]
  PROVE  Facts!Submit(c) \/ Facts!Work(c)
<1>1. Facts!TypeOK
  BY DEF TInv, TypeOK
<1>2. ASSUME NEW d \in Client, FactStep(d)
      PROVE  Facts!Submit(c) \/ Facts!Work(c)
  <2>1. CASE Facts!Work(d)
    <3>1. d = c
      BY <2>1, FactOthersLeft
    <3>2. QED
      BY <2>1, <3>1
  <2>2. CASE Facts!TurnAway(d)
    BY <2>2 DEF Facts!TurnAway
  <2>3. CASE Facts!Submit(d)
    <3>1. d = c
      BY <1>1, <2>3, FactSubmits DEF Facts!Start, Facts!TypeOK
    <3>2. QED
      BY <2>3, <3>1
  <2>4. QED
    BY <1>2, <2>1, <2>2, <2>3 DEF FactStep
<1>3. QED
  BY <1>2 DEF Next, MemoryStep, PreferenceStep, vars, factVars

(* After "updated" or "unchanged" the fact says what correct_fact was asked*)
(* to make it say, and which of the two it was is true of the commit,      *)
(* unless what the key says changed after the first read.                  *)
THEOREM ChangeIsToldTruly == Spec => ChangeToldTruly
<1> DEFINE Told ==
      \A c \in Client : \A k \in FactKey :
        /\ fpc[c] = "commit" /\ fpc'[c] = "idle"
        /\ freq[c].kind = "correct" /\ k \in DOMAIN freq[c].batch
        /\ fanswer'[c] \in {"changed", "unchanged"}
        => /\ Facts!Visible(facts'[k]) = freq[c].batch[k]
           /\ Facts!Visible(facts[k]) = fbefore[c] =>
                (fanswer'[c] = "changed" <=> facts'[k] # facts[k])
<1>1. ASSUME FInv, [Next]_vars PROVE Told
  <2> SUFFICES ASSUME NEW c \in Client, NEW k \in FactKey,
                      fpc[c] = "commit", fpc'[c] = "idle", freq[c].kind = "correct",
                      k \in DOMAIN freq[c].batch, fanswer'[c] \in {"changed", "unchanged"}
               PROVE  /\ Facts!Visible(facts'[k]) = freq[c].batch[k]
                      /\ Facts!Visible(facts[k]) = fbefore[c] =>
                           (fanswer'[c] = "changed" <=> facts'[k] # facts[k])
    OBVIOUS
  <2>1. Facts!TypeOK /\ FactControl(c) /\ freq[c] \in Facts!Request
    BY <1>1 DEF FInv, TInv, TypeOK, Control, FactControl, Facts!TypeOK
  <2>2. Facts!Work(c)
    <3>1. ~Facts!Submit(c)
      BY FactSubmits DEF Facts!Start
    <3>2. QED
      BY <1>1, <3>1, OwnFactStep DEF FInv
  <2>3. CASE Facts!StorageError(c) \/ Facts!Crash(c)
    BY <2>1, <2>3 DEF Facts!StorageError, Facts!Crash, Facts!Reply, Facts!Answered, Facts!TypeOK
  <2>4. CASE Facts!Commit(c)
    <3>1. /\ freq[c].batch[k] \in Value /\ facts[k] \in Facts!Fact \cup {None}
          /\ (facts'[k] # facts[k]) <=> Facts!Assigned(k, freq[c].batch[k]) # None
      BY <1>1, <2>1, <2>4, FactCommitEffect, RequestShape, BatchShape DEF Writes, Facts!TypeOK
    <3>2. Facts!Assigned(k, freq[c].batch[k]) = None <=>
            Facts!Visible(facts[k]) = freq[c].batch[k]
      BY <2>1, <3>1, AssignedShape
    <3>3. fanswer'[c] = Facts!Outcome(c)
      BY <2>1, <2>4 DEF Facts!Commit, Facts!Answered, Facts!TypeOK
    <3>4. \A j \in DOMAIN freq[c].batch : j = k
      BY <2>1 DEF FactControl
    <3>5. Facts!Visible(facts'[k]) = freq[c].batch[k]
      <4>1. CASE Facts!Assigned(k, freq[c].batch[k]) = None
        BY <3>1, <3>2, <4>1
      <4>2. CASE Facts!Assigned(k, freq[c].batch[k]) # None
        <5>1. Writes(c, k)
          BY <2>1, <4>2 DEF Writes
        <5>2. facts'[k] = Facts!Assigned(k, freq[c].batch[k]) /\ facts'[k] \in Facts!Fact
          BY <1>1, <2>1, <2>4, <5>1, FactCommitEffect DEF RowWritten
        <5>3. facts'[k].value = freq[c].batch[k] /\ facts'[k].state = "active"
          BY <2>1, <3>1, <4>2, <5>2, AssignedShape
        <5>4. facts'[k] # None
          BY <5>2, NoneIsNothing DEF Facts!Fact
        <5>5. QED
          BY <5>3, <5>4 DEF Facts!Visible
      <4>3. QED
        BY <4>1, <4>2
    <3>6. Facts!Outcome(c) = IF fbefore[c] = freq[c].batch[k] THEN "unchanged" ELSE "changed"
      BY <2>1, <3>4 DEF Facts!Outcome
    <3>7. QED
      BY <3>1, <3>2, <3>3, <3>5, <3>6
  <2>5. QED
    BY <2>2, <2>3, <2>4
       DEF Facts!Work, Facts!Look, Facts!Compare, Facts!LookBack, Facts!Begin, Facts!SetFact,
           Facts!Retire
<1>2. FInv /\ [Next]_vars => Told
  BY <1>1
<1>3. QED
  BY <1>2, FactsHold, PTL DEF Spec, ChangeToldTruly, Facts!ChangeToldTruly


(* A proposal's label was true at some moment between its two reads, but   *)
(* for one case: the fact was retired at the first read and is live again  *)
(* at the second, and is proposed as new.                                  *)
THEOREM LabelWasOnceTrue == Spec => ProposalOnceApt
<1> DEFINE OnceApt ==
      \A c \in Client : \A k \in FactKey :
        /\ fpc[c] \in {"compare", "history"} /\ fpc'[c] = "idle"
        /\ k \in DOMAIN freq[c].batch /\ fanswer'[c] \in Facts!Label
        => \/ fanswer'[c] \in fapt[c] \cup {Facts!Apt(facts[k], freq[c].batch[k])}
           \/ fanswer'[c] = "new" /\ "reactivation" \in fapt[c] /\ Facts!Visible(facts[k]) # None
<1>1. ASSUME FInv, [Next]_vars PROVE OnceApt
  <2> SUFFICES ASSUME NEW c \in Client, NEW k \in FactKey,
                      fpc[c] \in {"compare", "history"}, fpc'[c] = "idle",
                      k \in DOMAIN freq[c].batch, fanswer'[c] \in Facts!Label
               PROVE  \/ fanswer'[c] \in fapt[c] \cup {Facts!Apt(facts[k], freq[c].batch[k])}
                      \/ /\ fanswer'[c] = "new" /\ "reactivation" \in fapt[c]
                         /\ Facts!Visible(facts[k]) # None
    OBVIOUS
  <2>1. /\ Facts!TypeOK /\ FactTx(c) /\ facts[k] \in Facts!Fact \cup {None}
        /\ \A j \in DOMAIN freq[c].batch : j = k
    BY <1>1 DEF FInv, TInv, TypeOK, Control, FactControl, Facts!TypeOK
  <2>2. Facts!Work(c)
    <3>1. ~Facts!Submit(c)
      BY FactSubmits DEF Facts!Start
    <3>2. QED
      BY <1>1, <3>1, OwnFactStep DEF FInv
  <2>3. ~Facts!StorageError(c) /\ ~Facts!Crash(c)
    BY <2>1 DEF Facts!StorageError, Facts!Crash, Facts!Reply, Facts!Answered, Facts!TypeOK,
                Facts!Label
  <2>4. CASE Facts!Compare(c)
    <3>1. /\ Facts!Visible(facts[k]) # None
          /\ fanswer'[c] = IF Facts!Visible(facts[k]) = freq[c].batch[k]
                           THEN "same" ELSE "correction"
      BY <2>1, <2>4 DEF Facts!Compare, Facts!Reply, Facts!Answered, Facts!TypeOK
    <3>2. fanswer'[c] = Facts!Apt(facts[k], freq[c].batch[k])
      BY <3>1 DEF Facts!Apt, Facts!Visible
    <3>3. QED
      BY <3>2
  <2>5. CASE Facts!LookBack(c)
    <3>1. /\ fpc[c] = "history"
          /\ fanswer'[c] = IF facts[k] # None /\ Facts!Visible(facts[k]) = None
                           THEN "reactivation" ELSE "new"
      BY <2>1, <2>5 DEF Facts!LookBack, Facts!Reply, Facts!Answered, Facts!TypeOK
    <3>2. CASE facts[k] = None
      BY <3>1, <3>2 DEF Facts!Apt
    <3>3. CASE facts[k] # None /\ Facts!Visible(facts[k]) = None
      <4>1. facts[k].state = "retired"
        BY <2>1, <3>3, NoneIsNothing DEF Facts!Visible, Facts!Fact
      <4>2. QED
        BY <3>1, <3>3, <4>1 DEF Facts!Apt
    <3>4. CASE Facts!Visible(facts[k]) # None
      BY <2>1, <3>1, <3>4 DEF FactTx
    <3>5. QED
      BY <3>2, <3>3, <3>4
  <2>6. QED
    BY <2>2, <2>3, <2>4, <2>5
       DEF Facts!Work, Facts!Look, Facts!Begin, Facts!SetFact, Facts!Retire, Facts!Commit
<1>2. FInv /\ [Next]_vars => OnceApt
  BY <1>1
<1>3. QED
  BY <1>2, FactsHold, PTL DEF Spec, ProposalOnceApt, Facts!ProposalOnceApt

-----------------------------------------------------------------------------
(* Preferences.                                                            *)

(* What can have become of a row of key k since it was read: nothing, or   *)
(* later versions of it, with its value unless the preference was retired  *)
(* and created anew.                                                       *)
CreatedAnewSince(k, row) ==
  \E old \in prefHistory[k] : old.state = "retired" /\ old.version > row.version

Since(k, row) ==
  /\ prefs[k] # None
  /\ prefs[k].version >= row.version
  /\ prefs[k].version = row.version => prefs[k] = row
  /\ prefs[k].value # row.value => CreatedAnewSince(k, row)

Successor(c, row) ==
  [version |-> IF row = None THEN 1 ELSE row.version + 1,
   value   |-> IF preq[c].value = None THEN row.value ELSE preq[c].value,
   state   |-> preq[c].target]

PrefTx(c) ==
  /\ ppc[c] \in {"begin", "commit"} /\ preq[c].value = None =>
       /\ pseen[c] \in Preferences!Preference
       /\ preq[c].target \in Preferences!PreferenceTransitions[pseen[c].state]
       /\ Since(preq[c].key, pseen[c])
  /\ ppc[c] = "commit" =>
       /\ Preferences!Accepted(c, prefs[preq[c].key])
       /\ prefStaged = Successor(c, prefs[preq[c].key])

PInv == TInv /\ \A c \in Client : PrefTx(c)

-----------------------------------------------------------------------------

LEMMA PreferenceRequest ==
  ASSUME TInv, NEW c \in Client, ppc[c] # "idle"
  PROVE  preq[c] \in Preferences!Request /\ preq[c].key \in PreferenceKey
BY DEF TInv, TypeOK, Control, PreferenceControl, Preferences!TypeOK, Preferences!Request

LEMMA OnlyCommitChangesPreferences ==
  ASSUME [Next]_vars
  PROVE  UNCHANGED <<prefs, prefHistory>> \/ \E c \in Client : Preferences!Commit(c)
<1>1. ASSUME NEW c \in Client, PreferenceStep(c), ~Preferences!Commit(c)
      PROVE  UNCHANGED <<prefs, prefHistory>>
  <2>1. CASE Preferences!Submit(c)
    BY <2>1, PreferenceSubmits DEF Preferences!Start, Preferences!tables
  <2>2. CASE ~Preferences!Submit(c)
    BY <1>1, <2>2
       DEF PreferenceStep, Preferences!TurnAway, Preferences!Work, Preferences!Look,
           Preferences!Write, Preferences!ReadBack, Preferences!StorageError,
           Preferences!Crash, Preferences!Ends, Preferences!tables
  <2>3. QED
    BY <2>1, <2>2
<1>2. ASSUME NEW c \in Client, FactStep(c) \/ MemoryStep(c)
      PROVE  UNCHANGED <<prefs, prefHistory>>
  BY <1>2 DEF FactStep, MemoryStep
<1>3. CASE UNCHANGED vars
  BY <1>3 DEF vars, preferenceVars
<1>4. QED
  BY <1>1, <1>2, <1>3 DEF Next

LEMMA SuccessorIsPreference ==
  ASSUME NEW c \in Client, preq[c] \in Preferences!Request,
         NEW row \in Preferences!Preference \cup {None}, Preferences!Accepted(c, row)
  PROVE  Successor(c, row) \in Preferences!Preference
<1>1. (IF row = None THEN 1 ELSE row.version + 1) \in Nat \ {0}
  BY DEF Preferences!Preference
<1>2. (IF preq[c].value = None THEN row.value ELSE preq[c].value) \in Value
  BY DEF Preferences!Accepted, Preferences!Preference, Preferences!Request
<1>3. QED
  BY <1>1, <1>2 DEF Successor, Preferences!Preference, Preferences!Request

(* A commit begins its key or follows the key's latest row; the transition *)
(* is legal for the row that is superseded, though it was checked on the   *)
(* row that was read.                                                      *)
LEMMA PreferenceCommitEffect ==
  ASSUME PInv, NEW c \in Client, Preferences!Commit(c), NEW k \in PreferenceKey
  PROVE  \/ Preferences!Ledger!Begins(k) \/ Preferences!Ledger!Follows(k)
         \/ prefs'[k] = prefs[k] /\ prefHistory'[k] = prefHistory[k]
<1>1. /\ Preferences!TypeOK /\ PreferenceControl(c) /\ PrefTx(c) /\ ppc[c] = "commit"
      /\ preq[c] \in Preferences!Request /\ preq[c].key \in PreferenceKey
      /\ prefs[k] \in Preferences!Preference \cup {None}
  BY PreferenceRequest
     DEF PInv, TInv, TypeOK, Control, Preferences!Commit, Preferences!TypeOK
<1>2. CASE k # preq[c].key
  BY <1>1, <1>2 DEF Preferences!Commit, Preferences!TypeOK
<1>3. CASE k = preq[c].key
  <2>1. /\ prefs'[k] = Successor(c, prefs[k])
        /\ prefHistory'[k] = prefHistory[k] \cup ({prefs[k]} \ {None})
        /\ Preferences!Accepted(c, prefs[k])
    BY <1>1, <1>3 DEF PrefTx, Preferences!Commit, Preferences!TypeOK
  <2>2. prefs'[k] \in Preferences!Preference
    BY <1>1, <2>1, SuccessorIsPreference
  <2>3. CASE prefs[k] = None
    <3>1. prefs'[k].version = 1 /\ prefs'[k].state = "candidate"
      BY <1>1, <2>1, <2>3 DEF Successor, Preferences!Accepted, PreferenceControl
    <3>2. QED
      BY <2>1, <2>2, <2>3, <3>1 DEF Preferences!Ledger!Begins, Preferences!BornCandidate
  <2>4. CASE prefs[k] # None
    <3>1. prefs'[k].version = prefs[k].version + 1
      BY <2>1, <2>4 DEF Successor
    <3>2. prefHistory'[k] = prefHistory[k] \cup {prefs[k]}
      BY <2>1, <2>4
    <3>3. CASE preq[c].value = None
      BY <1>1, <1>3, <2>1, <2>2, <2>4, <3>1, <3>2, <3>3
         DEF Successor, Preferences!Accepted, PrefTx, Preferences!Matures,
             Preferences!Ledger!Follows
    <3>4. CASE preq[c].value # None
      BY <1>1, <2>1, <2>2, <2>4, <3>1, <3>2, <3>4
         DEF Successor, Preferences!Accepted, PreferenceControl, Preferences!Matures,
             Preferences!Ledger!Follows
    <3>5. QED
      BY <3>3, <3>4
  <2>5. QED
    BY <2>3, <2>4
<1>4. QED
  BY <1>2, <1>3

(* What was read stays where the ledger can tell what became of it.        *)
LEMMA SinceKept ==
  ASSUME PInv, [Next]_vars, NEW k \in PreferenceKey,
         NEW row \in Preferences!Preference, row.state # "retired", Since(k, row)
  PROVE  Since(k, row)'
<1>1. prefs[k] \in Preferences!Preference
  BY DEF PInv, TInv, TypeOK, Preferences!TypeOK, Since
<1>2. CASE prefs'[k] = prefs[k] /\ prefHistory'[k] = prefHistory[k]
  BY <1>2 DEF Since, CreatedAnewSince
<1>3. CASE Preferences!Ledger!Follows(k)
  <2>1. /\ prefs'[k] \in Preferences!Preference
        /\ prefs'[k].version = prefs[k].version + 1
        /\ prefHistory'[k] = prefHistory[k] \cup {prefs[k]}
    BY <1>3 DEF Preferences!Ledger!Follows
  <2>2. /\ prefs'[k] # None /\ prefs'[k].version > row.version
    BY <1>1, <2>1, NoneIsNothing DEF Since, Preferences!Preference
  <2>3. CASE CreatedAnewSince(k, row)
    BY <2>1, <2>2, <2>3 DEF Since, CreatedAnewSince, Preferences!Preference
  <2>4. CASE prefs[k].value = row.value /\ prefs'[k].value = prefs[k].value
    BY <2>1, <2>2, <2>4 DEF Since, Preferences!Preference
  <2>5. CASE prefs[k].state = "retired" /\ prefs[k].value = row.value
    <3>1. prefs[k].version > row.version
      BY <1>1, <2>5 DEF Since, Preferences!Preference
    <3>2. CreatedAnewSince(k, row)'
      BY <2>1, <2>5, <3>1 DEF CreatedAnewSince
    <3>3. QED
      BY <2>1, <2>2, <3>2 DEF Since, Preferences!Preference
  <2>6. QED
    BY <1>3, <2>3, <2>4, <2>5 DEF Since, Preferences!Ledger!Follows, Preferences!Matures
<1>4. ~Preferences!Ledger!Begins(k)
  BY DEF Since, Preferences!Ledger!Begins
<1>5. QED
  BY <1>2, <1>3, <1>4, OnlyCommitChangesPreferences, PreferenceCommitEffect


(* One step of a preference call, for the client that makes it and for the *)
(* others.                                                                 *)
LEMMA PrefTxOwn ==
  ASSUME PInv, NEW c \in Client, Preferences!Work(c)
  PROVE  PrefTx(c)'
<1>1. /\ Preferences!TypeOK /\ PrefTx(c) /\ ppc[c] # "idle"
      /\ preq[c] \in Preferences!Request /\ preq[c].key \in PreferenceKey
  <2>1. ppc[c] # "idle"
    BY DEF Preferences!Work, Preferences!Look, Preferences!Write, Preferences!Commit,
           Preferences!ReadBack, Preferences!StorageError, Preferences!Crash, Preferences!Ends
  <2>2. QED
    BY <2>1, PreferenceRequest DEF PInv, TInv, TypeOK
<1>2. CASE ppc'[c] \notin {"begin", "commit"}
  BY <1>2 DEF PrefTx
<1>3. CASE Preferences!Look(c) /\ ppc'[c] = "begin"
  <2> DEFINE row == prefs[preq[c].key]
  <2>1. /\ preq[c].target \in IF row = None THEN {} ELSE Preferences!PreferenceTransitions[row.state]
        /\ pseen'[c] = row /\ preq' = preq /\ UNCHANGED <<prefs, prefHistory>>
    BY <1>1, <1>3
       DEF Preferences!Look, Preferences!Reply, Preferences!GoTo, Preferences!TypeOK,
           Preferences!tables
  <2>2. row \in Preferences!Preference
    BY <1>1, <2>1 DEF Preferences!TypeOK
  <2>3. Since(preq[c].key, row)
    BY <2>2, NoneIsNothing DEF Since, Preferences!Preference
  <2>4. (/\ pseen[c] \in Preferences!Preference
         /\ preq[c].target \in Preferences!PreferenceTransitions[pseen[c].state]
         /\ Since(preq[c].key, pseen[c]))'
    BY <2>1, <2>2, <2>3 DEF Since, CreatedAnewSince
  <2>5. QED
    BY <1>3, <2>4 DEF PrefTx
<1>4. CASE Preferences!Write(c) /\ ppc'[c] = "commit"
  <2>1. /\ ppc[c] = "begin" /\ Preferences!Accepted(c, prefs[preq[c].key])
        /\ prefStaged' = Successor(c, prefs[preq[c].key])
        /\ UNCHANGED <<preq, pseen, prefs, prefHistory>>
    BY <1>1, <1>4
       DEF Preferences!Write, Preferences!Reply, Preferences!GoTo, Preferences!TypeOK,
           Preferences!tables, Successor
  <2>2. QED
    BY <1>1, <2>1 DEF PrefTx, Since, CreatedAnewSince, Preferences!Accepted, Successor
<1>5. ~Preferences!Look(c) /\ ~Preferences!Write(c) => ppc'[c] \notin {"begin", "commit"}
  BY <1>1
     DEF Preferences!Work, Preferences!Commit, Preferences!ReadBack, Preferences!StorageError,
         Preferences!Crash, Preferences!Ends, Preferences!Reply, Preferences!GoTo,
         Preferences!TypeOK
<1>6. Preferences!Look(c) => ppc'[c] # "commit"
  BY <1>1
     DEF Preferences!Look, Preferences!Reply, Preferences!GoTo, Preferences!TypeOK
<1>7. Preferences!Write(c) => ppc'[c] # "begin"
  BY <1>1
     DEF Preferences!Write, Preferences!Reply, Preferences!GoTo, Preferences!TypeOK
<1>8. QED
  BY <1>2, <1>3, <1>4, <1>5, <1>6, <1>7

LEMMA PreferenceOthersLeft ==
  ASSUME TInv, NEW c \in Client, Preferences!Work(c), NEW d \in Client \ {c}
  PROVE  /\ ppc'[d] = ppc[d] /\ preq'[d] = preq[d] /\ pseen'[d] = pseen[d]
         /\ ppc[d] = "commit" => UNCHANGED <<prefs, prefHistory, prefStaged>>
<1>1. /\ Preferences!TypeOK /\ (ppc[d] = "commit" => lock = d) /\ (ppc[c] = "commit" => lock = c)
      /\ None \notin Client
  BY NoneIsNothing DEF TInv, TypeOK, Control, LockControl, Writing
<1>2. ppc'[d] = ppc[d] /\ preq'[d] = preq[d] /\ pseen'[d] = pseen[d]
  BY <1>1
     DEF Preferences!Work, Preferences!Look, Preferences!Write, Preferences!Commit,
         Preferences!ReadBack, Preferences!StorageError, Preferences!Crash, Preferences!Ends,
         Preferences!Reply, Preferences!GoTo, Preferences!TypeOK
<1>3. ppc[d] = "commit" => UNCHANGED <<prefs, prefHistory, prefStaged>>
  BY <1>1
     DEF Preferences!Work, Preferences!Look, Preferences!Write, Preferences!Commit,
         Preferences!ReadBack, Preferences!StorageError, Preferences!Crash, Preferences!Ends,
         Preferences!tables
<1>4. QED
  BY <1>2, <1>3

(* A client whose own call does not move keeps what it relied on.          *)
LEMMA PrefTxLeft ==
  ASSUME PInv, [Next]_vars, NEW d \in Client,
         ppc'[d] = ppc[d] /\ preq'[d] = preq[d] /\ pseen'[d] = pseen[d],
         ppc[d] = "commit" => UNCHANGED <<prefs, prefHistory, prefStaged>>
  PROVE  PrefTx(d)'
<1>1. PrefTx(d)
  BY DEF PInv
<1>2. CASE ppc[d] = "begin" /\ preq[d].value = None
  <2>1. PICK row \in Preferences!Preference : row = pseen[d]
    BY <1>1, <1>2 DEF PrefTx
  <2>2. PICK k \in PreferenceKey : k = preq[d].key
    BY <1>2, PreferenceRequest DEF PInv
  <2>3. preq[d].target \in Preferences!PreferenceTransitions[row.state] /\ Since(k, row)
    BY <1>1, <1>2, <2>1, <2>2 DEF PrefTx
  <2>4. row.state # "retired"
    BY <2>3 DEF Preferences!PreferenceTransitions
  <2>5. Since(k, row)'
    BY <2>3, <2>4, SinceKept
  <2>6. k = preq'[d].key /\ row = pseen'[d]
    BY <2>1, <2>2
  <2>7. (Since(preq[d].key, pseen[d]))'
    BY <2>5, <2>6
  <2>8. QED
    BY <1>2, <2>1, <2>3, <2>7 DEF PrefTx
<1>3. CASE ppc[d] = "commit"
  BY <1>1, <1>3 DEF PrefTx, Since, CreatedAnewSince, Preferences!Accepted, Successor
<1>4. CASE ~(ppc[d] = "begin" /\ preq[d].value = None) /\ ppc[d] # "commit"
  BY <1>4 DEF PrefTx
<1>5. QED
  BY <1>2, <1>3, <1>4

LEMMA PreferencesPreserved == PInv /\ [Next]_vars => PInv'
<1> SUFFICES ASSUME PInv, [Next]_vars, NEW d \in Client PROVE PrefTx(d)'
  BY NextTyped DEF PInv
<1>1. Preferences!TypeOK
  BY DEF PInv, TInv, TypeOK
<1>2. CASE UNCHANGED <<prefs, prefHistory, prefStaged, ppc, preq, pseen>>
  BY <1>2, PrefTxLeft
<1>3. ASSUME NEW c \in Client, PreferenceStep(c) PROVE PrefTx(d)'
  <2>1. CASE Preferences!Work(c)
    BY <2>1, PrefTxOwn, PrefTxLeft, PreferenceOthersLeft DEF PInv
  <2>2. CASE Preferences!TurnAway(c)
    BY <1>2, <2>2 DEF Preferences!TurnAway, Preferences!tables
  <2>3. CASE Preferences!Submit(c)
    <3>1. PICK r \in Preferences!Request, there \in {"begin", "look"} :
            (there = "look" <=> r.value = None) /\ Preferences!Start(c, r, there)
      BY <2>3, PreferenceSubmits
    <3>2. CASE d = c
      <4>1. ppc'[d] = there /\ preq'[d] = r
        BY <1>1, <3>1, <3>2 DEF Preferences!Start, Preferences!TypeOK
      <4>2. QED
        BY <3>1, <4>1 DEF PrefTx
    <3>3. CASE d # c
      <4>1. ppc'[d] = ppc[d] /\ preq'[d] = preq[d] /\ UNCHANGED <<pseen, prefs, prefHistory, prefStaged>>
        BY <1>1, <3>1, <3>3 DEF Preferences!Start, Preferences!TypeOK, Preferences!tables
      <4>2. QED
        BY <4>1, PrefTxLeft
    <3>4. QED
      BY <3>2, <3>3
  <2>4. QED
    BY <1>3, <2>1, <2>2, <2>3 DEF PreferenceStep
<1>4. ASSUME NEW c \in Client, FactStep(c) \/ MemoryStep(c) PROVE PrefTx(d)'
  BY <1>2, <1>4 DEF FactStep, MemoryStep
<1>5. CASE UNCHANGED vars
  BY <1>2, <1>5 DEF vars, preferenceVars
<1>6. QED
  BY <1>3, <1>4, <1>5 DEF Next

LEMMA PreferencesHold == Spec => []PInv
<1>1. Init => PInv
  BY InitTyped DEF Init, Preferences!Init, PInv, PrefTx
<1>2. QED
  BY <1>1, PreferencesPreserved, PTL DEF Spec

-----------------------------------------------------------------------------
(* The theorems about preferences.                                         *)

(* The two identity tables are a ledger: a preference is born a candidate, *)
(* matures by legal transitions with its value, and gets a new value only  *)
(* after it was retired, however old the row that a transition was checked *)
(* on.                                                                     *)
THEOREM PreferenceTablesAreLedger == Spec => PreferencesAreLedger
<1>1. Init => Preferences!Ledger!LedgerInit
  BY DEF Init, Preferences!Init, Preferences!Ledger!LedgerInit
<1>2. ASSUME PInv, [Next]_vars PROVE [Preferences!Ledger!Revise]_<<prefs, prefHistory>>
  <2>1. ASSUME NEW c \in Client, Preferences!Commit(c) PROVE Preferences!Ledger!Revise
    <3>1. /\ prefs' = [k \in PreferenceKey |-> prefs'[k]]
          /\ prefHistory' = [k \in PreferenceKey |-> prefHistory'[k]]
      BY <1>2, <2>1 DEF Preferences!Commit, PInv, TInv, TypeOK, Preferences!TypeOK
    <3>2. QED
      BY <1>2, <2>1, <3>1, PreferenceCommitEffect DEF Preferences!Ledger!Revise
  <2>2. QED
    BY <1>2, <2>1, OnlyCommitChangesPreferences
<1>3. PInv /\ [Next]_vars => [Preferences!Ledger!Revise]_<<prefs, prefHistory>>
  BY <1>2
<1>4. QED
  BY <1>1, <1>3, PreferencesHold, PTL
     DEF Spec, PreferencesAreLedger, Preferences!PreferencesAreLedger,
         Preferences!Ledger!LedgerSpec

(* A transition about to commit a value its caller did not read acts on a  *)
(* preference that was retired, and created anew, since that reading.      *)
THEOREM PromotionIsSeenOrAnew == Spec => []PromotedUnseenOnlyAnew
<1>1. PInv => PromotedUnseenOnlyAnew
  <2> SUFFICES ASSUME PInv, NEW c \in Client, ppc[c] = "commit", preq[c].value = None,
                      prefStaged.value # pseen[c].value
               PROVE  \E row \in prefHistory[preq[c].key] :
                        row.state = "retired" /\ row.version > pseen[c].version
    BY DEF PromotedUnseenOnlyAnew, Preferences!PromotedUnseenOnlyAnew
  <2>1. PrefTx(c)
    BY DEF PInv
  <2>2. prefStaged.value = prefs[preq[c].key].value
    BY <2>1 DEF PrefTx, Successor
  <2>3. QED
    BY <2>1, <2>2 DEF PrefTx, Since, CreatedAnewSince
<1>2. QED
  BY <1>1, PreferencesHold, PTL
=============================================================================
