------------------------------ MODULE FactStore ------------------------------
(***************************************************************************)
(* The user's facts: KnowledgeService and the repository SQLiteKnowledge.  *)
(* correct_fact reads the value a key has, on a connection of its own, and *)
(* then sets it in a transaction; its answer compares the new value with   *)
(* that earlier reading.  retire works in one transaction, and set_many    *)
(* revises a batch of keys in one.  Several processes run them at once.    *)
(*                                                                         *)
(* A conversation proposes facts and stores none: what the provider        *)
(* extracted and the grounding policy let pass is compared with the store  *)
(* by up to two reads on connections of their own, and labelled.  The      *)
(* candidates of a batch have different keys and are labelled one after    *)
(* the other, each for itself; the model labels one.                       *)
(*                                                                         *)
(* A row keeps version, value and state; the revision reason is a text     *)
(* that goes with the state "retired".  Rows written before schema 4 have  *)
(* no state and are not modelled.                                          *)
(***************************************************************************)
EXTENDS Naturals

CONSTANTS
  Key,       \* fact keys, normalised
  Value,     \* their values
  Client,    \* processes that run commands
  None       \* Python's None

FactState == {"active", "retired"}

Fact == [version : Nat \ {0}, value : Value, state : FactState]

Batch == UNION {[keys -> Value] : keys \in (SUBSET Key) \ {{}}}

Request == [kind : {"correct", "many", "propose"}, batch : Batch]
             \cup [kind : {"retire"}, key : Key]

(* What a proof may assume of the constants.                               *)
FactAssumption == None \notin Fact \cup Value \cup Client \cup Request

VARIABLES
  current,   \* user_facts_current: a row per key, None before its INSERT
  history,   \* user_fact_history: the superseded rows of each key
  lock,      \* the connection that holds SQLite's write lock, or None
  staged,    \* its uncommitted row of each key, None where it wrote none
  pc,        \* where each client is inside its command
  req,       \* the command it runs
  todo,      \* the keys of its batch that are still to be written
  before,    \* the value correct_fact read first, None for no active fact
  answer,    \* how its last command ended
  apt        \* history: the labels that were true since a proposal's first read

tables == <<current, history>>
vars   == <<current, history, lock, staged, pc, req, todo, before, answer,
           apt>>

Label == {"new", "correction", "reactivation", "same"}

NothingStaged == [k \in Key |-> None]

TypeOK ==
  /\ current \in [Key -> Fact \cup {None}]
  /\ history \in [Key -> SUBSET Fact]
  /\ lock \in Client \cup {None}
  /\ staged \in [Key -> Fact \cup {None}]
  /\ pc \in [Client -> {"idle", "look", "begin", "write", "commit",
                        "compare", "history"}]
  /\ req \in [Client -> Request \cup {None}]
  /\ todo \in [Client -> SUBSET Key]
  /\ before \in [Client -> Value \cup {None}]
  /\ answer \in [Client -> {"none", "changed", "unchanged", "stored",
                            "missing", "clarify", "rejected", "failed"} \cup Label]
  /\ apt \in [Client -> SUBSET Label]

Init ==
  /\ current = [k \in Key |-> None]
  /\ history = [k \in Key |-> {}]
  /\ lock = None
  /\ staged = NothingStaged
  /\ pc = [c \in Client |-> "idle"]
  /\ req = [c \in Client |-> None]
  /\ todo = [c \in Client |-> {}]
  /\ before = [c \in Client |-> None]
  /\ answer = [c \in Client |-> "none"]
  /\ apt = [c \in Client |-> {}]

-----------------------------------------------------------------------------

(* What get and load let a reader see of a row.                            *)
Visible(row) == IF row = None THEN None
                ELSE IF row.state = "retired" THEN None ELSE row.value

Answered(c, outcome) ==
  /\ pc' = [pc EXCEPT ![c] = "idle"]
  /\ req' = [req EXCEPT ![c] = None]
  /\ todo' = [todo EXCEPT ![c] = {}]
  /\ before' = [before EXCEPT ![c] = None]
  /\ answer' = [answer EXCEPT ![c] = outcome]

Reply(c, outcome) == Answered(c, outcome) /\ apt' = [apt EXCEPT ![c] = {}]

Start(c, r, there) ==
  /\ pc[c] = "idle"
  /\ pc' = [pc EXCEPT ![c] = there]
  /\ req' = [req EXCEPT ![c] = r]
  /\ answer' = [answer EXCEPT ![c] = "none"]
  /\ UNCHANGED <<tables, lock, staged, todo, before, apt>>

(* A command without --confirm, or with arguments that make no fact, is    *)
(* answered before any read.                                               *)
TurnAway(c) ==
  /\ pc[c] = "idle"
  /\ \E outcome \in {"clarify", "rejected"} : answer' = [answer EXCEPT ![c] = outcome]
  /\ UNCHANGED <<tables, lock, staged, pc, req, todo, before, apt>>

(* /fact set key --value value --confirm                                   *)
CorrectFact(c) ==
  \E k \in Key, v \in Value :
    Start(c, [kind |-> "correct", batch |-> [key \in {k} |-> v]], "look")

(* set_many; an empty batch returns at once.                               *)
SetMany(c) ==
  \E batch \in Batch : Start(c, [kind |-> "many", batch |-> batch], "begin")

(* /fact retire key --confirm --reason reason                              *)
RetireFact(c) ==
  \E k \in Key : Start(c, [kind |-> "retire", key |-> k], "begin")

(* A line of conversation that is no question and no command, and that the *)
(* provider found a fact in, literally and in a quote that grounds it.     *)
Propose(c) ==
  \E k \in Key, v \in Value :
    Start(c, [kind |-> "propose", batch |-> [key \in {k} |-> v]], "compare")

Submit(c) == CorrectFact(c) \/ SetMany(c) \/ RetireFact(c) \/ Propose(c)

(* The first read of correct_fact.                                         *)
Look(c) ==
  /\ pc[c] = "look"
  /\ \E k \in DOMAIN req[c].batch :
       before' = [before EXCEPT ![c] = Visible(current[k])]
  /\ pc' = [pc EXCEPT ![c] = "begin"]
  /\ UNCHANGED <<tables, lock, staged, req, todo, answer, apt>>

-----------------------------------------------------------------------------
(* KnowledgeService._classify                                              *)

(* What a candidate is to a row, had it been read at once.                 *)
Apt(row, value) ==
  IF row = None THEN "new"
  ELSE IF row.state = "retired" THEN "reactivation"
  ELSE IF row.value = value THEN "same" ELSE "correction"

(* The first read: get, which hides a retired fact.                        *)
Compare(c) ==
  /\ pc[c] = "compare"
  /\ \E k \in DOMAIN req[c].batch :
       LET seen == Visible(current[k])
           value == req[c].batch[k]
       IN \/ seen # None /\ Reply(c, IF seen = value THEN "same" ELSE "correction")
          \/ /\ seen = None
             /\ pc' = [pc EXCEPT ![c] = "history"]
             /\ apt' = [apt EXCEPT ![c] = {Apt(current[k], value)}]
             /\ UNCHANGED <<req, todo, before, answer>>
  /\ UNCHANGED <<tables, lock, staged>>

(* Mutant: the state of the current revision is not looked at.             *)
LookBackAny(c) ==
  /\ pc[c] = "history"
  /\ \E k \in DOMAIN req[c].batch :
       Reply(c, IF current[k] # None THEN "reactivation" ELSE "new")
  /\ UNCHANGED <<tables, lock, staged>>

(* The second: the revisions of the key, the current one among them.       *)
LookBack(c) ==
  /\ pc[c] = "history"
  /\ \E k \in DOMAIN req[c].batch :
       Reply(c, IF current[k] # None /\ Visible(current[k]) = None
                THEN "reactivation" ELSE "new")
  /\ UNCHANGED <<tables, lock, staged>>

-----------------------------------------------------------------------------
(* The write transaction.                                                  *)

Rollback(c) ==
  /\ lock' = IF lock = c THEN None ELSE lock
  /\ staged' = IF lock = c THEN NothingStaged ELSE staged

(* BEGIN IMMEDIATE                                                         *)
Begin(c) ==
  /\ pc[c] = "begin" /\ lock = None
  /\ lock' = c
  /\ pc' = [pc EXCEPT ![c] = "write"]
  /\ todo' = [todo EXCEPT ![c] = IF req[c].kind = "retire" THEN {req[c].key}
                                 ELSE DOMAIN req[c].batch]
  /\ UNCHANGED <<tables, staged, req, before, answer, apt>>

Archived(k) == \E row \in history[k] : row.version = current[k].version

(* Mutant: a new fact is numbered from zero.                               *)
AssignedFromZero(k, value) ==
  IF current[k] = None THEN [version |-> 0, value |-> value, state |-> "active"]
  ELSE [version |-> current[k].version + 1, value |-> value, state |-> "active"]

(* Mutant: a value that is the current one is written again.               *)
AssignedAlways(k, value) ==
  IF current[k] = None THEN [version |-> 1, value |-> value, state |-> "active"]
  ELSE [version |-> current[k].version + 1, value |-> value, state |-> "active"]

(* The row _set_fact leaves, None when the fact already says that.         *)
Assigned(k, value) ==
  IF current[k] = None THEN [version |-> 1, value |-> value, state |-> "active"]
  ELSE IF current[k].value = value /\ current[k].state = "active" THEN None
  ELSE [version |-> current[k].version + 1, value |-> value, state |-> "active"]

(* Mutant: every key of a batch commits for itself.                        *)
SetFactAlone(c) ==
  /\ pc[c] = "write" /\ req[c].kind # "retire"
  /\ \E k \in todo[c] :
       LET row == Assigned(k, req[c].batch[k]) IN
         /\ current' = IF row = None THEN current ELSE [current EXCEPT ![k] = row]
         /\ history' = IF row = None \/ current[k] = None THEN history
                       ELSE [history EXCEPT ![k] = @ \cup {current[k]}]
         /\ todo' = [todo EXCEPT ![c] = @ \ {k}]
  /\ pc' = [pc EXCEPT ![c] = IF todo'[c] = {} THEN "commit" ELSE "write"]
  /\ UNCHANGED <<lock, staged, req, before, answer, apt>>

(* Mutant: correct_fact writes nothing when its first read saw the value.  *)
SetFactUnlessSeen(c) ==
  /\ pc[c] = "write" /\ req[c].kind # "retire"
  /\ \E k \in todo[c] :
       LET row == IF req[c].kind = "correct" /\ before[c] = req[c].batch[k] THEN None
                  ELSE Assigned(k, req[c].batch[k])
       IN /\ staged' = [staged EXCEPT ![k] = row]
          /\ todo' = [todo EXCEPT ![c] = @ \ {k}]
          /\ pc' = [pc EXCEPT ![c] = IF todo[c] = {k} THEN "commit" ELSE "write"]
  /\ UNCHANGED <<tables, lock, req, before, answer, apt>>

(* _set_fact for one key of the batch: the superseded row goes to history  *)
(* under (fact_key, version), which must be free.                          *)
SetFact(c) ==
  /\ pc[c] = "write" /\ req[c].kind # "retire"
  /\ \E k \in todo[c] :
       LET row == Assigned(k, req[c].batch[k]) IN
         \/ /\ row # None /\ current[k] # None /\ Archived(k)
            /\ Rollback(c) /\ Reply(c, "failed")
         \/ /\ ~(row # None /\ current[k] # None /\ Archived(k))
            /\ staged' = [staged EXCEPT ![k] = row]
            /\ todo' = [todo EXCEPT ![c] = @ \ {k}]
            /\ pc' = [pc EXCEPT ![c] = IF todo[c] = {k} THEN "commit" ELSE "write"]
            /\ UNCHANGED <<lock, req, before, answer, apt>>
  /\ UNCHANGED tables

(* retire inside its transaction; a retired fact ends it with nothing done.*)
Retire(c) ==
  /\ pc[c] = "write" /\ req[c].kind = "retire"
  /\ LET k == req[c].key
         row == current[k]
     IN \/ row = None /\ Rollback(c) /\ Reply(c, "missing")
        \/ /\ row # None
           /\ row.state = "retired"
           /\ Rollback(c) /\ Reply(c, "unchanged")
        \/ /\ row # None
           /\ row.state = "active"
           /\ Archived(k)
           /\ Rollback(c) /\ Reply(c, "failed")
        \/ /\ row # None
           /\ row.state = "active"
           /\ ~Archived(k)
           /\ staged' = [staged EXCEPT ![k] =
                           [version |-> row.version + 1, value |-> row.value,
                            state |-> "retired"]]
           /\ pc' = [pc EXCEPT ![c] = "commit"]
           /\ UNCHANGED <<lock, req, todo, before, answer, apt>>
  /\ UNCHANGED tables

(* set_many returns nothing; retire returned True; correct_fact compares.  *)
Outcome(c) ==
  IF req[c].kind = "many" THEN "stored"
  ELSE IF req[c].kind = "retire" THEN "changed"
  ELSE IF \A k \in DOMAIN req[c].batch : before[c] = req[c].batch[k]
       THEN "unchanged" ELSE "changed"

(* Everything staged appears at once.                                      *)
Commit(c) ==
  /\ pc[c] = "commit"
  /\ current' = [k \in Key |-> IF staged[k] = None THEN current[k] ELSE staged[k]]
  /\ history' = [k \in Key |-> IF staged[k] = None \/ current[k] = None THEN history[k]
                               ELSE history[k] \cup {current[k]}]
  /\ lock' = None
  /\ staged' = NothingStaged
  /\ Answered(c, Outcome(c))
  /\ apt' = [d \in Client |->
              IF pc[d] # "history" THEN apt[d]
              ELSE apt[d] \cup {Apt(current'[k], req[d].batch[k]) : k \in DOMAIN req[d].batch}]

-----------------------------------------------------------------------------
(* sqlite3.Error or OSError at any access, and the death of the process.   *)

StorageError(c) ==
  /\ pc[c] # "idle"
  /\ Rollback(c) /\ Reply(c, "failed")
  /\ UNCHANGED tables

Crash(c) ==
  /\ pc[c] # "idle"
  /\ Rollback(c) /\ Reply(c, "none")
  /\ UNCHANGED tables

Work(c) ==
  \/ Look(c) \/ Compare(c) \/ LookBack(c) \/ Begin(c) \/ SetFact(c) \/ Retire(c) \/ Commit(c)
  \/ StorageError(c) \/ Crash(c)

Next == \E c \in Client : Submit(c) \/ TurnAway(c) \/ Work(c)

Spec == Init /\ [][Next]_vars

-----------------------------------------------------------------------------
(* Properties.                                                             *)

BornActive(row) == row.state = "active"

(* A revision says something new: another value, or the same value retired *)
(* or taken up again.                                                      *)
Tells(old, new) ==
  \/ new.state = "active" /\ (new.value # old.value \/ old.state = "retired")
  \/ old.state = "active" /\ new = [old EXCEPT !.version = @ + 1, !.state = "retired"]

Ledger == INSTANCE RecordLedger
            WITH Record <- Fact, First <- BornActive, Legal <- Tells,
                 latest <- current, past <- history

(* The two fact tables implement the ledger: no version is skipped, lost   *)
(* or written twice, and no revision repeats the one before it.            *)
FactsAreLedger == Ledger!LedgerSpec

(* A batch is stored whole: when any fact changes, one client's command    *)
(* is done and every key of that command, and no other, is as it asked.    *)
BatchWhole ==
  [][current' # current =>
       \E c \in Client :
         /\ pc[c] = "commit"
         /\ IF req[c].kind = "retire"
            THEN \A k \in Key : (current'[k] # current[k]) <=> (k = req[c].key)
            ELSE \A k \in Key :
                   IF k \in DOMAIN req[c].batch
                   THEN Visible(current'[k]) = req[c].batch[k]
                   ELSE current'[k] = current[k]]_current

(* "Updated" or "unchanged", the fact then says what was asked, whatever   *)
(* another process did to it since the first read of correct_fact; and     *)
(* which of the two was answered is true of the commit, unless what the key*)
(* says changed between that read and the transaction.  (Then the answer   *)
(* tells of the value that was read, not of the one that was replaced.)    *)
ChangeToldTruly ==
  [][\A c \in Client : \A k \in Key :
       /\ pc[c] = "commit" /\ pc'[c] = "idle"
       /\ req[c].kind = "correct" /\ k \in DOMAIN req[c].batch
       /\ answer'[c] \in {"changed", "unchanged"}
       => /\ Visible(current'[k]) = req[c].batch[k]
          /\ Visible(current[k]) = before[c] =>
               (answer'[c] = "changed" <=> current'[k] # current[k])]_vars

(* A proposal is labelled as what it was at some moment between its reads, *)
(* with one exception: a retired fact that is taken up again after the     *)
(* first read and before the second is proposed as if it were new.         *)
ProposalOnceApt ==
  [][\A c \in Client : \A k \in Key :
       /\ pc[c] \in {"compare", "history"} /\ pc'[c] = "idle"
       /\ k \in DOMAIN req[c].batch /\ answer'[c] \in Label
       => \/ answer'[c] \in apt[c] \cup {Apt(current[k], req[c].batch[k])}
          \/ answer'[c] = "new" /\ "reactivation" \in apt[c] /\ Visible(current[k]) # None]_vars
=============================================================================
