------------------------------ MODULE GoalStore ------------------------------
(***************************************************************************)
(* /goal commands over one SQLite file, issued by several processes (the   *)
(* runtime, a second shell, a maintenance script).  A command is not one   *)
(* atomic step: GoalCommandHandler reads the goal to compare versions,     *)
(* GoalService reads it again and validates the revision it builds from    *)
(* that snapshot, GoalRepository replaces the row in a transaction of its  *)
(* own, and after the commit reads the goal once more to answer.  Each of  *)
(* those is a connection of its own and may fail or be cut by a crash.     *)
(*                                                                         *)
(* The tables are goals_current and goals_history.  SQLite is external:    *)
(* BEGIN IMMEDIATE takes the one write lock, a reader sees what was        *)
(* committed, a connection that closes before COMMIT leaves nothing.       *)
(***************************************************************************)
EXTENDS GoalPolicy

CONSTANTS
  Goal,      \* the identifiers uuid4 may hand out
  Client,    \* processes that run commands
  Versions   \* the values a user types after --version: bounds a run

ASSUME VersionsAssumption == Versions \subseteq Nat \ {0}

VARIABLES
  current,   \* goals_current: a row per goal, None before its INSERT
  history,   \* goals_history: the superseded rows of each goal
  lock,      \* the connection that holds SQLite's write lock, or None
  staged,    \* its uncommitted writes: the row it archives, the row it stores
  pc,        \* where each client is inside its command
  req,       \* the command it runs
  snap,      \* the row it builds its revision from, then the row it answers with
  answer,    \* how its last command was answered
  written    \* history variable: that command's transaction committed

tables == <<current, history>>
vars   == <<current, history, lock, staged, pc, req, snap, answer, written>>

Request ==
  [kind      : {"create", "update", "reopen", "restore"},
   goal      : Goal,
   expected  : Versions \cup {None},
   state     : State \cup {None},
   progress  : Progress \cup {None},
   content   : Content \cup {None},
   confirmed : BOOLEAN]

ASSUME ClientAssumption == None \notin Client \cup Request

Answer == {"none", "ok", "clarify", "missing", "conflict", "rejected", "failed"}

InTransaction == {"archive", "replace", "commit"}

Location == {"idle", "insert", "check", "load", "begin", "readback"} \cup InTransaction

NothingStaged == [archived |-> None, row |-> None]

TypeOK ==
  /\ current \in [Goal -> Row \cup {None}]
  /\ history \in [Goal -> SUBSET Row]
  /\ lock \in Client \cup {None}
  /\ staged \in [archived : Row \cup {None}, row : Row \cup {None}]
  /\ pc \in [Client -> Location]
  /\ req \in [Client -> Request \cup {None}]
  /\ snap \in [Client -> Row \cup {None}]
  /\ answer \in [Client -> Answer]
  /\ written \in [Client -> BOOLEAN]

Init ==
  /\ current = [g \in Goal |-> None]
  /\ history = [g \in Goal |-> {}]
  /\ lock = None
  /\ staged = NothingStaged
  /\ pc = [c \in Client |-> "idle"]
  /\ req = [c \in Client |-> None]
  /\ snap = [c \in Client |-> None]
  /\ answer = [c \in Client |-> "none"]
  /\ written = [c \in Client |-> FALSE]

-----------------------------------------------------------------------------
(* Control of one client.                                                  *)

GoTo(c, there) ==
  /\ pc' = [pc EXCEPT ![c] = there]
  /\ UNCHANGED <<req, answer>>

(* The command handler turns every outcome into one answer.                *)
Reply(c, outcome) ==
  /\ pc' = [pc EXCEPT ![c] = "idle"]
  /\ req' = [req EXCEPT ![c] = None]
  /\ answer' = [answer EXCEPT ![c] = outcome]

(* A command reaches the service; any earlier answer is forgotten.         *)
Start(c, r, there) ==
  /\ pc[c] = "idle"
  /\ pc' = [pc EXCEPT ![c] = there]
  /\ req' = [req EXCEPT ![c] = r]
  /\ answer' = [answer EXCEPT ![c] = "none"]
  /\ snap' = [snap EXCEPT ![c] = None]
  /\ written' = [written EXCEPT ![c] = FALSE]
  /\ UNCHANGED <<tables, lock, staged>>

(* A command turned away before the service touches the database: it needs *)
(* clarification, or its values make no goal.                              *)
TurnAway(c, outcome) ==
  /\ pc[c] = "idle"
  /\ answer' = [answer EXCEPT ![c] = outcome]
  /\ snap' = [snap EXCEPT ![c] = None]
  /\ written' = [written EXCEPT ![c] = FALSE]
  /\ UNCHANGED <<tables, lock, staged, pc, req>>

-----------------------------------------------------------------------------
(* The commands.                                                           *)

Asking(kind, g, expected, state, progress, content, confirmed) ==
  [kind |-> kind, goal |-> g, expected |-> expected, state |-> state,
   progress |-> progress, content |-> content, confirmed |-> confirmed]

(* create: a blank title or success condition needs clarification, a       *)
(* malformed deadline is rejected; authorize_creation accepts a user's own *)
(* goal, whose identifier is drawn before the INSERT.                      *)
SubmitCreate(c) ==
  \/ TurnAway(c, "clarify")
  \/ TurnAway(c, "rejected")
  \/ \E g \in Goal, content \in Content :
       Start(c, Asking("create", g, None, None, None, content, FALSE), "insert")

(* pause, resume, complete and cancel; --accept-success completes.         *)
SubmitState(c) ==
  \E g \in Goal, v \in Versions, s \in State, accepted \in BOOLEAN :
    IF s = "completed" /\ ~accepted
    THEN TurnAway(c, "clarify")
    ELSE Start(c, Asking("update", g, v, s, None, None, s = "completed"), "check")

(* Unknown progress carries no evidence; any other needs a summary and     *)
(* --confirm, which the service takes for the owner's confirmation.        *)
SubmitProgress(c) ==
  \E g \in Goal, v \in Versions, p \in Progress, evidence, confirmed \in BOOLEAN :
    IF (p = "unknown" /\ evidence) \/ (p # "unknown" /\ ~(evidence /\ confirmed))
    THEN TurnAway(c, "clarify")
    ELSE Start(c, Asking("update", g, v, None, p, None, confirmed), "check")

(* reopen and restore; a blank --reason needs clarification.               *)
SubmitActivation(c) ==
  \/ TurnAway(c, "clarify")
  \/ \E g \in Goal, v \in Versions, kind \in {"reopen", "restore"} :
       Start(c, Asking(kind, g, v, "active", None, None, FALSE), "check")

-----------------------------------------------------------------------------
(* Reads, each on a connection of its own, of the committed row.           *)

Reading(c) == UNCHANGED <<tables, lock, staged, written>>

(* GoalCommandHandler._require_version.                                    *)
CheckVersion(c) ==
  /\ pc[c] = "check"
  /\ Reading(c)
  /\ UNCHANGED snap
  /\ LET row == current[req[c].goal] IN
       \/ row = None /\ Reply(c, "missing")
       \/ row # None /\ row.version # req[c].expected /\ Reply(c, "conflict")
       \/ row # None /\ row.version = req[c].expected /\ GoTo(c, "load")

(* GoalService.update and _activate_terminal: a second read, a revision    *)
(* built from it, and GoalPolicy's verdict on that revision.               *)
LoadAndValidate(c) ==
  /\ pc[c] = "load"
  /\ Reading(c)
  /\ LET row == current[req[c].goal] IN
       \/ row = None /\ Reply(c, "missing") /\ UNCHANGED snap
       \/ row # None /\ ~Authorized(row, req[c]) /\ Reply(c, "rejected") /\ UNCHANGED snap
       \/ /\ row # None /\ Authorized(row, req[c])
          /\ snap' = [snap EXCEPT ![c] = row]
          /\ GoTo(c, "begin")

(* Mutant: the read-back compares versions, as the read before did.        *)
ReadBackComparing(c) ==
  /\ pc[c] = "readback"
  /\ Reading(c)
  /\ snap' = [snap EXCEPT ![c] = current[req[c].goal]]
  /\ LET row == current[req[c].goal]
         own == snap[c] = None \/ row.version = snap[c].version + 1
     IN Reply(c, IF own THEN "ok" ELSE "conflict")

(* GoalRepository._require: the read that follows a commit.                *)
ReadBack(c) ==
  /\ pc[c] = "readback"
  /\ Reading(c)
  /\ snap' = [snap EXCEPT ![c] = current[req[c].goal]]
  /\ Reply(c, IF current[req[c].goal] = None THEN "missing" ELSE "ok")

-----------------------------------------------------------------------------
(* The write transaction.                                                  *)

TakeLock(c) == lock = None /\ lock' = c

Rollback(c) ==
  /\ lock' = IF lock = c THEN None ELSE lock
  /\ staged' = IF lock = c THEN NothingStaged ELSE staged

(* Mutant: INSERT OR REPLACE.                                              *)
InsertOrReplace(c) ==
  /\ pc[c] = "insert"
  /\ TakeLock(c)
  /\ staged' = [NothingStaged EXCEPT !.row = InitialRow(req[c].content)]
  /\ GoTo(c, "commit")
  /\ UNCHANGED <<tables, snap, written>>

(* _create: BEGIN IMMEDIATE and the INSERT; the primary key refuses an     *)
(* identifier that exists.                                                 *)
Insert(c) ==
  /\ pc[c] = "insert"
  /\ lock = None
  /\ UNCHANGED <<tables, snap, written>>
  /\ \/ /\ current[req[c].goal] = None
        /\ TakeLock(c)
        /\ staged' = [NothingStaged EXCEPT !.row = InitialRow(req[c].content)]
        /\ GoTo(c, "commit")
     \/ /\ current[req[c].goal] # None
        /\ Reply(c, "failed")
        /\ UNCHANGED <<lock, staged>>

(* _replace up to its first write: BEGIN IMMEDIATE, SELECT, the guards.    *)
BeginReplace(c) ==
  /\ pc[c] = "begin"
  /\ lock = None
  /\ UNCHANGED <<tables, snap, written>>
  /\ LET row == current[req[c].goal] IN
       \/ /\ row = None
          /\ Reply(c, "missing")
          /\ UNCHANGED <<lock, staged>>
       \/ /\ row # None
          /\ row.version # req[c].expected
          /\ Reply(c, "conflict")
          /\ UNCHANGED <<lock, staged>>
       \/ /\ row # None
          /\ row.version = req[c].expected
          /\ row.state \notin ReplaceableStates(req[c].kind)
          /\ Reply(c, "failed")
          /\ UNCHANGED <<lock, staged>>
       \/ /\ row # None
          /\ row.version = req[c].expected
          /\ row.state \in ReplaceableStates(req[c].kind)
          /\ TakeLock(c)
          /\ staged' = [NothingStaged EXCEPT !.archived = row]
          /\ GoTo(c, "archive")

(* Mutant: the history row is written on a connection that autocommits.    *)
ArchiveAutocommitted(c) ==
  /\ pc[c] = "archive"
  /\ history' = [history EXCEPT ![req[c].goal] = @ \cup {staged.archived}]
  /\ GoTo(c, "replace")
  /\ UNCHANGED <<current, lock, staged, snap, written>>

(* _insert_history: the row the transaction read, under (goal_id, version).*)
Archive(c) ==
  /\ pc[c] = "archive"
  /\ UNCHANGED <<tables, snap, written>>
  /\ LET taken == \E row \in history[req[c].goal] :
                    row.version = staged.archived.version
     IN \/ taken /\ Rollback(c) /\ Reply(c, "failed")
        \/ ~taken /\ GoTo(c, "replace") /\ UNCHANGED <<lock, staged>>

(* _write_current: UPDATE ... WHERE version = expected must hit one row.   *)
(* The values are the revision built from the snapshot, not from the row.  *)
Replace(c) ==
  /\ pc[c] = "replace"
  /\ UNCHANGED <<tables, snap, written>>
  /\ \/ /\ current[req[c].goal].version = req[c].expected
        /\ staged' = [staged EXCEPT !.row = Proposed(snap[c], req[c])]
        /\ GoTo(c, "commit")
        /\ UNCHANGED lock
     \/ /\ current[req[c].goal].version # req[c].expected
        /\ Rollback(c)
        /\ Reply(c, "conflict")

(* Mutant: the superseded row is overwritten, not archived.                *)
CommitInPlace(c) ==
  /\ pc[c] = "commit"
  /\ current' = [current EXCEPT ![req[c].goal] = staged.row]
  /\ lock' = None
  /\ staged' = NothingStaged
  /\ written' = [written EXCEPT ![c] = TRUE]
  /\ GoTo(c, "readback")
  /\ UNCHANGED <<history, snap>>

(* The transaction ends: both writes appear at once and the lock is free.  *)
Commit(c) ==
  /\ pc[c] = "commit"
  /\ current' = [current EXCEPT ![req[c].goal] = staged.row]
  /\ history' = [history EXCEPT ![req[c].goal] = @ \cup ({staged.archived} \ {None})]
  /\ lock' = None
  /\ staged' = NothingStaged
  /\ written' = [written EXCEPT ![c] = TRUE]
  /\ GoTo(c, "readback")
  /\ UNCHANGED snap

-----------------------------------------------------------------------------
(* Failures: sqlite3.Error or OSError at any access (a busy database, a    *)
(* full disk), and the death of the process at any point.                  *)

(* Mutant: an error at COMMIT leaves the UPDATE but not the INSERT.        *)
StorageErrorHalfway(c) ==
  /\ pc[c] # "idle"
  /\ Rollback(c)
  /\ Reply(c, "failed")
  /\ snap' = [snap EXCEPT ![c] = None]
  /\ current' = IF pc[c] = "commit"
                THEN [current EXCEPT ![req[c].goal] = staged.row] ELSE current
  /\ UNCHANGED <<history, written>>

StorageError(c) ==
  /\ pc[c] # "idle"
  /\ Rollback(c)
  /\ Reply(c, "failed")
  /\ snap' = [snap EXCEPT ![c] = None]
  /\ UNCHANGED <<tables, written>>

Crash(c) ==
  /\ pc[c] # "idle"
  /\ Rollback(c)
  /\ Reply(c, "none")
  /\ snap' = [snap EXCEPT ![c] = None]
  /\ written' = [written EXCEPT ![c] = FALSE]
  /\ UNCHANGED tables

Step(c) ==
  \/ SubmitCreate(c) \/ SubmitState(c) \/ SubmitProgress(c) \/ SubmitActivation(c)
  \/ CheckVersion(c) \/ LoadAndValidate(c) \/ ReadBack(c)
  \/ Insert(c) \/ BeginReplace(c) \/ Archive(c) \/ Replace(c) \/ Commit(c)
  \/ StorageError(c) \/ Crash(c)

Next == \E c \in Client : Step(c)

Spec == Init /\ [][Next]_vars

-----------------------------------------------------------------------------
(* Properties.                                                             *)

Rows(g) == history[g] \cup ({current[g]} \ {None})

Ledger == INSTANCE GoalLedger WITH ledger <- [g \in Goal |-> Rows(g)]

(* The two tables are one ledger: history holds exactly the versions below *)
(* the current one, each once, and nothing for a goal that has no current  *)
(* row.  Two transactions, or half of one, would break it.                 *)
HistoryContiguous ==
  \A g \in Goal :
    /\ current[g] = None => history[g] = {}
    /\ current[g] # None =>
         {row.version : row \in history[g]} = 1 .. (current[g].version - 1)
    /\ \A r1, r2 \in Rows(g) : r1.version = r2.version => r1 = r2

(* Every stored version is a legal successor of the version before it, so  *)
(* a revision validated against a stale snapshot never lands: completed    *)
(* and cancelled goals come back only through reopen and restore.          *)
ChainLegal ==
  \A g \in Goal : \A old, new \in Rows(g) :
    new.version = old.version + 1 => Ledger!LegalSuccessor(old, new)

Rank == [p \in Progress |-> IF p = "unknown" THEN 0
                            ELSE IF p = "user_reported" THEN 1 ELSE 2]

(* Over the whole life of a goal, reopening included, the verification of  *)
(* its progress is never downgraded.                                       *)
EvidenceKept ==
  \A g \in Goal : \A old, new \in Rows(g) :
    old.version <= new.version => Rank[old.progress] <= Rank[new.progress]

(* A snapshot a command works on is always a version that is still stored: *)
(* what a client read is never lost, only superseded.                      *)
SnapshotsRecoverable ==
  \A c \in Client :
    req[c] # None /\ snap[c] # None => snap[c] \in Rows(req[c].goal)

(* The answers about writing are true: "changed" only after a commit, and  *)
(* after a conflict, a rejection, a missing goal or a request for          *)
(* clarification the store is as that command found it.                    *)
AnswersTruthful ==
  \A c \in Client :
    /\ answer[c] = "ok" => written[c]
    /\ answer[c] \in {"clarify", "missing", "conflict", "rejected"} => ~written[c]

(* Optimistic concurrency: when a stored row is replaced, the client that  *)
(* replaced it had read exactly that row, and the policy accepted its      *)
(* request for that row.  No update is lost between read and commit.       *)
NoLostUpdate ==
  [][\A g \in Goal :
       current[g] # None /\ current'[g] # current[g] =>
         \E c \in Client :
           /\ pc[c] = "commit" /\ req[c].goal = g
           /\ snap[c] = current[g]
           /\ Authorized(current[g], req[c])
           /\ current'[g] = Proposed(snap[c], req[c])]_current

(* What a command has committed stays stored until its answer, whoever     *)
(* revises the goal in between.                                            *)
CommittedKept ==
  \A c \in Client :
    pc[c] = "readback" /\ req[c].kind # "create" =>
      Proposed(snap[c], req[c]) \in Rows(req[c].goal)

(* The store implements the ledger.                                        *)
ImplementsLedger == Ledger!LedgerSpec

(* Refuted.  The answer "could not be written to storage" of commands.py   *)
(* is also given when only the read after the commit failed.               *)
FailedMeansUnwritten ==
  \A c \in Client : answer[c] = "failed" => ~written[c]
=============================================================================
