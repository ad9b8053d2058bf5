---------------------------- MODULE DatabaseFiles ----------------------------
(***************************************************************************)
(* The SQLite file and its backup: the import of the legacy JSON files     *)
(* into version 1, the schema migrations from there to 4, backups of the   *)
(* file while it is in use, and the runtime that writes it.  Several       *)
(* processes may do any of these at once, fail, or crash.                  *)
(*                                                                         *)
(* A migration is one transaction that adds tables or columns and replaces *)
(* the row of schema_version.  An import looks at the version on its own   *)
(* connection and inserts record by record in a transaction, of which the  *)
(* model has one memory and one fact; a record that is there already must  *)
(* be the same.  A backup reads the database under a read transaction,     *)
(* copies it into a partial file beside its destination, verifies a        *)
(* restored copy of that against what it read, and only then gives it the  *)
(* destination's name: os.replace if the user asked for an overwrite, else *)
(* os.link, which fails if the name is taken.                              *)
(*                                                                         *)
(* SQLite and the file system are external: BEGIN IMMEDIATE takes the one  *)
(* write lock, a commit waits for the readers or fails, and link and       *)
(* replace are atomic.  What the stores hold beside the imported records   *)
(* is a number of writes.                                                  *)
(***************************************************************************)
EXTENDS Naturals, FiniteSets

CONSTANTS
  Client,        \* processes
  None,          \* no file
  Blank,         \* a file that is not a database yet
  Content,       \* what the JSON files say, at one time or another
  MaxData        \* bound: writes of the runtime

VARIABLES
  database,      \* the database file: [version, parts, data]
  destination,   \* the backup file
  partial,       \* the .partial file of each backup; one left behind by a
                 \* crash has a name that nobody uses again
  lock,          \* the connection that holds the write lock, or None
  readers,       \* clients that hold a read transaction on the database
  staged,        \* the uncommitted database of the lock's holder
  pc, req, seen, \* where a client is, its request, the snapshot it read
  answer,
  committed      \* history: every database there has been

vars == <<database, destination, partial, lock, readers, staged, pc, req, seen,
          answer, committed>>

Version == 1 .. 4
Part == {"identity", "goals", "retirement"}

(* What each migration adds, and so what a database of a version has.      *)
AddedBy == [v \in 2 .. 4 |-> IF v = 2 THEN "identity" ELSE IF v = 3 THEN "goals"
                             ELSE "retirement"]

PartsOf(version) == {AddedBy[v] : v \in 2 .. version}

(* memory and fact are the records an import brings, None until it does.   *)
Database ==
  [version : Version, parts : SUBSET Part, data : 0 .. MaxData,
   memory : Content \cup {None}, fact : Content \cup {None}]

(* validate_existing, _validate_v2 to _v4 and _read_and_validate agree.    *)
Valid(file) == file.parts = PartsOf(file.version)

Request ==
  [kind : {"migrate"}, to : 2 .. 4] \cup [kind : {"backup"}, overwrite : BOOLEAN]
    \cup [kind : {"import"}, content : Content]

ASSUME FilesAssumption ==
  /\ MaxData \in Nat
  /\ None \notin Client \cup Content /\ None \notin Database \cup Request
  /\ None # Blank /\ Blank \notin Database

Location ==
  {"idle", "begin", "alter", "stamp", "commit",
   "version", "import", "memory", "fact", "finish",
   "snapshot", "create", "copy", "verify", "publish", "unlink"}

Answer == {"none", "migrated", "current", "refused", "imported", "conflict",
           "validated", "exists", "failed"}

TypeOK ==
  /\ database \in Database /\ staged \in Database \cup {None}
  /\ destination \in Database \cup {None, Blank}
  /\ partial \in [Client -> Database \cup {None, Blank}]
  /\ lock \in Client \cup {None} /\ readers \subseteq Client
  /\ pc \in [Client -> Location] /\ req \in [Client -> Request \cup {None}]
  /\ seen \in [Client -> Database \cup {None}]
  /\ answer \in [Client -> Answer]
  /\ committed \subseteq Database

Init ==
  /\ database \in {[version |-> v, parts |-> PartsOf(v), data |-> 0,
                     memory |-> None, fact |-> None] : v \in Version}
  /\ destination \in {None, database}
  /\ partial = [c \in Client |-> None]
  /\ lock = None /\ readers = {} /\ staged = None
  /\ pc = [c \in Client |-> "idle"]
  /\ req = [c \in Client |-> None]
  /\ seen = [c \in Client |-> None]
  /\ answer = [c \in Client |-> "none"]
  /\ committed = {database}

-----------------------------------------------------------------------------
(* Control of one client.                                                  *)

Ask(c, request, there) ==
  /\ pc[c] = "idle"
  /\ pc' = [pc EXCEPT ![c] = there]
  /\ req' = [req EXCEPT ![c] = request]
  /\ answer' = [answer EXCEPT ![c] = "none"]

GoTo(c, here, there) ==
  /\ pc[c] = here
  /\ pc' = [pc EXCEPT ![c] = there]
  /\ UNCHANGED <<req, answer>>

(* Whatever way a call ends, its connections and transactions are closed.  *)
Leave(c, outcome) ==
  /\ pc' = [pc EXCEPT ![c] = "idle"]
  /\ req' = [req EXCEPT ![c] = None]
  /\ seen' = [seen EXCEPT ![c] = None]
  /\ answer' = [answer EXCEPT ![c] = outcome]
  /\ readers' = readers \ {c}
  /\ lock' = IF lock = c THEN None ELSE lock
  /\ staged' = IF lock = c THEN None ELSE staged

(* The finally block of a backup; an OSError of the unlink is ignored.     *)
Cleanup(c) == partial' = partial \/ partial' = [partial EXCEPT ![c] = None]

Store(file) == database' = file /\ committed' = committed \cup {file}

-----------------------------------------------------------------------------
(* The runtime and the migrations.                                         *)

(* create_runtime_nel: a runtime starts only on the active schema, which   *)
(* nothing migrates away from.                                             *)
RuntimeStarts == database.version = 4 /\ Valid(database)

(* A transaction of the runtime; it may set the fact the files speak of.   *)
Write ==
  /\ RuntimeStarts /\ database.data < MaxData
  /\ lock = None /\ readers = {}
  /\ \E fact \in Content \cup {database.fact} :
       Store([database EXCEPT !.data = @ + 1, !.fact = fact])
  /\ UNCHANGED <<destination, partial, lock, readers, staged, pc, req, seen, answer>>

AskMigration(c) ==
  /\ \E to \in 2 .. 4 : Ask(c, [kind |-> "migrate", to |-> to], "begin")
  /\ UNCHANGED <<database, destination, partial, lock, readers, staged, seen, committed>>

(* A database that is there already is only validated; any other version   *)
(* but the one before is refused, and so is an invalid database.           *)
BeginMigration(c) ==
  /\ pc[c] = "begin" /\ lock = None
  /\ LET to == req[c].to
         ready == database.version = to - 1 /\ Valid(database)
     IN \/ /\ ready
           /\ GoTo(c, "begin", "alter")
           /\ lock' = c /\ staged' = database
           /\ UNCHANGED <<readers, seen>>
        \/ /\ ~ready
           /\ Leave(c, IF database.version = to /\ Valid(database)
                       THEN "current" ELSE "refused")
  /\ UNCHANGED <<database, destination, partial, committed>>

(* Mutant: the tables are altered outside the transaction.                 *)
AlterAutocommitted(c) ==
  /\ GoTo(c, "alter", "stamp")
  /\ staged' = [staged EXCEPT !.parts = @ \cup {AddedBy[req[c].to]}]
  /\ Store(staged')
  /\ UNCHANGED <<destination, partial, lock, readers, seen>>

(* CREATE TABLE, CREATE TRIGGER, CREATE INDEX or ALTER TABLE.              *)
Alter(c) ==
  /\ GoTo(c, "alter", "stamp")
  /\ staged' = [staged EXCEPT !.parts = @ \cup {AddedBy[req[c].to]}]
  /\ UNCHANGED <<database, destination, partial, lock, readers, seen, committed>>

(* Mutant: the version is counted up from the one asked for.               *)
StampNext(c) ==
  /\ GoTo(c, "stamp", "commit")
  /\ staged' = [staged EXCEPT !.version = req[c].to + 1]
  /\ UNCHANGED <<database, destination, partial, lock, readers, seen, committed>>

(* The one row of schema_version is deleted and inserted.                  *)
Stamp(c) ==
  /\ GoTo(c, "stamp", "commit")
  /\ staged' = [staged EXCEPT !.version = req[c].to]
  /\ UNCHANGED <<database, destination, partial, lock, readers, seen, committed>>

CommitMigration(c) ==
  /\ pc[c] = "commit" /\ Valid(staged) /\ readers = {}
  /\ Store(staged)
  /\ Leave(c, "migrated")
  /\ UNCHANGED <<destination, partial>>

-----------------------------------------------------------------------------
(* The import of the JSON files.                                           *)

AskImport(c) ==
  /\ \E content \in Content : Ask(c, [kind |-> "import", content |-> content], "version")
  /\ UNCHANGED <<database, destination, partial, lock, readers, staged, seen, committed>>

CheckVersion(c) ==
  /\ \/ database.version = 1 /\ GoTo(c, "version", "import")
        /\ UNCHANGED <<seen, readers, lock, staged>>
     \/ pc[c] = "version" /\ database.version # 1 /\ Leave(c, "refused")
  /\ UNCHANGED <<database, destination, partial, committed>>

(* By now the database may be of any later version.                        *)
BeginImport(c) ==
  /\ lock = None
  /\ GoTo(c, "import", "memory")
  /\ lock' = c /\ staged' = database
  /\ UNCHANGED <<database, destination, partial, readers, seen, committed>>

(* Mutant: every record is committed by itself.                            *)
ImportMemoryAutocommitted(c) ==
  /\ GoTo(c, "memory", "fact")
  /\ staged.memory \in {None, req[c].content}
  /\ staged' = [staged EXCEPT !.memory = req[c].content]
  /\ Store(staged')
  /\ UNCHANGED <<destination, partial, lock, readers, seen>>

ImportMemory(c) ==
  /\ pc[c] = "memory"
  /\ \/ staged.memory \in {None, req[c].content}
        /\ GoTo(c, "memory", "fact")
        /\ staged' = [staged EXCEPT !.memory = req[c].content]
        /\ UNCHANGED <<lock, readers, seen>>
     \/ staged.memory \notin {None, req[c].content}
        /\ Leave(c, "conflict")
  /\ UNCHANGED <<database, destination, partial, committed>>

ImportFact(c) ==
  /\ pc[c] = "fact"
  /\ \/ staged.fact \in {None, req[c].content}
        /\ GoTo(c, "fact", "finish")
        /\ staged' = [staged EXCEPT !.fact = req[c].content]
        /\ UNCHANGED <<lock, readers, seen>>
     \/ staged.fact \notin {None, req[c].content}
        /\ Leave(c, "conflict")
  /\ UNCHANGED <<database, destination, partial, committed>>

CommitImport(c) ==
  /\ pc[c] = "finish" /\ readers = {}
  /\ Store(staged)
  /\ Leave(c, "imported")
  /\ UNCHANGED <<destination, partial>>

-----------------------------------------------------------------------------
(* Backups.                                                                *)

AskBackup(c) ==
  /\ \E overwrite \in BOOLEAN :
       /\ destination = None \/ overwrite
       /\ Ask(c, [kind |-> "backup", overwrite |-> overwrite], "snapshot")
  /\ UNCHANGED <<database, destination, partial, lock, readers, staged, seen, committed>>

TurnAway(c) ==
  /\ pc[c] = "idle" /\ destination # None
  /\ answer' = [answer EXCEPT ![c] = "exists"]
  /\ UNCHANGED <<database, destination, partial, lock, readers, staged, pc, req, seen,
                 committed>>

(* Mutant: without BEGIN, every statement is a read of its own.            *)
SnapshotUnlocked(c) ==
  /\ Valid(database)
  /\ GoTo(c, "snapshot", "create")
  /\ seen' = [seen EXCEPT ![c] = database]
  /\ UNCHANGED <<database, destination, partial, lock, readers, staged, committed>>

(* BEGIN and the reads of _read_and_validate.  The read transaction stays  *)
(* open until the copy is made.                                            *)
Snapshot(c) ==
  /\ Valid(database)
  /\ GoTo(c, "snapshot", "create")
  /\ seen' = [seen EXCEPT ![c] = database]
  /\ readers' = readers \cup {c}
  /\ UNCHANGED <<database, destination, partial, lock, staged, committed>>

CreatePartial(c) ==
  /\ GoTo(c, "create", "copy")
  /\ partial' = [partial EXCEPT ![c] = Blank]
  /\ UNCHANGED <<database, destination, lock, readers, staged, seen, committed>>

(* Connection.backup reads the database through the same connection.       *)
Copy(c) ==
  /\ GoTo(c, "copy", "verify")
  /\ partial' = [partial EXCEPT ![c] = database]
  /\ readers' = readers \ {c}
  /\ UNCHANGED <<database, destination, lock, staged, seen, committed>>

(* A restored copy must be valid and hold what was read of the source.     *)
Matches(c) == partial[c] = seen[c] /\ Valid(partial[c])

Verify(c) ==
  /\ pc[c] = "verify" /\ Matches(c)
  /\ GoTo(c, "verify", "publish")
  /\ UNCHANGED <<database, destination, partial, lock, readers, staged, seen, committed>>

Replace(c) ==
  /\ pc[c] = "publish" /\ req[c].overwrite
  /\ destination' = partial[c]
  /\ partial' = [partial EXCEPT ![c] = None]
  /\ Leave(c, "validated")
  /\ UNCHANGED <<database, committed>>

(* Mutant: the name is taken whether it is free or not.                    *)
LinkAnyway(c) ==
  /\ pc[c] = "publish" /\ ~req[c].overwrite
  /\ GoTo(c, "publish", "unlink")
  /\ destination' = partial[c]
  /\ UNCHANGED <<database, partial, lock, readers, staged, seen, committed>>

(* os.link: another process may have taken the name since it was looked at.*)
Link(c) ==
  /\ pc[c] = "publish" /\ ~req[c].overwrite
  /\ \/ /\ destination = None
        /\ GoTo(c, "publish", "unlink")
        /\ destination' = partial[c]
        /\ UNCHANGED <<partial, lock, readers, staged, seen>>
     \/ /\ destination # None
        /\ Leave(c, "exists")
        /\ Cleanup(c)
        /\ UNCHANGED destination
  /\ UNCHANGED <<database, committed>>

Unlink(c) ==
  /\ pc[c] = "unlink"
  /\ partial' = [partial EXCEPT ![c] = None]
  /\ Leave(c, "validated")
  /\ UNCHANGED <<database, destination, committed>>

-----------------------------------------------------------------------------

(* An error of SQLite or of the file system, a wait that times out, or a   *)
(* validation that fails.                                                  *)
Fail(c) ==
  /\ pc[c] # "idle"
  /\ Leave(c, "failed")
  /\ IF req[c].kind = "backup" THEN Cleanup(c) ELSE UNCHANGED partial
  /\ UNCHANGED <<database, destination, committed>>

Crash(c) ==
  /\ pc[c] # "idle"
  /\ Leave(c, "none")
  /\ UNCHANGED <<database, destination, partial, committed>>

Migrate(c) == AskMigration(c) \/ BeginMigration(c) \/ Alter(c) \/ Stamp(c) \/ CommitMigration(c)

Backup(c) ==
  AskBackup(c) \/ TurnAway(c) \/ Snapshot(c) \/ CreatePartial(c) \/ Copy(c)
    \/ Verify(c) \/ Replace(c) \/ Link(c) \/ Unlink(c)

Import(c) ==
  AskImport(c) \/ CheckVersion(c) \/ BeginImport(c) \/ ImportMemory(c) \/ ImportFact(c)
    \/ CommitImport(c)

Next ==
  Write \/ \E c \in Client : Migrate(c) \/ Import(c) \/ Backup(c) \/ Fail(c) \/ Crash(c)

Spec == Init /\ [][Next]_vars

-----------------------------------------------------------------------------
(* Properties.                                                             *)

(* Whatever fails or crashes, and whoever else is at work: the database is *)
(* wholly of the version it says, and the backup is no partial file but a  *)
(* database that there has been, with the parts and the data of that time. *)
FilesWhole ==
  /\ Valid(database)
  /\ destination # None => destination \in committed

(* An import is done whole and once: the step that brings the memory brings*)
(* the fact with it or finds it equal, both as one client's files say, and *)
(* what was imported is never imported over, however often and in however  *)
(* many processes the import is tried again, and however late it comes.    *)
ImportWhole ==
  [][database'.memory # database.memory =>
       /\ database.memory = None
       /\ database.fact \in {None, database'.memory}
       /\ database'.fact = database'.memory
       /\ \E c \in Client : pc[c] = "finish" /\ req[c].content = database'.memory]_database

(* A copy equals the snapshot it will be compared with: writers beside a   *)
(* backup wait, and never make it fail its verification.                   *)
CopyMatchesSnapshot ==
  \A c \in Client :
    pc[c] \in {"verify", "publish", "unlink"} => partial[c] = seen[c]

(* A backup that exists is replaced only by a run that was asked to, with  *)
(* the snapshot of that run; it never goes away.  Looking for the name     *)
(* before the backup is not enough for this.                               *)
NotOverwrittenUnasked ==
  [][destination # None =>
       \E c \in Client :
         pc[c] = "publish" /\ req[c].overwrite /\ destination' = seen[c]]_destination
=============================================================================
