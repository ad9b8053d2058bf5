------------------------- MODULE DatabaseFilesProofs -------------------------
(***************************************************************************)
(* Proofs about DatabaseFiles, for any processes and any contents of the   *)
(* JSON files.  While a process holds the write lock nobody else changes   *)
(* the database, so what it has staged is the database with a part of its  *)
(* own work done; while a backup reads, nobody changes it at all, so the   *)
(* copy is the snapshot.                                                   *)
(***************************************************************************)
EXTENDS DatabaseFiles, TLAPS

Migrating == {"begin", "alter", "stamp", "commit"}
Importing == {"version", "import", "memory", "fact", "finish"}
BackingUp == {"snapshot", "create", "copy", "verify", "publish", "unlink"}

(* Where a client holds the write lock, and where a read transaction.      *)
Locking == {"alter", "stamp", "commit", "memory", "fact", "finish"}
Reading == {"create", "copy"}

Control(c) ==
  /\ pc[c] = "idle" <=> req[c] = None
  /\ pc[c] \in Migrating => req[c].kind = "migrate"
  /\ pc[c] \in Importing => req[c].kind = "import"
  /\ pc[c] \in BackingUp => req[c].kind = "backup"
  /\ lock = c <=> pc[c] \in Locking
  /\ c \in readers <=> pc[c] \in Reading

(* How far the holder of the lock has come.                                *)
MigrationTx(c) ==
  pc[c] \in {"alter", "stamp", "commit"} =>
    /\ staged \in Database
    /\ database.version = req[c].to - 1
    /\ staged.memory = database.memory
    /\ staged.parts = PartsOf(IF pc[c] = "alter" THEN req[c].to - 1 ELSE req[c].to)
    /\ pc[c] = "commit" => staged.version = req[c].to

ImportTx(c) ==
  pc[c] \in {"memory", "fact", "finish"} =>
    /\ staged \in Database
    /\ staged.version = database.version /\ staged.parts = database.parts
    /\ pc[c] = "memory" => staged.memory = database.memory
    /\ pc[c] \in {"fact", "finish"} =>
         staged.memory = req[c].content /\ database.memory \in {None, req[c].content}
    /\ pc[c] \in {"memory", "fact"} => staged.fact = database.fact
    /\ pc[c] = "finish" =>
         staged.fact = req[c].content /\ database.fact \in {None, req[c].content}

BackupTx(c) ==
  /\ pc[c] \in Reading => seen[c] = database
  /\ pc[c] \in {"verify", "publish", "unlink"} => partial[c] = seen[c] /\ seen[c] \in committed

At(c) == Control(c) /\ MigrationTx(c) /\ ImportTx(c) /\ BackupTx(c)

Files == Valid(database) /\ database \in committed /\ destination \in committed \cup {None}

Inv == TypeOK /\ Files /\ \A c \in Client : At(c)

-----------------------------------------------------------------------------
(* Data.                                                                   *)

LEMMA PartsGrow ==
  /\ \A v \in Version : PartsOf(v) \subseteq Part
  /\ \A to \in 2 .. 4 : /\ to \in Version /\ to - 1 \in Version
                        /\ AddedBy[to] \in Part
                        /\ PartsOf(to) = PartsOf(to - 1) \cup {AddedBy[to]}
<1>1. \A to \in 2 .. 4 : to \in Version /\ to - 1 \in Version /\ AddedBy[to] \in Part
  BY DEF Version, AddedBy, Part
<1>2. \A v \in Version : PartsOf(v) \subseteq Part
  <2>1. \A v \in Version : 2 .. v \subseteq 2 .. 4
    BY DEF Version
  <2>2. QED
    BY <1>1, <2>1 DEF PartsOf
<1>3. ASSUME NEW to \in 2 .. 4 PROVE PartsOf(to) = PartsOf(to - 1) \cup {AddedBy[to]}
  <2>1. 2 .. to = (2 .. (to - 1)) \cup {to}
    OBVIOUS
  <2>2. QED
    BY <2>1 DEF PartsOf
<1>4. QED
  BY <1>1, <1>2, <1>3

(* What each kind of request asks.                                         *)
LEMMA RequestShape ==
  ASSUME NEW r \in Request
  PROVE  /\ r.kind = "migrate" => r.to \in 2 .. 4
         /\ r.kind = "import" => r.content \in Content
         /\ r.kind = "backup" => r.overwrite \in BOOLEAN
BY DEF Request

LEMMA Asked ==
  ASSUME TypeOK, NEW c \in Client, Control(c), pc[c] # "idle"
  PROVE  /\ req[c] \in Request
         /\ pc[c] \in Migrating => req[c].to \in 2 .. 4
         /\ pc[c] \in Importing => req[c].content \in Content
BY RequestShape DEF TypeOK, Control

-----------------------------------------------------------------------------
(* A step of one client leaves the others where they are, and what they    *)
(* rely on as it was.                                                      *)

Step(c) == Migrate(c) \/ Import(c) \/ Backup(c) \/ Fail(c) \/ Crash(c)

LEMMA OthersLeft ==
  ASSUME Inv, NEW c \in Client, Step(c), NEW d \in Client \ {c}
  PROVE  /\ pc'[d] = pc[d] /\ req'[d] = req[d] /\ seen'[d] = seen[d] /\ partial'[d] = partial[d]
         /\ d \in readers' <=> d \in readers
         /\ lock' = d <=> lock = d
<1>1. TypeOK /\ Control(c) /\ Control(d) /\ None \notin Client
  BY FilesAssumption DEF Inv, At
<1> USE <1>1 DEF TypeOK, GoTo, Leave, Ask, Cleanup
<1>2. CASE Migrate(c)
  BY <1>2 DEF Migrate, AskMigration, BeginMigration, Alter, Stamp, CommitMigration
<1>3. CASE Import(c)
  BY <1>3 DEF Import, AskImport, CheckVersion, BeginImport, ImportMemory, ImportFact, CommitImport
<1>4. CASE Backup(c)
  BY <1>4 DEF Backup, AskBackup, TurnAway, Snapshot, CreatePartial, Copy, Verify, Replace, Link,
              Unlink
<1>5. CASE Fail(c) \/ Crash(c)
  BY <1>5 DEF Fail, Crash
<1>6. QED
  BY <1>2, <1>3, <1>4, <1>5 DEF Step

(* The database changes in a commit, of a holder of the lock and while     *)
(* nobody reads it, or in a write of the runtime.                          *)
LEMMA OnlyCommitsStore ==
  ASSUME Inv, NEW c \in Client, Step(c)
  PROVE  /\ \/ UNCHANGED <<database, committed>>
            \/ /\ CommitMigration(c) \/ CommitImport(c)
               /\ Store(staged) /\ lock = c /\ readers = {}
         /\ \/ UNCHANGED staged
            \/ lock = c \/ lock = None
<1>1. Control(c)
  BY DEF Inv, At
<1> USE <1>1 DEF GoTo, Leave, Ask, Control, Locking
<1>2. CASE Migrate(c)
  BY <1>2 DEF Migrate, AskMigration, BeginMigration, Alter, Stamp, CommitMigration
<1>3. CASE Import(c)
  BY <1>3 DEF Import, AskImport, CheckVersion, BeginImport, ImportMemory, ImportFact, CommitImport
<1>4. CASE Backup(c)
  BY <1>4 DEF Backup, AskBackup, TurnAway, Snapshot, CreatePartial, Copy, Verify, Replace, Link,
              Unlink
<1>5. CASE Fail(c) \/ Crash(c)
  BY <1>5 DEF Fail, Crash
<1>6. QED
  BY <1>2, <1>3, <1>4, <1>5 DEF Step

(* A client that takes no step keeps what it has established, as long as   *)
(* its locks and its files are respected.                                  *)
LEMMA AtLeft ==
  ASSUME TypeOK, NEW d \in Client, At(d),
         pc'[d] = pc[d] /\ req'[d] = req[d] /\ seen'[d] = seen[d] /\ partial'[d] = partial[d],
         d \in readers' <=> d \in readers, lock' = d <=> lock = d,
         lock = d => UNCHANGED <<database, staged>>,
         d \in readers => UNCHANGED database,
         committed \subseteq committed'
  PROVE  At(d)'
BY DEF At, Control, MigrationTx, ImportTx, BackupTx, Locking, Reading

LEMMA OthersStay ==
  ASSUME Inv, NEW c \in Client, Step(c), NEW d \in Client \ {c}
  PROVE  At(d)'
<1>1. TypeOK /\ At(d) /\ None \notin Client
  BY FilesAssumption DEF Inv
<1>2. lock = d => UNCHANGED <<database, staged>>
  BY <1>1, OnlyCommitsStore
<1>3. d \in readers => UNCHANGED database
  BY OnlyCommitsStore
<1>4. committed \subseteq committed'
  BY OnlyCommitsStore DEF Store
<1>5. QED
  BY <1>1, <1>2, <1>3, <1>4, OthersLeft, AtLeft


(* A client that has left holds nothing and relies on nothing.             *)
LEMMA LeftHasNothing ==
  ASSUME TypeOK, NEW c \in Client, NEW outcome, Leave(c, outcome)
  PROVE  At(c)'
<1>1. /\ pc'[c] = "idle" /\ req'[c] = None /\ c \notin readers' /\ lock' # c
  BY FilesAssumption DEF TypeOK, Leave
<1>2. QED
  BY <1>1 DEF At, Control, MigrationTx, ImportTx, BackupTx, Migrating, Importing, BackingUp,
              Locking, Reading

LEMMA LeaveTyped ==
  ASSUME TypeOK, NEW c \in Client, NEW outcome \in Answer, Leave(c, outcome)
  PROVE  /\ pc' \in [Client -> Location] /\ req' \in [Client -> Request \cup {None}]
         /\ seen' \in [Client -> Database \cup {None}] /\ answer' \in [Client -> Answer]
         /\ readers' \subseteq Client /\ lock' \in Client \cup {None}
         /\ staged' \in Database \cup {None}
BY DEF TypeOK, Leave, Location

LEMMA CleanupTyped ==
  ASSUME TypeOK, NEW c \in Client, Cleanup(c)
  PROVE  partial' \in [Client -> Database \cup {None, Blank}]
BY DEF TypeOK, Cleanup

(* The runtime writes only to a database nobody has locked or reads.       *)
LEMMA WriteKeeps ==
  ASSUME Inv, Write
  PROVE  Inv'
<1>1. /\ TypeOK /\ Files /\ None \notin Client /\ lock = None /\ readers = {}
      /\ database.version = 4 /\ database.data + 1 \in 0 .. MaxData
  BY FilesAssumption DEF Inv, Write, RuntimeStarts, TypeOK, Database
<1>2. PICK fact \in Content \cup {database.fact} :
        Store([database EXCEPT !.data = @ + 1, !.fact = fact])
  BY DEF Write
<1>3. PICK new \in Database : new = [database EXCEPT !.data = @ + 1, !.fact = fact]
                              /\ new.parts = database.parts /\ new.version = database.version
  <2> DEFINE counted == [database EXCEPT !.data = @ + 1]
  <2>1. /\ counted \in Database
        /\ counted.parts = database.parts /\ counted.version = database.version
    BY <1>1 DEF TypeOK, Database
  <2>2. [database EXCEPT !.data = @ + 1, !.fact = fact] = [counted EXCEPT !.fact = fact]
    OBVIOUS
  <2>3. fact \in Content \cup {None}
    BY <1>1 DEF TypeOK, Database
  <2> HIDE DEF counted
  <2>4. /\ [counted EXCEPT !.fact = fact] \in Database
        /\ [counted EXCEPT !.fact = fact].parts = counted.parts
        /\ [counted EXCEPT !.fact = fact].version = counted.version
    BY <2>1, <2>3 DEF Database
  <2>5. QED
    BY <2>1, <2>2, <2>4
<1>4. database' = new /\ committed' = committed \cup {new}
  BY <1>2, <1>3 DEF Store
<1>5. TypeOK'
  BY <1>1, <1>4 DEF TypeOK, Write
<1>6. Files'
  BY <1>1, <1>3, <1>4 DEF Files, Valid, Write
<1>7. \A d \in Client : At(d)'
  BY <1>1, <1>4, AtLeft DEF Inv, Write
<1>8. QED
  BY <1>5, <1>6, <1>7 DEF Inv

-----------------------------------------------------------------------------
(* The steps of one client.                                                *)

LEMMA RequestsMade ==
  /\ \A to \in 2 .. 4 : [kind |-> "migrate", to |-> to] \in Request
  /\ \A content \in Content : [kind |-> "import", content |-> content] \in Request
  /\ \A overwrite \in BOOLEAN : [kind |-> "backup", overwrite |-> overwrite] \in Request
BY DEF Request

LEMMA AskKeeps ==
  ASSUME Inv, NEW c \in Client, AskMigration(c) \/ AskImport(c) \/ AskBackup(c) \/ TurnAway(c)
  PROVE  TypeOK' /\ Files' /\ At(c)'
<1>1. TypeOK /\ Files /\ At(c)
  BY DEF Inv
<1>2. CASE TurnAway(c)
  BY <1>1, <1>2
     DEF TurnAway, TypeOK, Answer, Files, Valid, At, Control, MigrationTx, ImportTx, BackupTx
<1>3. CASE AskMigration(c) \/ AskImport(c) \/ AskBackup(c)
  <2>1. PICK r \in Request, there \in {"begin", "version", "snapshot"} :
          /\ Ask(c, r, there)
          /\ there = "begin" => r.kind = "migrate"
          /\ there = "version" => r.kind = "import"
          /\ there = "snapshot" => r.kind = "backup"
          /\ UNCHANGED <<database, destination, partial, lock, readers, staged, seen, committed>>
    BY <1>3, RequestsMade DEF AskMigration, AskImport, AskBackup
  <2>2. TypeOK' /\ Files'
    BY <1>1, <2>1 DEF Ask, TypeOK, Files, Valid, Location, Answer
  <2>3. /\ pc[c] = "idle" /\ pc'[c] = there /\ req'[c] = r /\ r # None
    BY <1>1, <2>1, FilesAssumption DEF Ask, TypeOK
  <2>4. At(c)'
    BY <1>1, <2>1, <2>3
       DEF At, Control, MigrationTx, ImportTx, BackupTx, Migrating, Importing, BackingUp,
           Locking, Reading
  <2>5. QED
    BY <2>2, <2>4
<1>4. QED
  BY <1>2, <1>3

LEMMA EndKeeps ==
  ASSUME Inv, NEW c \in Client, Fail(c) \/ Crash(c)
  PROVE  TypeOK' /\ Files' /\ At(c)'
<1>1. TypeOK /\ Files
  BY DEF Inv
<1>2. PICK outcome \in Answer : Leave(c, outcome)
  BY DEF Fail, Crash, Answer
<1>3. partial' \in [Client -> Database \cup {None, Blank}]
  BY <1>1, CleanupTyped DEF Fail, Crash, TypeOK
<1>4. TypeOK'
  BY <1>1, <1>2, <1>3, LeaveTyped DEF TypeOK, Fail, Crash
<1>5. QED
  BY <1>1, <1>2, <1>4, LeftHasNothing DEF Files, Valid, Fail, Crash


LEMMA MigrationKeeps ==
  ASSUME Inv, NEW c \in Client,
         BeginMigration(c) \/ Alter(c) \/ Stamp(c) \/ CommitMigration(c)
  PROVE  TypeOK' /\ Files' /\ At(c)'
<1>1. /\ TypeOK /\ Files /\ At(c) /\ pc[c] \in Migrating
      /\ database \in Database /\ None \notin Database /\ None \notin Client
  BY FilesAssumption
     DEF Inv, TypeOK, BeginMigration, Alter, Stamp, CommitMigration, GoTo, Migrating
<1>2. PICK to \in 2 .. 4 : req[c].to = to
  BY <1>1, Asked DEF At, Migrating
<1>3. ASSUME NEW outcome \in Answer, Leave(c, outcome),
             UNCHANGED <<database, destination, partial, committed>>
      PROVE  TypeOK' /\ Files' /\ At(c)'
  BY <1>1, <1>3, LeaveTyped, LeftHasNothing DEF TypeOK, Files, Valid
<1>4. CASE BeginMigration(c)
  <2>1. CASE \E outcome \in {"current", "refused"} : Leave(c, outcome)
    BY <1>3, <1>4, <2>1 DEF BeginMigration, Answer
  <2>2. CASE /\ database.version = to - 1 /\ Valid(database) /\ GoTo(c, "begin", "alter")
             /\ lock' = c /\ staged' = database /\ UNCHANGED <<readers, seen>>
    <3>1. TypeOK' /\ Files'
      BY <1>1, <1>4, <2>2 DEF BeginMigration, GoTo, TypeOK, Files, Valid, Location
    <3>2. pc[c] = "begin" /\ pc'[c] = "alter" /\ req'[c] = req[c]
      BY <1>1, <2>2 DEF GoTo, TypeOK
    <3>3. Control(c)'
      BY <1>1, <2>2, <3>2
         DEF At, Control, Migrating, Importing, BackingUp, Locking, Reading
    <3>4. MigrationTx(c)'
      BY <1>1, <1>2, <1>4, <2>2, <3>2 DEF MigrationTx, BeginMigration, Valid, PartsOf
    <3>5. (ImportTx(c) /\ BackupTx(c))'
      BY <3>2 DEF ImportTx, BackupTx, Reading
    <3>6. QED
      BY <3>1, <3>3, <3>4, <3>5 DEF At
  <2>3. QED
    BY <1>2, <1>4, <2>1, <2>2 DEF BeginMigration
<1>5. CASE Alter(c)
  <2>1. /\ pc[c] = "alter" /\ pc'[c] = "stamp" /\ req' = req /\ lock = c
        /\ UNCHANGED <<database, destination, partial, lock, readers, seen, committed>>
        /\ staged \in Database /\ database.version = to - 1
        /\ staged.memory = database.memory /\ staged.parts = PartsOf(to - 1)
    BY <1>1, <1>2, <1>5 DEF Alter, GoTo, TypeOK, At, Control, MigrationTx, Locking
  <2>2. /\ staged' = [staged EXCEPT !.parts = @ \cup {AddedBy[to]}]
        /\ staged.parts \cup {AddedBy[to]} = PartsOf(to) /\ PartsOf(to) \subseteq Part
    BY <1>2, <1>5, <2>1, PartsGrow DEF Alter
  <2>3. /\ staged' \in Database
        /\ staged'.parts = PartsOf(to) /\ staged'.memory = staged.memory
    BY <2>1, <2>2 DEF Database
  <2>4. TypeOK' /\ Files'
    BY <1>1, <1>5, <2>1, <2>3 DEF Alter, GoTo, TypeOK, Files, Valid, Location
  <2>5. Control(c)'
    BY <1>1, <2>1 DEF At, Control, Migrating, Importing, BackingUp, Locking, Reading
  <2>6. MigrationTx(c)'
    BY <1>2, <2>1, <2>3 DEF MigrationTx, PartsOf
  <2>7. (ImportTx(c) /\ BackupTx(c))'
    BY <2>1 DEF ImportTx, BackupTx, Reading
  <2>8. QED
    BY <2>4, <2>5, <2>6, <2>7 DEF At
<1>6. CASE Stamp(c)
  <2>1. /\ pc[c] = "stamp" /\ pc'[c] = "commit" /\ req' = req /\ lock = c
        /\ UNCHANGED <<database, destination, partial, lock, readers, seen, committed>>
        /\ staged \in Database /\ database.version = to - 1
        /\ staged.memory = database.memory /\ staged.parts = PartsOf(to)
    BY <1>1, <1>2, <1>6 DEF Stamp, GoTo, TypeOK, At, Control, MigrationTx, Locking
  <2>2. staged' = [staged EXCEPT !.version = to] /\ to \in Version
    BY <1>2, <1>6, PartsGrow DEF Stamp
  <2>3. /\ staged' \in Database /\ staged'.version = to
        /\ staged'.parts = staged.parts /\ staged'.memory = staged.memory
    BY <2>1, <2>2 DEF Database
  <2>4. TypeOK' /\ Files'
    BY <1>1, <1>6, <2>1, <2>3 DEF Stamp, GoTo, TypeOK, Files, Valid, Location
  <2>5. Control(c)'
    BY <1>1, <2>1 DEF At, Control, Migrating, Importing, BackingUp, Locking, Reading
  <2>6. MigrationTx(c)'
    BY <1>2, <2>1, <2>3 DEF MigrationTx, PartsOf
  <2>7. (ImportTx(c) /\ BackupTx(c))'
    BY <2>1 DEF ImportTx, BackupTx, Reading
  <2>8. QED
    BY <2>4, <2>5, <2>6, <2>7 DEF At
<1>7. CASE CommitMigration(c)
  <2>1. /\ database' = staged /\ committed' = committed \cup {staged}
        /\ staged \in Database /\ Valid(staged) /\ Leave(c, "migrated")
        /\ UNCHANGED <<destination, partial>>
    BY <1>1, <1>7 DEF CommitMigration, Store, At, MigrationTx
  <2>2. TypeOK'
    BY <1>1, <2>1, LeaveTyped DEF TypeOK, Answer
  <2>3. Files'
    BY <1>1, <2>1 DEF Files, Valid
  <2>4. QED
    BY <1>1, <2>1, <2>2, <2>3, LeftHasNothing
<1>8. QED
  BY <1>4, <1>5, <1>6, <1>7

LEMMA ImportKeeps ==
  ASSUME Inv, NEW c \in Client,
         CheckVersion(c) \/ BeginImport(c) \/ ImportMemory(c) \/ ImportFact(c) \/ CommitImport(c)
  PROVE  TypeOK' /\ Files' /\ At(c)'
<1>1. /\ TypeOK /\ Files /\ At(c) /\ pc[c] \in Importing
      /\ database \in Database /\ None \notin Database /\ None \notin Client
  BY FilesAssumption
     DEF Inv, TypeOK, CheckVersion, BeginImport, ImportMemory, ImportFact, CommitImport, GoTo,
         Importing
<1>2. PICK content \in Content : req[c].content = content
  BY <1>1, Asked DEF At, Importing
<1>3. ASSUME NEW outcome \in Answer, Leave(c, outcome),
             UNCHANGED <<database, destination, partial, committed>>
      PROVE  TypeOK' /\ Files' /\ At(c)'
  BY <1>1, <1>3, LeaveTyped, LeftHasNothing DEF TypeOK, Files, Valid
<1>4. CASE CheckVersion(c)
  <2>1. CASE Leave(c, "refused")
    BY <1>3, <1>4, <2>1 DEF CheckVersion, Answer
  <2>2. CASE GoTo(c, "version", "import") /\ UNCHANGED <<seen, readers, lock, staged>>
    <3>1. TypeOK' /\ Files'
      BY <1>1, <1>4, <2>2 DEF CheckVersion, GoTo, TypeOK, Files, Valid, Location
    <3>2. pc[c] = "version" /\ pc'[c] = "import" /\ req' = req
      BY <1>1, <2>2 DEF GoTo, TypeOK
    <3>3. At(c)'
      BY <1>1, <2>2, <3>2
         DEF At, Control, MigrationTx, ImportTx, BackupTx, Migrating, Importing, BackingUp,
             Locking, Reading
    <3>4. QED
      BY <3>1, <3>3
  <2>3. QED
    BY <1>4, <2>1, <2>2 DEF CheckVersion
<1>5. CASE BeginImport(c)
  <2>1. /\ pc[c] = "import" /\ pc'[c] = "memory" /\ req' = req /\ lock' = c
        /\ staged' = database
        /\ UNCHANGED <<database, destination, partial, readers, seen, committed>>
    BY <1>1, <1>5 DEF BeginImport, GoTo, TypeOK
  <2>2. TypeOK' /\ Files'
    BY <1>1, <1>5, <2>1 DEF BeginImport, GoTo, TypeOK, Files, Valid, Location
  <2>3. At(c)'
    BY <1>1, <2>1
       DEF At, Control, MigrationTx, ImportTx, BackupTx, Migrating, Importing, BackingUp,
           Locking, Reading
  <2>4. QED
    BY <2>2, <2>3
<1>6. CASE ImportMemory(c)
  <2>1. CASE Leave(c, "conflict")
    BY <1>3, <1>6, <2>1 DEF ImportMemory, Answer
  <2>2. CASE /\ staged.memory \in {None, content} /\ GoTo(c, "memory", "fact")
             /\ staged' = [staged EXCEPT !.memory = content]
             /\ UNCHANGED <<lock, readers, seen>>
    <3>1. /\ pc[c] = "memory" /\ pc'[c] = "fact" /\ req' = req
          /\ UNCHANGED <<database, destination, partial, lock, readers, seen, committed>>
          /\ staged \in Database
          /\ staged.version = database.version /\ staged.parts = database.parts
          /\ staged.fact = database.fact /\ database.memory \in {None, content}
      BY <1>1, <1>6, <2>2 DEF ImportMemory, GoTo, TypeOK, At, ImportTx
    <3>2. /\ staged' \in Database /\ staged'.memory = content /\ staged'.fact = staged.fact
          /\ staged'.version = staged.version /\ staged'.parts = staged.parts
      BY <2>2, <3>1 DEF Database
    <3>3. TypeOK' /\ Files'
      BY <1>1, <1>6, <2>2, <3>1, <3>2 DEF ImportMemory, GoTo, TypeOK, Files, Valid, Location
    <3>4. Control(c)'
      BY <1>1, <3>1 DEF At, Control, Migrating, Importing, BackingUp, Locking, Reading
    <3>5. ImportTx(c)'
      BY <1>2, <3>1, <3>2 DEF ImportTx
    <3>6. (MigrationTx(c) /\ BackupTx(c))'
      BY <3>1 DEF MigrationTx, BackupTx, Reading
    <3>7. QED
      BY <3>3, <3>4, <3>5, <3>6 DEF At
  <2>3. QED
    BY <1>2, <1>6, <2>1, <2>2 DEF ImportMemory
<1>7. CASE ImportFact(c)
  <2>1. CASE Leave(c, "conflict")
    BY <1>3, <1>7, <2>1 DEF ImportFact, Answer
  <2>2. CASE /\ staged.fact \in {None, content} /\ GoTo(c, "fact", "finish")
             /\ staged' = [staged EXCEPT !.fact = content]
             /\ UNCHANGED <<lock, readers, seen>>
    <3>1. /\ pc[c] = "fact" /\ pc'[c] = "finish" /\ req' = req
          /\ UNCHANGED <<database, destination, partial, lock, readers, seen, committed>>
          /\ staged \in Database
          /\ staged.version = database.version /\ staged.parts = database.parts
          /\ staged.memory = content /\ database.memory \in {None, content}
          /\ database.fact \in {None, content}
      BY <1>1, <1>2, <1>7, <2>2 DEF ImportFact, GoTo, TypeOK, At, ImportTx
    <3>2. /\ staged' \in Database /\ staged'.fact = content /\ staged'.memory = staged.memory
          /\ staged'.version = staged.version /\ staged'.parts = staged.parts
      BY <2>2, <3>1 DEF Database
    <3>3. TypeOK' /\ Files'
      BY <1>1, <1>7, <2>2, <3>1, <3>2 DEF ImportFact, GoTo, TypeOK, Files, Valid, Location
    <3>4. Control(c)'
      BY <1>1, <3>1 DEF At, Control, Migrating, Importing, BackingUp, Locking, Reading
    <3>5. ImportTx(c)'
      BY <1>2, <3>1, <3>2 DEF ImportTx
    <3>6. (MigrationTx(c) /\ BackupTx(c))'
      BY <3>1 DEF MigrationTx, BackupTx, Reading
    <3>7. QED
      BY <3>3, <3>4, <3>5, <3>6 DEF At
  <2>3. QED
    BY <1>2, <1>7, <2>1, <2>2 DEF ImportFact
<1>8. CASE CommitImport(c)
  <2>1. /\ database' = staged /\ committed' = committed \cup {staged}
        /\ staged \in Database /\ Valid(staged) /\ Leave(c, "imported")
        /\ UNCHANGED <<destination, partial>>
    BY <1>1, <1>8 DEF CommitImport, Store, At, ImportTx, Files, Valid
  <2>2. TypeOK'
    BY <1>1, <2>1, LeaveTyped DEF TypeOK, Answer
  <2>3. Files'
    BY <1>1, <2>1 DEF Files, Valid
  <2>4. QED
    BY <1>1, <2>1, <2>2, <2>3, LeftHasNothing
<1>9. QED
  BY <1>4, <1>5, <1>6, <1>7, <1>8


LEMMA BackupKeeps ==
  ASSUME Inv, NEW c \in Client,
         \/ Snapshot(c) \/ CreatePartial(c) \/ Copy(c) \/ Verify(c)
         \/ Replace(c) \/ Link(c) \/ Unlink(c)
  PROVE  TypeOK' /\ Files' /\ At(c)'
<1>1. /\ TypeOK /\ Files /\ At(c)
      /\ database \in Database /\ None \notin Database /\ None \notin Client
  BY FilesAssumption DEF Inv, TypeOK
<1> USE DEF At, Control, MigrationTx, ImportTx, BackupTx, Migrating, Importing, BackingUp,
            Locking, Reading
<1>2. CASE Snapshot(c)
  <2>1. /\ pc[c] = "snapshot" /\ pc'[c] = "create" /\ req' = req /\ seen'[c] = database
        /\ readers' = readers \cup {c}
        /\ UNCHANGED <<database, destination, partial, lock, staged, committed>>
    BY <1>1, <1>2 DEF Snapshot, GoTo, TypeOK
  <2>2. TypeOK' /\ Files'
    BY <1>1, <1>2, <2>1 DEF Snapshot, GoTo, TypeOK, Files, Valid, Location
  <2>3. QED
    BY <1>1, <2>1, <2>2
<1>3. CASE CreatePartial(c)
  <2>1. /\ pc[c] = "create" /\ pc'[c] = "copy" /\ req' = req
        /\ UNCHANGED <<database, destination, lock, readers, staged, seen, committed>>
    BY <1>1, <1>3 DEF CreatePartial, GoTo, TypeOK
  <2>2. TypeOK' /\ Files'
    BY <1>1, <1>3, <2>1 DEF CreatePartial, GoTo, TypeOK, Files, Valid, Location
  <2>3. QED
    BY <1>1, <2>1, <2>2
<1>4. CASE Copy(c)
  <2>1. /\ pc[c] = "copy" /\ pc'[c] = "verify" /\ req' = req
        /\ partial'[c] = database /\ readers' = readers \ {c}
        /\ UNCHANGED <<database, destination, lock, staged, seen, committed>>
    BY <1>1, <1>4 DEF Copy, GoTo, TypeOK
  <2>2. TypeOK' /\ Files'
    BY <1>1, <1>4, <2>1 DEF Copy, GoTo, TypeOK, Files, Valid, Location
  <2>3. seen[c] = database /\ database \in committed
    BY <1>1, <2>1 DEF Files
  <2>4. QED
    BY <1>1, <2>1, <2>2, <2>3
<1>5. CASE Verify(c)
  <2>1. /\ pc[c] = "verify" /\ pc'[c] = "publish" /\ req' = req
        /\ UNCHANGED <<database, destination, partial, lock, readers, staged, seen, committed>>
    BY <1>1, <1>5 DEF Verify, GoTo, TypeOK
  <2>2. TypeOK' /\ Files'
    BY <1>1, <1>5, <2>1 DEF Verify, GoTo, TypeOK, Files, Valid, Location
  <2>3. QED
    BY <1>1, <2>1, <2>2
<1>6. CASE Link(c) /\ destination = None
  <2>1. /\ pc[c] = "publish" /\ pc'[c] = "unlink" /\ req' = req /\ destination' = partial[c]
        /\ UNCHANGED <<database, partial, lock, readers, staged, seen, committed>>
    BY <1>1, <1>6 DEF Link, GoTo, TypeOK
  <2>2. partial[c] \in committed /\ partial[c] \in Database
    BY <1>1, <2>1 DEF TypeOK
  <2>3. TypeOK' /\ Files'
    BY <1>1, <1>6, <2>1, <2>2 DEF Link, GoTo, TypeOK, Files, Valid, Location
  <2>4. QED
    BY <1>1, <2>1, <2>3
<1>7. CASE Replace(c) \/ Unlink(c) \/ (Link(c) /\ destination # None)
  <2>1. PICK outcome \in Answer : Leave(c, outcome)
    BY <1>7 DEF Replace, Unlink, Link, Answer
  <2>2. /\ destination' = destination \/ (destination' = partial[c] /\ pc[c] = "publish")
        /\ UNCHANGED <<database, committed>>
    BY <1>7 DEF Replace, Unlink, Link
  <2>3. partial' \in [Client -> Database \cup {None, Blank}]
    <3>1. CASE Replace(c) \/ Unlink(c)
      BY <1>1, <3>1 DEF Replace, Unlink, TypeOK
    <3>2. CASE Link(c) /\ destination # None
      BY <1>1, <3>2, CleanupTyped DEF Link
    <3>3. QED
      BY <1>7, <3>1, <3>2
  <2>4. destination' \in committed \cup {None} /\ destination' \in Database \cup {None, Blank}
    BY <1>1, <2>2 DEF Files, TypeOK
  <2>5. TypeOK' /\ Files'
    BY <1>1, <2>1, <2>2, <2>3, <2>4, LeaveTyped DEF TypeOK, Files, Valid
  <2>6. QED
    BY <1>1, <2>1, <2>5, LeftHasNothing
<1>8. QED
  BY <1>2, <1>3, <1>4, <1>5, <1>6, <1>7

-----------------------------------------------------------------------------

LEMMA StepKeeps ==
  ASSUME Inv, NEW c \in Client, Step(c)
  PROVE  TypeOK' /\ Files' /\ At(c)'
BY AskKeeps, EndKeeps, MigrationKeeps, ImportKeeps, BackupKeeps
   DEF Step, Migrate, Import, Backup

LEMMA NextKeeps == Inv /\ [Next]_vars => Inv'
<1> SUFFICES ASSUME Inv, [Next]_vars PROVE Inv'
  OBVIOUS
<1>1. CASE Write
  BY <1>1, WriteKeeps
<1>2. ASSUME NEW c \in Client, Step(c) PROVE Inv'
  <2>1. \A d \in Client : d = c \/ d \in Client \ {c}
    OBVIOUS
  <2>2. QED
    BY <1>2, <2>1, StepKeeps, OthersStay DEF Inv
<1>3. CASE UNCHANGED vars
  BY <1>3
     DEF vars, Inv, TypeOK, Files, Valid, At, Control, MigrationTx, ImportTx, BackupTx
<1>4. QED
  BY <1>1, <1>2, <1>3 DEF Next, Step

LEMMA InitHolds == Init => Inv
<1> SUFFICES ASSUME Init PROVE Inv
  OBVIOUS
<1>1. PICK v \in Version : database = [version |-> v, parts |-> PartsOf(v), data |-> 0,
                                       memory |-> None, fact |-> None]
  BY DEF Init
<1>2. database \in Database /\ Valid(database)
  BY <1>1, PartsGrow, FilesAssumption DEF Database, Valid
<1>3. TypeOK
  BY <1>2 DEF Init, TypeOK, Location, Answer
<1>4. Files
  BY <1>2 DEF Init, Files
<1>5. \A c \in Client : At(c)
  BY FilesAssumption
     DEF Init, At, Control, MigrationTx, ImportTx, BackupTx, Migrating, Importing, BackingUp,
         Locking, Reading
<1>6. QED
  BY <1>3, <1>4, <1>5 DEF Inv

(* Every process is where its locks and files say it is, and what it has   *)
(* staged or copied is what its steps so far have made of the database.    *)
THEOREM FilesInvariant == Spec => []Inv
BY InitHolds, NextKeeps, PTL DEF Spec

-----------------------------------------------------------------------------
(* The theorems about the files.                                           *)

(* The types of the files, the locks and the clients.                      *)
THEOREM TypeCorrect == Spec => []TypeOK
<1>1. Inv => TypeOK
  BY DEF Inv
<1>2. QED
  BY <1>1, FilesInvariant, PTL

(* The database is at every moment wholly of the version it says, and the  *)
(* backup a whole database that there has been, whatever failed or died.   *)
THEOREM FilesAreWhole == Spec => []FilesWhole
<1>1. Inv => FilesWhole
  BY DEF Inv, Files, FilesWhole
<1>2. QED
  BY <1>1, FilesInvariant, PTL

(* A copy is the snapshot it will be compared with: between the two, every *)
(* commit waits for the reader.                                            *)
THEOREM CopyIsSnapshot == Spec => []CopyMatchesSnapshot
<1>1. Inv => CopyMatchesSnapshot
  BY DEF Inv, At, BackupTx, CopyMatchesSnapshot
<1>2. QED
  BY <1>1, FilesInvariant, PTL

(* The imported records appear together, in one commit, of one client and  *)
(* one content, and never over records of another.                         *)
THEOREM ImportIsWhole == Spec => ImportWhole
<1> DEFINE Whole ==
      database'.memory # database.memory =>
        /\ database.memory = None
        /\ database.fact \in {None, database'.memory}
        /\ database'.fact = database'.memory
        /\ \E c \in Client : pc[c] = "finish" /\ req[c].content = database'.memory
<1>1. ASSUME Inv, [Next]_vars PROVE [Whole]_database
  <2>1. CASE Write
    <3>1. PICK fact \in Content \cup {database.fact} :
            database' = [database EXCEPT !.data = @ + 1, !.fact = fact]
      BY <2>1 DEF Write, Store
    <3>2. database \in Database
      BY <1>1 DEF Inv, TypeOK
    <3>3. database'.memory = database.memory
      BY <3>1, <3>2 DEF Database
    <3>4. QED
      BY <3>3
  <2>2. ASSUME NEW c \in Client, Step(c) PROVE [Whole]_database
    <3>1. At(c)
      BY <1>1 DEF Inv
    <3>2. CASE CommitMigration(c)
      BY <3>1, <3>2 DEF CommitMigration, Store, At, MigrationTx
    <3>3. CASE CommitImport(c)
      BY <3>1, <3>3 DEF CommitImport, Store, At, ImportTx
    <3>4. QED
      BY <1>1, <2>2, <3>2, <3>3, OnlyCommitsStore
  <2>3. QED
    BY <1>1, <2>1, <2>2 DEF Next, Step, vars
<1>2. Inv /\ [Next]_vars => [Whole]_database
  BY <1>1
<1>3. QED
  BY <1>2, FilesInvariant, PTL DEF Spec, ImportWhole

(* A backup that exists is replaced only by the publishing step of a run   *)
(* that was asked to overwrite, and with the snapshot of that run.         *)
THEOREM OverwrittenOnlyOnRequest == Spec => NotOverwrittenUnasked
<1> DEFINE OnRequest ==
      destination # None =>
        \E c \in Client :
          pc[c] = "publish" /\ req[c].overwrite /\ destination' = seen[c]
<1>1. ASSUME Inv, [Next]_vars PROVE [OnRequest]_destination
  <2>1. ASSUME NEW c \in Client, Step(c) PROVE [OnRequest]_destination
    <3>1. At(c)
      BY <1>1 DEF Inv
    <3>2. CASE Replace(c)
      BY <3>1, <3>2 DEF Replace, At, BackupTx
    <3>3. CASE Link(c)
      BY <3>3 DEF Link
    <3>4. CASE ~Replace(c) /\ ~Link(c)
      BY <2>1, <3>4
         DEF Step, Migrate, AskMigration, BeginMigration, Alter, Stamp, CommitMigration,
             Import, AskImport, CheckVersion, BeginImport, ImportMemory, ImportFact,
             CommitImport, Backup, AskBackup, TurnAway, Snapshot, CreatePartial, Copy, Verify,
             Unlink, Fail, Crash
    <3>5. QED
      BY <3>2, <3>3, <3>4
  <2>2. QED
    BY <1>1, <2>1 DEF Next, Step, Write, vars
<1>2. Inv /\ [Next]_vars => [OnRequest]_destination
  BY <1>1
<1>3. QED
  BY <1>2, FilesInvariant, PTL DEF Spec, NotOverwrittenUnasked
=============================================================================
