# Nel in TLA+

Models, model checks and proofs of Nel (`src/`), a command-line companion: one
Python process that answers lines of its user with the help of a language model,
keeps goals, facts, memories and preferences in one SQLite file, and thinks in
the background. The modules are written from the code; where a decision record
(`docs/07_DECISIONS.md`) or the state document (`docs/06_CURRENT_STATE.md`) says
something else, a run shows the difference (section 7).

1. The system
2. Modules and code
3. Runs and what they show
4. Bounds
5. Fairness
6. Proofs
7. Where code and documents disagree
8. Not modelled, and the plan

Paths below are relative to `src/src/` unless they start with `docs/`.

## 1. The system

| Component | State it keeps | Operations | What is hard | What makes it correct |
|---|---|---|---|---|
| Goal core (`goals/`) | `goals_current`, `goals_history` | `/goal` create, update, pause, complete, cancel, progress, reopen, restore | a command is four database accesses, each its own connection; two processes; errors and crashes between them | one contiguous ledger per goal, each version a legal successor of the row it was validated against; answers that tell the truth |
| Facts (`persistence/repositories.py`, `services/fact_*`, `services/knowledge_service.py`) | current and history tables | `/fact` set, confirm, correct, delete; batches; proposals | a batch is read, compared and written in one transaction, and the answer compares rows read before and after it; a proposal is labelled by two reads | ledger per key, whole batches, the change reported is the change made; a label that was apt while the user waited |
| Memories (`services/memory_*`) | append-only events | `/remember` | looking for a duplicate and appending are two transactions | what is said to be kept is kept; duplicates bounded by the number of processes |
| Preferences, identity (`identity/`) | current and history tables, and the immutable core | creating, moving and retiring a preference: methods of `IdentityService`, which no command of the CLI calls | the row is read in one transaction and replaced in another | ledger per key; no promotion of a value the user did not see |
| Thought coordinator (`thoughts/`) | state, generation, cancel event, thread, last result, foreground flag, under one lock | start, begin/end foreground, cancel, clear; worker threads | workers outlive their cancellation and settle late; a thread may fail to start | one worker, no thought beside a turn, no late result |
| Clock (`core/clock.py`) | flag, stop event and thread, under a lock | start, stop, the loop | stop joins without the lock a thread it read under it; starts and stops overlap; the callback may stop its own clock; a thread may fail to start | one loop, a flag that tells the truth, stops that return |
| Threads (`core/nel.py`, `core/state_manager.py`, `main.py`) | operational state, and the state of the clock and the coordinator | building, lines of the user, clock ticks, leaving | a tick decides on three reads made at three moments; a provider call may never return | turns undisturbed; nothing runs after the end; stopping ends; thoughts settle |
| Conversation turn (`core/nel.py`, `brain/`, `response_*`, `conversation/`) | the recent conversation | `Nel.think`, `Nel.stop` | many routes, each with its error path; a second provider call; text appended after the check | the transcript is what the user saw; the provider is not asked when it must not be |
| Context assembler (`context/`) | none: a computation over four stores | `assemble` | each store is read to a limit; leaving a record out lengthens the result | fits, packed by priority, everything that was read accounted for |
| Schema migrations (`persistence/{identity,goal,fact}_migration.py`) | the schema and its version row | migrate to version 2, 3, 4 | several statements; errors, crashes and another migration between them | the database is wholly of the version it says |
| JSON import (`persistence/migration.py`) | rows of version 1 | import of the legacy memory and knowledge files | the version is read before the transaction; a second import, of other contents | all of one import or nothing of it; what is there is never changed |
| Backup (`persistence/backup.py`) | the backup file, a partial file | snapshot, copy, verify, publish | a running writer, a second backup, a crash between two file operations | the backup is a whole database that there has been; none is replaced unasked |
| Providers, event bus, configuration, local understanding | | | | glue and libraries: see section 8 |

The main thread reads a line and calls `Nel.think`; that begins a foreground
turn in the coordinator (cancelling a thought that runs), routes the line through
`DecisionEngine`, and so reaches a command handler (and the stores), a local read,
a fixed clarification, or the provider with a context assembled from all stores.
The exchange is recorded in the session, and the foreground ends. The clock
thread emits ticks on the event bus; one subscriber, `on_clock_tick`, may start a
background thought, which is a worker thread of the coordinator. Other processes
(a second runtime, maintenance scripts) meet this one only in the SQLite file.

`PROJECT.json` lists the components with their status, and under `hazards` the
lines at which the difficulties of the table bite.

## 2. Modules and code

Every definition that models code is mapped to its lines in `PROJECT.json`.

### Goals

* `GoalPolicy` - `goals/policy.py` and the construction of rows in
  `goals/service.py` as pure operators: `AllowedTransitions`, `UpdateAllowed`,
  `ActivationAllowed`, `Proposed`. A goal's texts are one model value.
* `GoalStore` - the commands. `pc[c]` is where a client is: `CheckVersion` (the
  handler's read), `LoadAndValidate` (the service's read and the policy), `Begin*`,
  `Archive`, `Replace`, `Insert`, `Commit` (the repository's transaction),
  `ReadBack` (the read after it). `StorageError` and `Crash` cut any of them.
  `current` and `history` are the tables; `staged` what the holder of the write
  `lock` has written and not committed. `written` is a history variable.
* `GoalLedger` - the abstract specification: an append-only set of versions per
  goal, each a `LegalSuccessor` of the latest. `GoalStore` implements it with
  `ledger[g]` = the rows of both tables.

### Facts, memories, preferences

* `FactStore`, `MemoryStore`, `PreferenceStore` - one module per store, each with
  the steps of its command: turned away, reads, transaction, answer, errors and
  crashes. A proposal (`KnowledgeService.process`) is `Propose`, `Compare` (is there a
  current fact with that key, and does it say the same?) and `LookBack` (has there
  been one?), each a read of its own. `UserStores` composes them over one file: one write lock, and one
  command at a time per process.
* `RecordLedger` - the abstract specification of a versioned table, parameterised
  by the first rows and the successor rule, implemented by facts and preferences.

### Thoughts and threads

* `ThoughtCoordinator` - a call of the coordinator is one step, because each holds
  the lock throughout; `EnterWorker`, `ProviderReturns`, `TakeAnswer` and `Settle`
  are the steps of `worker.py` and of `_run`. A worker is named by its
  generation; nothing stops a cancelled one, it settles late.
* `ThoughtSlot` - the abstract specification: one slot, emptied and kept empty by
  a turn, whose result is that of the thought in it.
* `Clock` - start, loop and stop, called by any threads and by the loop's own
  callback. A critical section is one step, so that stop is `StopClock`, `Join`,
  `Forget`; a loop is `Interval`, `CallbackEnds`, `NoticeStop`, `EndLoop`.
* `NelThreads` - extends the coordinator with the main thread (from `Nel.__init__`,
  whose last step starts the clock, to the end of `Nel.stop`) and the clock thread.
  `Ticker == INSTANCE Clock` is the clock of this process, with one caller and one loop:
  the refinement mapping reads the loop's phase off `clock` and the place in stop off
  `main`, and each action is the clock's own conjoined with what the caller does. The
  callback is taken apart into the three reads of a tick, the gate of
  `DecisionEngine`, the building of the context and the start of a thought.

### The turn

* `DecisionEngine` - its routes with their size limits (4096 characters of input,
  4096 of a parse, 8192 of the serialised context, escapes included).
* `ConversationSession` - `append_complete`, `append_incomplete`, eviction and
  `clear`, with the exact length of the canonical JSON. A text is its length and
  its length once escaped.
* `NelTurn` - `Nel.think` from the route to the recorded exchange and `main.run`
  around it. A prompt is what the classifiers find in it; a reply its lengths and
  whether it opens with an identity preamble. What the stores answer is left open.
  `ProposalReadFails` is a failed read for the proposed facts: the first of the two is
  raised as it is and ends the program, the second is converted and does not.
* `ContextAssembler` - the four reads with their limit and their failures, the limits
  of each category, the packing, and the exact length of the bundle with its metadata.
  A record is its length, its fate (relevant or not, oversized), its `place` in the
  order in which its source reads, and, of memories, a number for its text. What the
  stores hold (`offer`) is more than what is read (`Fetched`): of each source the first
  `ReadLimit` records, the `SOURCE_SNAPSHOT_LIMIT` of the code. Facts are read by key,
  goals by `goal_id` whatever their state, preferences by state and key, memories the
  newest first. Retired facts, and preferences that are candidates or retired, are
  passed over before the limit is applied; they are no records of the model, and the
  bundle says nothing of them.

### Import, migrations and backups

* `DatabaseFiles` - processes that import into, migrate, back up and write one
  database file. An import is `AskImport` and `CheckVersion` (a read of its own), then
  `BeginImport`, `ImportMemory`, `ImportFact` (insert, or compare with what is there) and
  `CommitImport`. A runtime starts only on the last version (`RuntimeStarts`). A
  migration is `BeginMigration` (write lock, version and structure checked inside
  the transaction), `Alter`, `Stamp`, `CommitMigration`; a backup is `Snapshot` (a
  read transaction), `CreatePartial`, `Copy`, `Verify`, then `Replace`, or `Link` and
  `Unlink`. `Fail` and `Crash` cut any of them; `Cleanup` is the `finally` block,
  whose own error is ignored. The tables of a version are a set of parts, the
  contents a number of writes. SQLite's locks are those of the rollback journal (the
  code sets no `journal_mode`): a commit waits for readers or fails.

`MCGoalStore`, `MCUserStores`, `MCClock`, `MCThoughtCoordinator`, `MCNelThreads`,
`MCNelTurn`, `MCContext` and `MCDatabaseFiles` instantiate these for TLC.

## 3. Runs and what they show

Every property of a passing run is also refuted by TLC when one definition is
replaced by a faulty one (`mutants` in `PROJECT.json`, the definitions marked
"Mutant" in the modules).

| Run | States | Shows |
|---|---|---|
| `MCGoalStore` | 58,855 | two processes on one goal, errors and crashes at each access: `HistoryContiguous`, `ChainLegal`, `EvidenceKept`, `CommittedKept`, `AnswersTruthful`, `NoLostUpdate`, `ImplementsLedger` |
| `MCUserStores` | 232,724 | three stores in one file: `FactsAreLedger`, `BatchWhole`, `ChangeToldTruly`, `ProposalOnceApt`, `DuplicatesBounded`, `ToldMemoriesKept`, `PreferencesAreLedger`, `PromotedUnseenOnlyAnew` |
| `MCClock` | 30,861 | two threads and the callback start and stop the clock at once, threads fail to start: `OneLoop`, `RunningIsTrue`, and under fairness `StopReturns` |
| `MCNelThreads` | 49,851 | one process from start to end, threads fail to start, provider calls hang: `TurnUndisturbed`, `QuietAfterStop`, `SingleWorker`, `InterruptedNeverKept`, `ImplementsSlot`, and under fairness `StopCompletes`, `ThoughtSettles` |
| `MCNelTurn` | 231,831 | any three lines: `SessionIsLongestSuffix`, `TranscriptIsTrue`, `NoIdentityPreamble`, `FollowupGuarded` |
| `MCContext` | 70,503 | 1,050 contents of the stores, some larger than what is read: `EveryRecordCounted`, `PackedByPriority` |
| `MCDatabaseFiles` | 1,045,606 | two processes import into, migrate and back up a database that is in use, failing and crashing anywhere: `FilesWhole`, `ImportWhole`, `CopyMatchesSnapshot`, `NotOverwrittenUnasked` |
| `MCGoalUnwritten` | violation | "could not be written" after a commit |
| `MCThoughtStartFails` | violation | a slot that no worker will ever empty |
| `MCTurnFollowup` | violation | a contrast after an unkept read reaches the provider |
| `MCTurnStorage` | violation | a database error ends the program |
| `MCContextDisplaced` | violation | an accepted record displaced by a lesser one |

Some of what these say is not obvious from the code. With two processes a goal
command may be answered with the revision of the other, so that `CommittedKept`,
not the answer, is what one can rely on. A proposed fact may be called new although the
user had such a fact once and has it again: it was retired at the first read and taken
up before the second, and only a retired one makes it a reactivation;
`ProposalOnceApt` says that each label fitted at some moment while the user waited
and names this exception. `DuplicatesBounded` is the strongest that holds of memories: two processes may
both find no duplicate and both append. `ThoughtSettles` speaks of a thought whose
thread did start, in a process whose provider calls keep coming back; `StopCompletes`
needs no such condition. A callback that stops its own clock leaves a loop behind that no variable
names, and a start right after makes a second one beside it; Nel's
callback never does, and `OneLoop` and `RunningIsTrue` say exactly what is left of them
then. `RunningIsTrue` also names the one other case in which the flag stands for no
loop: a thread that could not be started, until the next start or stop. `ChangeToldTruly`
promises the write without any condition: after "updated" or "unchanged" the fact says
what was asked. Which of the two is said depends on a read before the transaction, and
is promised only if what the fact says did not change between. `EveryRecordCounted`
speaks of the records that are read: a store that holds more than the read limit loses
the others without a counter, a reason or a mark of truncation. The equality in the
property says just that: bundle and counters together come to what the store holds or to
`ReadLimit`, whichever is less. `PackedByPriority` cannot promise that every missing record had
no room: one refused while a longer one was held stays out when that one goes.
`CopyMatchesSnapshot` is what makes the verification of a backup meaningful beside
a running Nel: a mismatch is a fault of the copy, never a write that slipped in. A
backup may be in place although its run reported an error: the `unlink` of the
partial file comes after the `link`, and may fail.

## 4. Bounds

* Goals: one goal suffices for the interleavings, because transactions of
  different goals share only the lock; the refinement and the proofs quantify over
  all goals. Two processes and versions up to 3 give every conflict of two
  revisions, and the shortest reopening and restoring. Longer lives are the
  theorems' business (`ChainIsLegal`, `EvidenceIsKept`). `Versions`, the numbers a
  user may type after `--version`, bounds the state space.
* `UserStores`: two facts (so that a batch can be half written), one preference,
  two texts of one memory and a blank one, two processes, four commands that get
  past their checks (`MaxCommands`): enough for each process to prepare a row
  and then race on it. One write lock means that a third process only waits.
* Clock: `MaxLoops` 3, so that a start can follow a stop twice; two callers and the
  callback, so that any two starts and stops overlap with a third. That one loop
  ticks and that the flag is true are theorems for any number of both.
* Threads: `MaxGeneration` 6, of which a start and a cancellation each take one.
  A cancelled worker keeps the next from starting, so at any time at most one
  generation is alive; more generations only repeat this. Other orders of the
  coordinator's calls than this process makes are the theorems' business, and
  those of `MCThoughtStartFails`.
* Turn: three lines (`MaxTurns`), the real limits of characters, and four turns of
  two texts instead of eight, so that three exchanges cause an eviction by number as
  well as by length. Reply lengths lie on both sides of every limit.
* Context: the real budget of 12,000; limits of 1 to 3 records per category
  instead of 5 to 20, and lengths chosen around the few characters by which the
  metadata grows, which is where packing changes its outcome. `ReadLimit` is 4 instead of
  1000: of every source there are contents that end within it and contents that go beyond,
  with a relevant record, or the original of a copy, as the last one. `CoreLength` is the length of the identity section without preferences.
* Files: two clients, so that any two of import, writer, migration and backup meet
  with the runtime's writes as a third; one write (`MaxData`), so that there is a
  database before and after the one a backup copied; files of two contents, one memory
  and one fact each, so that an import can be half written and two can disagree.
  Every version is an initial state.

Deadlock is checked except where the system may stop: after `Nel.stop`
(`MCNelThreads`, `MCNelTurn` and the two runs on it) and when a bundle is done
(`MCContext`, `MCContextDisplaced`).

## 5. Fairness

Two specifications assume any, both weak, and both of steps that a thread takes
by itself: the operating system's scheduler.

* `Clock`: each loop and each stop that can go on does. That includes that a callback
  returns: Nel's reads the database, whose waits time out, and starts a
  thread. Nobody has to call start or stop.
* `NelThreads`: the steps of a turn in progress, of `Nel.stop`, of the clock
  thread, and of each worker except the return of its provider call. `StopCompletes`
  therefore holds although providers hang; `ThoughtSettles` has their return as its
  hypothesis. The user need neither type nor leave, and the passing of the thinking
  interval is not assumed.

All other specifications are safety only.

## 6. Proofs

TLAPS proves, for every set of goals, memories, keys, processes, versions, contents,
generations, callers, loops, lines and answers, and for every limit:

* `GoalStoreProofs`: `TypeCorrect`, `HistoryIsContiguous`, `SnapshotsAreRecoverable`,
  `ChainIsLegal`, `EvidenceIsKept`, `NoUpdateIsLost`, `AnswersAreTruthful`,
  `CommittedIsKept`, `StoreImplementsLedger`.
* `UserStoresProofs`: `TypeCorrect`, `LockDiscipline`, `DuplicatesAreBounded`,
  `ToldMemoriesAreKept`.
* `UserLedgersProofs`: `FactTablesAreLedger`, `BatchIsWhole`, `ChangeIsToldTruly`,
  `LabelWasOnceTrue`, `PreferenceTablesAreLedger`, `PromotionIsSeenOrAnew`.
* `ClockProofs`: `ClockTypeCorrect`, `OneLoopAlways`, `RunningIsTrueAlways`.
* `NelThreadsProofs`: of the coordinator, `CoordinatorTypeCorrect`, `OneWorker`,
  `ForegroundIsExclusive`, `LateAnswersAreLost`, `CoordinatorImplementsSlot`; of the
  process, `ProcessUsesCoordinator`, `ProcessUsesClock`, `ProcessTypeCorrect`,
  `TurnsAreUndisturbed`, `StopIsQuiet`.
* `NelTurnProofs`: `TypeCorrect`, `PreambleIsNeverShown`, `ContrastIsGuarded`,
  `TranscriptStaysTrue`, `WindowIsLongestSuffix`.
* `ContextAssemblerProofs`: `TypeCorrect`, `EveryRecordIsCounted`, `PackedInPriority`,
  `NoRoomStays`.
* `DatabaseFilesProofs`: `TypeCorrect`, `FilesAreWhole`, `CopyIsSnapshot`,
  `ImportIsWhole`, `OverwrittenOnlyOnRequest`.

**Assumptions.** Those of the modules and no others, each with a name and a comment
there; TLC evaluates them on the instances. Most say that a sentinel is apart from the
values it stands beside: `None` is no row, state, progress, content, client or request,
`Blank` no content. The others are numbers: `Versions` are positive; `MaxGeneration`,
`MaxLoops`, `MaxCommands`, `MaxData`, `MaxTurns` and all lengths are natural; the set of
clients is finite where a property counts them. `TurnAssumption` asks that the session
has room for two turns and 61 characters, the length of an empty context: with less the
code would keep nothing at all, and `Nel` takes the defaults of `session/models.py`,
8 turns and 6000 characters. `ContextAssumption` says only what budget, limits and
records are: the limits need not be positive, nor the budget large enough for anything.
It has two conditions that say something: the places of the records of a source are 1, 2, and so
on, because a place is a position in the order of reading; and the budget is at most
10^9, for which the ten digits of `Digits` are enough (a longer bundle is over the
budget however its length is written; the code's budget is 12,000).

**Goals.** `HistoryContiguous` is not inductive by itself: that a commit extends the
chain depends on what was read and compared before it. `IInv` is `TypeOK` and
three parts. `ClientInv(c)` is what a client's place in its command says about its
request and snapshot: inside a transaction exactly when it holds the lock; and
once it has loaded, its snapshot is a stored version of its goal, and the policy
accepted its request for that snapshot. `TxInv(c)` is what an open transaction has
established: the row in the table has the version the user expected and is the
one staged for the history, and at the commit the staged row is the proposed one.
`LedgerInv(g)`: history is contiguous, and a version number names one row. The
last part gives the argument its point: the snapshot is stored, has the expected
version, and so has the row in the table; hence they are the same row, and the
revision validated against the snapshot is valid for the row it replaces.

A step that leaves the tables alone disturbs only its own client
(`LocalStepPreserves`), so every such action has a short lemma; `Commit` is the one
step that writes (`OnlyCommitWrites`), and `CommitEffect` says what. From it follow
the ledger part, `NoLostUpdate` and the refinement; `ChainLegal` and `EvidenceKept`
are proved inductively beside `IInv`, because a commit adds the highest version
and a legal successor of the one below (`CommitExtends`). `AnswersTruthful` and
`CommittedKept` follow from `AnswerInv(c)`: until a command has ended its client has no
answer; it has written exactly when it is at its read-back; and what it wrote is then
still in one of the tables, because rows only move from the first to the second
(`RowsOnlyGrow`).

**User stores.** What the three stores share is proved first: `TInv`, the types and the
lock (whoever is in a transaction holds it, and nobody is in two commands). Each store
then has an invariant of its own over `TInv`, which the steps of the others leave alone.

*Memories*: the code looks for a duplicate outside the transaction, so that a count of
copies alone is not inductive. `RaceInv` is: the stored copies of a text and the
processes that have looked for it in vain are together no more than there are processes.
A race is joined only while no copy is stored, and whoever stores one leaves it.
`ToldInv` says that whoever was told "kept" or "duplicate" was told so of a stored text,
and no command takes a memory away.

*Facts*: `FactTx` says what an open transaction has staged: for the part of the batch
that is done, what `_set_fact` makes of the row in the table, and nothing for the rest;
`FactsQuiet`, that nothing is staged when nobody is in one. A commit then puts the
successor of the row in the table in its place: that is the refinement of
`RecordLedger`, and `BatchWhole` its other half. `ChangeToldTruly` and
`ProposalOnceApt` compare what was read at different moments and are proved of the step
that answers.

*Preferences*: a transition is checked on a row read before the lock. `Since` is what
can have become of that row: it is there or a later version of it is, with its value
unless the preference was retired and created anew (`CreatedAnewSince`).
`PromotedUnseenOnlyAnew` is the commit's use of it.

**Coordinator.** `CInv` is the types and three parts. `ThreadInv`: a living worker is
the one `_thread` names, and none is ahead of the generation counter; so a new
one waits for the old. `RunningInv`: a running thought has the current generation,
an event that is not set, and no foreground turn beside it. `PastInv`: an
interrupted generation is strictly in the past, so what it settles late is not
current and is dropped. The refinement maps the slot to the generation while the
state is running; every step is a step of the slot or leaves it alone.

**Clock.** `ClockInv` has two halves. `LoopInv` holds whatever callbacks do:
a living loop is the one `_thread` names, unless it stopped its own clock
(`AliveIsNamed`); what a stop is about to forget is over (`ForgottenIsOver`), which is
why forgetting cannot break the first; no variable names a loop that is yet to be made
(`NamedIsMade`), which is why a new one cannot break the second. `OneLoop` follows,
because what ticks is among the one named. `FlagInv` holds while no callback has
stopped its own clock: flag and event never disagree, a loop that is ending finds the
flag down, and `RunningIsTrue`. A stop takes the flag down and, by `AliveIsNamed`, joins
the very loop that ticks; a start finds no loop alive (`NobodyLives`).

**Process.** `ProcessUsesCoordinator` and `ProcessUsesClock` say that every step of
`NelThreads` is a step of each or leaves it alone; the first brings `CInv` and with it
`OneWorker`, `LateAnswersAreLost` and `CoordinatorImplementsSlot` into the process. `PInv`
adds four parts. `FloorInv`: the main thread computes only while it has the floor.
`WorkerInv`: a living worker is the running thought or has been cancelled.
`ClockThreadInv`: the clock's thread is over before the shutdown. `BoundaryInv`: no
thought before the clock starts, no result after the end. `TurnsAreUndisturbed`
follows from the first two, because who has the floor leaves no thought running;
`StopIsQuiet` from the last two, because a tick that was in progress when the user left
has ended before the coordinator is shut down.

**Turn.** The session evicts by folding lengths over its window, so the first part of
the module is about sums: `Total` is the sum of a sequence of numbers (a fold of the
community modules, expanded once, in `TotalIsSum`), and `TotalOfMore` says that one more
element adds itself. It is proved without an induction theorem: the least length at which
a sum does not exist leads to a contradiction, by the well-foundedness of `<` on `Nat`
spelled out with sets. From it come `FittingIsClosed` (what fits still fits without its
last exchange) and `AppendEffect`: an append either keeps the longest suffix that fits
(`Taken`), or leaves the session as it was because the exchange alone is too long. The
window is then the longest suffix of everything accepted (`TakenKeepsSuffix`): what had
been evicted before cannot come back, because it did not fit with less after it.

`TInv` is `TypeOK` and `Control`: what is known of a turn at each of its places, for
example that a turn which got past the response authority is one it lets through.
`StepEffect` reduces the steps to five: the turn goes on, ends unrecorded, is recorded
whole, is recorded by half, or the program ends. In this form the answer of a turn that is recorded
has passed the boundary, which is `NoIdentityPreamble`. `FollowupGuarded` needs
`LastKept` (the window ends with the last exchange that protects its topic, until
another turn ends), and `TranscriptIsTrue` three inductive parts: the exchanges are in
the order of their turns (`InOrder`), each is what was typed and shown (`Truthful`), and
none that could be kept is missing (`NoneForgotten`).

**Files.** `Inv` is the types, `Files` (the database has all the parts of its version;
it and every published backup are states that were once committed) and, for every
process, what it has established at its place: `Control` (its request, the lock, its
read transaction), `MigrationTx` and `ImportTx` (what is staged is the database with so
much of the work done) and `BackupTx` (while it reads, the database is the snapshot;
what it verified is). Whoever holds the lock is the only one to change the database, and
nobody does while anyone reads, because a commit waits for readers: with that, one lemma
(`AtLeft`) carries what a process has established through every step of the others.

**Context.** What is proved compares sums (the counters, the lengths in the bundle)
before and after a step, so the first part is about sums over finite sets:
`SumFunctionOnSet` takes its elements in an order of its own (`SumIsIterated`), which is
shown to be no different from any other (`Adds`, `SumIsAdded`), by an induction on the
size of the set in which the induction hypothesis is a set of numbers (`EveryNatural`).
`SumBumped` and `SumInserted` are what the steps need: one number grows, or comes.

`ContextInv` is `TypeOK` and four parts. `Counted`: the records that are accepted, still
to be tried or counted as left out are, with the failed sources counted, those fetched
of the sources read so far. Reading a source adds its candidates to the queue and the
rest of what was fetched to the counters (`SourceRead`, by the categories of a source,
one or two), and each later step moves one record. How many were fetched is a lemma of
its own (`NumbersOfSources`): because places are 1, 2, and so on, as many as the source holds or
`ReadLimit`, whichever is less, which is the form in which `EveryRecordCounted` says it,
in terms of the stores and not of what the model calls fetched. `Told`: the reasons
for truncation that precede packing are the true ones. `Progress` ties these to the
place in the assembly. `Packing` is about a list out of the first records of a queue,
and its steps (`PackingAccepts`, `PackingRefuses`, `PackingSheds`) are proved of any:
the list is in the order of the queue, "budget_exceeded" is among the reasons just when a
record is missing, and (`NoRoomAt`) a record that is missing although all above it are
there has no room. This last is inductive for two reasons. By `NoRoomStays`, what had no
room gets none when the account grows. And a record that is refused or goes again while
all above it are in the list finds nothing else there (`AllHeld`), so that the bundle
which did not fit is the very one that the property speaks of.

**Model-checked only.** Liveness (`StopReturns`, `StopCompletes`, `ThoughtSettles`),
which this prover does not handle. Every other property of a passing run is a theorem.
What `DecisionEngine` and `GoalPolicy` compute is stated where it is used: by the
properties of the turn, and by the legal successors of the ledger.

## 7. Where code and documents disagree

Each is a run and, in `PROJECT.json`, a finding with the lines on both sides.

* `MCGoalUnwritten`: `GoalRepository` reads a goal back after its commit; if only that
  read fails, the user is told that the goal could not be written.
* `MCThoughtStartFails`: `ThoughtCoordinator.start` changes its state before
  `Thread.start`; if that raises, the slot stays `running` without a worker until
  a turn cancels it, although ADR-020 promises a valid idle state.
* `MCTurnFollowup`: a follow-up is guarded by the last exchange the session kept; an
  answer too long to be kept lets the contrast after it go to the provider.
* `MCTurnStorage`: `KnowledgeService._classify` reads the repository directly, and
  `sqlite3.Error` leaves `Nel.think` and ends the program.
* `MCContextDisplaced`: refusing a record lengthens the metadata; records accepted
  before it may then be popped, a long fact for the sake of a small preference.

Six more have no run:

* Only the newest 1000 memories are read and scored, so that in a larger store an older
  relevant one does not beat a newer unrelated one, which ADR-024
  (`docs/07_DECISIONS.md:335`) concludes it does, and the bundle says that nothing is
  truncated. Facts, goals and preferences are cut by the order of their identifiers.
  `ContextAssembler` has this loss in `Fetched`, and `EveryRecordCounted` its extent.
* `Clock` is said to start and stop idempotently (`docs/06_CURRENT_STATE.md:94`), but
  after a stop from its own callback a start makes a second loop. Nel's callback never
  stops the clock; `OneLoop` names the exception.
* `GoalService.create` never looks for duplicates, while ADR-018
  (`docs/07_DECISIONS.md:1369`) says that exact duplicates are rejected: `GoalStore` has
  such duplicates in plain sight, two goals with one content.
* Preferences left out by selection and by packing are counted under two different names
  (`established_preferences`, `established`); `SelectionCounter` in `ContextAssembler`
  models this as it is.
* An import that read version 1 before a migration committed goes on into the later
  database, whose tables still take its rows, although `persistence/migration.py:117`
  refuses any other version; `DatabaseFiles` has this behaviour, and `ImportWhole` holds
  of it.
* Grounding looks for negations and the like only in the quote the provider chose, where
  `docs/06_CURRENT_STATE.md:51` says it validates against the text of the user.

## 8. Not modelled, and the plan

Left out for good: wording, logging and the language rules of classifiers and
grounding (pure text functions; their results are the inputs of `NelTurn`);
`local_understanding/` (diagnostics: its prediction is logged, its failures are
swallowed); start-up and configuration (sequential, nothing shared before it ends);
the JSON memory modules the runtime no longer constructs; HTTP clients.

The goal context serializer (`goals/context.py`) is only called by tests: the context
assembler reads and serialises goals itself. The cut-over script is retired: its
`main` refuses every call (`docs/06_CURRENT_STATE.md:144`).

Two branches of `Nel.think` after the provider's answer are never taken and are not in
`NelTurn.Answer`: a result that is no string (`core/nel.py:406`) and an empty one, which
would be recorded as incomplete (`core/nel.py:420-427`). Both providers raise on blank
content (`brain/providers.py:87`, `:187`) and otherwise return it as it is.

Left out so far, and of the parts that are modelled "partly" the reason: the other source
kinds of `GoalPolicy`, because every command writes as the validated user; how a
backup is compared row by row, which stays a comparison of parts and number of
writes; scores and ranks of context records; what words the response plan chooses.

Built in the order of importance, each with its proofs: goals, thoughts, the clock and
the threads, the other stores, the turn, the context, import, migrations and backups.
