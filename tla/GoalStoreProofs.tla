--------------------------- MODULE GoalStoreProofs ---------------------------
(***************************************************************************)
(* Proofs about GoalStore, for any set of goals, clients and versions.     *)
(* The argument: a version number names one row for ever (LedgerInv), a    *)
(* client's snapshot is always among the stored rows, and the transaction  *)
(* holds the lock from the version comparison to the commit.  So when the  *)
(* comparison succeeds the row in the table is the row the client          *)
(* validated, and the row it stores is a legal successor of it.            *)
(***************************************************************************)
EXTENDS GoalStore, TLAPS

(* What one client's control point says about its request and snapshot.    *)
ClientInv(c) ==
  /\ pc[c] = "idle" <=> req[c] = None
  /\ pc[c] \in InTransaction <=> lock = c
  /\ pc[c] # "idle" /\ req[c].kind = "create" =>
       /\ pc[c] \in {"insert", "commit", "readback"}
       /\ req[c].content \in Content
       /\ snap[c] = None
  /\ pc[c] # "idle" /\ req[c].kind # "create" =>
       /\ pc[c] # "insert"
       /\ req[c].expected \in Versions
       /\ req[c].kind # "update" => req[c].state = "active" /\ req[c].progress = None
       /\ pc[c] \in {"check", "load"} => snap[c] = None
       /\ pc[c] \notin {"check", "load"} =>
            /\ snap[c] \in Row
            /\ snap[c] \in Rows(req[c].goal)
            /\ Authorized(snap[c], req[c])

(* What the open transaction has established and staged.                   *)
TxInv(c) ==
  /\ pc[c] \in InTransaction /\ req[c].kind = "create" =>
       /\ current[req[c].goal] = None
       /\ staged.archived = None
       /\ staged.row = InitialRow(req[c].content)
  /\ pc[c] \in InTransaction /\ req[c].kind # "create" =>
       /\ current[req[c].goal] \in Row
       /\ current[req[c].goal].version = req[c].expected
       /\ staged.archived = current[req[c].goal]
       /\ pc[c] = "commit" => staged.row = Proposed(snap[c], req[c])

(* The two tables of one goal.                                             *)
LedgerInv(g) ==
  /\ current[g] = None => history[g] = {}
  /\ current[g] # None =>
       {row.version : row \in history[g]} = 1 .. (current[g].version - 1)
  /\ \A r1, r2 \in Rows(g) : r1.version = r2.version => r1 = r2

IInv ==
  /\ TypeOK
  /\ \A c \in Client : ClientInv(c) /\ TxInv(c)
  /\ \A g \in Goal : LedgerInv(g)

-----------------------------------------------------------------------------

LEMMA NoneIsNothing ==
  /\ None \notin Row /\ None \notin State /\ None \notin Progress
  /\ None \notin Content /\ None \notin Client
BY NoneAssumption, ClientAssumption

(* What a client builds from a row is a row.                               *)
LEMMA ProposedIsRow ==
  ASSUME NEW cur \in Row, NEW r \in Request
  PROVE  /\ Proposed(cur, r) \in Row
         /\ Proposed(cur, r).version = cur.version + 1
BY DEF Proposed, Row, Request

LEMMA InitialIsRow ==
  ASSUME NEW content \in Content
  PROVE  InitialRow(content) \in Row /\ InitialRow(content).version = 1
BY DEF InitialRow, Row, State, Progress

(* Policy: an authorized request makes a legal successor, and evidence     *)
(* of progress never weakens along it.                                     *)
LEMMA AuthorizedIsLegal ==
  ASSUME NEW cur \in Row, NEW r \in Request,
         r.kind # "create",
         r.kind # "update" => r.state = "active" /\ r.progress = None,
         Authorized(cur, r)
  PROVE  /\ Ledger!LegalSuccessor(cur, Proposed(cur, r))
         /\ r.expected = cur.version
<1>1. CASE r.kind = "update"
  BY <1>1, NoneIsNothing
     DEF Authorized, UpdateAllowed, Proposed, Ledger!LegalSuccessor, Row, Request,
         IsProgressReport, State, Progress, Terminal, AllowedTransitions,
         ProgressTransitions, Ledger!AllowedTransitions, Ledger!ProgressTransitions,
         Ledger!State, Ledger!Progress, Ledger!Terminal
<1>2. CASE r.kind \in {"reopen", "restore"}
  BY <1>2, NoneIsNothing
     DEF Authorized, ActivationAllowed, Proposed, Ledger!LegalSuccessor, Row, Request,
         State, Terminal, Ledger!Terminal
<1>3. QED
  BY <1>1, <1>2 DEF Request

LEMMA LegalKeepsEvidence ==
  ASSUME NEW old \in Row, NEW new \in Row, Ledger!LegalSuccessor(old, new)
  PROVE  Rank[old.progress] <= Rank[new.progress]
BY DEF Ledger!LegalSuccessor, Rank, Row, Progress, Ledger!Progress,
       Ledger!ProgressTransitions


-----------------------------------------------------------------------------
(* Steps that leave the tables alone, seen by everyone but the client that *)
(* takes them: the lock passes between that client and nobody.             *)

LockStep(c) ==
  \/ UNCHANGED <<lock, staged>>
  \/ lock = None /\ lock' = c
  \/ lock = c /\ lock' = c
  \/ lock = c /\ lock' = None

LocalStep(c) ==
  /\ UNCHANGED tables
  /\ LockStep(c)
  /\ \A d \in Client \ {c} :
       pc'[d] = pc[d] /\ req'[d] = req[d] /\ snap'[d] = snap[d]

LEMMA LocalStepKeepsOthers ==
  ASSUME IInv, NEW c \in Client, LocalStep(c)
  PROVE  /\ \A g \in Goal : LedgerInv(g)' /\ Rows(g)' = Rows(g)
         /\ \A d \in Client \ {c} : ClientInv(d)' /\ TxInv(d)'
<1>1. \A g : Rows(g)' = Rows(g)
  BY DEF LocalStep, tables, Rows
<1>2. \A g \in Goal : LedgerInv(g)'
  BY <1>1 DEF LocalStep, tables, IInv, LedgerInv
<1>3. ASSUME NEW d \in Client \ {c}
      PROVE  ClientInv(d)' /\ TxInv(d)'
  <2>1. ClientInv(d) /\ TxInv(d)
    BY <1>3 DEF IInv
  <2>2. pc'[d] = pc[d] /\ req'[d] = req[d] /\ snap'[d] = snap[d] /\ UNCHANGED <<current, history>>
    BY <1>3 DEF LocalStep, tables
  <2>3. lock' = d <=> lock = d
    BY <1>3, NoneIsNothing DEF LocalStep, LockStep
  <2>4. ClientInv(d)'
    BY <1>1, <2>1, <2>2, <2>3 DEF ClientInv
  <2>5. pc[d] \in InTransaction => staged' = staged
    BY <1>3, <2>1, <2>3, NoneIsNothing DEF LocalStep, LockStep, ClientInv
  <2>6. TxInv(d)'
    BY <2>1, <2>2, <2>5 DEF TxInv
  <2>7. QED
    BY <2>4, <2>6
<1>4. QED
  BY <1>1, <1>2, <1>3

(* It remains, for such a step, to look at the client itself.              *)
LEMMA LocalStepPreserves ==
  ASSUME IInv, NEW c \in Client, LocalStep(c), TypeOK', ClientInv(c)', TxInv(c)'
  PROVE  IInv'
BY LocalStepKeepsOthers DEF IInv

-----------------------------------------------------------------------------
(* The steps of a client, one lemma each.                                  *)

LEMMA SubmittedIsRequest ==
  ASSUME NEW g \in Goal
  PROVE  /\ \A content \in Content :
              Asking("create", g, None, None, None, content, FALSE) \in Request
         /\ \A v \in Versions, s \in State, b \in BOOLEAN :
              Asking("update", g, v, s, None, None, b) \in Request
         /\ \A v \in Versions, p \in Progress, b \in BOOLEAN :
              Asking("update", g, v, None, p, None, b) \in Request
         /\ \A v \in Versions, kind \in {"reopen", "restore"} :
              Asking(kind, g, v, "active", None, None, FALSE) \in Request
BY DEF Asking, Request, State

LEMMA StartPreserves ==
  ASSUME IInv, NEW c \in Client, NEW r \in Request, NEW there,
         Start(c, r, there),
         \/ there = "insert" /\ r.kind = "create" /\ r.content \in Content
         \/ /\ there = "check" /\ r.kind # "create" /\ r.expected \in Versions
            /\ r.kind # "update" => r.state = "active" /\ r.progress = None
  PROVE  IInv'
<1>1. TypeOK'
  BY DEF IInv, TypeOK, Start, tables, Location, Answer
<1>2. LocalStep(c)
  BY DEF IInv, TypeOK, Start, LocalStep, LockStep
<1>3. r # None
  BY ClientAssumption
<1>4. ClientInv(c)'
  BY <1>3 DEF IInv, TypeOK, Start, ClientInv, InTransaction
<1>5. TxInv(c)'
  BY DEF IInv, TypeOK, Start, TxInv, InTransaction
<1>6. QED
  BY <1>1, <1>2, <1>4, <1>5, LocalStepPreserves

LEMMA TurnAwayPreserves ==
  ASSUME IInv, NEW c \in Client, NEW outcome \in Answer, TurnAway(c, outcome)
  PROVE  IInv'
<1>1. TypeOK'
  BY DEF IInv, TypeOK, TurnAway, tables, Answer
<1>2. LocalStep(c)
  BY DEF IInv, TypeOK, TurnAway, LocalStep, LockStep
<1>3. ClientInv(c)' /\ TxInv(c)'
  BY DEF IInv, TypeOK, TurnAway, ClientInv, TxInv, InTransaction, Rows, tables
<1>4. QED
  BY <1>1, <1>2, <1>3, LocalStepPreserves

LEMMA SubmitPreserves ==
  ASSUME IInv, NEW c \in Client,
         SubmitCreate(c) \/ SubmitState(c) \/ SubmitProgress(c) \/ SubmitActivation(c)
  PROVE  IInv'
<1> USE DEF Answer
<1>1. CASE SubmitCreate(c)
  <2>1. CASE TurnAway(c, "clarify") \/ TurnAway(c, "rejected")
    BY <2>1, TurnAwayPreserves
  <2>2. ASSUME NEW g \in Goal, NEW content \in Content,
               Start(c, Asking("create", g, None, None, None, content, FALSE), "insert")
        PROVE  IInv'
    BY <2>2, SubmittedIsRequest, StartPreserves DEF Asking
  <2>3. QED
    BY <1>1, <2>1, <2>2 DEF SubmitCreate
<1>2. CASE SubmitState(c)
  <2>1. PICK g \in Goal, v \in Versions, s \in State :
          \/ TurnAway(c, "clarify")
          \/ Start(c, Asking("update", g, v, s, None, None, s = "completed"), "check")
    BY <1>2 DEF SubmitState
  <2>2. Asking("update", g, v, s, None, None, s = "completed") \in Request
    BY SubmittedIsRequest
  <2>3. QED
    BY <2>1, <2>2, StartPreserves, TurnAwayPreserves DEF Asking
<1>3. CASE SubmitProgress(c)
  <2>1. PICK g \in Goal, v \in Versions, p \in Progress, confirmed \in BOOLEAN :
          \/ TurnAway(c, "clarify")
          \/ Start(c, Asking("update", g, v, None, p, None, confirmed), "check")
    BY <1>3 DEF SubmitProgress
  <2>2. Asking("update", g, v, None, p, None, confirmed) \in Request
    BY SubmittedIsRequest
  <2>3. QED
    BY <2>1, <2>2, StartPreserves, TurnAwayPreserves DEF Asking
<1>4. CASE SubmitActivation(c)
  <2>1. CASE TurnAway(c, "clarify")
    BY <2>1, TurnAwayPreserves
  <2>2. ASSUME NEW g \in Goal, NEW v \in Versions, NEW kind \in {"reopen", "restore"},
               Start(c, Asking(kind, g, v, "active", None, None, FALSE), "check")
        PROVE  IInv'
    BY <2>2, SubmittedIsRequest, StartPreserves DEF Asking
  <2>3. QED
    BY <1>4, <2>1, <2>2 DEF SubmitActivation
<1>5. QED
  BY <1>1, <1>2, <1>3, <1>4

(* A client that answers leaves the store as it is and forgets its request.*)
LEMMA ReplyPreserves ==
  ASSUME IInv, NEW c \in Client, NEW outcome \in Answer,
         Reply(c, outcome), UNCHANGED tables,
         \/ UNCHANGED <<lock, staged>> /\ pc[c] \notin InTransaction
         \/ Rollback(c),
         snap' \in [Client -> Row \cup {None}],
         \A d \in Client \ {c} : snap'[d] = snap[d],
         written' \in [Client -> BOOLEAN]
  PROVE  IInv'
<1>1. lock' # c /\ LockStep(c)
  BY NoneIsNothing DEF IInv, ClientInv, Rollback, LockStep
<1>2. TypeOK'
  <2>1. lock' \in Client \cup {None}
    BY DEF IInv, TypeOK, Rollback
  <2>2. staged' \in [archived : Row \cup {None}, row : Row \cup {None}]
    BY DEF IInv, TypeOK, Rollback, NothingStaged
  <2>3. QED
    BY <2>1, <2>2 DEF IInv, TypeOK, Reply, tables, Location
<1>3. LocalStep(c)
  BY <1>1 DEF IInv, TypeOK, Reply, LocalStep
<1>4. ClientInv(c)' /\ TxInv(c)'
  BY <1>1 DEF IInv, TypeOK, Reply, ClientInv, TxInv, InTransaction
<1>5. QED
  BY <1>2, <1>3, <1>4, LocalStepPreserves

LEMMA CheckVersionPreserves ==
  ASSUME IInv, NEW c \in Client, CheckVersion(c)
  PROVE  IInv'
<1>1. CASE \E outcome \in {"missing", "conflict"} : Reply(c, outcome)
  BY <1>1, ReplyPreserves
     DEF CheckVersion, Reading, Answer, InTransaction, IInv, TypeOK
<1>2. CASE GoTo(c, "load")
  <2>1. TypeOK'
    BY <1>2 DEF IInv, TypeOK, CheckVersion, Reading, GoTo, tables, Location
  <2>2. LocalStep(c)
    BY <1>2 DEF IInv, TypeOK, CheckVersion, Reading, GoTo, LocalStep, LockStep
  <2>3. ClientInv(c)' /\ TxInv(c)'
    BY <1>2 DEF IInv, TypeOK, CheckVersion, Reading, GoTo, ClientInv, TxInv, InTransaction
  <2>4. QED
    BY <2>1, <2>2, <2>3, LocalStepPreserves
<1>3. QED
  BY <1>1, <1>2 DEF CheckVersion

LEMMA LoadPreserves ==
  ASSUME IInv, NEW c \in Client, LoadAndValidate(c)
  PROVE  IInv'
<1>1. CASE \E outcome \in {"missing", "rejected"} : Reply(c, outcome) /\ UNCHANGED snap
  BY <1>1, ReplyPreserves
     DEF LoadAndValidate, Reading, Answer, InTransaction, IInv, TypeOK
<1>2. CASE /\ current[req[c].goal] # None
           /\ Authorized(current[req[c].goal], req[c])
           /\ snap' = [snap EXCEPT ![c] = current[req[c].goal]]
           /\ GoTo(c, "begin")
  <2>1. pc[c] = "load" /\ req[c] \in Request /\ current[req[c].goal] \in Row
    BY <1>2 DEF LoadAndValidate, IInv, TypeOK, ClientInv, Request
  <2>2. TypeOK'
    BY <1>2, <2>1 DEF IInv, TypeOK, LoadAndValidate, Reading, GoTo, tables, Location
  <2>3. LocalStep(c)
    BY <1>2 DEF IInv, TypeOK, LoadAndValidate, Reading, GoTo, LocalStep, LockStep
  <2>4. snap'[c] = current[req[c].goal] /\ snap'[c] \in Rows(req[c].goal)'
    <3>1. snap'[c] = current[req[c].goal]
      BY <1>2 DEF IInv, TypeOK
    <3>2. req'[c].goal = req[c].goal /\ current' = current /\ history' = history
      BY <1>2 DEF LoadAndValidate, Reading, GoTo, tables
    <3>3. QED
      BY <1>2, <3>1, <3>2 DEF Rows
  <2>5. pc'[c] = "begin" /\ req' = req /\ lock' = lock /\ lock # c
    BY <1>2, <2>1 DEF LoadAndValidate, Reading, GoTo, IInv, TypeOK, ClientInv, InTransaction
  <2>6. ClientInv(c)' /\ TxInv(c)'
    BY <1>2, <2>1, <2>4, <2>5 DEF IInv, ClientInv, TxInv, InTransaction
  <2>7. QED
    BY <2>2, <2>3, <2>6, LocalStepPreserves
<1>3. QED
  BY <1>1, <1>2 DEF LoadAndValidate

LEMMA ReadBackPreserves ==
  ASSUME IInv, NEW c \in Client, ReadBack(c)
  PROVE  IInv'
<1>1. req[c].goal \in Goal
  BY DEF ReadBack, IInv, TypeOK, ClientInv, Request
<1>2. snap' \in [Client -> Row \cup {None}] /\ \A d \in Client \ {c} : snap'[d] = snap[d]
  BY <1>1 DEF ReadBack, IInv, TypeOK
<1>3. QED
  BY <1>2, ReplyPreserves DEF ReadBack, Reading, Answer, InTransaction, IInv, TypeOK

LEMMA FailurePreserves ==
  ASSUME IInv, NEW c \in Client, StorageError(c) \/ Crash(c)
  PROVE  IInv'
<1>1. /\ snap' \in [Client -> Row \cup {None}] /\ \A d \in Client \ {c} : snap'[d] = snap[d]
      /\ written' \in [Client -> BOOLEAN]
  BY DEF StorageError, Crash, IInv, TypeOK
<1>2. QED
  BY <1>1, ReplyPreserves DEF StorageError, Crash, Answer

LEMMA InsertPreserves ==
  ASSUME IInv, NEW c \in Client, Insert(c)
  PROVE  IInv'
<1>1. /\ pc[c] = "insert" /\ req[c] \in Request /\ req[c].kind = "create"
      /\ req[c].content \in Content /\ snap[c] = None /\ lock = None
  BY DEF Insert, IInv, TypeOK, ClientInv, InTransaction
<1>2. CASE Reply(c, "failed") /\ UNCHANGED <<lock, staged>>
  BY <1>1, <1>2, ReplyPreserves DEF Insert, Answer, InTransaction, IInv, TypeOK
<1>3. CASE /\ current[req[c].goal] = None
           /\ lock' = c
           /\ staged' = [NothingStaged EXCEPT !.row = InitialRow(req[c].content)]
           /\ GoTo(c, "commit")
  <2>1. /\ staged'.archived = None
        /\ staged'.row = InitialRow(req[c].content)
        /\ staged' \in [archived : Row \cup {None}, row : Row \cup {None}]
    BY <1>1, <1>3, InitialIsRow DEF NothingStaged
  <2>2. TypeOK'
    BY <1>3, <2>1 DEF IInv, TypeOK, Insert, GoTo, tables, Location, InTransaction
  <2>3. LocalStep(c)
    BY <1>1, <1>3 DEF IInv, TypeOK, Insert, GoTo, LocalStep, LockStep
  <2>4. pc'[c] = "commit" /\ req' = req /\ snap' = snap /\ current' = current
    BY <1>3 DEF IInv, TypeOK, Insert, GoTo, tables
  <2>5. ClientInv(c)' /\ TxInv(c)'
    BY <1>1, <1>3, <2>1, <2>4, NoneIsNothing, ClientAssumption DEF ClientInv, TxInv, InTransaction
  <2>6. QED
    BY <2>2, <2>3, <2>5, LocalStepPreserves
<1>4. QED
  BY <1>2, <1>3 DEF Insert, TakeLock

LEMMA BeginReplacePreserves ==
  ASSUME IInv, NEW c \in Client, BeginReplace(c)
  PROVE  IInv'
<1>1. pc[c] = "begin" /\ req[c] \in Request /\ req[c].kind # "create" /\ lock = None
  BY DEF BeginReplace, IInv, TypeOK, ClientInv, InTransaction
<1>2. CASE /\ \E outcome \in {"missing", "conflict", "failed"} : Reply(c, outcome)
           /\ UNCHANGED <<lock, staged>>
  BY <1>1, <1>2, ReplyPreserves DEF BeginReplace, Answer, InTransaction, IInv, TypeOK
<1>3. CASE /\ current[req[c].goal] # None
           /\ current[req[c].goal].version = req[c].expected
           /\ lock' = c
           /\ staged' = [NothingStaged EXCEPT !.archived = current[req[c].goal]]
           /\ GoTo(c, "archive")
  <2>1. current[req[c].goal] \in Row
    BY <1>1, <1>3 DEF IInv, TypeOK, Request
  <2>2. /\ staged'.archived = current[req[c].goal]
        /\ staged' \in [archived : Row \cup {None}, row : Row \cup {None}]
    BY <1>3, <2>1 DEF NothingStaged
  <2>3. TypeOK'
    BY <1>3, <2>2 DEF IInv, TypeOK, BeginReplace, GoTo, tables, Location, InTransaction
  <2>4. LocalStep(c)
    BY <1>1, <1>3 DEF IInv, TypeOK, BeginReplace, GoTo, LocalStep, LockStep
  <2>5. pc'[c] = "archive" /\ req' = req /\ snap' = snap /\ UNCHANGED <<current, history>>
    BY <1>3 DEF IInv, TypeOK, BeginReplace, GoTo, tables
  <2>6. Rows(req[c].goal)' = Rows(req[c].goal)
    BY <2>5 DEF Rows
  <2>7. ClientInv(c)'
    BY <1>1, <1>3, <2>5, <2>6 DEF ClientInv, IInv, InTransaction
  <2>8. TxInv(c)'
    BY <1>1, <1>3, <2>1, <2>2, <2>5 DEF TxInv, InTransaction
  <2>9. QED
    BY <2>3, <2>4, <2>7, <2>8, LocalStepPreserves
<1>4. QED
  BY <1>2, <1>3 DEF BeginReplace, TakeLock

LEMMA WritePreserves ==
  ASSUME IInv, NEW c \in Client, Archive(c) \/ Replace(c)
  PROVE  IInv'
<1>1. /\ pc[c] \in {"archive", "replace"} /\ req[c] \in Request /\ req[c].kind # "create"
      /\ lock = c
  BY DEF Archive, Replace, IInv, TypeOK, ClientInv, InTransaction
<1>2. CASE \E outcome \in {"conflict", "failed"} : Rollback(c) /\ Reply(c, outcome)
  BY <1>2, ReplyPreserves DEF Archive, Replace, Answer, IInv, TypeOK
<1>3. CASE Archive(c) /\ GoTo(c, "replace") /\ UNCHANGED <<lock, staged>>
  <2>1. TypeOK'
    BY <1>3 DEF IInv, TypeOK, Archive, GoTo, tables, Location, InTransaction
  <2>2. LocalStep(c)
    BY <1>3 DEF IInv, TypeOK, Archive, GoTo, LocalStep, LockStep
  <2>3. pc'[c] = "replace" /\ req' = req /\ snap' = snap /\ UNCHANGED <<current, history>>
    BY <1>3 DEF IInv, TypeOK, Archive, GoTo, tables
  <2>4. Rows(req[c].goal)' = Rows(req[c].goal)
    BY <2>3 DEF Rows
  <2>5. ClientInv(c)' /\ TxInv(c)'
    BY <1>1, <1>3, <2>3, <2>4 DEF ClientInv, TxInv, IInv, InTransaction
  <2>6. QED
    BY <2>1, <2>2, <2>5, LocalStepPreserves
<1>4. CASE /\ Replace(c) /\ GoTo(c, "commit") /\ UNCHANGED lock
           /\ staged' = [staged EXCEPT !.row = Proposed(snap[c], req[c])]
  <2>1. snap[c] \in Row
    BY <1>1 DEF IInv, ClientInv
  <2>2. /\ staged'.archived = staged.archived
        /\ staged'.row = Proposed(snap[c], req[c])
        /\ staged' \in [archived : Row \cup {None}, row : Row \cup {None}]
    BY <1>1, <1>4, <2>1, ProposedIsRow DEF IInv, TypeOK
  <2>3. TypeOK'
    BY <1>4, <2>2 DEF IInv, TypeOK, Replace, GoTo, tables, Location, InTransaction
  <2>4. LocalStep(c)
    BY <1>1, <1>4 DEF IInv, TypeOK, Replace, GoTo, LocalStep, LockStep
  <2>5. pc'[c] = "commit" /\ req' = req /\ snap' = snap /\ UNCHANGED <<current, history>>
    BY <1>4 DEF IInv, TypeOK, Replace, GoTo, tables
  <2>6. Rows(req[c].goal)' = Rows(req[c].goal)
    BY <2>5 DEF Rows
  <2>7. ClientInv(c)' /\ TxInv(c)'
    BY <1>1, <1>4, <2>2, <2>5, <2>6 DEF ClientInv, TxInv, IInv, InTransaction
  <2>8. QED
    BY <2>3, <2>4, <2>7, LocalStepPreserves
<1>5. QED
  BY <1>2, <1>3, <1>4 DEF Archive, Replace

-----------------------------------------------------------------------------
(* The commit, the one step that changes the tables.                       *)

(* The stored versions of a goal end with its current row.                 *)
LEMMA CurrentIsLatest ==
  ASSUME TypeOK, NEW g \in Goal, LedgerInv(g), NEW row \in Rows(g)
  PROVE  /\ row \in Row /\ current[g] \in Row
         /\ row.version \in 1 .. current[g].version
<1>1. current[g] # None
  BY DEF LedgerInv, Rows
<1>2. row \in Row /\ current[g] \in Row
  BY <1>1 DEF TypeOK, Rows
<1>3. CASE row \in history[g]
  <2>1. row.version \in 1 .. (current[g].version - 1)
    BY <1>1, <1>3 DEF LedgerInv
  <2>2. QED
    BY <1>2, <2>1 DEF Row
<1>4. CASE row = current[g]
  BY <1>2, <1>4 DEF Row
<1>5. QED
  BY <1>2, <1>3, <1>4 DEF Rows

CommitsCreate(c, g) ==
  /\ req[c].kind = "create"
  /\ req[c].content \in Content
  /\ current[g] = None /\ history[g] = {} /\ history'[g] = {}
  /\ current'[g] = InitialRow(req[c].content)

CommitsRevision(c, g) ==
  /\ req[c].kind # "create"
  /\ req[c].kind # "update" => req[c].state = "active" /\ req[c].progress = None
  /\ snap[c] = current[g] /\ current[g] \in Row
  /\ Authorized(current[g], req[c])
  /\ current'[g] = Proposed(current[g], req[c])
  /\ history'[g] = history[g] \cup {current[g]}

(* A commit stores the first version of a goal without one, or the         *)
(* revision the client validated, made of the row that is in the table.    *)
LEMMA CommitEffect ==
  ASSUME IInv, NEW c \in Client, NEW g \in Goal, Commit(c), g = req[c].goal
  PROVE  /\ req[c] \in Request
         /\ CommitsCreate(c, g) \/ CommitsRevision(c, g)
         /\ current'[g] \in Row
         /\ Rows(g)' = Rows(g) \cup {current'[g]}
         /\ \A h \in Goal \ {g} : current'[h] = current[h] /\ history'[h] = history[h]
<1>1. pc[c] = "commit" /\ req[c] \in Request /\ LedgerInv(g) /\ ClientInv(c) /\ TxInv(c)
  BY DEF Commit, IInv, TypeOK, ClientInv
<1>2. /\ current'[g] = staged.row
      /\ history'[g] = history[g] \cup ({staged.archived} \ {None})
      /\ \A h \in Goal \ {g} : current'[h] = current[h] /\ history'[h] = history[h]
  BY DEF Commit, IInv, TypeOK
<1>3. CASE req[c].kind = "create"
  <2>1. CommitsCreate(c, g)
    BY <1>1, <1>2, <1>3
       DEF CommitsCreate, ClientInv, TxInv, LedgerInv, InTransaction
  <2>2. current'[g] \in Row
    BY <2>1, InitialIsRow DEF CommitsCreate
  <2>3. Rows(g)' = Rows(g) \cup {current'[g]}
    BY <2>1, <2>2, NoneIsNothing DEF CommitsCreate, Rows
  <2>4. QED
    BY <1>1, <1>2, <2>1, <2>2, <2>3
<1>4. CASE req[c].kind # "create"
  <2>1. /\ snap[c] \in Row /\ snap[c] \in Rows(g) /\ Authorized(snap[c], req[c])
        /\ req[c].kind # "update" => req[c].state = "active" /\ req[c].progress = None
    BY <1>1, <1>4 DEF ClientInv
  <2>2. /\ current[g] \in Row /\ current[g].version = req[c].expected
        /\ staged.archived = current[g] /\ staged.row = Proposed(snap[c], req[c])
    BY <1>1, <1>4 DEF TxInv, InTransaction
  <2>3. snap[c].version = req[c].expected
    BY <1>1, <1>4, <2>1, AuthorizedIsLegal
  <2>4. snap[c] = current[g]
    BY <1>1, <2>1, <2>2, <2>3, NoneIsNothing DEF LedgerInv, Rows
  <2>5. CommitsRevision(c, g)
    BY <1>2, <1>4, <2>1, <2>2, <2>4, NoneIsNothing DEF CommitsRevision
  <2>6. current'[g] \in Row
    BY <1>1, <2>5, ProposedIsRow DEF CommitsRevision
  <2>7. Rows(g)' = Rows(g) \cup {current'[g]}
    BY <2>2, <2>5, <2>6, NoneIsNothing DEF CommitsRevision, Rows
  <2>8. QED
    BY <1>1, <1>2, <2>5, <2>6, <2>7
<1>5. QED
  BY <1>3, <1>4

LEMMA CommitKeepsLedger ==
  ASSUME IInv, NEW c \in Client, Commit(c), NEW g \in Goal
  PROVE  LedgerInv(g)' /\ Rows(g) \subseteq Rows(g)'
<1>1. req[c].goal \in Goal
  BY DEF Commit, IInv, TypeOK, ClientInv, Request
<1>2. LedgerInv(g) /\ TypeOK
  BY DEF IInv
<1>3. CASE g # req[c].goal
  <2>1. current'[g] = current[g] /\ history'[g] = history[g]
    BY <1>1, <1>3, CommitEffect
  <2>2. QED
    BY <1>2, <2>1 DEF LedgerInv, Rows
<1>4. CASE g = req[c].goal /\ CommitsCreate(c, g)
  <2>1. current'[g] \in Row /\ current'[g].version = 1
    BY <1>4, InitialIsRow DEF CommitsCreate
  <2>2. Rows(g) = {} /\ Rows(g)' = {current'[g]}
    BY <1>4, <2>1, NoneIsNothing DEF CommitsCreate, Rows
  <2>3. {row.version : row \in history'[g]} = 1 .. (current'[g].version - 1)
    BY <1>4, <2>1 DEF CommitsCreate
  <2>4. QED
    BY <2>1, <2>2, <2>3, NoneIsNothing DEF LedgerInv
<1>5. CASE g = req[c].goal /\ CommitsRevision(c, g)
  <2>1. req[c] \in Request /\ current'[g] \in Row /\ Rows(g)' = Rows(g) \cup {current'[g]}
    BY <1>5, CommitEffect
  <2>2. current[g] \in Row /\ current[g] # None /\ current'[g].version = current[g].version + 1
    BY <1>5, <2>1, ProposedIsRow, NoneIsNothing DEF CommitsRevision
  <2>3. {row.version : row \in history'[g]} = 1 .. (current'[g].version - 1)
    <3>1. {row.version : row \in history[g]} = 1 .. (current[g].version - 1)
      BY <1>2, <2>2 DEF LedgerInv
    <3>2. {row.version : row \in history'[g]} =
            {row.version : row \in history[g]} \cup {current[g].version}
      BY <1>5 DEF CommitsRevision
    <3>3. current[g].version \in Nat \ {0}
      BY <2>2 DEF Row
    <3>4. current'[g].version - 1 = current[g].version
      BY <2>2, <3>3
    <3>5. (1 .. (current[g].version - 1)) \cup {current[g].version} = 1 .. current[g].version
      BY <3>3
    <3>6. QED
      BY <3>1, <3>2, <3>4, <3>5
  <2>4. \A row \in Rows(g) : row.version # current'[g].version
    <3>1. TAKE row \in Rows(g)
    <3>2. row.version \in 1 .. current[g].version
      BY <1>2, CurrentIsLatest
    <3>3. QED
      BY <2>2, <3>2 DEF Row
  <2>5. \A r1, r2 \in Rows(g)' : r1.version = r2.version => r1 = r2
    BY <1>2, <2>1, <2>4 DEF LedgerInv
  <2>6. QED
    BY <2>1, <2>3, <2>5, NoneIsNothing DEF LedgerInv
<1>6. QED
  BY <1>3, <1>4, <1>5, CommitEffect

LEMMA CommitPreserves ==
  ASSUME IInv, NEW c \in Client, Commit(c)
  PROVE  IInv'
<1> DEFINE g == req[c].goal
<1>1. /\ pc[c] = "commit" /\ req[c] \in Request /\ g \in Goal
      /\ lock = c /\ lock' = None /\ staged' = NothingStaged
      /\ req' = req /\ snap' = snap /\ pc' = [pc EXCEPT ![c] = "readback"]
  BY DEF Commit, GoTo, IInv, TypeOK, ClientInv, Request, InTransaction
<1>2. \A h \in Goal : LedgerInv(h)' /\ Rows(h) \subseteq Rows(h)'
  BY CommitKeepsLedger
<1>3. TypeOK'
  <2>1. current'[g] \in Row
    BY <1>1, CommitEffect
  <2>2. current' \in [Goal -> Row \cup {None}]
    BY <1>1, <2>1 DEF Commit, IInv, TypeOK
  <2>3. staged.archived \in Row \cup {None}
    BY DEF IInv, TypeOK
  <2>4. history' \in [Goal -> SUBSET Row]
    BY <1>1, <2>3 DEF Commit, IInv, TypeOK
  <2>5. QED
    BY <1>1, <2>2, <2>4 DEF Commit, GoTo, IInv, TypeOK, NothingStaged, Location
<1>4. ASSUME NEW d \in Client
      PROVE  ClientInv(d)' /\ TxInv(d)'
  <2>1. ClientInv(d) /\ pc[d] \in Location /\ req[d] \in Request \cup {None}
    BY DEF IInv, TypeOK
  <2>2. pc[d] \in InTransaction => d = c
    BY <1>1, <2>1 DEF ClientInv
  <2>3. pc'[d] \notin InTransaction /\ lock' # d
    BY <1>1, <2>2, NoneIsNothing DEF IInv, TypeOK, InTransaction
  <2>4. pc'[d] = pc[d] \/ (d = c /\ pc'[d] = "readback")
    BY <1>1 DEF IInv, TypeOK
  <2>5. pc[d] # "idle" => Rows(req[d].goal) \subseteq Rows(req[d].goal)'
    BY <1>1, <1>2, <2>1 DEF ClientInv, Request
  <2>6. ClientInv(d)'
    BY <1>1, <2>1, <2>3, <2>4, <2>5 DEF ClientInv, InTransaction
  <2>7. TxInv(d)'
    BY <2>3 DEF TxInv
  <2>8. QED
    BY <2>6, <2>7
<1>5. QED
  BY <1>2, <1>3, <1>4 DEF IInv

(* Every other step leaves both tables alone.                              *)
LEMMA OnlyCommitWrites ==
  ASSUME [Next]_vars
  PROVE  UNCHANGED tables \/ (\E c \in Client : Commit(c))
<1>1. ASSUME NEW c \in Client, Step(c)
      PROVE  UNCHANGED tables \/ Commit(c)
  <2>1. CASE \/ SubmitCreate(c) \/ SubmitState(c)
             \/ SubmitProgress(c) \/ SubmitActivation(c)
    <3>1. ASSUME NEW r, NEW there, Start(c, r, there)
          PROVE  UNCHANGED tables
      BY <3>1 DEF Start
    <3>2. ASSUME NEW outcome, TurnAway(c, outcome)
          PROVE  UNCHANGED tables
      BY <3>2 DEF TurnAway
    <3>3. QED
      BY <2>1, <3>1, <3>2 DEF SubmitCreate, SubmitState, SubmitProgress, SubmitActivation
  <2>2. CASE CheckVersion(c) \/ LoadAndValidate(c) \/ ReadBack(c)
    BY <2>2 DEF CheckVersion, LoadAndValidate, ReadBack, Reading
  <2>3. CASE \/ Insert(c) \/ BeginReplace(c) \/ Archive(c) \/ Replace(c)
             \/ StorageError(c) \/ Crash(c)
    BY <2>3 DEF Insert, BeginReplace, Archive, Replace, StorageError, Crash
  <2>4. QED
    BY <1>1, <2>1, <2>2, <2>3 DEF Step
<1>2. QED
  BY <1>1 DEF Next, vars, tables

-----------------------------------------------------------------------------
(* The inductive invariant.                                                *)

LEMMA InitEstablishes == Init => IInv
<1> SUFFICES ASSUME Init PROVE IInv
  OBVIOUS
<1>2. TypeOK
  BY DEF Init, TypeOK, Location, Answer, NothingStaged
<1>3. \A c \in Client : ClientInv(c) /\ TxInv(c)
  BY NoneIsNothing DEF Init, ClientInv, TxInv, InTransaction
<1>4. \A g \in Goal : LedgerInv(g)
  BY DEF Init, LedgerInv, Rows
<1>5. QED
  BY <1>2, <1>3, <1>4 DEF IInv

LEMMA NextPreserves == IInv /\ [Next]_vars => IInv'
<1> SUFFICES ASSUME IInv, [Next]_vars PROVE IInv'
  OBVIOUS
<1>2. ASSUME NEW c \in Client, Step(c) PROVE IInv'
  BY <1>2, SubmitPreserves, CheckVersionPreserves, LoadPreserves, ReadBackPreserves,
     InsertPreserves, BeginReplacePreserves, WritePreserves, CommitPreserves,
     FailurePreserves DEF Step
<1>3. CASE UNCHANGED vars
  BY <1>3 DEF vars, tables, IInv, TypeOK, ClientInv, TxInv, LedgerInv, Rows
<1>4. QED
  BY <1>2, <1>3 DEF Next

(* Every reachable state satisfies the inductive invariant.                *)
THEOREM Invariance == Spec => []IInv
BY InitEstablishes, NextPreserves, PTL DEF Spec

(* Types, for every number of goals, clients and versions.                 *)
THEOREM TypeCorrect == Spec => []TypeOK
<1>1. IInv => TypeOK
  BY DEF IInv
<1>2. QED
  BY <1>1, Invariance, PTL

(* goals_history and goals_current together are the contiguous ledger      *)
(* 1 .. version of each goal, whatever fails or crashes in _replace.       *)
THEOREM HistoryIsContiguous == Spec => []HistoryContiguous
<1>1. IInv => HistoryContiguous
  BY DEF IInv, LedgerInv, HistoryContiguous
<1>2. QED
  BY <1>1, Invariance, PTL

(* An update is validated against exactly the row it replaces: the version *)
(* comparisons inside the transaction leave no room for a lost update.     *)
THEOREM NoUpdateIsLost == Spec => NoLostUpdate
<1> DEFINE Replaced ==
      \A g \in Goal :
        current[g] # None /\ current'[g] # current[g] =>
          \E c \in Client :
            /\ pc[c] = "commit" /\ req[c].goal = g
            /\ snap[c] = current[g]
            /\ Authorized(current[g], req[c])
            /\ current'[g] = Proposed(snap[c], req[c])
<1>1. ASSUME IInv, [Next]_vars PROVE [Replaced]_current
  <2>1. CASE UNCHANGED current
    BY <2>1
  <2>2. ASSUME NEW c \in Client, Commit(c), NEW g \in Goal,
               current[g] # None, current'[g] # current[g]
        PROVE  /\ pc[c] = "commit" /\ req[c].goal = g
               /\ snap[c] = current[g]
               /\ Authorized(current[g], req[c])
               /\ current'[g] = Proposed(snap[c], req[c])
    <3>1. req[c].goal \in Goal
      BY <1>1, <2>2 DEF Commit, IInv, TypeOK, ClientInv, Request
    <3>2. g = req[c].goal
      BY <1>1, <2>2, <3>1, CommitEffect
    <3>3. CommitsRevision(c, g)
      BY <1>1, <2>2, <3>2, CommitEffect DEF CommitsCreate
    <3>4. QED
      BY <2>2, <3>2, <3>3 DEF CommitsRevision, Commit
  <2>3. UNCHANGED tables \/ (\E c \in Client : Commit(c))
    BY <1>1, OnlyCommitWrites
  <2>4. QED
    BY <2>1, <2>2, <2>3 DEF tables
<1>2. IInv /\ [Next]_vars => [Replaced]_current
  BY <1>1
<1>3. QED
  BY <1>2, Invariance, PTL DEF Spec, NoLostUpdate

-----------------------------------------------------------------------------
(* What the ledger is worth: legality, evidence, recoverable snapshots.    *)

(* A snapshot is a version that was current when it was read, and versions *)
(* are only ever added; after an answer nothing depends on it.             *)
THEOREM SnapshotsAreRecoverable == Spec => []SnapshotsRecoverable
<1>1. IInv => SnapshotsRecoverable
  <2> SUFFICES ASSUME IInv, NEW c \in Client, req[c] # None, snap[c] # None
               PROVE  snap[c] \in Rows(req[c].goal)
    BY DEF SnapshotsRecoverable
  <2>1. ClientInv(c)
    BY DEF IInv
  <2>2. QED
    BY <2>1 DEF ClientInv
<1>2. QED
  BY <1>1, Invariance, PTL

(* The row a commit adds comes after every row already stored, and legally *)
(* so if it follows one directly.                                          *)
LEMMA CommitExtends ==
  ASSUME IInv, NEW c \in Client, Commit(c), NEW g \in Goal, g = req[c].goal,
         NEW row \in Rows(g)
  PROVE  /\ row \in Row /\ current[g] \in Row /\ current'[g] \in Row
         /\ current[g] \in Rows(g)
         /\ row.version <= current[g].version
         /\ current'[g].version = current[g].version + 1
         /\ Ledger!LegalSuccessor(current[g], current'[g])
<1>1. LedgerInv(g) /\ TypeOK
  BY DEF IInv
<1>2. row \in Row /\ current[g] \in Row /\ row.version \in 1 .. current[g].version
  BY <1>1, CurrentIsLatest
<1>3. current[g] \in Rows(g)
  BY <1>2, NoneIsNothing DEF Rows
<1>4. current'[g] \in Row /\ req[c] \in Request /\ CommitsRevision(c, g)
  BY <1>2, CommitEffect, NoneIsNothing DEF CommitsCreate
<1>5. Ledger!LegalSuccessor(current[g], current'[g])
  BY <1>4, AuthorizedIsLegal DEF CommitsRevision
<1>6. current'[g].version = current[g].version + 1
  BY <1>4, ProposedIsRow DEF CommitsRevision
<1>7. QED
  BY <1>2, <1>3, <1>4, <1>5, <1>6 DEF Row

(* How a relation between the rows of a goal survives a step: it is enough *)
(* that it holds between the old rows and the one a commit adds.           *)
LEMMA RowsOfStep ==
  ASSUME IInv, [Next]_vars, NEW g \in Goal
  PROVE  \/ Rows(g)' = Rows(g)
         \/ \E c \in Client :
              /\ Commit(c) /\ g = req[c].goal
              /\ Rows(g)' = Rows(g) \cup {current'[g]}
<1>1. CASE UNCHANGED tables
  BY <1>1 DEF tables, Rows
<1>2. ASSUME NEW c \in Client, Commit(c)
      PROVE  \/ Rows(g)' = Rows(g)
             \/ g = req[c].goal /\ Rows(g)' = Rows(g) \cup {current'[g]}
  <2>1. req[c].goal \in Goal
    BY <1>2 DEF Commit, IInv, TypeOK, ClientInv, Request
  <2>2. CASE g # req[c].goal
    BY <1>2, <2>1, <2>2, CommitEffect DEF Rows
  <2>3. QED
    BY <1>2, <2>2, CommitEffect
<1>3. QED
  BY <1>1, <1>2, OnlyCommitWrites

(* Completed and cancelled goals return only through reopen and restore,   *)
(* and no version rewrites what the goal says: the policy holds between    *)
(* stored rows, though it was applied to a snapshot outside the lock.      *)
THEOREM ChainIsLegal == Spec => []ChainLegal
<1>1. Init => ChainLegal
  BY DEF Init, ChainLegal, Rows
<1>2. ASSUME IInv, ChainLegal, [Next]_vars
      PROVE  ChainLegal'
  <2> SUFFICES ASSUME NEW g \in Goal, NEW old \in Rows(g)', NEW new \in Rows(g)',
                      new.version = old.version + 1
               PROVE  Ledger!LegalSuccessor(old, new)
    BY DEF ChainLegal, Ledger!LegalSuccessor
  <2>1. CASE old \in Rows(g) /\ new \in Rows(g)
    BY <1>2, <2>1 DEF ChainLegal
  <2>2. ASSUME NEW c \in Client, Commit(c), g = req[c].goal,
               Rows(g)' = Rows(g) \cup {current'[g]},
               old = current'[g] \/ new = current'[g]
        PROVE  Ledger!LegalSuccessor(old, new)
    <3>1. current'[g] \in Row
      BY <1>2, <2>2, CommitEffect
    <3>2. CASE old = current'[g] /\ new = current'[g]
      BY <3>1, <3>2 DEF Row
    <3>3. CASE old = current'[g] /\ new \in Rows(g)
      BY <1>2, <2>2, <3>3, CommitExtends DEF Row
    <3>4. CASE old \in Rows(g) /\ new = current'[g]
      <4>1. /\ old \in Row /\ current[g] \in Row /\ current[g] \in Rows(g)
            /\ current'[g].version = current[g].version + 1
            /\ Ledger!LegalSuccessor(current[g], current'[g])
        BY <1>2, <2>2, <3>4, CommitExtends
      <4>2. old.version = current[g].version
        BY <3>4, <4>1 DEF Row
      <4>3. old = current[g]
        BY <1>2, <3>4, <4>1, <4>2 DEF IInv, LedgerInv
      <4>4. QED
        BY <3>4, <4>1, <4>3
    <3>5. QED
      BY <2>2, <3>2, <3>3, <3>4
  <2>3. QED
    BY <1>2, <2>1, <2>2, RowsOfStep
<1>3. IInv /\ ChainLegal /\ [Next]_vars => ChainLegal'
  BY <1>2
<1>4. QED
  BY <1>1, <1>3, Invariance, PTL DEF Spec

(* Evidence of progress is never downgraded over a goal's whole life, in   *)
(* particular not by reopening or restoring it.                            *)
THEOREM EvidenceIsKept == Spec => []EvidenceKept
<1>1. Init => EvidenceKept
  BY DEF Init, EvidenceKept, Rows
<1>2. ASSUME IInv, EvidenceKept, [Next]_vars
      PROVE  EvidenceKept'
  <2> SUFFICES ASSUME NEW g \in Goal, NEW old \in Rows(g)', NEW new \in Rows(g)',
                      old.version <= new.version
               PROVE  Rank[old.progress] <= Rank[new.progress]
    BY DEF EvidenceKept
  <2>1. CASE old \in Rows(g) /\ new \in Rows(g)
    BY <1>2, <2>1 DEF EvidenceKept
  <2>2. ASSUME NEW c \in Client, Commit(c), g = req[c].goal,
               Rows(g)' = Rows(g) \cup {current'[g]},
               old = current'[g] \/ new = current'[g]
        PROVE  Rank[old.progress] <= Rank[new.progress]
    <3>1. current'[g] \in Row
      BY <1>2, <2>2, CommitEffect
    <3>2. \A p \in Progress : Rank[p] \in Nat
      BY DEF Rank
    <3>3. CASE old = current'[g] /\ new = current'[g]
      BY <3>1, <3>2, <3>3 DEF Row
    <3>4. CASE old = current'[g] /\ new \in Rows(g)
      BY <1>2, <2>2, <3>4, CommitExtends DEF Row
    <3>5. CASE old \in Rows(g) /\ new = current'[g]
      <4>1. /\ old \in Row /\ current[g] \in Row /\ current[g] \in Rows(g)
            /\ old.version <= current[g].version
            /\ Ledger!LegalSuccessor(current[g], current'[g])
        BY <1>2, <2>2, <3>5, CommitExtends
      <4>2. Rank[old.progress] <= Rank[current[g].progress]
        BY <1>2, <3>5, <4>1 DEF EvidenceKept
      <4>3. Rank[current[g].progress] <= Rank[current'[g].progress]
        BY <3>1, <4>1, LegalKeepsEvidence
      <4>4. QED
        BY <3>1, <3>2, <3>5, <4>1, <4>2, <4>3 DEF Row
    <3>6. QED
      BY <2>2, <3>3, <3>4, <3>5
  <2>3. QED
    BY <1>2, <2>1, <2>2, RowsOfStep
<1>3. IInv /\ EvidenceKept /\ [Next]_vars => EvidenceKept'
  BY <1>2
<1>4. QED
  BY <1>1, <1>3, Invariance, PTL DEF Spec

-----------------------------------------------------------------------------
(* What commands are told, and what they have committed.                   *)

(* A client's answer and the fate of its transaction.  While a command     *)
(* runs it has no answer yet; between commit and answer its goal has a row *)
(* (so the read-back never answers "missing") and its revision is stored.  *)
AnswerInv(c) ==
  /\ pc[c] # "idle" => answer[c] = "none"
  /\ pc[c] \notin {"idle", "readback"} => ~written[c]
  /\ pc[c] = "readback" =>
       /\ written[c]
       /\ current[req[c].goal] # None
       /\ req[c].kind # "create" => Proposed(snap[c], req[c]) \in Rows(req[c].goal)
  /\ answer[c] = "ok" => written[c]
  /\ answer[c] \in {"clarify", "missing", "conflict", "rejected"} => ~written[c]

AInv == IInv /\ \A c \in Client : AnswerInv(c)

(* Stored rows stay stored, and a goal that has a row keeps having one.    *)
LEMMA RowsOnlyGrow ==
  ASSUME IInv, [Next]_vars, NEW g \in Goal
  PROVE  /\ Rows(g) \subseteq Rows(g)'
         /\ current[g] # None => current'[g] # None
<1>1. CASE UNCHANGED tables
  BY <1>1 DEF tables, Rows
<1>2. ASSUME NEW c \in Client, Commit(c)
      PROVE  /\ Rows(g) \subseteq Rows(g)'
             /\ current[g] # None => current'[g] # None
  <2>1. Rows(g) \subseteq Rows(g)'
    BY <1>2, CommitKeepsLedger
  <2>2. req[c].goal \in Goal
    BY <1>2 DEF Commit, IInv, TypeOK, ClientInv, Request
  <2>3. current'[g] = current[g] \/ current'[g] \in Row
    BY <1>2, <2>2, CommitEffect
  <2>4. QED
    BY <2>1, <2>3, NoneIsNothing
<1>3. QED
  BY <1>1, <1>2, OnlyCommitWrites

(* A step of one client leaves the control and the answer of every other.  *)
LEMMA OthersAreLeft ==
  ASSUME TypeOK, NEW c \in Client, Step(c), NEW d \in Client \ {c}
  PROVE  /\ pc'[d] = pc[d] /\ req'[d] = req[d] /\ snap'[d] = snap[d]
         /\ answer'[d] = answer[d] /\ written'[d] = written[d]
<1>1. CASE \/ SubmitCreate(c) \/ SubmitState(c) \/ SubmitProgress(c) \/ SubmitActivation(c)
  <2>1. ASSUME NEW r, NEW there, Start(c, r, there)
        PROVE  /\ pc'[d] = pc[d] /\ req'[d] = req[d] /\ snap'[d] = snap[d]
               /\ answer'[d] = answer[d] /\ written'[d] = written[d]
    BY <2>1 DEF TypeOK, Start
  <2>2. ASSUME NEW outcome, TurnAway(c, outcome)
        PROVE  /\ pc'[d] = pc[d] /\ req'[d] = req[d] /\ snap'[d] = snap[d]
               /\ answer'[d] = answer[d] /\ written'[d] = written[d]
    BY <2>2 DEF TypeOK, TurnAway
  <2>3. QED
    BY <1>1, <2>1, <2>2 DEF SubmitCreate, SubmitState, SubmitProgress, SubmitActivation
<1>2. CASE CheckVersion(c) \/ LoadAndValidate(c) \/ ReadBack(c)
  BY <1>2 DEF TypeOK, CheckVersion, LoadAndValidate, ReadBack, Reading, Reply, GoTo
<1>3. CASE Insert(c) \/ BeginReplace(c) \/ Archive(c) \/ Replace(c) \/ Commit(c)
  BY <1>3 DEF TypeOK, Insert, BeginReplace, Archive, Replace, Commit, Reply, GoTo
<1>4. CASE StorageError(c) \/ Crash(c)
  BY <1>4 DEF TypeOK, StorageError, Crash, Reply
<1>5. QED
  BY <1>1, <1>2, <1>3, <1>4 DEF Step

(* The answers of the client that takes the step, one case per action.     *)
LEMMA OwnAnswerPreserved ==
  ASSUME AInv, NEW c \in Client, Step(c)
  PROVE  AnswerInv(c)'
<1>1. AnswerInv(c) /\ ClientInv(c) /\ TypeOK
  BY DEF AInv, IInv
<1>2. CASE \/ SubmitCreate(c) \/ SubmitState(c) \/ SubmitProgress(c) \/ SubmitActivation(c)
  <2>1. ASSUME NEW r, NEW there \in {"insert", "check"}, Start(c, r, there)
        PROVE  AnswerInv(c)'
    BY <1>1, <2>1 DEF TypeOK, Start, AnswerInv
  <2>2. ASSUME NEW outcome \in {"clarify", "rejected"}, TurnAway(c, outcome)
        PROVE  AnswerInv(c)'
    BY <1>1, <2>2 DEF TypeOK, TurnAway, AnswerInv
  <2>3. QED
    BY <1>2, <2>1, <2>2 DEF SubmitCreate, SubmitState, SubmitProgress, SubmitActivation
<1>3. CASE CheckVersion(c)
  BY <1>1, <1>3 DEF TypeOK, CheckVersion, Reading, Reply, GoTo, AnswerInv
<1>4. CASE LoadAndValidate(c)
  BY <1>1, <1>4 DEF TypeOK, LoadAndValidate, Reading, Reply, GoTo, AnswerInv
<1>5. CASE ReadBack(c)
  BY <1>1, <1>5 DEF TypeOK, ReadBack, Reading, Reply, AnswerInv
<1>6. CASE Insert(c)
  BY <1>1, <1>6 DEF TypeOK, Insert, Reply, GoTo, AnswerInv
<1>7. CASE BeginReplace(c)
  BY <1>1, <1>7 DEF TypeOK, BeginReplace, Reply, GoTo, AnswerInv
<1>8. CASE Archive(c) \/ Replace(c)
  BY <1>1, <1>8 DEF TypeOK, Archive, Replace, Reply, GoTo, AnswerInv
<1>9. CASE Commit(c)
  <2>1. PICK g \in Goal : g = req[c].goal /\ pc[c] = "commit"
    BY <1>1, <1>9 DEF Commit, TypeOK, ClientInv, Request
  <2>2. /\ pc'[c] = "readback" /\ written'[c] /\ answer'[c] = "none"
        /\ req'[c] = req[c] /\ snap'[c] = snap[c]
    BY <1>1, <1>9, <2>1 DEF Commit, GoTo, TypeOK, AnswerInv
  <2>3. current'[g] \in Row /\ current'[g] \in Rows(g)'
    BY <1>9, <2>1, CommitEffect DEF AInv
  <2>4. req[c].kind # "create" => current'[g] = Proposed(snap[c], req[c])
    BY <1>9, <2>1, CommitEffect DEF AInv, CommitsCreate, CommitsRevision
  <2>5. current'[g] # None
    BY <2>3, NoneIsNothing
  <2>6. QED
    BY <2>1, <2>2, <2>3, <2>4, <2>5 DEF AnswerInv, Rows
<1>10. CASE StorageError(c) \/ Crash(c)
  BY <1>1, <1>10 DEF TypeOK, StorageError, Crash, Reply, AnswerInv
<1>11. QED
  BY <1>2, <1>3, <1>4, <1>5, <1>6, <1>7, <1>8, <1>9, <1>10 DEF Step

LEMMA AnswersPreserved == AInv /\ [Next]_vars => AInv'
<1> SUFFICES ASSUME AInv, [Next]_vars PROVE AInv'
  OBVIOUS
<1>1. IInv'
  BY NextPreserves DEF AInv
<1>2. ASSUME NEW c \in Client, Step(c), NEW d \in Client PROVE AnswerInv(d)'
  <2>1. CASE d = c
    BY <1>2, <2>1, OwnAnswerPreserved
  <2>2. CASE d # c
    <3>1. /\ pc'[d] = pc[d] /\ req'[d] = req[d] /\ snap'[d] = snap[d]
          /\ answer'[d] = answer[d] /\ written'[d] = written[d]
      BY <1>2, <2>2, OthersAreLeft DEF AInv, IInv
    <3>2. AnswerInv(d) /\ ClientInv(d) /\ TypeOK
      BY DEF AInv, IInv
    <3>3. CASE pc[d] # "readback"
      BY <3>1, <3>2, <3>3 DEF AnswerInv
    <3>4. CASE pc[d] = "readback"
      <4>1. PICK g \in Goal : g = req[d].goal
        BY <3>2, <3>4 DEF TypeOK, ClientInv, Request
      <4>2. /\ Rows(g) \subseteq Rows(g)'
            /\ current[g] # None => current'[g] # None
        BY RowsOnlyGrow DEF AInv
      <4>3. QED
        BY <3>1, <3>2, <3>4, <4>1, <4>2 DEF AnswerInv, Rows
    <3>5. QED
      BY <3>3, <3>4
  <2>3. QED
    BY <2>1, <2>2
<1>3. CASE UNCHANGED vars
  BY <1>1, <1>3 DEF vars, AInv, AnswerInv, Rows
<1>4. QED
  BY <1>1, <1>2, <1>3 DEF AInv, Next

LEMMA AnswersHold == Spec => []AInv
<1>1. Init => AInv
  BY InitEstablishes DEF AInv, AnswerInv, Init
<1>2. QED
  BY <1>1, AnswersPreserved, PTL DEF Spec

(* A user is told the truth about the store: "changed" only after a        *)
(* commit, and "conflict", "missing", "rejected" or a question only by a   *)
(* command that committed nothing, though the answer is made from a read   *)
(* that follows the transaction.                                           *)
THEOREM AnswersAreTruthful == Spec => []AnswersTruthful
<1>1. AInv => AnswersTruthful
  BY DEF AInv, AnswerInv, AnswersTruthful
<1>2. QED
  BY <1>1, AnswersHold, PTL

(* What a command has committed is still stored when it answers, as the    *)
(* current row or among the superseded ones, whoever revised the goal      *)
(* between the commit and the read-back.                                   *)
THEOREM CommittedIsKept == Spec => []CommittedKept
<1>1. AInv => CommittedKept
  BY DEF AInv, AnswerInv, CommittedKept
<1>2. QED
  BY <1>1, AnswersHold, PTL

-----------------------------------------------------------------------------
(* Refinement.                                                             *)

(* Processes, snapshots, transactions, failures and crashes amount to the  *)
(* append-only ledger of GoalLedger, one version added per commit.         *)
THEOREM StoreImplementsLedger == Spec => ImplementsLedger
<1> DEFINE view == [g \in Goal |-> Rows(g)]
<1>1. Init => Ledger!LedgerInit
  BY NoneIsNothing DEF Init, Ledger!LedgerInit, Rows
<1>2. ASSUME IInv, [Next]_vars
      PROVE  [Ledger!LedgerNext]_view
  <2>1. CASE \A g \in Goal : Rows(g)' = Rows(g)
    BY <2>1
  <2>2. ASSUME NEW c \in Client, NEW g \in Goal, Commit(c), g = req[c].goal,
               Rows(g)' = Rows(g) \cup {current'[g]}
        PROVE  Ledger!LedgerNext
    <3>1. view' = [view EXCEPT ![g] = Rows(g) \cup {current'[g]}]
      <4>1. \A h \in Goal \ {g} : Rows(h)' = Rows(h)
        BY <1>2, <2>2, CommitEffect DEF Rows
      <4>2. QED
        BY <2>2, <4>1
    <3>2. CASE CommitsCreate(c, g)
      <4>1. Rows(g) = {}
        BY <3>2 DEF CommitsCreate, Rows
      <4>2. view[g] = {} /\ view' = [view EXCEPT ![g] = {InitialRow(req[c].content)}]
        BY <3>1, <3>2, <4>1 DEF CommitsCreate
      <4>3. Ledger!Create(g)
        BY <3>2, <4>2 DEF CommitsCreate, Ledger!Create, InitialRow, Ledger!InitialRow
      <4>4. QED
        BY <4>3 DEF Ledger!LedgerNext
    <3>3. CASE CommitsRevision(c, g)
      <4> DEFINE old == current[g]
                 new == current'[g]
      <4>1. old \in Rows(g) /\ old \in Row /\ new \in Row
        BY <1>2, <2>2, <3>3, CommitEffect, NoneIsNothing DEF CommitsRevision, Rows
      <4>2. Ledger!LegalSuccessor(old, new)
        BY <1>2, <2>2, <4>1, CommitExtends
      <4>3. Ledger!Latest(g, old)
        BY <1>2, <2>2, <4>1, CommitExtends DEF Ledger!Latest
      <4>4. new = [old EXCEPT !.version = @ + 1, !.state = new.state,
                              !.progress = new.progress]
        BY <4>1, <4>2 DEF Row, Ledger!LegalSuccessor
      <4>5. view' = [view EXCEPT ![g] = @ \cup {new}]
        BY <3>1
      <4>6. new.state \in Ledger!State /\ new.progress \in Ledger!Progress
        BY <4>1 DEF Row, State, Progress, Ledger!State, Ledger!Progress
      <4>7. old \in view[g]
        BY <4>1
      <4>8. \E state \in Ledger!State, progress \in Ledger!Progress :
              LET next == [old EXCEPT !.version = @ + 1, !.state = state,
                                      !.progress = progress]
              IN /\ Ledger!Latest(g, old)
                 /\ Ledger!LegalSuccessor(old, next)
                 /\ view' = [view EXCEPT ![g] = @ \cup {next}]
        <5> HIDE DEF old, new, view
        <5> USE <4>6
        <5>1. WITNESS new.state \in Ledger!State, new.progress \in Ledger!Progress
        <5>2. QED
          BY <4>2, <4>3, <4>4, <4>5
      <4>9. Ledger!Revise(g)
        BY <4>7, <4>8 DEF Ledger!Revise
      <4>10. QED
        BY <4>9 DEF Ledger!LedgerNext
    <3>4. QED
      BY <1>2, <2>2, <3>2, <3>3, CommitEffect
  <2>3. QED
    BY <1>2, <2>1, <2>2, RowsOfStep
<1>3. IInv /\ [Next]_vars => [Ledger!LedgerNext]_view
  BY <1>2
<1>4. QED
  BY <1>1, <1>3, Invariance, PTL DEF Spec, ImplementsLedger, Ledger!LedgerSpec
=============================================================================
