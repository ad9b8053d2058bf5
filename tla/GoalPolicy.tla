----------------------------- MODULE GoalPolicy -----------------------------
(***************************************************************************)
(* The rules a goal revision obeys: the enumerations of goals/models.py    *)
(* and the transition tables and checks of goals/policy.py.  The operators *)
(* are pure; GoalStore calls them where GoalService calls GoalPolicy, and  *)
(* GoalLedger states the revisions they amount to.                         *)
(*                                                                         *)
(* A goal row keeps the columns the rules tell apart: version, state,      *)
(* progress (the column progress_verification) and content (title,         *)
(* description, success condition, priority and deadline as one value).    *)
(* Commands write every row with owner "user" and source "validated_user", *)
(* so those columns, the references and the timestamps are left out.       *)
(***************************************************************************)
EXTENDS Naturals

CONSTANTS
  Content,   \* what a goal says: title, success condition, ...
  None       \* Python's None; not a row, a state or a progress value

State    == {"active", "paused", "completed", "cancelled"}
Terminal == {"completed", "cancelled"}
Progress == {"unknown", "user_reported", "verified"}

Row == [version : Nat \ {0}, state : State, progress : Progress, content : Content]

ASSUME NoneAssumption == None \notin Row \cup State \cup Progress \cup Content

(* ALLOWED_TRANSITIONS: a live state may become any other, a terminal one  *)
(* has no ordinary way out.                                                *)
AllowedTransitions ==
  [s \in State |-> IF s \in Terminal THEN {} ELSE State \ {s}]

(* PROGRESS_TRANSITIONS: evidence is added, never withdrawn.               *)
ProgressTransitions ==
  [p \in Progress |-> IF p = "unknown" THEN Progress
                      ELSE IF p = "user_reported" THEN {"user_reported", "verified"}
                      ELSE {"verified"}]

(* The first version of a goal, as GoalService.create builds it.           *)
InitialRow(content) ==
  [version |-> 1, state |-> "active", progress |-> "unknown", content |-> content]

(***************************************************************************)
(* A request is what one parsed command asks of GoalService: the fields it *)
(* changes (None where it changes nothing), the version the user typed and *)
(* whether the command carried its confirmation flag.                      *)
(***************************************************************************)
IsProgressReport(req) == req.progress # None

(* Mutant: the progress a command does not name is cleared.                *)
ProposedUnmerged(cur, req) ==
  [version  |-> cur.version + 1,
   state    |-> IF req.state = None THEN cur.state ELSE req.state,
   progress |-> req.progress,
   content  |-> cur.content]

(* replace(current, **changes, version = current.version + 1)              *)
Proposed(cur, req) ==
  [version  |-> cur.version + 1,
   state    |-> IF req.state = None THEN cur.state ELSE req.state,
   progress |-> IF req.progress = None THEN cur.progress ELSE req.progress,
   content  |-> cur.content]

(* Mutant: the table of progress transitions is not consulted.             *)
UpdateAllowedAnyProgress(cur, req) ==
  LET new == Proposed(cur, req) IN
  /\ cur.state \notin Terminal
  /\ req.expected = cur.version
  /\ new.state # cur.state =>
       /\ new.state \in AllowedTransitions[cur.state]
       /\ new.state = "completed" => req.confirmed
  /\ IsProgressReport(req) => (new.progress # "unknown" => req.confirmed)

(* GoalPolicy.validate_update, for a validated-user source with approval.  *)
(* A state that does not change is not looked up in the table, so resuming *)
(* an active goal is an accepted revision; a report that repeats the       *)
(* recorded progress passes the same test either way.                      *)
UpdateAllowed(cur, req) ==
  LET new == Proposed(cur, req) IN
  /\ cur.state \notin Terminal
  /\ req.expected = cur.version
  /\ new.state # cur.state =>
       /\ new.state \in AllowedTransitions[cur.state]
       /\ new.state = "completed" => req.confirmed
  /\ IsProgressReport(req) =>
       /\ new.progress \in ProgressTransitions[cur.progress]
       /\ new.progress # "unknown" => req.confirmed

(* GoalPolicy._validate_terminal_activation: reopen leaves completed,      *)
(* restore leaves cancelled, nothing else leaves a terminal state.         *)
ActivationAllowed(cur, req) ==
  /\ cur.state = (IF req.kind = "reopen" THEN "completed" ELSE "cancelled")
  /\ req.expected = cur.version

Authorized(cur, req) ==
  IF req.kind = "update" THEN UpdateAllowed(cur, req)
                         ELSE ActivationAllowed(cur, req)

(* allowed_current_states of GoalRepository._update, _reopen and _restore. *)
ReplaceableStates(kind) ==
  IF kind = "update" THEN State \ Terminal
  ELSE IF kind = "reopen" THEN {"completed"} ELSE {"cancelled"}
=============================================================================
