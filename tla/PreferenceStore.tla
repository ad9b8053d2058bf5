--------------------------- MODULE PreferenceStore ---------------------------
(***************************************************************************)
(* Nel's own preferences: IdentityService over IdentityRepository.  A      *)
(* preference begins as a candidate, is promoted to provisional and        *)
(* established, and may be retired from every state; a retired one can     *)
(* only be created anew, perhaps with another value.  A transition reads   *)
(* the preference on one connection and writes it on another, which        *)
(* compares the state it read, not the version.                            *)
(*                                                                         *)
(* A row keeps version, value and state.  The core records (identity_id,   *)
(* display_name, nature, role) are immutable and never touched: no key of  *)
(* theirs passes _validate_key.                                            *)
(***************************************************************************)
EXTENDS Naturals

CONSTANTS
  Key,       \* preference keys, normalised
  Value,     \* their values
  Client,    \* processes that call the service
  None       \* Python's None

PreferenceState == {"candidate", "provisional", "established", "retired"}

PreferenceTransitions ==
  [candidate   |-> {"provisional", "retired"},
   provisional |-> {"established", "retired"},
   established |-> {"retired"},
   retired     |-> {}]

Preference == [version : Nat \ {0}, value : Value, state : PreferenceState]

Request == [key : Key, value : Value \cup {None}, target : PreferenceState]

(* What a proof may assume of the constants.                               *)
PreferenceAssumption ==
  None \notin Preference \cup Value \cup Client \cup Request

VARIABLES
  current,   \* nel_identity_current, its preference rows: None before INSERT
  history,   \* nel_identity_history
  lock,      \* the connection that holds SQLite's write lock, or None
  staged,    \* its uncommitted row, or None
  pc,        \* where each client is inside its call
  req,       \* the call: a value for a creation, None for a transition
  seen,      \* the row transition_preference read
  answer     \* how the last call ended

tables == <<current, history>>
vars   == <<current, history, lock, staged, pc, req, seen, answer>>

TypeOK ==
  /\ current \in [Key -> Preference \cup {None}]
  /\ history \in [Key -> SUBSET Preference]
  /\ lock \in Client \cup {None}
  /\ staged \in Preference \cup {None}
  /\ pc \in [Client -> {"idle", "look", "begin", "commit", "readback"}]
  /\ req \in [Client -> Request \cup {None}]
  /\ seen \in [Client -> Preference \cup {None}]
  /\ answer \in [Client -> {"none", "ok", "rejected", "failed"}]

Init ==
  /\ current = [k \in Key |-> None]
  /\ history = [k \in Key |-> {}]
  /\ lock = None
  /\ staged = None
  /\ pc = [c \in Client |-> "idle"]
  /\ req = [c \in Client |-> None]
  /\ seen = [c \in Client |-> None]
  /\ answer = [c \in Client |-> "none"]

-----------------------------------------------------------------------------

Reply(c, outcome) ==
  /\ pc' = [pc EXCEPT ![c] = "idle"]
  /\ req' = [req EXCEPT ![c] = None]
  /\ seen' = [seen EXCEPT ![c] = None]
  /\ answer' = [answer EXCEPT ![c] = outcome]

GoTo(c, there) ==
  /\ pc' = [pc EXCEPT ![c] = there]
  /\ UNCHANGED <<req, answer>>

Start(c, r, there) ==
  /\ pc[c] = "idle"
  /\ pc' = [pc EXCEPT ![c] = there]
  /\ req' = [req EXCEPT ![c] = r]
  /\ answer' = [answer EXCEPT ![c] = "none"]
  /\ UNCHANGED <<tables, lock, staged, seen>>

(* A reserved key, an empty value or a source that is not authorised.      *)
TurnAway(c) ==
  /\ pc[c] = "idle"
  /\ answer' = [answer EXCEPT ![c] = "rejected"]
  /\ UNCHANGED <<tables, lock, staged, pc, req, seen>>

CreateCandidate(c) ==
  \E k \in Key, v \in Value :
    Start(c, [key |-> k, value |-> v, target |-> "candidate"], "begin")

TransitionPreference(c) ==
  \E k \in Key, target \in PreferenceState :
    Start(c, [key |-> k, value |-> None, target |-> target], "look")

Submit(c) == CreateCandidate(c) \/ TransitionPreference(c)

(* get_preference and the check of the transition against what it read.    *)
Look(c) ==
  /\ pc[c] = "look"
  /\ UNCHANGED <<tables, lock, staged>>
  /\ LET row == current[req[c].key]
         allowed == IF row = None THEN {} ELSE PreferenceTransitions[row.state]
     IN \/ req[c].target \notin allowed /\ Reply(c, "rejected")
        \/ /\ req[c].target \in allowed
           /\ seen' = [seen EXCEPT ![c] = row]
           /\ GoTo(c, "begin")

(* Mutant: the transaction does not compare the state.                     *)
AcceptedUnseen(c, row) ==
  IF req[c].value # None THEN row # None => row.state = "retired"
                         ELSE row # None

(* Mutant: a candidate may be created over any preference.                 *)
AcceptedOverLive(c, row) ==
  IF req[c].value # None THEN TRUE
                         ELSE row # None /\ row.state = seen[c].state

(* The guards of _create_candidate and _transition.                        *)
Accepted(c, row) ==
  IF req[c].value # None THEN row # None => row.state = "retired"
                         ELSE row # None /\ row.state = seen[c].state

(* BEGIN IMMEDIATE, the SELECT and the guards; then, inside the            *)
(* transaction, the INSERT, or the archived row and the UPDATE.            *)
Write(c) ==
  /\ pc[c] = "begin" /\ lock = None
  /\ UNCHANGED tables
  /\ LET k == req[c].key
         row == current[k]
         archived == row # None /\ \E r \in history[k] : r.version = row.version
     IN \/ /\ ~Accepted(c, row)
           /\ Reply(c, "rejected")
           /\ UNCHANGED <<lock, staged>>
        \/ /\ Accepted(c, row) /\ archived
           /\ Reply(c, "failed")
           /\ UNCHANGED <<lock, staged>>
        \/ /\ Accepted(c, row) /\ ~archived
           /\ lock' = c
           /\ staged' = [version |-> IF row = None THEN 1 ELSE row.version + 1,
                         value   |-> IF req[c].value = None THEN row.value
                                     ELSE req[c].value,
                         state   |-> req[c].target]
           /\ GoTo(c, "commit")
           /\ UNCHANGED seen

Commit(c) ==
  /\ pc[c] = "commit"
  /\ LET k == req[c].key IN
       /\ current' = [current EXCEPT ![k] = staged]
       /\ history' = [history EXCEPT ![k] = @ \cup ({current[k]} \ {None})]
  /\ lock' = None
  /\ staged' = None
  /\ GoTo(c, "readback")
  /\ UNCHANGED seen

(* get_preference once more, for the record that is returned.              *)
ReadBack(c) ==
  /\ pc[c] = "readback"
  /\ Reply(c, "ok")
  /\ UNCHANGED <<tables, lock, staged>>

Ends(c, outcome) ==
  /\ pc[c] # "idle"
  /\ Reply(c, outcome)
  /\ lock' = IF lock = c THEN None ELSE lock
  /\ staged' = IF lock = c THEN None ELSE staged
  /\ UNCHANGED tables

(* sqlite3.Error or OSError at any access, and the death of the process.   *)
StorageError(c) == Ends(c, "failed")
Crash(c)        == Ends(c, "none")

Work(c) ==
  Look(c) \/ Write(c) \/ Commit(c) \/ ReadBack(c) \/ StorageError(c) \/ Crash(c)

Next == \E c \in Client : Submit(c) \/ TurnAway(c) \/ Work(c)

Spec == Init /\ [][Next]_vars

-----------------------------------------------------------------------------
(* Properties.                                                             *)

BornCandidate(row) == row.state = "candidate"

(* A preference keeps its value while it is promoted or retired, and is    *)
(* only created anew after it was retired.                                 *)
Matures(old, new) ==
  \/ new.state \in PreferenceTransitions[old.state] /\ new.value = old.value
  \/ old.state = "retired" /\ new.state = "candidate"

Ledger == INSTANCE RecordLedger
            WITH Record <- Preference, First <- BornCandidate, Legal <- Matures,
                 latest <- current, past <- history

(* The two identity tables implement the ledger, whatever was read before  *)
(* the write transaction began.                                            *)
PreferencesAreLedger == Ledger!LedgerSpec

(* The state, not the version, is compared: a transition may act on a      *)
(* preference created anew in the meantime.  That is the only way it can   *)
(* promote a value its caller did not see.                                 *)
PromotedUnseenOnlyAnew ==
  \A c \in Client :
    pc[c] = "commit" /\ req[c].value = None /\ staged.value # seen[c].value =>
      \E row \in history[req[c].key] :
        row.state = "retired" /\ row.version > seen[c].version
=============================================================================
