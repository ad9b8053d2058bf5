---------------------------- MODULE RecordLedger ----------------------------
(***************************************************************************)
(* What a versioned table with a history table promises: for every key one *)
(* latest row and, below it, every row it superseded.  One step revises a  *)
(* set of keys at once, each by a legal successor with the next version.   *)
(* FactStore and PreferenceStore implement it, each with its own rules.    *)
(***************************************************************************)
EXTENDS Naturals

CONSTANTS
  Key,               \* what is recorded
  Record,            \* the rows
  None,              \* no row
  First(_),          \* the rows a key may begin with
  Legal(_, _)        \* the successor rule, versions apart

VARIABLES
  latest,            \* the current row of each key, or None
  past               \* the rows it superseded

Begins(k) ==
  /\ latest[k] = None
  /\ latest'[k] \in Record
  /\ latest'[k].version = 1
  /\ First(latest'[k])
  /\ past'[k] = past[k]

Follows(k) ==
  /\ latest[k] # None
  /\ latest'[k] \in Record
  /\ latest'[k].version = latest[k].version + 1
  /\ Legal(latest[k], latest'[k])
  /\ past'[k] = past[k] \cup {latest[k]}

LedgerInit ==
  /\ latest = [k \in Key |-> None]
  /\ past = [k \in Key |-> {}]

Revise ==
  /\ latest' = [k \in Key |-> latest'[k]]
  /\ past' = [k \in Key |-> past'[k]]
  /\ \A k \in Key :
       Begins(k) \/ Follows(k) \/ (latest'[k] = latest[k] /\ past'[k] = past[k])

LedgerSpec == LedgerInit /\ [][Revise]_<<latest, past>>
=============================================================================
