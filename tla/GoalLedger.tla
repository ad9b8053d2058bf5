----------------------------- MODULE GoalLedger -----------------------------
(***************************************************************************)
(* What the goal subsystem promises, without processes, tables or          *)
(* transactions: for each goal an append-only ledger of versions, each a   *)
(* legal successor of the one before.  GoalStore implements it.            *)
(***************************************************************************)
EXTENDS GoalPolicy

CONSTANT Goal        \* goal identifiers

VARIABLE ledger      \* ledger[g]: every version of g ever written

(* A revision of a live goal may change its state along the table and add  *)
(* evidence of progress; a terminal goal can only become active again,     *)
(* its evidence untouched.  What the goal says is never rewritten.         *)
LegalSuccessor(old, new) ==
  /\ new.version = old.version + 1
  /\ new.content = old.content
  /\ \/ /\ old.state \notin Terminal
        /\ new.state \in AllowedTransitions[old.state] \cup {old.state}
        /\ new.progress \in ProgressTransitions[old.progress]
     \/ /\ old.state \in Terminal
        /\ new.state = "active"
        /\ new.progress = old.progress

Latest(g, row) ==
  /\ row \in ledger[g]
  /\ \A other \in ledger[g] : other.version <= row.version

LedgerInit == ledger = [g \in Goal |-> {}]

Create(g) ==
  /\ ledger[g] = {}
  /\ \E content \in Content :
       ledger' = [ledger EXCEPT ![g] = {InitialRow(content)}]

Revise(g) ==
  \E old \in ledger[g], state \in State, progress \in Progress :
    LET new == [old EXCEPT !.version = @ + 1, !.state = state, !.progress = progress]
    IN /\ Latest(g, old)
       /\ LegalSuccessor(old, new)
       /\ ledger' = [ledger EXCEPT ![g] = @ \cup {new}]

LedgerNext == \E g \in Goal : Create(g) \/ Revise(g)

LedgerSpec == LedgerInit /\ [][LedgerNext]_ledger
=============================================================================
