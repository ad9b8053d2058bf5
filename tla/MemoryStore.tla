----------------------------- MODULE MemoryStore -----------------------------
(***************************************************************************)
(* The user's explicit memories: MemoryService.remember_explicit over the  *)
(* append-only table memory_events.  The lookup for a duplicate and the    *)
(* insertion are two connections, so two processes may both look before    *)
(* either inserts; the table has no constraint on the fingerprint.         *)
(***************************************************************************)
EXTENDS Naturals, Sequences, FiniteSets

CONSTANTS
  Text,          \* what a user may ask to remember
  Fingerprint,   \* memory_fingerprint, None for a text that normalises away
  Client,        \* processes that run commands
  None           \* Python's None

(* What a proof may assume of the constants.                               *)
MemoryAssumption == None \notin Client \cup Text /\ IsFiniteSet(Client)

VARIABLES
  events,        \* memory_events, ordered by id
  lock,          \* the connection that holds SQLite's write lock, or None
  pc,            \* where each client is inside /remember
  text,          \* the text it was given
  answer         \* the status it answered with

vars == <<events, lock, pc, text, answer>>

TypeOK ==
  /\ events \in Seq(Text)
  /\ lock \in Client \cup {None}
  /\ pc \in [Client -> {"idle", "lookup", "insert", "commit"}]
  /\ text \in [Client -> Text \cup {None}]
  /\ answer \in [Client -> {"none", "accepted", "duplicate", "empty", "failure"}]

Init ==
  /\ events = <<>>
  /\ lock = None
  /\ pc = [c \in Client |-> "idle"]
  /\ text = [c \in Client |-> None]
  /\ answer = [c \in Client |-> "none"]

Stored == {events[i] : i \in DOMAIN events}

Known(t) == \E e \in Stored : Fingerprint[e] = Fingerprint[t]

Reply(c, status) ==
  /\ pc' = [pc EXCEPT ![c] = "idle"]
  /\ answer' = [answer EXCEPT ![c] = status]

(* A text that is blank once normalised is refused before any read.        *)
TurnAway(c) ==
  /\ pc[c] = "idle"
  /\ \E t \in Text : Fingerprint[t] = None
  /\ answer' = [answer EXCEPT ![c] = "empty"]
  /\ text' = [text EXCEPT ![c] = None]
  /\ UNCHANGED <<events, lock, pc>>

Submit(c) ==
  /\ pc[c] = "idle"
  /\ \E t \in Text : Fingerprint[t] # None /\ text' = [text EXCEPT ![c] = t]
  /\ pc' = [pc EXCEPT ![c] = "lookup"]
  /\ answer' = [answer EXCEPT ![c] = "none"]
  /\ UNCHANGED <<events, lock>>

(* Mutant: texts are compared as they were typed.                          *)
LookupVerbatim(c) ==
  /\ pc[c] = "lookup"
  /\ IF text[c] \in Stored
     THEN Reply(c, "duplicate")
     ELSE pc' = [pc EXCEPT ![c] = "insert"] /\ UNCHANGED answer
  /\ UNCHANGED <<events, lock, text>>

(* recall() of every memory and the comparison of fingerprints.            *)
Lookup(c) ==
  /\ pc[c] = "lookup"
  /\ IF Known(text[c])
     THEN Reply(c, "duplicate")
     ELSE pc' = [pc EXCEPT ![c] = "insert"] /\ UNCHANGED answer
  /\ UNCHANGED <<events, lock, text>>

(* remember: BEGIN IMMEDIATE and the INSERT ...                            *)
Insert(c) ==
  /\ pc[c] = "insert" /\ lock = None
  /\ lock' = c
  /\ pc' = [pc EXCEPT ![c] = "commit"]
  /\ UNCHANGED <<events, text, answer>>

(* Mutant: only the newest memory is kept.                                 *)
CommitReplacing(c) ==
  /\ pc[c] = "commit"
  /\ events' = <<text[c]>>
  /\ lock' = None
  /\ Reply(c, "accepted")
  /\ UNCHANGED text

(* ... and its COMMIT.                                                     *)
Commit(c) ==
  /\ pc[c] = "commit"
  /\ events' = Append(events, text[c])
  /\ lock' = None
  /\ Reply(c, "accepted")
  /\ UNCHANGED text

Ends(c, status) ==
  /\ pc[c] # "idle"
  /\ Reply(c, status)
  /\ lock' = IF lock = c THEN None ELSE lock
  /\ UNCHANGED <<events, text>>

(* sqlite3.Error or OSError at any access, and the death of the process.   *)
StorageError(c) == Ends(c, "failure")
Crash(c)        == Ends(c, "none")

Work(c) == Lookup(c) \/ Insert(c) \/ Commit(c) \/ StorageError(c) \/ Crash(c)

Next == \E c \in Client : Submit(c) \/ TurnAway(c) \/ Work(c)

Spec == Init /\ [][Next]_vars

-----------------------------------------------------------------------------
(* Properties.                                                             *)

Copies(t) == {i \in DOMAIN events : Fingerprint[events[i]] = Fingerprint[t]}

(* The race for a duplicate is over once one of the racing texts is in:    *)
(* however long the processes go on, a memory is stored at most once for   *)
(* each of them.  With one process it is stored once.                      *)
DuplicatesBounded ==
  \A t \in Text : Cardinality(Copies(t)) <= Cardinality(Client)

(* "Saved" and "already there" stay true: what a user was told is          *)
(* remembered is never dropped by a later command.                         *)
ToldMemoriesKept ==
  \A c \in Client :
    /\ answer[c] = "accepted" => text[c] \in Stored
    /\ answer[c] = "duplicate" => Known(text[c])
=============================================================================
