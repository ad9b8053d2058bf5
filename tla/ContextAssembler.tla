-------------------------- MODULE ContextAssembler --------------------------
(***************************************************************************)
(* ContextAssembler.assemble: what the provider is shown of the stores.    *)
(* Four sources are read one after the other, each up to a number of       *)
(* records; of each category of records read the relevant ones are         *)
(* candidates, up to a limit; and then whole records are packed, in an     *)
(* order of priority, into a bundle whose canonical JSON must not exceed   *)
(* the budget.  The bundle also says what was left out and why, in         *)
(* metadata that is part of the same JSON: leaving a record out makes the  *)
(* bundle longer.                                                          *)
(*                                                                         *)
(* A record is its length in JSON; what the selectors make of it           *)
(* ("relevant", "irrelevant" or, of memories, "oversized"); its place in   *)
(* the order in which its source reads; and, of memories, a number for its *)
(* normalised text.  The order of reading knows nothing of relevance:      *)
(* facts come by key, goals by goal_id, preferences by state and key, and  *)
(* memories the newest first.  The records of a category are given in the  *)
(* other order, in which the selectors rank them.  Only what can become    *)
(* context at all is a record here: retired facts, and preferences that    *)
(* are candidates or retired, are passed over by the readers, take no      *)
(* place and are counted nowhere.  Facts, goals or memories that cannot be *)
(* read are left out whole.  Identity, with its preferences, is read       *)
(* first, and without it nothing is assembled.                             *)
(***************************************************************************)
EXTENDS Integers, SequencesExt

CONSTANTS
  Budget,                \* total_context_characters
  ReadLimit,             \* SOURCE_SNAPSHOT_LIMIT, of all the records of a source
  Limit,                 \* the limit of records of each category
  CoreLength,            \* the identity section without preferences, in JSON
  Offers                 \* what the stores may hold: category -> records

VARIABLES
  offer, failed,         \* history: what the stores hold; sources not readable
  pc,
  candidates,            \* per category, the lengths of the records to pack
  omitted, reasons,
  considered,            \* how many candidates, in order of priority, were tried
  accepted               \* records of the queue, in the order of acceptance

vars == <<offer, failed, pc, candidates, omitted, reasons, considered, accepted>>

Category == {"facts", "active_goals", "established", "memories", "provisional",
             "terminal_goals"}

(* The sources in the order in which they are read, their categories, and  *)
(* the reason when one of the optional ones cannot be read; the counter is *)
(* then named for the source.                                              *)
CategoriesOf ==
  [preferences |-> {"established", "provisional"}, facts |-> {"facts"},
   goals |-> {"active_goals", "terminal_goals"}, memories |-> {"memories"}]

Fate == {"relevant", "irrelevant", "oversized"}

StoredRecord == [length : Nat, fate : Fate, place : Nat, text : Nat]

(* The records that a source holds, each as its category and rank there.   *)
Holdings(contents, source) ==
  UNION {{<<c, i>> : i \in DOMAIN contents[c]} : c \in CategoriesOf[source]}

(* The places of a source's records are 1, 2, ...  No budget is so large   *)
(* that a length within it would have more than ten digits.                *)
ASSUME ContextAssumption ==
  /\ {Budget, ReadLimit, CoreLength} \subseteq Nat
  /\ Budget <= 1000000000
  /\ Limit \in [Category -> Nat]
  /\ \A contents \in Offers :
       /\ contents \in [Category -> Seq(StoredRecord)]
       /\ \A source \in DOMAIN CategoriesOf :
            {contents[r[1]][r[2]].place : r \in Holdings(contents, source)}
              = 1 .. Cardinality(Holdings(contents, source))

NextSource == [preferences |-> "facts", facts |-> "goals", goals |-> "memories",
               memories |-> "baseline"]

FailureReason ==
  [facts |-> "fact_context_omitted", goals |-> "goal_context_omitted",
   memories |-> "memory_context_omitted"]

Optional == DOMAIN FailureReason

(* Preferences have one counter for those that were never candidates, and  *)
(* another for those that were not packed.                                 *)
SelectionCounter ==
  [c \in Category |-> IF c = "established" THEN "established_preferences"
                      ELSE IF c = "provisional" THEN "provisional_preferences"
                      ELSE c]

Counter == Category \cup Range(SelectionCounter) \cup Optional

TruncationReasons == {"budget_exceeded", "record_oversized", "source_limit"}

Reason ==
  TruncationReasons \cup Range(FailureReason) \cup {"not_relevant", "duplicate_record"}

Phase ==
  {"preferences", "facts", "goals", "memories", "baseline", "packing",
   "shedding", "done", "oversized", "unavailable"}

TypeOK ==
  /\ offer \in Offers
  /\ failed \subseteq Optional
  /\ pc \in Phase
  /\ candidates \in [Category -> Seq(Nat)]
  /\ \A c \in Category : Len(candidates[c]) <= Limit[c]
  /\ omitted \in [Counter -> Nat]
  /\ reasons \subseteq Reason
  /\ considered \in Nat
  /\ accepted \in Seq([category : Category, index : Nat, length : Nat])

Init ==
  /\ offer \in Offers
  /\ failed = {}
  /\ pc = "preferences"
  /\ candidates = [c \in Category |-> <<>>]
  /\ omitted = [c \in Counter |-> 0]
  /\ reasons = {}
  /\ considered = 0
  /\ accepted = <<>>

-----------------------------------------------------------------------------
(* Reading a source.                                                       *)

(* The records of a category that are read: the first of their source.     *)
Fetched(c) == {i \in DOMAIN offer[c] : offer[c][i].place <= ReadLimit}

(* Of memories with the same text the oldest that was read is kept, those  *)
(* that are too long apart.                                                *)
Legible(i) == offer["memories"][i].fate # "oversized"

Duplicates(c) ==
  {i \in Fetched(c) :
     /\ c = "memories" /\ Legible(i)
     /\ \E j \in Fetched(c) :
          /\ Legible(j)
          /\ offer[c][j].text = offer[c][i].text /\ offer[c][j].place > offer[c][i].place}

(* The ranks of the relevant records of a category, and the lengths of the *)
(* first of them, up to the limit.                                         *)
Relevant(c) == {i \in Fetched(c) \ Duplicates(c) : offer[c][i].fate = "relevant"}

Nth(places, n) == CHOOSE i \in places : Cardinality({j \in places : j <= i}) = n

Ranked(c) ==
  [n \in 1 .. Min({Cardinality(Relevant(c)), Limit[c]}) |-> offer[c][Nth(Relevant(c), n)].length]

(* The records read of a category that never become candidates, and why.   *)
OverLimit(c) == Max({0, Cardinality(Relevant(c)) - Limit[c]})
LeftOut(c) == Cardinality(Fetched(c)) - Cardinality(Relevant(c)) + OverLimit(c)

LeftOutReasons(c) ==
  LET fates == {offer[c][i].fate : i \in Fetched(c) \ Duplicates(c)}
  IN (IF "irrelevant" \in fates THEN {"not_relevant"} ELSE {})
       \cup (IF "oversized" \in fates THEN {"record_oversized"} ELSE {})
       \cup (IF Duplicates(c) # {} THEN {"duplicate_record"} ELSE {})
       \cup (IF OverLimit(c) > 0 THEN {"source_limit"} ELSE {})

Select(source) ==
  /\ pc = source /\ pc' = NextSource[source]
  /\ LET own == CategoriesOf[source]
     IN /\ candidates' = [c \in Category |-> IF c \in own THEN Ranked(c) ELSE candidates[c]]
        /\ omitted' = [k \in Counter |->
             omitted[k] + SumFunctionOnSet([c \in own |-> LeftOut(c)],
                                           {c \in own : SelectionCounter[c] = k})]
        /\ reasons' = reasons \cup UNION {LeftOutReasons(c) : c \in own}
  /\ UNCHANGED <<offer, failed, considered, accepted>>

IdentityFails ==
  /\ pc = "preferences" /\ pc' = "unavailable"
  /\ UNCHANGED <<offer, failed, candidates, omitted, reasons, considered, accepted>>

ReadFails(source) ==
  /\ pc = source /\ pc' = NextSource[source]
  /\ failed' = failed \cup {source}
  /\ omitted' = [omitted EXCEPT ![source] = @ + 1]
  /\ reasons' = reasons \cup {FailureReason[source]}
  /\ UNCHANGED <<offer, candidates, considered, accepted>>

-----------------------------------------------------------------------------
(* The length of the bundle's canonical JSON.                              *)

(* The digits of a number below ten thousand million.  A longer bundle is  *)
(* over every budget, however its length is written.                       *)
PowersOfTen ==
  {10, 100, 1000, 10000, 100000, 1000000, 10000000, 100000000, 1000000000}

Digits(n) == 1 + Cardinality({p \in PowersOfTen : p <= n})

(* Without its brackets, a list of the records of some categories is those *)
(* records and the commas between.                                         *)
Taken(list, categories) == {i \in DOMAIN list : list[i].category \in categories}

Joined(list, categories) ==
  LET own == Taken(list, categories)
  IN SumFunctionOnSet([i \in DOMAIN list |-> list[i].length], own)
       + (IF own = {} THEN 0 ELSE Cardinality(own) - 1)

ReasonLength ==
  [r \in Reason |->
     CASE r = "budget_exceeded" -> 15 [] r = "record_oversized" -> 16
       [] r = "source_limit" -> 12 [] r = "not_relevant" -> 12
       [] r = "duplicate_record" -> 16 [] r = "fact_context_omitted" -> 20
       [] r = "goal_context_omitted" -> 20 [] r = "memory_context_omitted" -> 22]

CounterLength ==
  [k \in Counter |->
     CASE k = "facts" -> 5 [] k = "active_goals" -> 12 [] k = "terminal_goals" -> 14
       [] k = "goals" -> 5 [] k = "memories" -> 8 [] k = "established" -> 11
       [] k = "provisional" -> 11 [] k = "established_preferences" -> 23
       [] k = "provisional_preferences" -> 23]

(* A JSON list of the reasons, and an object of the counters that are not  *)
(* zero, both without their brackets.                                      *)
ReasonsLength(why) ==
  SumFunctionOnSet([r \in Reason |-> ReasonLength[r] + 3], why) - (IF why = {} THEN 0 ELSE 1)

CountersLength(count) ==
  LET used == {k \in Counter : count[k] > 0}
  IN SumFunctionOnSet([k \in Counter |-> CounterLength[k] + 4 + Digits(count[k])], used)
       - (IF used = {} THEN 0 ELSE 1)

(* What is in the bundle: its records, the identity, and in the metadata   *)
(* their sizes and numbers.  77 characters for the bundle and 294 for its  *)
(* metadata are fixed.                                                     *)
ContentLength(list) ==
  LET goals == Joined(list, {"active_goals", "terminal_goals"})
      identity == CoreLength + Joined(list, {"established"}) + Joined(list, {"provisional"})
      memories == Joined(list, {"memories"})
      facts == Joined(list, {"facts"})
      sizes == Digits(2 + goals) + Digits(identity) + Digits(2 + memories) + Digits(2 + facts)
      counts == 1 + SumFunction([c \in Category |-> Digits(Cardinality(Taken(list, {c})))])
  IN 77 + goals + identity + memories + facts + 294 + Digits(Budget) + sizes + counts

(* The account of what is not: "false" or "true", the reasons and counters.*)
AccountLength(count, why) ==
  (IF why \cap TruncationReasons = {} THEN 5 ELSE 4) + ReasonsLength(why) + CountersLength(count)

Encoded(list, count, why) == ContentLength(list) + AccountLength(count, why)

Fits(list, count, why) == Encoded(list, count, why) <= Budget

-----------------------------------------------------------------------------
(* Packing.                                                                *)

Baseline ==
  /\ pc = "baseline"
  /\ pc' = IF Fits(<<>>, omitted, reasons) THEN "packing" ELSE "oversized"
  /\ UNCHANGED <<offer, failed, candidates, omitted, reasons, considered, accepted>>

(* All candidates, the higher priority first.                              *)
Records(c) ==
  [i \in DOMAIN candidates[c] |-> [category |-> c, index |-> i, length |-> candidates[c][i]]]

Queue ==
  Records("facts") \o Records("active_goals") \o Records("established")
    \o Records("memories") \o Records("provisional") \o Records("terminal_goals")

(* One record is left out of the bundle for want of room.                  *)
Omit(record) ==
  /\ omitted' = [omitted EXCEPT ![record.category] = @ + 1]
  /\ reasons' = reasons \cup {"budget_exceeded"}

Accept ==
  /\ pc = "packing" /\ considered < Len(Queue)
  /\ Fits(Append(accepted, Queue[considered + 1]), omitted, reasons)
  /\ accepted' = Append(accepted, Queue[considered + 1])
  /\ considered' = considered + 1
  /\ UNCHANGED <<offer, failed, pc, candidates, omitted, reasons>>

Refuse ==
  /\ pc = "packing" /\ considered < Len(Queue)
  /\ ~Fits(Append(accepted, Queue[considered + 1]), omitted, reasons)
  /\ Omit(Queue[considered + 1])
  /\ considered' = considered + 1
  /\ UNCHANGED <<offer, failed, pc, candidates, accepted>>

EndPacking ==
  /\ pc = "packing" /\ considered = Len(Queue)
  /\ pc' = "shedding"
  /\ UNCHANGED <<offer, failed, candidates, omitted, reasons, considered, accepted>>

(* Mutant: the bundle is made to fit without saying so.                    *)
ShedUncounted ==
  /\ pc = "shedding" /\ accepted # <<>> /\ ~Fits(accepted, omitted, reasons)
  /\ accepted' = Front(accepted)
  /\ UNCHANGED <<offer, failed, pc, candidates, omitted, reasons, considered>>

(* Mutant: the first of the accepted records goes.                         *)
ShedFirst ==
  /\ pc = "shedding" /\ accepted # <<>> /\ ~Fits(accepted, omitted, reasons)
  /\ accepted' = Tail(accepted)
  /\ Omit(Head(accepted))
  /\ UNCHANGED <<offer, failed, pc, candidates, considered>>

(* What was refused made the metadata longer: accepted records go again,   *)
(* the last one first.                                                     *)
Shed ==
  /\ pc = "shedding" /\ accepted # <<>> /\ ~Fits(accepted, omitted, reasons)
  /\ accepted' = Front(accepted)
  /\ Omit(Last(accepted))
  /\ UNCHANGED <<offer, failed, pc, candidates, considered>>

Finish ==
  /\ pc = "shedding"
  /\ accepted = <<>> \/ Fits(accepted, omitted, reasons)
  /\ pc' = IF Fits(accepted, omitted, reasons) THEN "done" ELSE "oversized"
  /\ UNCHANGED <<offer, failed, candidates, omitted, reasons, considered, accepted>>

Next ==
  \/ IdentityFails
  \/ \E source \in DOMAIN CategoriesOf : Select(source)
  \/ \E source \in Optional : ReadFails(source)
  \/ Baseline \/ Accept \/ Refuse \/ EndPacking \/ Shed \/ Finish

Spec == Init /\ [][Next]_vars

-----------------------------------------------------------------------------
(* Properties.                                                             *)

Rank(record) == CHOOSE i \in DOMAIN Queue : Queue[i] = record

Dropped == {Queue[i] : i \in 1 .. considered} \ Range(accepted)

(* Nothing that is read is lost without a trace: of every source that did  *)
(* not fail, all records, or ReadLimit of them if there are more, are in   *)
(* the bundle or counted as left out, a source that failed is counted      *)
(* once, and the bundle says that it is truncated exactly when a record    *)
(* that was read and is relevant, or too large, is missing.  Of what is    *)
(* beyond ReadLimit there is no trace.                                     *)
EveryRecordCounted ==
  pc = "done" =>
    LET sources == DOMAIN CategoriesOf \ failed
        read == UNION {CategoriesOf[s] : s \in sources}
        offered == SumFunctionOnSet(
                     [s \in DOMAIN CategoriesOf |->
                        Min({Cardinality(Holdings(offer, s)), ReadLimit})], sources)
        missing == \/ Dropped # {}
                   \/ \E c \in read : OverLimit(c) > 0
                   \/ \E c \in read : \E i \in Fetched(c) : offer[c][i].fate = "oversized"
    IN /\ Len(accepted) + SumFunction(omitted) = offered + Cardinality(failed)
       /\ missing <=> reasons \cap TruncationReasons # {}

(* What is in the bundle fits and comes in the order of priority; and the  *)
(* missing record of the highest priority had no room beside the records   *)
(* above it, all of which are there, and the account of what is left out.  *)
(* (Of those below it no more can be said: a record refused while a larger *)
(* one was held stays out when that one goes again.)                       *)
PackedByPriority ==
  pc = "done" =>
    /\ Fits(accepted, omitted, reasons)
    /\ \A i, j \in DOMAIN accepted : i < j => Rank(accepted[i]) < Rank(accepted[j])
    /\ \A d \in Dropped :
         LET above == SubSeq(Queue, 1, Rank(d) - 1)
         IN IsPrefix(above, accepted) => ~Fits(Append(above, d), omitted, reasons)

(* ADR-024: "A lower-priority record never displaces an accepted higher-   *)
(* priority record."  A record is given up again only on account of one    *)
(* that was considered after it.                                           *)
AcceptedStays == [][IsPrefix(accepted, accepted')]_accepted
=============================================================================
