----------------------------- MODULE UserStores -----------------------------
(***************************************************************************)
(* The stores beside the goals in one SQLite file: facts, memories and     *)
(* preferences.  A process runs one command at a time, of any store, and   *)
(* the file has one write lock, so a transaction of one store keeps every  *)
(* other writer waiting or failing.                                        *)
(***************************************************************************)
EXTENDS Naturals

CONSTANTS
  FactKey, PreferenceKey, Value, Text, Fingerprint, Client, None,
  MaxCommands    \* commands that get past their checks: bounds a run

VARIABLES
  lock,                                                   \* of the file
  facts, factHistory, factStaged, fpc, freq, ftodo, fbefore, fanswer, fapt,
  events, mpc, mtext, manswer,
  prefs, prefHistory, prefStaged, ppc, preq, pseen, panswer,
  commands                                                \* how many so far

Facts == INSTANCE FactStore
  WITH Key <- FactKey, current <- facts, history <- factHistory, staged <- factStaged,
       pc <- fpc, req <- freq, todo <- ftodo, before <- fbefore, answer <- fanswer,
       apt <- fapt

Memories == INSTANCE MemoryStore
  WITH pc <- mpc, text <- mtext, answer <- manswer

Preferences == INSTANCE PreferenceStore
  WITH Key <- PreferenceKey, current <- prefs, history <- prefHistory, staged <- prefStaged,
       pc <- ppc, req <- preq, seen <- pseen, answer <- panswer

ASSUME StoresAssumption ==
  /\ Facts!FactAssumption /\ Memories!MemoryAssumption /\ Preferences!PreferenceAssumption
  /\ MaxCommands \in Nat

factVars == <<facts, factHistory, factStaged, fpc, freq, ftodo, fbefore, fanswer, fapt>>
memoryVars == <<events, mpc, mtext, manswer>>
preferenceVars == <<prefs, prefHistory, prefStaged, ppc, preq, pseen, panswer>>

vars == <<lock, factVars, memoryVars, preferenceVars, commands>>

TypeOK ==
  Facts!TypeOK /\ Memories!TypeOK /\ Preferences!TypeOK /\ commands \in 0 .. MaxCommands

Init == Facts!Init /\ Memories!Init /\ Preferences!Init /\ commands = 0

(* A process between two commands.                                         *)
Free(c) == fpc[c] = "idle" /\ mpc[c] = "idle" /\ ppc[c] = "idle"

(* A process takes up its next command; it has one answer at a time, so    *)
(* what it was told by another store is forgotten.                         *)
Another == commands < MaxCommands /\ commands' = commands + 1

ForgetFactAnswer(c) == fanswer' = [fanswer EXCEPT ![c] = "none"]

ForgetMemoryAnswer(c) ==
  /\ manswer' = [manswer EXCEPT ![c] = "none"]
  /\ mtext' = [mtext EXCEPT ![c] = None]

ForgetPreferenceAnswer(c) == panswer' = [panswer EXCEPT ![c] = "none"]

FactStep(c) ==
  /\ \/ /\ Free(c)
        /\ (Another /\ Facts!Submit(c)) \/ (UNCHANGED commands /\ Facts!TurnAway(c))
        /\ ForgetMemoryAnswer(c) /\ ForgetPreferenceAnswer(c)
     \/ Facts!Work(c) /\ UNCHANGED <<manswer, mtext, panswer, commands>>
  /\ UNCHANGED <<events, mpc, prefs, prefHistory, prefStaged, ppc, preq, pseen>>

MemoryStep(c) ==
  /\ \/ /\ Free(c)
        /\ (Another /\ Memories!Submit(c)) \/ (UNCHANGED commands /\ Memories!TurnAway(c))
        /\ ForgetFactAnswer(c) /\ ForgetPreferenceAnswer(c)
     \/ Memories!Work(c) /\ UNCHANGED <<fanswer, panswer, commands>>
  /\ UNCHANGED <<facts, factHistory, factStaged, fpc, freq, ftodo, fbefore, fapt,
                 prefs, prefHistory, prefStaged, ppc, preq, pseen>>

PreferenceStep(c) ==
  /\ \/ /\ Free(c)
        /\ (Another /\ Preferences!Submit(c)) \/ (UNCHANGED commands /\ Preferences!TurnAway(c))
        /\ ForgetFactAnswer(c) /\ ForgetMemoryAnswer(c)
     \/ Preferences!Work(c) /\ UNCHANGED <<fanswer, manswer, mtext, commands>>
  /\ UNCHANGED <<facts, factHistory, factStaged, fpc, freq, ftodo, fbefore, fapt, events, mpc>>

Next == \E c \in Client : FactStep(c) \/ MemoryStep(c) \/ PreferenceStep(c)

Spec == Init /\ [][Next]_vars

-----------------------------------------------------------------------------
(* Properties, of the stores and across them.                              *)

FactsAreLedger         == Facts!FactsAreLedger
BatchWhole             == Facts!BatchWhole
ChangeToldTruly        == Facts!ChangeToldTruly
ProposalOnceApt        == Facts!ProposalOnceApt
DuplicatesBounded      == Memories!DuplicatesBounded
ToldMemoriesKept       == Memories!ToldMemoriesKept
PreferencesAreLedger   == Preferences!PreferencesAreLedger
PromotedUnseenOnlyAnew == Preferences!PromotedUnseenOnlyAnew
=============================================================================
