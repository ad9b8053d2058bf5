------------------------ MODULE ConversationSession ------------------------
(***************************************************************************)
(* ConversationSession: the window of recent exchanges that is shown to    *)
(* the provider.  It lives in memory, holds whole exchanges, and is kept   *)
(* within a number of turns and within a number of characters of its       *)
(* canonical JSON, whose length is computed here as the serializer's       *)
(* output would have it.                                                   *)
(*                                                                         *)
(* A text is a record with its length, chars, and its length once escaped  *)
(* as JSON, json; what else a text is matters to the callers only.  The    *)
(* lock of the session is held by every method from end to end, and only   *)
(* the main thread calls them.                                             *)
(***************************************************************************)
EXTENDS Integers, SequencesExt

CONSTANTS
  TurnLimit, CharacterLimit, TurnCharacterLimit,
  None                                       \* an exchange without an answer

ASSUME SessionLimits == {TurnLimit, CharacterLimit, TurnCharacterLimit} \subseteq Nat \ {0}

VARIABLES
  exchanges, truncated,                      \* the snapshot
  nextTurnId, nextExchangeId,
  accepted                                   \* history: every exchange taken in

sessionVars == <<exchanges, truncated, nextTurnId, nextExchangeId, accepted>>

ExchangeKind == {"conversation", "local_read", "command"}

SessionTypeOK(Text) ==
  LET Turn == [turnId : Nat \ {0}, text : Text]
      Exchange == [exchangeId : Nat \ {0}, kind : ExchangeKind, user : Turn,
                   assistant : Turn \cup {None}]
  IN /\ exchanges \in Seq(Exchange)
     /\ accepted \in Seq(Exchange)
     /\ truncated \in BOOLEAN
     /\ {nextTurnId, nextExchangeId} \subseteq Nat \ {0}

SessionInit ==
  /\ exchanges = <<>> /\ accepted = <<>>
  /\ truncated = FALSE
  /\ nextTurnId = 1 /\ nextExchangeId = 1

-----------------------------------------------------------------------------
(* Lengths.                                                                *)

Complete(exchange) == exchange.assistant # None

Total(numbers) == FoldLeft(LAMBDA n, m : n + m, 0, numbers)

TurnCount(window) == Total([i \in DOMAIN window |-> IF Complete(window[i]) THEN 2 ELSE 1])

KindLength == [conversation |-> 12, local_read |-> 10, command |-> 7]

(* One exchange: its frame with "complete" or "incomplete", its kind, and  *)
(* its turns with their roles.                                             *)
ExchangeLength(e) ==
  LET userTurn == 21 + 4 + e.user.text.json
  IN 38 + KindLength[e.kind] + userTurn
       + IF Complete(e) THEN 8 + 1 + 21 + 9 + e.assistant.text.json ELSE 10

(* The whole: an empty window is 60 characters when truncated; "false" is  *)
(* one longer than "true"; exchanges are separated by commas.              *)
Measure(window, isTruncated) ==
  60 + (IF isTruncated THEN 0 ELSE 1)
     + Total([i \in DOMAIN window |-> ExchangeLength(window[i])])
     + (IF window = <<>> THEN 0 ELSE Len(window) - 1)

Fits(window, isTruncated) ==
  /\ TurnCount(window) <= TurnLimit
  /\ Measure(window, isTruncated) <= CharacterLimit

Eligible(text) == text.chars \in 1 .. TurnCharacterLimit

-----------------------------------------------------------------------------
(* Taking an exchange in: it must fit alone, and then the oldest leave     *)
(* until the window fits.                                                  *)

Evicting(n, window) == SubSeq(window, n + 1, Len(window))

(* Mutant: the flag speaks of this append only.                            *)
RetainedForgetfully(window) ==
  {<<Evicting(n, window), n > 0>> : n \in 0 .. Len(window) - 1}

(* The candidates, from the whole window to its last exchange alone.       *)
Retained(window) ==
  {<<Evicting(n, window), truncated \/ n > 0>> : n \in 0 .. Len(window) - 1}

AppendExchange(exchange) ==
  LET fitting == {r \in Retained(Append(exchanges, exchange)) : Fits(r[1], r[2])}
      turns == IF Complete(exchange) THEN 2 ELSE 1
  IN IF Measure(<<exchange>>, FALSE) <= CharacterLimit /\ fitting # {}
       THEN /\ \E r \in fitting :
                 /\ \A other \in fitting : Len(other[1]) <= Len(r[1])
                 /\ exchanges' = r[1] /\ truncated' = r[2]
            /\ nextTurnId' = nextTurnId + turns
            /\ nextExchangeId' = nextExchangeId + 1
            /\ accepted' = Append(accepted, exchange)
       ELSE UNCHANGED sessionVars

AppendComplete(kind, userText, assistantText) ==
  IF Eligible(userText) /\ Eligible(assistantText)
    THEN AppendExchange(
           [exchangeId |-> nextExchangeId, kind |-> kind,
            user |-> [turnId |-> nextTurnId, text |-> userText],
            assistant |-> [turnId |-> nextTurnId + 1, text |-> assistantText]])
    ELSE UNCHANGED sessionVars

AppendIncomplete(userText) ==
  IF Eligible(userText)
    THEN AppendExchange(
           [exchangeId |-> nextExchangeId, kind |-> "conversation",
            user |-> [turnId |-> nextTurnId, text |-> userText],
            assistant |-> None])
    ELSE UNCHANGED sessionVars

(* Mutant: the next ids are zero, like those of an empty window.           *)
ClearToZero ==
  /\ exchanges' = <<>> /\ accepted' = <<>>
  /\ truncated' = FALSE
  /\ nextTurnId' = 0 /\ nextExchangeId' = 0

Clear ==
  /\ exchanges' = <<>> /\ accepted' = <<>>
  /\ truncated' = FALSE
  /\ nextTurnId' = 1 /\ nextExchangeId' = 1

-----------------------------------------------------------------------------

(* The provider is shown the longest run of latest exchanges that fits,    *)
(* and is told that something is missing exactly when something is:        *)
(* eviction takes no more than it must, never from the middle, and the     *)
(* flag is kept by the appends that evict nothing.                         *)
SessionIsLongestSuffix ==
  \E n \in 0 .. Len(accepted) :
    /\ exchanges = Evicting(n, accepted)
    /\ truncated = (n > 0)
    /\ Fits(exchanges, truncated)
    /\ \A m \in 0 .. n - 1 : ~Fits(Evicting(m, accepted), m > 0)
=============================================================================
