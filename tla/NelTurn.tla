------------------------------ MODULE NelTurn ------------------------------
(***************************************************************************)
(* Nel.think: what one line of the user does, from DecisionEngine's route  *)
(* through commands, local reads and the authority plan to the provider,   *)
(* its answer's check and retry, and what the recent conversation keeps    *)
(* of it; and main.run, which reads the next line or ends.                 *)
(*                                                                         *)
(* A prompt is what the classifiers of the code find in it:                *)
(*   chars, json, blank, parse   as DecisionEngine sees it                 *)
(*   goalWish      requires_explicit_goal_command                          *)
(*   intent        LocalIntentClassifier.classify                          *)
(*   personal      "assertion" or "question" in the first person, "none"   *)
(*   contrast      the short follow-up of the kind "Bes Bleach?"           *)
(*   identityAsked the user asks who Nel is or what it likes               *)
(*   remember      IntentClassifier answers REMEMBER, and the extractor    *)
(*                 does not exclude it                                     *)
(* A reply is its lengths and whether it opens with an identity preamble.  *)
(*                                                                         *)
(* Wording, and what only chooses the wording of the provider's prompt     *)
(* (purpose, continuity, personalization), are left out.  Commands and     *)
(* reads of the stores answer anything: the stores have modules of their   *)
(* own.  The threads beside a turn are in NelThreads.                      *)
(***************************************************************************)
EXTENDS ConversationSession

Engine == INSTANCE DecisionEngine

CONSTANTS
  Prompt,                      \* the lines the user may type
  LocalReply, Reply,           \* what commands and reads, and the provider, answer
  Guidance,                    \* [chars, json] of rendered fact proposals
  MaxTurns                     \* bound: lines typed in one session

VARIABLES
  pc,            \* where Nel.think, or main.run, is
  turn,          \* the locals of think
  seen,          \* history: what the user saw of each turn
  recordedBy     \* history: the turn each accepted exchange comes from

vars == <<sessionVars, pc, turn, seen, recordedBy>>

Phase ==
  {"idle", "command", "clarification", "routing", "proposals", "assembly",
   "provider", "answered", "failed", "stopped"}

Outcome ==
  {"silent", "clarified", "command", "refused", "read", "unavailable",
   "answered", "raised"}

(* EXPRESSION_BOUNDARY_FALLBACK, and any of the clarifications.            *)
FixedReply == [chars |-> 60, json |-> 60, intro |-> FALSE]

Guided(reply) ==
  [reply EXCEPT !.chars = @ + Guidance.chars, !.json = @ + Guidance.json]

Replies ==
  LET plain == LocalReply \cup Reply \cup {FixedReply}
  IN plain \cup {Guided(r) : r \in plain}

(* Nel takes the limits of models.py (8 turns, 6000 characters): a         *)
(* complete exchange alone has turns enough, and an empty window           *)
(* characters enough.  Texts have lengths; None is none of them.           *)
ASSUME TurnAssumption ==
  /\ TurnLimit >= 2 /\ CharacterLimit >= 61
  /\ MaxTurns \in Nat
  /\ \A prompt \in Prompt : {prompt.chars, prompt.json} \subseteq Nat
  /\ LocalReply \cup Reply \subseteq [chars : Nat, json : Nat, intro : BOOLEAN]
  /\ Guidance \in [chars : Nat, json : Nat]
  /\ None \notin [turnId : Nat \ {0}, text : Prompt \cup Replies]
                 \cup [text : Replies]

NoTurn == [prompt |-> None, identity |-> "none", reply |-> None,
           proposals |-> FALSE, retried |-> FALSE]

TypeOK ==
  /\ SessionTypeOK(Prompt \cup Replies)
  /\ pc \in Phase
  /\ turn \in [prompt : Prompt \cup {None}, identity : {"none", "required", "forbidden"},
               reply : Reply \cup {None}, proposals : BOOLEAN, retried : BOOLEAN]
  /\ seen \in Seq([prompt : Prompt, outcome : Outcome, reply : Replies \cup {None},
                   asked : BOOLEAN])
  /\ recordedBy \in Seq(1 .. MaxTurns)

Init ==
  /\ SessionInit
  /\ pc = "idle"
  /\ turn = NoTurn
  /\ seen = <<>> /\ recordedBy = <<>>

-----------------------------------------------------------------------------
(* Steps of think.                                                         *)

Goto(phase) == pc' = phase /\ UNCHANGED <<seen, recordedBy>>

(* think returns reply, or raises; asked tells that the provider was       *)
(* called for an answer.                                                   *)
Leave(prompt, outcome, reply, asked) ==
  /\ seen' = Append(seen, [prompt |-> prompt, outcome |-> outcome,
                           reply |-> reply, asked |-> asked])
  /\ recordedBy' = IF accepted' = accepted THEN recordedBy
                   ELSE Append(recordedBy, Len(seen) + 1)
  /\ turn' = NoTurn

Return(outcome, reply) ==
  Leave(turn.prompt, outcome, reply, FALSE) /\ pc' = "idle"

Unrecorded(outcome, reply) == UNCHANGED sessionVars /\ Return(outcome, reply)

(* The commands are inspected only when the input is within the limit.     *)
UserTurn(prompt) ==
  [kind |-> "user_turn", chars |-> prompt.chars, json |-> prompt.json,
   blank |-> prompt.blank,
   parse |-> IF prompt.chars <= Engine!USER_INPUT_MAX_CHARS
               THEN prompt.parse ELSE Engine!NotCommand,
   opState |-> "idle", foreground |-> TRUE, thought |-> "idle"]

PhaseOf(decision) ==
  CASE decision = "conversation_response" -> "routing"
    [] decision = "ask_clarification" -> "clarification"
    [] OTHER -> "command"

Think(prompt) ==
  /\ pc = "idle" /\ Len(seen) < MaxTurns
  /\ UNCHANGED sessionVars
  /\ LET decision == Engine!Decide(UserTurn(prompt))
     IN IF decision = "no_action"
          THEN Leave(prompt, "silent", None, FALSE) /\ UNCHANGED pc
          ELSE Goto(PhaseOf(decision)) /\ turn' = [NoTurn EXCEPT !.prompt = prompt]

(* A command that was carried out is recorded, one that was refused not.   *)
ExecuteCommand ==
  /\ pc = "command"
  /\ \E reply \in LocalReply :
       \/ AppendComplete("command", turn.prompt, reply) /\ Return("command", reply)
       \/ Unrecorded("refused", reply)

AskClarification ==
  pc = "clarification" /\ Unrecorded("clarified", FixedReply)

-----------------------------------------------------------------------------
(* A turn that is not a command.                                           *)

ClarifyGoalWish ==
  pc = "routing" /\ turn.prompt.goalWish /\ Unrecorded("clarified", FixedReply)

LocalRead ==
  pc = "routing" /\ ~turn.prompt.goalWish /\ turn.prompt.intent # "conversation"

ReadLocally ==
  /\ LocalRead
  /\ \E reply \in LocalReply :
       AppendComplete("local_read", turn.prompt, reply) /\ Return("read", reply)

ReadUnavailable == LocalRead /\ Unrecorded("unavailable", FixedReply)

(* The last exchange of the window read facts back, or asserted something  *)
(* in the first person.                                                    *)
Personal(exchange) ==
  LET user == exchange.user.text
  IN IF exchange.kind = "local_read" THEN user.intent = "user_fact_query"
     ELSE user.personal = "assertion"

(* Mutant: only a read of facts is protected.                              *)
GuardedAfterReads(prompt) ==
  /\ prompt.contrast /\ exchanges # <<>>
  /\ Last(exchanges).kind = "local_read" /\ Personal(Last(exchanges))

GuardedFollowup(prompt) ==
  prompt.contrast /\ exchanges # <<>> /\ Personal(Last(exchanges))

AuthorityClarifies(prompt) ==
  GuardedFollowup(prompt) \/ prompt.personal = "question"

Conversational ==
  /\ pc = "routing" /\ ~turn.prompt.goalWish
  /\ turn.prompt.intent = "conversation"

ClarifyPersonal ==
  /\ Conversational /\ AuthorityClarifies(turn.prompt)
  /\ Unrecorded("clarified", FixedReply)

IdentityPolicy(prompt) == IF prompt.identityAsked THEN "required" ELSE "forbidden"

StartConversation ==
  /\ Conversational /\ ~AuthorityClarifies(turn.prompt)
  /\ Goto("proposals")
  /\ turn' = [turn EXCEPT !.identity = IdentityPolicy(turn.prompt)]
  /\ UNCHANGED sessionVars

(* Whether there are facts to propose: never in a line that is not sent to *)
(* the extractor; in others the provider decides, and one that fails, or   *)
(* answers outside the schema or what the line says, found none.           *)
FactsFound(prompt) == IF prompt.remember THEN BOOLEAN ELSE {FALSE}

ProposeFacts ==
  /\ pc = "proposals"
  /\ Goto("assembly")
  /\ \E found \in FactsFound(turn.prompt) :
       turn' = [turn EXCEPT !.proposals = found]
  /\ UNCHANGED sessionVars

AssembleContext ==
  /\ pc = "assembly" /\ Goto("provider")
  /\ UNCHANGED <<sessionVars, turn>>

AskProvider ==
  /\ pc = "provider" /\ Goto("answered")
  /\ \E reply \in Reply : turn' = [turn EXCEPT !.reply = reply]
  /\ UNCHANGED sessionVars

-----------------------------------------------------------------------------
(* The answer.                                                             *)

Violates == turn.identity = "forbidden" /\ turn.reply.intro

AskAgain ==
  /\ pc = "answered" /\ Violates /\ ~turn.retried
  /\ \E reply \in Reply : turn' = [turn EXCEPT !.reply = reply, !.retried = TRUE]
  /\ UNCHANGED <<sessionVars, pc, seen, recordedBy>>

(* Mutant: the second answer is not checked.                               *)
CheckedOnce == turn.reply

Checked == IF Violates THEN FixedReply ELSE turn.reply

Rendered == IF turn.proposals THEN Guided(Checked) ELSE Checked

(* Mutant: the answer is recorded without what was added to it.            *)
AnswerRecordingDraft ==
  /\ pc = "answered" /\ (Violates => turn.retried)
  /\ AppendComplete("conversation", turn.prompt, turn.reply)
  /\ Leave(turn.prompt, "answered", Rendered, TRUE)
  /\ pc' = "idle"

(* A reply is a text that is not blank: both providers raise on any other, *)
(* so that the branches of think for an empty reply, and for one that is   *)
(* no string, are never taken.                                             *)
Answer ==
  /\ pc = "answered" /\ (Violates => turn.retried)
  /\ AppendComplete("conversation", turn.prompt, Rendered)
  /\ Leave(turn.prompt, "answered", Rendered, TRUE)
  /\ pc' = "idle"

-----------------------------------------------------------------------------
(* What fails after the conversation started leaves the user's line as an  *)
(* incomplete exchange.                                                    *)

Raise(asked) ==
  /\ AppendIncomplete(turn.prompt)
  /\ Leave(turn.prompt, "raised", None, asked)

(* A context that cannot be assembled and a provider that does not answer  *)
(* become an ApplicationError, which main.run prints.                      *)
AssemblyFails == pc = "assembly" /\ Raise(FALSE) /\ pc' = "idle"

ProviderFails ==
  /\ \/ pc = "provider"
     \/ pc = "answered" /\ Violates /\ ~turn.retried
  /\ Raise(TRUE) /\ pc' = "idle"

(* KnowledgeService._classify reads the repository itself: an error of its *)
(* first read is raised as it is, and ends the program.  One of the second *)
(* read, of the revisions, is converted like any other.                    *)
ProposalReadFails ==
  /\ pc = "proposals" /\ turn.prompt.remember
  /\ Raise(FALSE) /\ pc' \in {"failed", "idle"}

(* main.run ends: the user leaves, or think raised what is no              *)
(* ApplicationError.                                                       *)
Stop ==
  /\ pc \in {"idle", "failed"}
  /\ pc' = "stopped"
  /\ Clear
  /\ recordedBy' = <<>>
  /\ UNCHANGED <<turn, seen>>

Route == ExecuteCommand \/ AskClarification \/ ClarifyGoalWish \/ ReadLocally
           \/ ReadUnavailable \/ ClarifyPersonal \/ StartConversation
Converse == ProposeFacts \/ AssembleContext \/ AskProvider \/ AskAgain \/ Answer
Fail == AssemblyFails \/ ProviderFails \/ ProposalReadFails

Next ==
  \/ \E prompt \in Prompt : Think(prompt)
  \/ Route \/ Converse \/ Fail \/ Stop

Spec == Init /\ [][Next]_vars

-----------------------------------------------------------------------------
(* Properties.                                                             *)

(* The exchange of a text with this answer can enter a window at all.      *)
Storable(kind, user, reply) ==
  /\ Eligible(user) /\ Eligible(reply)
  /\ Measure(<<[kind |-> kind, user |-> [text |-> user],
                assistant |-> [text |-> reply]]>>, FALSE) <= CharacterLimit

ReadOfFacts(shown) ==
  shown.outcome = "read" /\ shown.prompt.intent = "user_fact_query"

Answered(shown) == shown.outcome = "answered"

(* The recent conversation tells the truth: exchanges come in the order of *)
(* their turns, at most one of each; a complete one is what the user typed *)
(* and was shown, an incomplete one is a turn that raised; and an answer   *)
(* of the provider that can be kept at all is never forgotten.             *)
TranscriptIsTrue ==
  /\ Len(recordedBy) = Len(accepted)
  /\ \A i, j \in DOMAIN recordedBy : i < j => recordedBy[i] < recordedBy[j]
  /\ \A i \in DOMAIN accepted :
       LET shown == seen[recordedBy[i]]
       IN /\ accepted[i].user.text = shown.prompt
          /\ IF Complete(accepted[i])
               THEN accepted[i].assistant.text = shown.reply
               ELSE shown.outcome = "raised"
  /\ \A t \in DOMAIN seen :
       /\ pc # "stopped" /\ Answered(seen[t])
       /\ Storable("conversation", seen[t].prompt, seen[t].reply)
       => \E i \in DOMAIN recordedBy : recordedBy[i] = t

(* An answer that opens with an identity preamble is shown only to a user  *)
(* who asked for it, whatever the provider says, twice.                    *)
NoIdentityPreamble ==
  \A t \in DOMAIN seen :
    Answered(seen[t]) /\ ~seen[t].prompt.identityAsked => ~seen[t].reply.intro

(* A contrast right after a read of facts, or after an assertion that was  *)
(* answered, is clarified without the provider, as long as that exchange   *)
(* could be kept.                                                          *)
FollowupGuarded ==
  \A t \in 2 .. Len(seen) :
    LET before == seen[t - 1]
    IN /\ seen[t].prompt.contrast
       /\ \/ ReadOfFacts(before) /\ Storable("local_read", before.prompt, before.reply)
          \/ /\ Answered(before) /\ before.prompt.personal = "assertion"
             /\ Storable("conversation", before.prompt, before.reply)
       => ~seen[t].asked

(* ADR-026: the flow of a local read and a contrast cannot return an       *)
(* assertion of the provider, "because the provider is never called for    *)
(* that response".                                                         *)
ReadThenContrastLocal ==
  \A t \in 2 .. Len(seen) :
    seen[t].prompt.contrast /\ ReadOfFacts(seen[t - 1]) => ~seen[t].asked

(* docs/06_CURRENT_STATE: "raw database exceptions do not reach the CLI".  *)
StorageErrorsStayInside == pc # "failed"
=============================================================================
