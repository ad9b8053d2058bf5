----------------------------- MODULE MCNelTurn -----------------------------
(* Instances of NelTurn for TLC.                                           *)
EXTENDS NelTurn

Plain(chars) ==
  [chars |-> chars, json |-> chars, blank |-> FALSE,
   parse |-> Engine!NotCommand, goalWish |-> FALSE, intent |-> "conversation",
   personal |-> "none", contrast |-> FALSE, identityAsked |-> FALSE,
   remember |-> FALSE]

Command(status, kind, json) == [status |-> status, kind |-> kind, json |-> json]

Short == Plain(20)

Contrast == [Short EXCEPT !.contrast = TRUE]
Assertion == [Short EXCEPT !.personal = "assertion", !.remember = TRUE]
FactQuery == [Short EXCEPT !.intent = "user_fact_query"]

(* One line of every route, one of them long and full of quotes.  Two at a *)
(* limit of DecisionEngine: a command that is short enough, and whose      *)
(* parse is not once escaped; and a line one character too long.           *)
AllPrompts ==
  {Short, Contrast, Assertion, FactQuery,
   [Plain(2000) EXCEPT !.json = 2600],
   Plain(Engine!USER_INPUT_MAX_CHARS + 1),
   [Short EXCEPT !.blank = TRUE],
   [Short EXCEPT !.parse = Command("confirmed", "fact", 120)],
   [Plain(4000) EXCEPT !.parse = Command("confirmed", "goal", 4097)],
   [Short EXCEPT !.parse = Command("clarification_required", "memory", 100)],
   [Short EXCEPT !.goalWish = TRUE],
   [Short EXCEPT !.personal = "question"],
   [Short EXCEPT !.identityAsked = TRUE]}

FollowupPrompts == {Short, Contrast, FactQuery}

Text(chars, intro) == [chars |-> chars, json |-> chars, intro |-> intro]

LocalReplies == {Text(40, FALSE), Text(3000, FALSE)}
LongLocalReplies == {Text(40, FALSE), Text(5000, FALSE)}
ProviderReplies == {Text(30, FALSE), Text(50, TRUE), Text(3000, FALSE)}

RenderedProposal == [chars |-> 150, json |-> 156]
=============================================================================
