--------------------------- MODULE DecisionEngine ---------------------------
(***************************************************************************)
(* DecisionEngine: the route of one event, from what the caller shows of   *)
(* it and nothing else.  A context that is too large, or whose parse is    *)
(* not one, has no route at all, whatever the user asked for.              *)
(*                                                                         *)
(* An event is shown as                                                    *)
(*   kind        "user_turn" or "background_event"                         *)
(*   chars, json the length of the input, and its length once escaped        *)
(*   blank       nothing is left of the input when it is stripped          *)
(*   parse       [status, kind, json]: the explicit command in the input,  *)
(*               and the length of its serialised form                     *)
(*   opState, foreground, thought                                          *)
(* The types of the fields, which _valid_context also checks, are those of *)
(* the callers modelled here.                                              *)
(***************************************************************************)
EXTENDS Naturals

USER_INPUT_MAX_CHARS == 4096
COMMAND_PARSE_MAX_CHARS == 4096
DECISION_CONTEXT_MAX_CHARS == 8192

ParseStatus == {"not_command", "confirmed", "clarification_required"}
CommandKind == {"none", "goal", "fact", "memory"}

DecisionType ==
  {"conversation_response", "ask_clarification", "goal_command",
   "fact_command", "memory_command", "thought_start", "no_action"}

(* ExplicitCommandParse.not_command(): 76 characters when serialised.      *)
NotCommand == [status |-> "not_command", kind |-> "none", json |-> 76]

(* What the other fields of a context take in its serialised form: an      *)
(* event id of 32 digits, the names, an idle process.                      *)
CONTEXT_FRAME == 202

ValidContext(event) ==
  /\ event.chars <= USER_INPUT_MAX_CHARS
  /\ event.parse.json <= COMMAND_PARSE_MAX_CHARS
  /\ CONTEXT_FRAME + event.json + event.parse.json <= DECISION_CONTEXT_MAX_CHARS

CommandDecision == [goal |-> "goal_command", fact |-> "fact_command",
                    memory |-> "memory_command"]

DecideUserTurn(event) ==
  IF event.parse.status = "confirmed" THEN CommandDecision[event.parse.kind]
  ELSE IF event.parse.status = "clarification_required" THEN "ask_clarification"
  ELSE IF event.blank THEN "no_action"
  ELSE "conversation_response"

DecideBackgroundEvent(event) ==
  IF ~event.foreground /\ event.thought # "running" /\ event.opState = "idle"
    THEN "thought_start"
    ELSE "no_action"

Decide(event) ==
  IF ~ValidContext(event) THEN "no_action"
  ELSE IF event.kind = "user_turn" THEN DecideUserTurn(event)
  ELSE DecideBackgroundEvent(event)
=============================================================================
