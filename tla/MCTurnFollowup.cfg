\* A read of facts whose answer is longer than a turn of the recent conversation
\* may be, and a contrast right after it.
CONSTANTS
  None = None
  TurnLimit = 8
  CharacterLimit = 6000
  TurnCharacterLimit = 4096
  Prompt <- FollowupPrompts
  LocalReply <- LongLocalReplies
  Reply <- ProviderReplies
  Guidance <- RenderedProposal
  MaxTurns = 3
SPECIFICATION Spec
INVARIANT ReadThenContrastLocal
\* A session that was stopped does nothing more.
CHECK_DEADLOCK FALSE
