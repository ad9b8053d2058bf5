\* A database error while the facts found in a line are compared with the
\* stored ones.
CONSTANTS
  None = None
  TurnLimit = 8
  CharacterLimit = 6000
  TurnCharacterLimit = 4096
  Prompt <- AllPrompts
  LocalReply <- LocalReplies
  Reply <- ProviderReplies
  Guidance <- RenderedProposal
  MaxTurns = 3
SPECIFICATION Spec
INVARIANT StorageErrorsStayInside
\* A session that was stopped does nothing more.
CHECK_DEADLOCK FALSE
