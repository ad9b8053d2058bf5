\* Any three lines of one session, under the limits of the code but for the
\* number of turns, which is halved so that three exchanges reach it.
CONSTANTS
  None = None
  TurnLimit = 4
  CharacterLimit = 6000
  TurnCharacterLimit = 4096
  Prompt <- AllPrompts
  LocalReply <- LocalReplies
  Reply <- ProviderReplies
  Guidance <- RenderedProposal
  MaxTurns = 3
SPECIFICATION Spec
INVARIANTS
  TypeOK
  SessionIsLongestSuffix
  TranscriptIsTrue
  NoIdentityPreamble
  FollowupGuarded
\* A session that was stopped does nothing more.
CHECK_DEADLOCK FALSE
