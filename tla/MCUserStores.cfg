\* Two processes, any four commands on facts, memories and preferences.
CONSTANTS
  FactKey = {k1, k2}
  PreferenceKey = {p1}
  Value = {v1, v2}
  t1 = t1
  t2 = t2
  blank = blank
  Text <- Texts
  Fingerprint <- Fingerprints
  Client = {c1, c2}
  None = None
  MaxCommands = 4
SPECIFICATION Spec
SYMMETRY Symmetry
INVARIANTS
  TypeOK
  DuplicatesBounded
  ToldMemoriesKept
  PromotedUnseenOnlyAnew
PROPERTIES
  FactsAreLedger
  BatchWhole
  ChangeToldTruly
  ProposalOnceApt
  PreferencesAreLedger
