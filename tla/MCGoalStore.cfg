\* Two processes revising one goal up to version 3.
CONSTANTS
  Goal = {g1}
  Client = {c1, c2}
  Content = {text1}
  None = None
  Versions = {1, 2}
SPECIFICATION Spec
SYMMETRY Symmetry
INVARIANTS
  TypeOK
  HistoryContiguous
  ChainLegal
  EvidenceKept
  CommittedKept
  AnswersTruthful
PROPERTIES
  NoLostUpdate
  ImplementsLedger
