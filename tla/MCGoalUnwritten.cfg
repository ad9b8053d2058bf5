\* An answer that the command could not be written, after its commit.
CONSTANTS
  Goal = {g1}
  Client = {c1}
  Content = {text1}
  None = None
  Versions = {1}
SPECIFICATION Spec
INVARIANTS
  FailedMeansUnwritten
