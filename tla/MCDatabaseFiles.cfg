\* Two processes import files of two contents into a database of any version,
\* migrate it and back it up; the runtime writes to it as soon as it is of
\* the last.
CONSTANTS
  Client = {c1, c2}
  None = None
  Blank = Blank
  Content = {a, b}
  MaxData = 1
SPECIFICATION Spec
SYMMETRY Symmetry
INVARIANTS
  TypeOK
  FilesWhole
  CopyMatchesSnapshot
PROPERTIES
  ImportWhole
  NotOverwrittenUnasked
