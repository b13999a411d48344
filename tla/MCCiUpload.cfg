SPECIFICATION Spec
CONSTANTS
  Nothing = Nothing
  Kinds = {bench, deny}
  Serial = {bench}
  Signalled = {bench}
  Plain = {deny}
  Jobs = {r1, r2}
  Commits = {a, b, c}
  PullCommits = {p}
  MaxIndex = 2
  MaxFiles = 1
  MaxStarts = 3
  MaxFaults = 1
INVARIANTS
  CompletedIsPublished
  HistoryKept
  PrunesOnlyOlder
  ManifestNamesIndexed
SYMMETRY MCSymmetry
CHECK_DEADLOCK FALSE
