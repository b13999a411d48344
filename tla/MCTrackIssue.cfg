SPECIFICATION FairSpec
CONSTANTS
  clippy = clippy
  portable = portable
  neon = neon
  o1 = o1
  o2 = o2
  Bot = Bot
  Other = Other
  None = None
  Unknown = Unknown
  Trackers <- MCTrackers
  Legs <- MCLegs
  Outputs <- MCOutputs
  Reports <- MCReports
  Runs = {1, 2}
  Numbers = {1, 2, 3}
  MaxChanges = 1
  MaxFaults = 1
  MaxMeddling = 1
INVARIANTS
  OneOpenIssue
  ReportedIsShown
  CommentsOnChange
PROPERTIES
  ImplementsIdealTracker
  EventuallyShown

