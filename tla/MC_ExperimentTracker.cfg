\* tracker_safety: two clients calling the tracker concurrently.
CONSTANTS
  c1 = c1
  c2 = c2
  e1 = e1
  e2 = e2
  NoFile = NoFile
  NoConclusion = NoConclusion
  Clients <- MCClients
  ExpIds <- MCExpIds
  Statuses <- MCStatuses
  StatusMarks <- MCStatusMarks
  UserMarks <- MCPlainText
  MaxCalls = 3
SPECIFICATION Spec
INVARIANTS
  TypeOK
  ConclusionInResults
  StatusLineHolds
  NoDuplicateEntries
PROPERTIES
  EntriesLostOnlyByStaleWrite
CHECK_DEADLOCK FALSE
