\* tracker_marked_text: a status or a hypothesis holding ## Results misplaces the conclusion.
CONSTANTS
  c1 = c1
  c2 = c2
  e1 = e1
  e2 = e2
  NoFile = NoFile
  NoConclusion = NoConclusion
  Clients <- MCOneClient
  ExpIds <- MCExpIds
  Statuses <- MCMarkedStatuses
  StatusMarks <- MCMarkedStatusMarks
  UserMarks <- MCMarkedText
  MaxCalls = 3
SPECIFICATION Spec
INVARIANTS
  ConclusionInResults
CHECK_DEADLOCK FALSE
