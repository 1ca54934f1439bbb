\* tracker_observation_section: observations land below ## Results.
CONSTANTS
  c1 = c1
  c2 = c2
  e1 = e1
  e2 = e2
  NoFile = NoFile
  NoConclusion = NoConclusion
  Clients <- MCOneClient
  ExpIds <- MCExpIds
  Statuses <- MCStatuses
  StatusMarks <- MCStatusMarks
  UserMarks <- MCPlainText
  MaxCalls = 2
SPECIFICATION Spec
INVARIANTS
  ObservationsUnderHeading
CHECK_DEADLOCK FALSE
