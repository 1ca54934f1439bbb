\* tracker_lost_update: update_status's write-back drops a concurrent observation or conclusion.
CONSTANTS
  c1 = c1
  c2 = c2
  e1 = e1
  e2 = e2
  NoFile = NoFile
  NoConclusion = NoConclusion
  Clients <- MCClients
  ExpIds <- MCExpIds
  Statuses <- MCStatuses
  StatusMarks <- MCStatusMarks
  UserMarks <- MCPlainText
  MaxCalls = 2
SPECIFICATION Spec
PROPERTIES
  EntriesNeverRemoved
CHECK_DEADLOCK FALSE
