\* report_safety: two clients appending sections to a report concurrently.
CONSTANTS
  c1 = c1
  c2 = c2
  r1 = r1
  NoFile = NoFile
  Clients <- MCClients
  ReportIds <- MCReportIds
  SectionNames <- MCSectionNames
  MaxCalls = 3
SPECIFICATION Spec
INVARIANTS
  TypeOK
  AppendsKeptInOrder
CHECK_DEADLOCK FALSE
