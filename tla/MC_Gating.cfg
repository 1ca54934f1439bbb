\* gating_safety: every requirement set, cancelled or run to the end.
CONSTANTS
  NoResult = NoResult
  Upper <- MCUpper
  Requirements <- MCRequirements
  OnPath <- MCOnPath
  EnvValue <- MCEnvValue
  ExistingConfigs <- MCExistingConfigs
  PipWorks <- MCPipWorks
  PipLines <- MCPipLines
SPECIFICATION Spec
INVARIANTS
  TypeOK
  PassedOnlyIfMet
  DiagnosticsExact
CHECK_DEADLOCK FALSE
