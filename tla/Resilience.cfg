SPECIFICATION Spec
CONSTANTS
  a = a  b = b   p1 = p1  none = none  modules = modules
  Scope <- TwoScopes
  Provider <- OneProvider
  NoProvider <- none
  Report <- Reports
  LockdownModules <- TheModules
  Guarded = TRUE
  Tuner = TRUE
  Low <- SmallLow
  High <- SmallHigh
  DefaultParams <- SmallDefault
  CorrelationThreshold = 2
  Window = 0
  MaxHealRetries = 2
  SaveOutcome <- AnyOutcome
  Operator = TRUE
  MaxCount = 2
INVARIANTS TypeOK EvidenceReflected GuardMatchesModules ThresholdsOrdered
PROPERTIES PostureSticks RevertWaits
