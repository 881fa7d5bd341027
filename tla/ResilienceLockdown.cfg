SPECIFICATION Spec
CONSTANTS
  a = a  b = b   p1 = p1  none = none  modules = modules
  Scope <- OneScope
  Provider <- NoProviders
  NoProvider <- none
  Report <- LockdownReports
  LockdownModules <- TheModules
  Guarded = TRUE
  Tuner = TRUE
  Low <- SmallLow
  High <- SmallHigh
  DefaultParams <- SmallDefault
  CorrelationThreshold = 3
  Window = 1
  MaxHealRetries = 2
  SaveOutcome <- AnyOutcome
  Operator = FALSE
  MaxCount = 3
PROPERTIES LockdownClosesEntries
