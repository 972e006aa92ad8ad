SPECIFICATION ShellSpec
CONSTANTS
  None = None
  MaxSchema = 2
  MaxWork = 2
  MaxFaults = 4
  Retention = 1
  DurableUnlink = TRUE
  CrashUncovered = FALSE
INVARIANTS TypeOK WorkRecoverableByChoice ServesMigrated RestoreTakesEffect
PROPERTY ComesUp
