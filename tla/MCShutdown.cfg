CONSTANTS
  MaxCores = 2
  Extra = Extra
SPECIFICATION Spec
CHECK_DEADLOCK FALSE
INVARIANT CleanShutdown
