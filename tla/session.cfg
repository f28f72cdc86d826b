SPECIFICATION SessionSpec
CONSTANTS
  Modes <- AllModes
  Addresses = 3
  Retries = 10
  Size = 2
  MaxCommands = 3
  MaxCalls = 5
  Faults = TRUE
INVARIANTS NoLeak UpIsUsable ErrorReported
INVARIANTS ExecutedIsPrefix NothingAfterError NullMeansError
PROPERTIES ImplementsStream CallReturns ConstructorReturns
CHECK_DEADLOCK FALSE
