SPECIFICATION Spec
CONSTANTS
  a = a
  b = b
  Keys = {a, b}
  Programs <- ThreePrograms
  MaxCommands = 3
  Faults = TRUE
INVARIANTS OwnChannel NoneForgotten CleanMeansAnswered HooksSet AbortExplained
PROPERTIES OwnReplyOnce QuietWhileFreeing
CHECK_DEADLOCK FALSE
