\* Every program ends; Finishes says so of the processes that would hang.
CHECK_DEADLOCK FALSE
SPECIFICATION Spec
CONSTANTS
    Examples <- MCExamples
    Rounds = 10
    Sockets = 10
    KeyboardLines = 3
  Trace <- MCTrace
INVARIANTS
    EndsAsMeant
    OutputEchoed
PROPERTIES
    Finishes
