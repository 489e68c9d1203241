SPECIFICATION FairSpec
CONSTANTS
  Pins <- SomePins
  PullPins <- LowPins
  Functions <- SomeFunctions
  Programs <- AllPrograms
  Families <- AllFamilies
  Settings <- SomeTypes
  ClockMod = 4
  Goal = 2
  Forks = 3
  MaxYields = 2
  Rounds = 2
  MaxThreads = 6
  Led = 19
CHECK_DEADLOCK FALSE
INVARIANTS
  VectorsInPlace
  TimeKept
  PinsAsAsked
  ThreadsSound
PROPERTIES
  EventsKept
  CountsToGoal
