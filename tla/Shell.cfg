SPECIFICATION Spec
CONSTANTS
  WordBits = 8
  BufSize = 12
  LineSize = 16
  MaxArgs = 4
  Typed <- MCTyped
  Calls <- MCCalls
  Memories <- MCMemories
INVARIANT PrintsAsAsked
INVARIANT ArgvIsWords
INVARIANT EchoComesBack
INVARIANT RoutinesAsPromised
