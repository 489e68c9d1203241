SPECIFICATION FairSpec
CONSTANTS
  ExitString <- MCExitString
  Chars = {"D", "!", "x", "NUL"}
  Nul = "NUL"
  Chunk = 3
  Readers <- AllReaders
  MayClose = TRUE
  MaxText = 4
CHECK_DEADLOCK FALSE
INVARIANTS EndsSoundly NeverPassesExit
PROPERTIES EndSeen
