SPECIFICATION Spec
CONSTANTS
  WordBits = 7
  AddrMod = 128
  HeapStart = 8
  HeapBound = 48
  Sizes <- SmallSizes
  Alignments <- SmallAlignments
  Starts <- SetStarts
INVARIANT BlocksSound
PROPERTY ReturnsZeroed
PROPERTY KeepsContents
