SPECIFICATION Spec
CONSTANTS
  WordBits = 8
  AddrMod = 256
  HeapStart = 24
  HeapBound = 200
  PtBytes = 16
  MAX_ENV = 3
  DomUb = 4
  AsidUb = 5
  PidMod = 4
  MaxPid = 4
  VAs <- SomeVAs
  PAs <- TwoPAs
INVARIANTS IdsDistinct IdsSound
PROPERTIES DoubleFreeCaught EntriesStayRight
