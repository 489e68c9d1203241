SPECIFICATION Spec
CONSTANTS
  a1 = a1
  a2 = a2
  Asids <- MCAsids
  MaxStores = 2
SYMMETRY Symmetry
INVARIANTS
  RoutinesSound
  LoadsSeeLastStore
  WalksSeeTables
  AsidOwnsEntries
