\* The host may leave a card without room, and the Pi reboots at the end.
CHECK_DEADLOCK FALSE
SPECIFICATION Spec
CONSTANTS
    Files <- MCFiles
    Short <- MCShort
    Long <- MCLong
    Lfn <- MCLfn
    Lower <- MCLower
    Attr <- MCAttr
    Slots = 5
    PerSector = 3
    Cards <- MCCards
    MaxEdits = 3
INVARIANTS
    CardsSound
    DirectoryRead
    LayoutsFit
