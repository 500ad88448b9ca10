CONSTANTS
    NV = 6
    Kind <- MCKind
    KindInfo <- MCKindInfo
    Functions <- MCFunctions
SPECIFICATION Spec
INVARIANTS
    TypeOK
    Coloring
    BpReserved
    StorageSound
    SpillsHaveFrame
    FrameSound
PROPERTIES
    Termination
