SPECIFICATION Spec
CONSTANTS
  SpilledWords = {"word_m", "slot1", "slot2"}
  SpilledBytes = {"byte_m"}
  Remats = {"imm"}
  StackSlot <- MCStackSlot
  Sites <- MCSites
  Fns <- MCFns
CHECK_DEADLOCK FALSE
INVARIANT ArgumentsPlaced
INVARIANT OthersUntouched
INVARIANT CallTransparent
INVARIANT ResultsReachVregs
INVARIANT CalleeEntered
INVARIANT ParamsPlaced
INVARIANT ContractKept
INVARIANT ExitsRight
