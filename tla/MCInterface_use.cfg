SPECIFICATION Spec
CONSTANTS
    Programs <- AllPrograms
    LongNames <- TheLongNames
    StackNames <- TheStackNames
    RegisterNames <- TheRegisterNames
CHECK_DEADLOCK FALSE
INVARIANT ArgumentsLineUp
INVARIANT DescriptorsAgree
INVARIANT ObjectsAgree
