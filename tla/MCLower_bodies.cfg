SPECIFICATION Spec
CONSTANTS
    Families <- AllFamilies
    MaxStmts = 4
INVARIANTS FollowsSource LabelsPlacedOnce
CHECK_DEADLOCK FALSE
