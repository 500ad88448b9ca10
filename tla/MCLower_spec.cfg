SPECIFICATION Spec
CONSTANTS
    Families <- Control
    MaxStmts = 3
INVARIANT LoweringFollowsSource
CHECK_DEADLOCK FALSE
