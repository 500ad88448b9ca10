SPECIFICATION Spec
CONSTANTS
  Label = {"a", "b", "t1", "t2", "t3", "t4", "t5", "t6"}
  Programs <- Sources
  MAX_RERUNS = 4
  MAX_OUTPUT = 1048576
  Gaps = {1, 123, 127}
  BranchOps = {"jcc", "jmp", "loop"}
INVARIANT SettledResolves
PROPERTY NoLateRelaxation
PROPERTY LabelsOnlyMoveUp
