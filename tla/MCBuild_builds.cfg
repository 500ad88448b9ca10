SPECIFICATION Spec
CONSTANTS
  Mod = {"a", "b", "c"}
  Root = "a"
  Worlds <- QuickAndPatient
CHECK_DEADLOCK FALSE
INVARIANT ForcedBuildCurrent
PROPERTY SortsModules
PROPERTY EventuallyCurrent
