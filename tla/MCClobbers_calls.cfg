SPECIFICATION Spec
CONSTANTS
  NF = 3
  Reg = {"BX", "DS"}
  Ext = {9}
  Programs <- Unsafe
INVARIANT CallsSafe
