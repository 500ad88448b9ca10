SPECIFICATION BindSpec
CONSTANTS
  NF = 3
  Reg = {"BX", "DS"}
  Ext = {9}
  Programs <- Mixed
  Vreg = {1, 2, 3, 4, 5, 6, 7, 8}
  Mod = {1, 2, 3}
  Seg = {1, 2}
  Ref <- MCRef
  Inputs <- MCInputs
INVARIANT BindTypeOK
INVARIANT AcyclicCallsSafe
INVARIANT ParamsApart
INVARIANT WishesTravel
INVARIANT SegmentsBelieved
INVARIANT WrittenOnce
PROPERTY WalksAgree
PROPERTY ModulesIsolated
PROPERTY SortsCallees
PROPERTY Terminates
