CONSTANTS
    Vreg = {0, 1, 2, 3}
    Label = {"A", "B", "C"}
    Pool = {"DX", "BX"}
    Siblings <- OneSibling
    MaxDepth = 4
    Functions <- AllFns
SPECIFICATION CacheSpec
INVARIANTS
    LivenessExact
    InterferenceComplete
    LastUseCovers
    CachedValuesKept
