CONSTANTS
    Vreg = {0, 1, 2}
    Label = {"A", "B", "C"}
    Functions <- Updates
SPECIFICATION Spec
INVARIANTS
    InterferenceComplete
