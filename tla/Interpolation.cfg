CONSTANTS
    Env <- Variables
    MaxText = 5
SPECIFICATION Spec
INVARIANTS
    Expansion
    Refusal
    Verdict
PROPERTIES
    ScanAdvances
