CONSTANTS
    Env <- Variables
    MaxText = 3
SPECIFICATION Spec
INVARIANTS
    ConvertedBack
