CONSTANTS
    Half = 8
    Inputs <- MCInputs
    Lines <- MCLines
    Caps = {0, 1, 2, 3}
    ScanCap = 2
    MaxLeft = 1
SPECIFICATION Spec
INVARIANTS TextIntact NumbersExact
PROPERTY CallsReturn
