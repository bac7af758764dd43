SPECIFICATION HighlightSpec
CONSTANTS
    Blocks = {b1, b2}
    k1 = k1
    k2 = k2
    k3 = k3
    Codes = {k1, k2, k3}
    KeyOf <- KeyDef
    Raw = Raw
    NoText = NoText
    MaxRenders = 3
    MaxHighlightFaults = 0
CHECK_DEADLOCK FALSE
INVARIANTS RawOnlyWhileLoading
