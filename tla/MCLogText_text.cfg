SPECIFICATION Spec
CONSTANTS
    NaN = NaN
    kIntMax = 100000
    kULongMax = 1000000
    BufSize = 1024
    Args <- MCArgs
    Body <- MCBody
    MaxLines = 2
INVARIANTS
    BufferHoldsPrefix
    HeaderNeverCut
    TextIsReference
    HeaderIsTranslated
