CONSTANTS
    o1 = o1
    o2 = o2
    v1 = v1
    v2 = v2
    v3 = v3
    b1 = b1
    Outpoints <- MCOneOutpoint
    Values <- MCValues
    Unspendable <- MCUnspendable
    ScriptSize <- MCScriptSize
    Blocks <- MCBlocks
    NullHash = NullHash
    SPENT = SPENT
    ABSENT = ABSENT
    MaxDepth = 2
    CallerChecksOverwrite = FALSE
SPECIFICATION Spec
PROPERTIES
    TxAddNeverThrows
CHECK_DEADLOCK FALSE
