SPECIFICATION Spec
CONSTANTS
    Keys = {1, 2}
    Values = {v1, v2}
    None = None
    NoEntry = NoEntry
INVARIANTS TypeOK FlushInv
PROPERTY Implements
