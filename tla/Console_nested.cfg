CONSTANTS
    Line = {3, 40}
    Text <- MCText
    Tables <- MCTables
    SIZE = 3
    MaxCalls = 3
SPECIFICATION Spec
INVARIANT TextsWhole
CHECK_DEADLOCK FALSE
