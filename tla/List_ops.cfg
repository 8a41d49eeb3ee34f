SPECIFICATION Spec
CONSTANTS
    ListHead = {h1, h2}
    Entry = {e1, e2, e3}
    NULL = NULL
    None = None
    Done = Done
SYMMETRY Symmetry
INVARIANTS
    TypeOK
    Mirrored
    PredicatesAgree
PROPERTIES
    LoopVisitsAll
    ImplementsContents
