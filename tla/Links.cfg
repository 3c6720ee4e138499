CONSTANTS
    PCBs = {b1, b2, b3}
    NULL = NULL
    Levels = {0, 1}
SPECIFICATION Spec
SYMMETRY Addresses
INVARIANTS
    EndsMeet
PROPERTIES
    ImplementsSequences
