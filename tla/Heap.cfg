CONSTANTS
    HeapSize = 18
    Overhead = 2
    Sizes = {0, 1, 2, 4}
    NULL = NULL
SPECIFICATION Spec
INVARIANTS
    Tiled
    Coalesced
PROPERTIES
    ImplementsHeap
