SPECIFICATION Spec
CONSTANTS
    META = 1
    MAX_SIZE = 8
    WORD = 64
    HeapLimit = 10
    Sizes <- SmallSizes
    Callocs <- SmallCallocs
INVARIANT FreeListInv
PROPERTIES LowestAddressFirst ImplementsHeap
