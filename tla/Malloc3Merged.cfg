SPECIFICATION Spec
CONSTANTS
    META = 2
    SPLIT_MIN = 2
    BIN = 4
    NBINS = 3
    MMAP_SIZE = 12
    MAX_SIZE = 24
    ALIGN = 2
    Versions = {"malloc_3"}
    HeapLimit = 20
    AddressLimit = 21
    Sizes <- SmallSizes
    ReallocSizes <- SmallReallocs
    Callocs <- SmallCallocs
    WORD = 64
INVARIANTS HistogramValidMerged
