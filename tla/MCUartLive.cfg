SPECIFICATION FairSpec
CONSTANTS
    SERIAL_RBUFSZ = 2
    POSMOD = 4
    Byte = {0}
    Threads = {t1, t2}
    RxBytes = {0}
    TxBytes = {0}
    ReadSizes = {2}
    WriteSizes = {3}
    NULL = NULL
INVARIANT NothingStalls
PROPERTIES ReaderWakes TxProgress
