SPECIFICATION Spec
CONSTANTS
    SERIAL_RBUFSZ = 2
    POSMOD = 4
    Byte = {0, 1}
    Threads = {t1}
    RxBytes = {0, 1}
    TxBytes = {0, 1}
    ReadSizes = {2}
    WriteSizes = {3}
    NULL = NULL
PROPERTY ImplementsChannel
