CONSTANTS
    MAX_MSG_LEN = 3
    REPLY_HEADER_LEN = 1
    Bytes = {0, 1, 2, 255}
    EofByte = 255
    Files <- MCFiles
    NoFile = NoFile
    ZeroHash = ZeroHash
    Servers = {"c", "py"}
    Clients = {"c", "py"}
    MayDie = TRUE
    ShortReads = TRUE
SPECIFICATION Spec
INVARIANTS TypeOK SavedIsServed BlocksCoverData WholeTransferKept
PROPERTIES TransferEnds
