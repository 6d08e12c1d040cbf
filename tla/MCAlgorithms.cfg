CONSTANTS
    PROGRAMS = {"naive", "indexed", "binsort", "eytzinger"}
    Ids <- MCIds
    Files <- MCFiles
    NULL = NULL
    BUF = 4
    Records <- MCRecords
    Queries <- MCQueries
    Texts <- MCTexts
    Instructions <- MCInstructions
    Addresses = {32, 65536}
SPECIFICATION Spec
INVARIANTS AnswerRight CoordLookups  DecodersAgree
CHECK_DEADLOCK FALSE
