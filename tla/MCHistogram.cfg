CONSTANTS
    Workers = {w1, w2}
    Files <- MCFiles
    Content <- MCContent
    NBits = 2
    Chunk = 2
    NoWorker = NoWorker
    NoPath = NoPath
SPECIFICATION Spec
INVARIANTS TypeOK BitsConserved FinalHistogram
PROPERTIES ShownGrows Finishes
