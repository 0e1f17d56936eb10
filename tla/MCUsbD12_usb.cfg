SPECIFICATION FairSpec
CONSTANTS
    Files <- MCFiles
    Size <- MCSize
    BufSize = 2
    BlockSize = 2
    LenBound = 4
    Hosts <- MCHosts
INVARIANTS HandledOnce AnswerBelongs WholeFile ToldTruth
PROPERTIES RequestAnswered BulkTaken
CHECK_DEADLOCK FALSE
