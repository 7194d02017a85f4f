SPECIFICATION BothSpec
CONSTANTS
    a = a
    b = b
    s1 = s1
    Stores = {s1}
    Threads <- TwoThreads
    Records = {a}
    Contents <- FewContents
    ChunkSize = 1
    Exclusive = TRUE
    HonestCallers = TRUE
    MaxRevision = 2
    Absent = Absent
    Nothing = Nothing
    Torn = Torn
INVARIANTS
    TypeOK
    StoreInv
    CommittedReadable
PROPERTIES
    ImplementsAtomic
    LongImplementsAtomic
