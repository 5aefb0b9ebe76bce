SPECIFICATION Spec
CONSTANTS
    a = a
    b = b
    d = d
    l = l
    m = m
    lt = lt
    mt = mt
    empty = empty
    one = one
    two = two
    Plain <- PlainNames
    Long = {}
    Full = {}
    Pieces <- LongPieces
    Alias <- Aliases
    FilePaths <- NestedFiles
    FolderPaths <- OneFolder
    Contents = {one, two}
    SizeOf <- Sizes
    LastCluster = 5
    SlotsPerCluster = 2
    EntriesPerSector = 8
    Copies = 2
    Counted = TRUE
    Crashes = TRUE
INVARIANTS TypeOK NoGarbage
PROPERTY AtomicCalls
CHECK_DEADLOCK FALSE
