SPECIFICATION Spec
CONSTANTS
    a = a
    b = b
    d = d
    l = l
    m = m
    lt = lt
    mt = mt
    empty = empty
    one = one
    two = two
    Plain <- PlainNames
    Long = {l, m}
    Full <- LongFull
    Pieces <- LongPieces
    Alias <- Aliases
    FilePaths <- LongerFiles
    FolderPaths <- NoFolder
    Contents = {one}
    SizeOf <- Sizes
    LastCluster = 8
    SlotsPerCluster = 3
    EntriesPerSector = 8
    Copies = 2
    Counted = TRUE
    Crashes = FALSE
INVARIANTS AnswerHolds BooksBalance
CHECK_DEADLOCK FALSE
