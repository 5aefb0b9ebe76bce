SPECIFICATION Spec
CONSTANTS
    a = a
    b = b
    d = d
    l = l
    m = m
    lt = lt
    mt = mt
    empty = empty
    one = one
    two = two
    Plain <- PlainNames
    Long = {}
    Full = {}
    Pieces <- LongPieces
    Alias <- Aliases
    FilePaths <- ThreeFiles
    FolderPaths <- NoFolder
    Contents = {one, two}
    SizeOf <- Sizes
    LastCluster = 6
    SlotsPerCluster = 2
    EntriesPerSector = 2
    Copies = 2
    Counted = TRUE
    Crashes = TRUE
INVARIANT DirectoriesRead
CHECK_DEADLOCK FALSE
