SPECIFICATION KernelSpec
CONSTANTS
    Builds = {1, 2, 3, 4}
    First = 1
    IsoBuild = 4
    Published = {2, 3}
    Local = {4}
    Disks <- ThreeDisks
    BootDisk = 3
    Patience = 1
    Names <- AName
    Texts = {"bad"}
    Bad = {"bad"}
    Depth = 3
    NewFolders <- FolderNames
    NewNotes <- NoteNames
    Alike = {"Quarantaine", "Quarantaine2"}
    Fallback = "y"
    DirPaths <- Dirs
    FilePaths <- Files
    Apps <- TwoApps
    Quick = {"Terminal"}
    Items <- Menu
    Letters = {"p", "q"}
    MaxTyped = 1
    OwnPages = {"home"}
    WebPages = {"http-a", "http-b"}
    Home = "home"
    Goes <- SentTo
    Furthest <- Rows
    MaxVisits = 3
    Width = 5
    Height = 4
    Windows <- ThreeWindows
    PlaceOf <- WindowPlaces
    Spots <- ScreenSpots
    Clocks = {1, 2}
    WindowTime = 2
    MenuTime = 2
    FrameTime = 1
    SplashTime = 1
    WakingTime = 2
    MaxEvents = 3
INVARIANTS KernelTypeOK OnlyTheOtherSlot DefaultStarts StaysOpen  LoadingIsUnderWay
PROPERTIES ScanKeepsTexts WalksHistory AnswersTheLast
CHECK_DEADLOCK FALSE
