SPECIFICATION DevicesSpec
CONSTANTS
    Resolvers = {browser, updates}
    HostNames = {x, y}
    DhcpServers = {"s", "t"}
    NamingServers = {"s"}
    QueryIds = {0, 1, 2}
    Tries = 1
    DatagramLimit = 1
    ArpLimit = 1
    Neighbours = {}
    Ring = 3
    MaxFrames = 6
    Flight <- TheFlight
    MaxData = 2
    Asides = {"ticket", "close"}
    RingSize = 3
    PacketSize = 3
    PortLimit = 2
    MaxPackets = 1
    MaxCodes = 2
    Sectors = 3
    Stuff = {0, 1}
    PerCommand = 2
    Slow = FALSE
    Faulty = TRUE
    Layouts <- Maps
    FrameSize = 4
    HeapSize = 7
    Levels = 3
    Indices = {0, 1}
    Devices = {100}
    Huge = {1}
INVARIANTS EachItsOwnAnswer AddressIsOurs FramesInOrder AllIsUnderstood InStep NoEventWaits TransferIsTrue OneOwner
SYMMETRY NetSymmetry
CONSTRAINT NumbersApart
CHECK_DEADLOCK FALSE
