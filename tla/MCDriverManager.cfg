SPECIFICATION FairSpec
CONSTANTS
    common = common
    dma = dma
    sesenta = sesenta
    left = left
    right = right
    Threads = {t1, t2, t3}
    Main = main
    NoThread = nothread
    Drivers = {common, dma, sesenta, left, right}
    NoDriver = nodriver
    Common = common
    Needs <- AllNeeds
INVARIANTS
    SingleInstantiation
    StartedDriverIsFound
    DependenciesComeFirst
    DriverInv
    AskedInv
PROPERTIES
    ServiceSpec
    StartCompletes
