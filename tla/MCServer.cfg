SPECIFICATION Spec
CONSTANTS
    c1 = c1
    c2 = c2
    c3 = c3
    Sessions = {c1, c2, c3}
    Connections = {c1, c2, c3}
    ChannelOf <- ThreeOnTCP
    worker_connections <- TwoTCPWorkers
    Descriptors = {0, 1}
    Main = main
    NoThread = nothread
    NoConnection = noconnection
SYMMETRY Symmetry
INVARIANTS
    TypeOK
    ThreadOwnsItsSession
    DescriptorsAreOwned
    CountMatchesPool
    NoIdIsPooledAndReusable
    InsertIsFresh
    SMInv
PROPERTY RegistrySpec
