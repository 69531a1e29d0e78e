SPECIFICATION Spec
CONSTANTS
    c1 = c1
    c2 = c2
    c3 = c3
    Sessions = {c1, c2}
    Connections = {c1, c2}
    ChannelOf <- OnePerChannel
    worker_connections <- OneWorkerEach
    Descriptors = {0, 1}
    Main = main
    NoThread = nothread
    NoConnection = noconnection
INVARIANTS
    ThreadOwnsItsSession
    DescriptorsAreOwned
    ServerInv
