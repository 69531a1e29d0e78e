SPECIFICATION FairSpec
CONSTANTS
    c1 = c1
    c2 = c2
    c3 = c3
    Sessions = {c1, c2}
    Connections = {c1, c2}
    ChannelOf <- TwoOnWebSocket
    worker_connections <- OneWebSocketWorker
    Descriptors = {0, 1}
    Main = main
    NoThread = nothread
    NoConnection = noconnection
PROPERTIES
    ShutdownCompletes
    FinishedSessionIsDeleted
