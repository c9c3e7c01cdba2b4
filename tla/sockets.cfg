\* Four clients, two ports: the third request gets a port a second time.
SPECIFICATION FairSpec
CONSTANTS
    Clients = {1, 2, 3, 4}
    Android = {2, 4}
    Message <- MCMessage
    Setups <- MCSetups
    PortCount = 2
    MaxFaults = 1
INVARIANTS TypeOK MessageComesBack
PROPERTIES TcpClientsFinish TcpThreadsEnd
CHECK_DEADLOCK FALSE
