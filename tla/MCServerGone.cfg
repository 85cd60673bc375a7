CONSTANTS
    c1 = c1
    c2 = c2
    c3 = c3
    c4 = c4
    ipA = ipA
    ipB = ipB
    Workers = {w1, w2}
    Main = Main
    NoConn = NoConn
    NoIp = NoIp
    Conns <- MCFew
    Ips <- MCIps
    Peer <- MCPeer
    Cap = 2
    Backlog = 2
    MaxSignals = 0
    MaxUnwinds = 2
SPECIFICATION ScheduledSpec
CHECK_DEADLOCK FALSE
PROPERTY GoneWorkersEndServe
