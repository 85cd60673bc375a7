CONSTANTS
    c1 = c1
    c2 = c2
    c3 = c3
    c4 = c4
    ipA = ipA
    ipB = ipB
    Workers = {w1, w2}
    Main = Main
    NoConn = NoConn
    NoIp = NoIp
    Conns <- MCFew
    Ips <- MCIps
    Peer <- MCPeer
    Cap = 1
    Backlog = 2
    MaxSignals = 1
    MaxUnwinds = 1
SPECIFICATION ScheduledSpec
PROPERTIES SignalStops InterruptStops QueueProgress AcceptedIsServed HandOver
