CONSTANTS
    Ips = {a, b}
    NoIp = NoIp
    Slots = {s1, s2, s3, s4, s5}
    Cap = 3
SPECIFICATION Spec
INVARIANTS TypeOK CountsMatchPermits NoStaleEntry
PROPERTY PoolSpec
