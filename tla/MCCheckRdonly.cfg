CONSTANTS
    Inodes <- MCInodes
    NoInode = "none"
    Kind <- MCKind
    Device <- MCDevice
    Root = "root"
    Names <- MCNames
    NameBytes <- MCNameBytes
    Hidden = {".h"}
    Garbled = {"bad"}
    MaxEntries = 2
    MaxBytes = 15
    Touched <- Few
    Starts <- Quiet
    Requests <- WalkRequests
    Sites <- AllSites
    Authors = {"owner", "other"}
CHECK_DEADLOCK FALSE
SPECIFICATION Spec
INVARIANT CheckNotWeaker
