CONSTANTS
    Inodes <- MCInodes
    NoInode = "none"
    Kind <- MCKind
    Device <- MCDevice
    Root = "root"
    Names <- MCNames
    NameBytes <- MCNameBytes
    Hidden = {".h"}
    Garbled = {"bad"}
    MaxEntries = 2
    MaxBytes = 15
    Touched <- Few
    Starts <- MCStarts
    Requests <- WalkRequests
    Sites <- AllSites
    Authors = {"owner", "other"}
CHECK_DEADLOCK FALSE
SPECIFICATION Spec
INVARIANTS TypeOK QuietAnswer SteadyFileServed FileWasPublished ListingWasPublished SteadyEntriesListed CheckAgrees ReasonHolds
