CONSTANTS
    Names = {"a", "bc"}
    Hidden = {".h"}
    Bytes <- MCBytes
    MaxBytes = 7
    MaxSegments = 5
CHECK_DEADLOCK FALSE
SPECIFICATION Spec
INVARIANTS TypeOK RejectedExactly ComponentsKept
