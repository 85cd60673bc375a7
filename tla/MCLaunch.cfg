CONSTANTS
    Lines <- MCLines
    Arguments <- MCArguments
    UnknownFlags = {"--x"}
    NotUtf8 = {"bytes"}
    None = None
    Absolute <- MCAbsolute
    normalize_root <- MCNormalize
    Addresses <- MCAddresses
    Number <- MCNumber
    Platforms = {"openbsd", "other"}
    MaxSignals = 2
    MaxReplacements = 2
SPECIFICATION FairSpec
INVARIANTS TypeOK ParsedExactly ConfigSound RootAsNamed BannerTellsTruth SignalKept ExitTells
PROPERTY SignalEnds
