SPECIFICATION Spec
CONSTANTS
    MaxHistory = 2
    MaxAliases = 3
    StaleAfter = 1
    Confirmations = 2
    IgnoredNames = {"._01"}
    Paths = {1, 2, 3}
    Recordings <- MCRecordings
    Tracks <- MCTracks
    RunsFor <- MCRunsFor
    Untagged = {2}
    Legacy <- MCLegacy
    Bounds <- MCBounds
INVARIANT IdsKeepTheirRecording PlacesAreReachable EditsAreShown
PROPERTY ShrinkIsConfirmed KnownBooksKeepTheirIds
CHECK_DEADLOCK FALSE
