SPECIFICATION EditorSpec
CONSTANTS
    Floors = {"f1", "f2", "f3"}
    Plan = {}
    Limit = 1
    Drawings <- MCDrawings
    Rank <- MCRank
    Tables <- MCTables
    Files <- MCFiles
    Codes <- MCCodes
    Raws <- MCRaws
    Reach <- MCReach
    Snap <- MCSnap
    Width = 12
    MaxEdits = 2
INVARIANTS
    EditorTypeOK
    HistoryBounded
    IssuesAreCurrent
    EditKeepsReferences
    ContoursStayClosed
    ContourReadingsAgree
    CleanFloorIsTiled
    PinnedRoomIsOnTheFloor
    IdentitiesLand
    MapShowsThePlans
PROPERTY
    HistoryIsTimeline
CHECK_DEADLOCK FALSE
