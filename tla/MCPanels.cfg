SPECIFICATION WebSpec
CONSTANTS
    MaxVersion = 2
    MaxDrops = 1
    MaxTravels = 2
    Moments = {7, 8}
    Notes <- MCNotes
    Map <- MCMap
    Days <- MCDays
    Answers <- MCAnswers
    PerPages = {1, 2}
    MaxClicks = 2
    Catalogue <- MCCatalogue
    Cells = {1}
    Taught <- MCTaught
    MaxErrands = 2
    Scenes = {"panels"}
INVARIANTS
    UndoOffersWhatExists
    LessonsSettle
CHECK_DEADLOCK FALSE
