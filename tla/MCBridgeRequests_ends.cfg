SPECIFICATION FairSpec
CONSTANTS
    Request = {r1, r2}
    Ids = {1}
    Id <- MCId
    Json = {r1}
    Room = 1
    Note = Note
    None = None
INVARIANTS HealthyNotClosed IdsAreReleased
PROPERTIES RightAnswer ToldOfTheEnd EveryRequestEnds
CHECK_DEADLOCK FALSE
