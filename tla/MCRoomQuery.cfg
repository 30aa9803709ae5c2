SPECIFICATION FairSpec
CONSTANTS
    CampusKinds <- MCCampusKinds
    Queries <- MCQueries
    MaxCampuses = 2
    MaxBuildings = 2
    None = None
INVARIANTS TypeOK AnswerIsMeant AnswerIsOnlyOne RefusalJustified
PROPERTIES Returns
