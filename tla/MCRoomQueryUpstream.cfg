SPECIFICATION Spec
CONSTANTS
    CampusKinds <- MCCampusKinds
    Queries <- MCQueries
    MaxCampuses = 1
    MaxBuildings = 1
    None = None
INVARIANTS UpstreamFailureIsRuntime
