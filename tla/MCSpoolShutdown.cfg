SPECIFICATION FairSpec
CONSTANTS
    Handlers = {h1, h2}
INVARIANTS TypeOK OwnDirectoryGone GracefulExit LeftoverHasOwner
PROPERTIES Exits
