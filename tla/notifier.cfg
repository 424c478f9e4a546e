\* Two callbacks coming and going while two versions are committed.
SPECIFICATION FairSpec
CONSTANTS
    MaxCallbacks = 2
    MaxVersion = 2
CHECK_DEADLOCK FALSE
INVARIANTS TypeOK HaveCallbacks ToldExactly
PROPERTIES ToldOnce WaitsEnd CallbacksCatchUp
