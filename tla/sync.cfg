\* Two sessions of one path, two threads of the application, the sync client.
SPECIFICATION FairSpec
CONSTANTS
    Sessions = {s1, s2}
    AppThreads = {t1, t2}
    Client = Client
    App = App
    None = None
    Uploads = {up}
    Downloads = {down}
    StopPolicies = {"AfterChangesUploaded", "Immediately"}
    ClientResync = TRUE
    MaxOperations = 4
INVARIANTS TypeOK SessionMatchesState ReferencedIsRegistered CalledOnce WaitersAreWaitedFor
PROPERTIES PromiseKept OperationsEnd
CHECK_DEADLOCK FALSE
