SPECIFICATION FairSpec
CONSTANTS
    Launches <- MCLaunches
    Steering = {"cancel"}
CHECK_DEADLOCK FALSE
INVARIANTS
    ClosedProven
    FollowUpsInOrder
    ResumeNeverFresh
    
PROPERTIES
    KillAuthorised
    FailureKills
    NobodyLeftWaiting
