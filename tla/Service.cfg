\* The environment and two files, started twice; one browser, one client.
CONSTANTS
    NumFiles = 2
    Contents <- MCContents
    MaxBoots = 2
    MaxClients = 1
    Seconds <- MCSeconds
    CodecMaxAge = 1
SPECIFICATION FairSpec
INVARIANTS
    FirstOccurrenceWins
    ServesOnlyWhenReady
    LoginsAreHonoured
    CountsAnswerTheQuestion
PROPERTIES
    ExitTellsOutcome
    InterruptsEnd
    HealthReturns
CHECK_DEADLOCK FALSE
