SPECIFICATION Spec
CONSTANTS
    AlertAfter = 2
    Settle = 1
    Lead = 1
    StartupDelay = 1
    SweepInterval = 2
    SweepWindow = 4
    MaxIds = 2
    RestAge = 6
    Day = 2
    PublishLag = 3
    JobTime = 1
    MaxTime = 9
    MaxFaults = 2
INVARIANT HolesAreFilled OutageIsFilled AlertsMatch
CHECK_DEADLOCK FALSE
