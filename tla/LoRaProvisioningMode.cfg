CONSTANTS
    Tasks = {t1, t2}
    JoinRequests = {1, 2}
    MaxHeard = 3
    MaxFaults = 0
SPECIFICATION FairSpec
PROPERTY JoinAnswered
CHECK_DEADLOCK FALSE
