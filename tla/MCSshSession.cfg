SPECIFICATION FairSpec
CONSTANTS
    start = start
    stop = stop
    work = work
    Home = home
    None = None
    Calls <- MCCalls
    Starts <- MCStarts
    WorkDir <- MCWorkDir
    MaxOutput = 3
    MaxWritten = 4
    Wide = {2}
CHECK_DEADLOCK FALSE
INVARIANTS
    TypeOK
    OutputIsPrefix
    StartedMeansSpawned
PROPERTIES
    CallsEnd
