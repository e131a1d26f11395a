SPECIFICATION Spec
CONSTANTS
    start = start
    stop = stop
    work = work
    Home = home
    None = None
    Calls <- MCStarts
    Starts <- MCStarts
    WorkDir <- MCNoDir
    MaxOutput = 2
    MaxWritten = 2
    Wide = {2}
CHECK_DEADLOCK FALSE
INVARIANTS
    StartRunsCommand
