CONSTANTS
    c1 = c1
    c2 = c2
    Clients = {c1, c2}
    HTTP_NUM_RETRIES = 1
    poll_retries = 2
    shots = 2
    Settings <- MCSettings
SPECIFICATION FairSpec
CHECK_DEADLOCK FALSE
INVARIANTS CountsAreOwn CopiesBounded
PROPERTIES EveryCallEnds
