SPECIFICATION Spec
CONSTANTS
    w1 = w1
    w2 = w2
    NoWorker = NoWorker
    Workers = {w1, w2}
    MaxSerial = 2
    max_branches = 2
    RespawnLimit = 1
INVARIANT PollSettles
CHECK_DEADLOCK FALSE
