\* Two objects of one process and one of another, every choice of ReadOnly.
SPECIFICATION FairSpec
CONSTANTS
    d1 = d1
    d2 = d2
    d3 = d3
    p1 = p1
    p2 = p2
    Objects = {d1, d2, d3}
    Processes = {p1, p2}
    Process <- MCProcess
    Timeout <- MCTimeout
INVARIANTS WritersExclude
\* The processes may all have exited.
CHECK_DEADLOCK FALSE
