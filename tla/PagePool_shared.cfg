\* Two threads recycle three buffers; any allocation may fail, the fourth does.
SPECIFICATION FairSpec
CONSTANTS
    Threads = {t1, t2}
    Slices = {s1, s2, s3}
    NoThread = NoThread
INVARIANTS TypeOK NoSliceTwice NoSliceLost
PROPERTIES PoolIsReleased
