\* Three threads create up to four transactions.
SPECIFICATION Spec
CONSTANTS
    Threads = {t1, t2, t3}
    TxIds = {x1, x2, x3, x4}
    TxidMax = 2
    Garbage = {0, 7}
    NoThread = NoThread
    NoTx = NoTx
SYMMETRY Symmetric
INVARIANTS TypeOK OneWriter StatsSettle ReadersPinned LockDiscipline
PROPERTIES ReleaseSparesReaders ImplementsContract
\* A crashed process stops, and so do callers that have used up TxIds.
CHECK_DEADLOCK FALSE
