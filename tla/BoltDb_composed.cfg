\* Two threads create up to three transactions, under fairness.
SPECIFICATION DbSpec
CONSTANTS
    Threads = {t1, t2}
    TxIds = {x1, x2, x3}
    TxidMax = 2
    Garbage = {7}
    NoThread = NoThread
    NoTx = NoTx
    Pgids = {4, 5, 6, 7}
    CountMax = 9
    Pages <- MCPages
    Pendings <- MCPendings
INVARIANTS WriterSeesExactLists TotalsAddUp
PROPERTIES PagesOfReadersStay ReadersNeverBlock WritersTakeTurns
CHECK_DEADLOCK FALSE
