SPECIFICATION Spec
CONSTANTS
    Pgids = {2, 3, 4, 5, 6, 7}
    Txids <- MCTxids
    CountMax <- MCCountMax
    Pages <- MCPages
    Pendings <- MCPendings
INVARIANT IdsSorted
