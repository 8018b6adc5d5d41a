\* Lists of pages that up to three transactions may have freed.
SPECIFICATION Spec
CONSTANTS
    Pgids = {2, 3, 4, 5, 6, 7}
    Txids <- MCTxids
    CountMax <- MCCountMax
    Pages <- MCPages
    Pendings <- MCPendings
INVARIANTS TypeOK CacheExact NoPageTwice ReleaseExact
