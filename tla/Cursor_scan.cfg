\* Trees of one to three levels with empty leaves in every place.
SPECIFICATION FairSpec
CONSTANTS
    Trees <- MCTrees
    Root = 1
    SeekKeys = {1, 4, 5, 6, 9}
    Nil = Nil
INVARIANTS TypeOK StackIsPath
PROPERTIES ScanIsSorted SeekPositions CallsReturn
\* A failed assert ends the process.
CHECK_DEADLOCK FALSE
