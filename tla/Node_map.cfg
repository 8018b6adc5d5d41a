\* Three keys, one too many for a page, and two pages.
SPECIFICATION Spec
CONSTANTS
    Keys = {1, 2, 3}
    Values = {2}
    Flags = {0}
    Ids = {3, 4}
    HighWater = 4
    PageIds = {2, 3}
    CountMax = 2
    HeaderSize = 24
    LeafSize = 16
    BranchSize = 16
    NotFound = NotFound
INVARIANTS TypeOK KeysSorted LayoutTight
PROPERTY ImplementsMap
\* The process exits.
CHECK_DEADLOCK FALSE
