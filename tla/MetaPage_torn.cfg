\* Four transactions after the ids 0 or 1; page ids below and at the high water mark.
SPECIFICATION Spec
CONSTANTS
    Magic = 7
    Version = 2
    Pgids = {2, 3, 4}
    TxidMax = 4
INVARIANTS TypeOK AcceptedIsWhole LastMetaSurvives
\* Four transactions may be used up, and a restart may find no meta page.
CHECK_DEADLOCK FALSE
