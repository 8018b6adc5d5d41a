\* All pairs of strings of up to two bytes out of twelve, and the views of the first.
SPECIFICATION Spec
CONSTANTS
    Bytes <- MCBytes
    LenMax = 2
INVARIANTS ViewInside OneOrder PrefixesAgree HexRoundTrip
\* A Slice whose assert has failed takes no more calls.
CHECK_DEADLOCK FALSE
