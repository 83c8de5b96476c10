SPECIFICATION QuerySpec
CONSTANTS
    NoRow = NoRow
    MaxPoints = 4
    MaxRows = 6
    MaxAt = 5
\* The query ends when the rows do.
CHECK_DEADLOCK FALSE
INVARIANTS
    WithinLimit
    SelectionIsFaithful
