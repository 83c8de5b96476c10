CONSTANTS
    None = None
    Preserve = 2
    MaxUses = 3
    MaxIterations = 3
    MaxSaid = 8

SPECIFICATION Spec

\* A torn or missing session file cannot be resumed: the client stays down.
CHECK_DEADLOCK FALSE

INVARIANTS
    HistoryIsWhole
    IdleIsSaved
    NoOrphanResults
    RequestsAreAnswered
