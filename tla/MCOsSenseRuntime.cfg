SPECIFICATION Spec
CONSTANTS
    None = None
    Dimension <- MCDimension
    Sensor <- MCSensor
    Alert <- MCAlert
    SourceOf <- MCSourceOf
    Interval <- MCInterval
    Retry = 1
    MaxRuns = 2
    TTL = 2
    Retention = 1
    MinSleep = 1
    MaxSleep = 4
    MaxClock = 4
INVARIANTS
    ScheduleKeepsStep
    CountedIsOnRecord
    AlertsTellLastReading
