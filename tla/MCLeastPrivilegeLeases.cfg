\* What is authorised above the base mode has an open grant.
SPECIFICATION Spec
CONSTANTS
    Tool = {"edit", "shell"}
    MaxMode = {"allow"}
    SessionTimeout = {3}
    Request <- MCRequest
    Template <- MCTemplate
    MaxNow = 3
    MaxGrants = 2
INVARIANTS ElevationIsBacked
