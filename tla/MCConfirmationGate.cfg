\* What a token is bound to: two sessions, two people, four reports.
SPECIFICATION Spec
CONSTANTS
    Session = {s1, s2}
    Actor = {a1, a2}
    Report <- MCReport
    MaxRequestItems = 2
    MaxPending = 2
    Ttl = 1
    U64Max = 2
SYMMETRY Perms
INVARIANTS OneExecutionPerRequest TokensMirrorLedger
PROPERTIES ImplementsOneShot
