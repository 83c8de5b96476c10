CONSTANTS
    Prompt = {p1, p2}
    Receipt = {r}
    None = None
    MaxAttempts = 3

SPECIFICATION Spec

CHECK_DEADLOCK TRUE

INVARIANTS
    DeliveryIsLive
    BlockedSaysWhy
    StateFileCanBeActedOn

PROPERTY
    DeliversAsPromised
