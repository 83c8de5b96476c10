SPECIFICATION Spec
CONSTANTS
    Process = {p1, p2}
    Plugin = {base, addon}
    base = base
    addon = addon
    Releases <- MCReleases
    Needs <- MCNeeds
    Keep = 1
    None = None
INVARIANTS
    RegistryIsCoherent
    TreeIsTheRegistry
    ActiveIsInPlace
    EnabledAreServed
