SPECIFICATION Spec
CONSTANTS
    base = base
    tool = tool
    v1 = v1
    v2 = v2
    None = None
    Absent = Absent
    Disabled = Disabled
    Plugin = {base, tool}
    Version = {v1, v2}
    DependsOn <- ToolNeedsBase
    Required <- ToolNeedsBase
    HotReload = {base, tool}
    Caller = {c1}
    Mutator = {m1}
    MaxGeneration = 1
INVARIANT
    LoadedIsUp
\* The bound on generations ends the mutations.
CHECK_DEADLOCK FALSE
