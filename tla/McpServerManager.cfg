SPECIFICATION McpSpec
CONSTANTS
    Server = {alpha}
    Tool = {t}
    PromptName = {p}
    Capability = {"tools", "prompts"}
    MaxPages = 2
    MaxSaid = 2
    Nothing = Nothing
INVARIANTS
    NothingBeforeHandshake
    CallsAreNotRepeated
    RoutesAreListed
    FailuresAddUp
PROPERTIES CallsEnd
