\* Two reloads, one analysis at a time, one request or token at a time.
SPECIFICATION PipelineSpec
CONSTANTS
    Reloader = {w1, w2}
    Analyst = {a1}
    Intent <- MCIntent
    HardIntent = {}
    NestedDanger <- MCNestedDanger
    Plan <- MCPlan
    Config <- MCConfig
    RuleFile <- MCRuleFile
    BuiltinRules <- MCBuiltinRules
    RuleId <- MCRuleId
    ReservedId <- MCReservedId
    NestedExecId = "builtin.nested-exec"
    MaxRules = 4
    Session = {s1}
    Actor = {p1}
    MaxRequestItems = 2
    MaxPending = 1
    Ttl = 1
    U64Max = 2
INVARIANTS
    GenerationsRise
    ReportsHoldTogether
    RulesOnlyRaise
    ExecutionsAreReproducible
    NothingSlipsPast
    Capacity
