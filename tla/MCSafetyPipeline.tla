-------------------------- MODULE MCSafetyPipeline --------------------------
(* Plans whose confirmable intents and denied intents depend on the rules, *)
(* one with a nested command.  Two rival rule sets for generation 1 and    *)
(* three files that validation must refuse: level and policy disagree, a   *)
(* rule stands twice, a rule claims to be built in.                        *)
EXTENDS SafetyPipeline, TLC

MCIntent == {"restart", "copy", "overwrite", "nested"}
MCNestedDanger == {"nested"}
MCPlan == {<<"restart">>, <<"copy", "restart">>, <<"overwrite", "restart">>, <<"nested">>}
MCConfig == {[i \in MCIntent |-> IF i = "copy" THEN 3 ELSE 2]}

RuleOf(id, level, policy, builtin, hits) ==
    [id |-> id, level |-> level, policy |-> policy, hard |-> level = 4 /\ builtin,
     builtin |-> builtin, kind |-> IF builtin THEN "builtin" ELSE "pattern",
     wellFormed |-> TRUE, hits |-> hits]

MCReservedId == {"builtin.nested-exec", "builtin.dd-block-overwrite", "builtin.own"}
MCRuleId == MCReservedId \cup {"site"}

MCBuiltinRules ==
    <<RuleOf("builtin.nested-exec", 3, "confirm", TRUE, {"nested"}),
      RuleOf("builtin.dd-block-overwrite", 4, "deny", TRUE, {"overwrite"})>>

Site(level, policy) == RuleOf("site", level, policy, FALSE, {"restart"})

File(rules) == [generation |-> 1, rules |-> rules]

MCRuleFile ==
    {File(<<Site(3, "confirm")>>), File(<<Site(1, "allow")>>), File(<<Site(3, "audit")>>),
     File(<<Site(1, "allow"), Site(3, "confirm")>>),
     File(<<RuleOf("builtin.own", 1, "allow", TRUE, {"restart"})>>)}
=============================================================================
