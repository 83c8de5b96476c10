---------------------------- MODULE SafetyRules ----------------------------
(***************************************************************************)
(* The safety rule store and the analysis that reads it                    *)
(* (rust/crates/runtime/src/safety_rules.rs and safety_intent.rs).         *)
(*                                                                         *)
(* The store is one Arc behind a read-write lock.  A reload reads the      *)
(* current snapshot, builds its successor with the lock released, and      *)
(* stores it under the write lock; an analysis clones the Arc and works on *)
(* the clone.  Both are two steps here, of any number of threads.          *)
(*                                                                         *)
(* What a pattern matches is data: a rule carries the set of intents it    *)
(* hits.  So is what a score comes to: a configuration carries the level   *)
(* its weights and thresholds give each intent.                            *)
(***************************************************************************)
EXTENDS Naturals, Sequences, FiniteSetsExt

CONSTANTS
    Reloader,       \* threads in reload_from_bytes
    Analyst,        \* threads in analyze_plan_with_rule_store
    Intent,         \* structured intents, as extracted from tool calls
    HardIntent,     \* those hard_l4_rule denies before any rule is read
    NestedDanger,   \* those where nested_exec_contains_l4_semantics holds
    Plan,           \* plans within the limits: sequences of intents
    Config,         \* validated configurations: intent -> level of its score
    RuleFile,       \* parsed rule files: [generation, rules]
    BuiltinRules,   \* builtin_rule_definitions
    RuleId,         \* rule ids
    ReservedId,     \* those that start with "builtin."
    NestedExecId,   \* "builtin.nested-exec"
    MaxRules        \* MAX_RULE_COUNT

Level == 1 .. 4

(* Policies in the order of policy_rank.                                   *)
Policies == <<"allow", "audit", "confirm", "deny">>

Policy == {Policies[l] : l \in Level}

PolicyRank(p) == CHOOSE l \in Level : Policies[l] = p

(* `policy_for_level`, and what validate_level_policy expects.             *)
PolicyForLevel(l) == Policies[l]

Rule == [id: RuleId, level: Level, policy: Policy, hard: BOOLEAN, builtin: BOOLEAN,
         kind: {"builtin", "pattern"}, wellFormed: BOOLEAN, hits: SUBSET Intent]

(* Mutant of ValidLevelPolicy: level and policy are not compared.          *)
ValidLevelPolicyAnyway(rule) == TRUE

ValidLevelPolicy(rule) == rule.policy = PolicyForLevel(rule.level)

UniqueIds(rules) ==
    \A j, k \in DOMAIN rules : rules[j].id = rules[k].id => j = k

(* `validate_rules`.                                                       *)
ValidRules(rules, allowBuiltin) ==
    /\ Len(rules) <= MaxRules
    /\ UniqueIds(rules)
    /\ \A k \in DOMAIN rules :
          /\ rules[k].wellFormed
          /\ ValidLevelPolicy(rules[k])
          /\ rules[k].id \in ReservedId => rules[k].builtin
          /\ rules[k].builtin => allowBuiltin
          /\ rules[k].hard => rules[k].builtin
          /\ rules[k].kind = "builtin" => rules[k].builtin

ASSUME RulesAssumption ==
    /\ HardIntent \subseteq Intent
    /\ NestedDanger \subseteq Intent
    /\ Plan \subseteq Seq(Intent) \ {<<>>}
    /\ Config \subseteq [Intent -> Level]
    /\ MaxRules \in Nat
    /\ BuiltinRules \in Seq(Rule)
    /\ \A k \in DOMAIN BuiltinRules : BuiltinRules[k].builtin
    /\ ValidRules(BuiltinRules, TRUE)
    /\ \A f \in RuleFile : f.generation \in Nat /\ f.rules \in Seq(Rule)

VARIABLES
    snapshot,   \* SafetyRuleStore.inner: [generation, rules]
    built,      \* reloader -> the snapshots it is about to store (0 or 1)
    held,       \* analyst -> the analyses it is in (0 or 1)
    installed,  \* observation: every snapshot the store has held, in order
    reports     \* observation: the last report each analysis answered (0 or 1)

vars == <<snapshot, built, held, installed, reports>>

-----------------------------------------------------------------------------
BuiltinSnapshot == [generation |-> 0, rules |-> BuiltinRules]

(* `build_snapshot_from_bytes`: what a file comes to and when it does.     *)
SnapshotOf(f) == [generation |-> f.generation, rules |-> BuiltinRules \o f.rules]

Buildable(f, current) ==
    /\ f.generation > current.generation
    /\ ValidRules(f.rules, FALSE)
    /\ ValidRules(BuiltinRules \o f.rules, TRUE)

(* `rule_match`: nested execution of something dangerous is raised to L4.  *)
Match(rule, i) ==
    IF rule.id = NestedExecId /\ i \in NestedDanger
      THEN [level |-> 4, policy |-> "deny", hard |-> TRUE]
      ELSE [level |-> rule.level, policy |-> rule.policy, hard |-> rule.hard]

(* `SafetyRuleSnapshot::evaluate`.                                         *)
Matches(rules, i) ==
    {Match(rules[k], i) : k \in {j \in DOMAIN rules : i \in rules[j].hits}}

(* Mutant of Raised: the rules that match decide alone.                    *)
RaisedByRulesOnly(base, ms) ==
    IF ms = {} THEN [level |-> base, policy |-> PolicyForLevel(base)]
    ELSE [level  |-> Max({m.level : m \in ms}),
          policy |-> Policies[Max({PolicyRank(m.policy) : m \in ms})]]

(* The loop of `score_intent`: rules raise the level and the policy of the *)
(* score, each by itself, and never lower them.                            *)
Raised(base, ms) ==
    [level  |-> Max({base} \cup {m.level : m \in ms}),
     policy |-> Policies[Max({base} \cup {PolicyRank(m.policy) : m \in ms})]]

(* `score_intent`.                                                         *)
Risk(rules, config, i) ==
    LET ms == Matches(rules, i)
    IN  IF i \in HardIntent \/ \E m \in ms : m.hard \/ (m.level = 4 /\ m.policy = "deny")
          THEN [level |-> 4, policy |-> "deny"]
          ELSE Raised(config[i], ms)

(* `analyze_plan_with_rules`.                                              *)
Analysis(snap, plan, config) ==
    LET risks == [k \in DOMAIN plan |-> Risk(snap.rules, config, plan[k])]
    IN  [plan       |-> plan,
         config     |-> config,
         generation |-> snap.generation,
         risks      |-> risks,
         overall    |-> [level  |-> Max({risks[k].level : k \in DOMAIN plan}),
                         policy |-> Policies[Max({PolicyRank(risks[k].policy) :
                                                    k \in DOMAIN plan})]]]

-----------------------------------------------------------------------------
Init ==
    /\ snapshot = BuiltinSnapshot
    /\ built = [w \in Reloader |-> {}]
    /\ held = [a \in Analyst |-> {}]
    /\ installed = <<BuiltinSnapshot>>
    /\ reports = [a \in Analyst |-> {}]

(* A reload up to the write lock.  One that fails before leaves no trace.  *)
Build(w, f) ==
    /\ built[w] = {}
    /\ Buildable(f, snapshot)
    /\ built' = [built EXCEPT ![w] = {SnapshotOf(f)}]
    /\ UNCHANGED <<snapshot, held, installed, reports>>

(* Mutant of Supersedes: the check of the unlocked read is trusted.        *)
SupersedesAnyway(new) == TRUE

(* The check under the write lock.                                         *)
Supersedes(new) == new.generation > snapshot.generation

Store(w) ==
    \E new \in built[w] :
        /\ Supersedes(new)
        /\ snapshot' = new
        /\ installed' = Append(installed, new)
        /\ built' = [built EXCEPT ![w] = {}]
        /\ UNCHANGED <<held, reports>>

(* A reload that another has overtaken answers an error.                   *)
Overtaken(w) ==
    /\ \E new \in built[w] : ~Supersedes(new)
    /\ built' = [built EXCEPT ![w] = {}]
    /\ UNCHANGED <<snapshot, held, installed, reports>>

(* `analyze_plan_with_rule_store`: the clone of the Arc ...                *)
Take(a, plan, config) ==
    /\ held[a] = {}
    /\ held' = [held EXCEPT ![a] = {[snap |-> snapshot, plan |-> plan, config |-> config]}]
    /\ UNCHANGED <<snapshot, built, installed, reports>>

(* Mutant of Answer: the generation is read from the store at the end.     *)
AnswerAsOfNow(h) ==
    [Analysis(h.snap, h.plan, h.config) EXCEPT !.generation = snapshot.generation]

Answer(h) == Analysis(h.snap, h.plan, h.config)

(* ... and the report made from it.                                        *)
Finish(a) ==
    \E h \in held[a] :
        /\ reports' = [reports EXCEPT ![a] = {Answer(h)}]
        /\ held' = [held EXCEPT ![a] = {}]
        /\ UNCHANGED <<snapshot, built, installed>>

Next ==
    \/ \E w \in Reloader :
          \/ \E f \in RuleFile : Build(w, f)
          \/ Store(w)
          \/ Overtaken(w)
    \/ \E a \in Analyst :
          \/ \E plan \in Plan, config \in Config : Take(a, plan, config)
          \/ Finish(a)

Spec == Init /\ [][Next]_vars

-----------------------------------------------------------------------------
(* A snapshot the store may hold: the built-in rules as they are, followed *)
(* by rules that claim nothing a built-in rule has.                        *)
IsSnapshot(s) ==
    /\ s.generation \in Nat
    /\ s.rules \in Seq(Rule)
    /\ SubSeq(s.rules, 1, Len(BuiltinRules)) = BuiltinRules
    /\ \A j, k \in DOMAIN s.rules : s.rules[j].id = s.rules[k].id => j = k
    /\ \A k \in DOMAIN s.rules : s.rules[k].hard => k \in DOMAIN BuiltinRules

Answered == UNION {reports[a] : a \in Analyst}

(* Type invariant: every snapshot in the store or on its way in or out is  *)
(* well formed, whatever the files hold.                                   *)
TypeOK ==
    /\ IsSnapshot(snapshot)
    /\ DOMAIN built = Reloader
    /\ \A w \in Reloader : \A s \in built[w] : IsSnapshot(s)
    /\ DOMAIN held = Analyst
    /\ \A a \in Analyst : \A h \in held[a] :
          IsSnapshot(h.snap) /\ h.plan \in Plan /\ h.config \in Config
    /\ DOMAIN reports = Analyst
    /\ \A r \in Answered : r.plan \in Plan /\ DOMAIN r.risks = DOMAIN r.plan

(* A generation names one rule set: of the snapshots the store ever held,  *)
(* each is newer than all before it, however the reloads race.  The gate   *)
(* binds a confirmation to nothing but that number                         *)
(* (reload_from_bytes, safety_rules.rs:204).                               *)
GenerationsRise ==
    \A j, k \in DOMAIN installed :
        j < k => installed[j].generation < installed[k].generation

(* A report holds together: it carries the generation of one snapshot the  *)
(* store held, and every one of its risks was made under that snapshot,    *)
(* also when the rules were replaced while it was being made               *)
(* (analyze_plan_with_rule_store, safety_intent.rs:524).                   *)
ReportsHoldTogether ==
    \A r \in Answered : \E k \in DOMAIN installed :
        r = Analysis(installed[k], r.plan, r.config)

(* No rule file makes anything milder: an intent is rated at least as high *)
(* as its score alone, and as the built-in rules alone, would rate it, and *)
(* so is the plan as a whole (score_intent, safety_intent.rs:1661).        *)
RulesOnlyRaise ==
    \A r \in Answered :
        LET floor == Analysis(BuiltinSnapshot, r.plan, r.config)
        IN  /\ \A k \in DOMAIN r.plan :
                  /\ r.risks[k].level >= floor.risks[k].level
                  /\ r.risks[k].level >= r.config[r.plan[k]]
                  /\ PolicyRank(r.risks[k].policy) >= PolicyRank(floor.risks[k].policy)
            /\ r.overall.level >= floor.overall.level
            /\ PolicyRank(r.overall.policy) >= PolicyRank(floor.overall.policy)

=============================================================================
