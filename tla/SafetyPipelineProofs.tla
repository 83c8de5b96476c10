------------------------ MODULE SafetyPipelineProofs -----------------------
(***************************************************************************)
(* Proofs about the safety components: the rule store and the analyses     *)
(* that read it, for any number of threads, any rule files, plans and      *)
(* configurations; the pipeline the confirmation gate makes with them; and *)
(* the approval-token ledger, which the gate uses, as it stands by itself. *)
(***************************************************************************)
EXTENDS SafetyPipeline, SequenceTheorems, FiniteSetTheorems, WellFoundedInduction, TLAPS

(* What an analysis can work on.                                           *)
Jobs == [snap: Snapshots, plan: Plan, config: Config]

(* The store holds the last of the snapshots it has held.                  *)
StoreTyped ==
    /\ installed \in Seq(Snapshots)
    /\ Len(installed) > 0
    /\ snapshot = installed[Len(installed)]
    /\ built \in [Reloader -> SUBSET Snapshots]
    /\ held \in [Analyst -> SUBSET Jobs]
    /\ DOMAIN reports = Analyst

ReportsTyped == \A r \in Answered : r.plan \in Plan /\ r.config \in Config

(* A snapshot an analysis works on is one the store has held.              *)
HeldWasInstalled ==
    \A a \in Analyst : \A h \in held[a] :
        \E k \in DOMAIN installed : h.snap = installed[k]

StoreInv ==
    StoreTyped /\ ReportsTyped /\ GenerationsRise /\ HeldWasInstalled /\ ReportsHoldTogether

-----------------------------------------------------------------------------
LEMMA GenerationIsNat == \A s \in Snapshots : s.generation \in Nat
BY RulesAssumption DEF Snapshots, BuiltinSnapshot, SnapshotOf

(* A report names the plan and the configuration it was made from.         *)
LEMMA AnalysisOf ==
    ASSUME NEW snap, NEW plan, NEW config
    PROVE  /\ Analysis(snap, plan, config).plan = plan
           /\ Analysis(snap, plan, config).config = config
BY DEF Analysis

-----------------------------------------------------------------------------
(* No rule file can make a rating milder.                                  *)
LEMMA MaxOfLevels ==
    ASSUME NEW S, S \subseteq Level, S # {}
    PROVE  Max(S) \in S /\ \A y \in S : Max(S) >= y
<1>1. \E x \in S : \A y \in S : x >= y
  <2>1. CASE 4 \in S
    BY <2>1 DEF Level
  <2>2. CASE 4 \notin S /\ 3 \in S
    BY <2>2 DEF Level
  <2>3. CASE 4 \notin S /\ 3 \notin S /\ 2 \in S
    BY <2>3 DEF Level
  <2>4. CASE 4 \notin S /\ 3 \notin S /\ 2 \notin S
    <3>1. \A y \in S : y = 1
      <4>1. \A y \in S : y \in 1 .. 4 /\ y # 4 /\ y # 3 /\ y # 2
        BY <2>4 DEF Level
      <4>2. QED
        BY <4>1
    <3>2. PICK x \in S : TRUE
      OBVIOUS
    <3>3. QED
      BY <3>1, <3>2
  <2>5. QED
    BY <2>1, <2>2, <2>3, <2>4
<1>2. QED
  BY <1>1 DEF Max

LEMMA MaxGrows ==
    ASSUME NEW S, NEW T, S # {}, S \subseteq T, T \subseteq Level
    PROVE  Max(S) \in Level /\ Max(T) \in Level /\ Max(T) >= Max(S)
BY MaxOfLevels

LEMMA RankOfPolicy == \A l \in Level : Policies[l] \in Policy /\ PolicyRank(Policies[l]) = l
<1>1. \A l, m \in Level : Policies[l] = Policies[m] => l = m
  BY DEF Level, Policies
<1>2. ASSUME NEW l \in Level PROVE PolicyRank(Policies[l]) = l
  <2>1. PolicyRank(Policies[l]) = CHOOSE m \in Level : Policies[m] = Policies[l]
    BY DEF PolicyRank
  <2>2. \E m \in Level : Policies[m] = Policies[l]
    OBVIOUS
  <2> HIDE DEF Policies
  <2>3. (CHOOSE m \in Level : Policies[m] = Policies[l]) \in Level
        /\ Policies[CHOOSE m \in Level : Policies[m] = Policies[l]] = Policies[l]
    BY <2>2, Zenon
  <2>4. QED
    BY <1>1, <2>1, <2>3
<1>3. QED
  BY <1>2 DEF Policy

LEMMA PolicyHasRank == \A p \in Policy : PolicyRank(p) \in Level
BY RankOfPolicy DEF Policy

IsMatch(m) == m.level \in Level /\ m.policy \in Policy

LEMMA MatchesOfRules ==
    ASSUME NEW rules, NEW i, \A k \in DOMAIN rules : rules[k] \in Rule
    PROVE  \A m \in Matches(rules, i) : IsMatch(m)
<1>1. "deny" \in Policy /\ 4 \in Level
  BY DEF Policy, Policies, Level
<1>2. QED
  BY <1>1 DEF Matches, Match, IsMatch, Rule

(* Two ratings, one at least as severe as the other in both respects.      *)
Severer(r, q) ==
    /\ r.level \in Level /\ q.level \in Level /\ r.level >= q.level
    /\ r.policy \in Policy /\ q.policy \in Policy
    /\ PolicyRank(r.policy) >= PolicyRank(q.policy)

LEMMA RaisedGrows ==
    ASSUME NEW base \in Level, NEW M, NEW N, M \subseteq N, \A m \in N : IsMatch(m)
    PROVE  Severer(Raised(base, N), Raised(base, M)) /\ Raised(base, N).level >= base
<1> DEFINE LM == {base} \cup {m.level : m \in M}
           LN == {base} \cup {m.level : m \in N}
           RM == {base} \cup {PolicyRank(m.policy) : m \in M}
           RN == {base} \cup {PolicyRank(m.policy) : m \in N}
<1>1. /\ LM # {} /\ LM \subseteq LN /\ LN \subseteq Level
      /\ RM # {} /\ RM \subseteq RN /\ RN \subseteq Level
  BY PolicyHasRank DEF IsMatch
<1>2. /\ Raised(base, M) = [level |-> Max(LM), policy |-> Policies[Max(RM)]]
      /\ Raised(base, N) = [level |-> Max(LN), policy |-> Policies[Max(RN)]]
  BY DEF Raised
<1>3. base \in LN
  OBVIOUS
<1> HIDE DEF LM, LN, RM, RN
<1>4. /\ Max(LM) \in Level /\ Max(LN) \in Level /\ Max(LN) >= Max(LM)
      /\ Max(RM) \in Level /\ Max(RN) \in Level /\ Max(RN) >= Max(RM)
  BY <1>1, MaxGrows
<1>5. Max(LN) >= base
  <2>1. LN # {}
    BY <1>3
  <2>2. QED
    BY <1>1, <1>3, <2>1, MaxOfLevels
<1>6. QED
  BY <1>2, <1>4, <1>5, RankOfPolicy DEF Severer

LEMMA RiskGrows ==
    ASSUME NEW few, NEW more, NEW config \in Config, NEW i \in Intent,
           \A k \in DOMAIN few : k \in DOMAIN more /\ more[k] = few[k],
           \A k \in DOMAIN more : more[k] \in Rule
    PROVE  Severer(Risk(more, config, i), Risk(few, config, i))
           /\ Risk(more, config, i).level >= config[i]
<1> DEFINE M == Matches(few, i)
           N == Matches(more, i)
           denied == [level |-> 4, policy |-> "deny"]
           Denies(S) == i \in HardIntent \/ \E m \in S : m.hard \/ (m.level = 4 /\ m.policy = "deny")
<1>1. M \subseteq N /\ \A m \in N : IsMatch(m)
  BY MatchesOfRules DEF Matches
<1>2. config[i] \in Level
  BY RulesAssumption
<1>3. /\ Risk(few, config, i) = IF Denies(M) THEN denied ELSE Raised(config[i], M)
      /\ Risk(more, config, i) = IF Denies(N) THEN denied ELSE Raised(config[i], N)
  BY DEF Risk
<1>4. /\ Severer(Raised(config[i], N), Raised(config[i], M))
      /\ Raised(config[i], N).level >= config[i]
  <2> HIDE DEF M, N
  <2>1. QED
    BY <1>1, <1>2, RaisedGrows
<1>5. Denies(M) => Denies(N)
  BY <1>1
<1>6. /\ denied.level = 4 /\ denied.policy = "deny" /\ "deny" \in Policy
      /\ PolicyRank("deny") = 4 /\ 4 \in Level
  BY RankOfPolicy DEF Policies, Level
<1> HIDE DEF M, N, denied, Denies
<1>7. \A l \in Level : 4 >= l
  BY DEF Level
<1>8. CASE Denies(N) /\ Denies(M)
  BY <1>2, <1>3, <1>6, <1>7, <1>8 DEF Severer
<1>9. CASE Denies(N) /\ ~Denies(M)
  BY <1>2, <1>3, <1>4, <1>6, <1>7, <1>9, PolicyHasRank DEF Severer
<1>10. CASE ~Denies(N)
  BY <1>3, <1>4, <1>5, <1>10
<1>11. QED
  BY <1>8, <1>9, <1>10

-----------------------------------------------------------------------------
LEMMA InitHolds == Init => StoreInv
<1> SUFFICES ASSUME Init PROVE StoreInv
  OBVIOUS
<1>1. BuiltinSnapshot \in Snapshots
  BY DEF Snapshots
<1>2. /\ installed = <<BuiltinSnapshot>> /\ snapshot = BuiltinSnapshot
      /\ built = [w \in Reloader |-> {}] /\ held = [a \in Analyst |-> {}]
      /\ reports = [a \in Analyst |-> {}]
  BY DEF Init
<1>3. /\ installed \in Seq(Snapshots) /\ Len(installed) = 1
      /\ DOMAIN installed = {1} /\ installed[1] = snapshot
  <2> HIDE DEF Snapshots
  <2>1. QED
    BY <1>1, <1>2
<1>4. StoreTyped
  BY <1>2, <1>3 DEF StoreTyped
<1>5. GenerationsRise
  BY <1>3 DEF GenerationsRise
<1>6. HeldWasInstalled /\ ReportsHoldTogether /\ ReportsTyped
  BY <1>2 DEF HeldWasInstalled, ReportsHoldTogether, ReportsTyped, Answered
<1>7. QED
  BY <1>4, <1>5, <1>6 DEF StoreInv

(* Storing a newer snapshot keeps the history, adds one and stays sorted.  *)
LEMMA StoreStep ==
    ASSUME StoreInv, NEW w \in Reloader, Store(w)
    PROVE  StoreInv'
<1>1. PICK new \in built[w] :
         /\ Supersedes(new)
         /\ snapshot' = new
         /\ installed' = Append(installed, new)
         /\ built' = [built EXCEPT ![w] = {}]
         /\ UNCHANGED <<held, reports>>
  BY DEF Store
<1>2. new \in Snapshots
  BY <1>1 DEF StoreInv, StoreTyped
<1>3. installed \in Seq(Snapshots) /\ Len(installed) \in Nat /\ Len(installed) > 0
  BY DEF StoreInv, StoreTyped
<1>4. /\ installed' \in Seq(Snapshots)
      /\ Len(installed') = Len(installed) + 1
      /\ \A k \in 1 .. Len(installed) : installed'[k] = installed[k]
      /\ installed'[Len(installed) + 1] = new
  BY <1>1, <1>2, <1>3, AppendProperties
<1>5. /\ DOMAIN installed = 1 .. Len(installed)
      /\ DOMAIN installed' = 1 .. Len(installed) + 1
  BY <1>3, <1>4
<1>6. StoreTyped'
  BY <1>1, <1>3, <1>4 DEF StoreInv, StoreTyped
<1>7. GenerationsRise'
  <2> SUFFICES ASSUME NEW j \in DOMAIN installed', NEW k \in DOMAIN installed', j < k
               PROVE  installed'[j].generation < installed'[k].generation
    BY DEF GenerationsRise
  <2>1. j \in 1 .. Len(installed) /\ installed'[j] = installed[j]
    BY <1>3, <1>4, <1>5
  <2>2. CASE k \in 1 .. Len(installed)
    BY <1>4, <1>5, <2>1, <2>2 DEF StoreInv, GenerationsRise
  <2>3. CASE k = Len(installed) + 1
    <3>1. installed[Len(installed)].generation < new.generation
      <4>1. snapshot = installed[Len(installed)] /\ snapshot \in Snapshots
        BY <1>3 DEF StoreInv, StoreTyped
      <4>2. QED
        BY <1>1, <1>2, <4>1, GenerationIsNat DEF Supersedes
    <3>2. \/ j = Len(installed)
          \/ installed[j].generation < installed[Len(installed)].generation
      BY <1>3, <1>5, <2>1 DEF StoreInv, GenerationsRise
    <3>3. /\ installed[j].generation \in Nat
          /\ installed[Len(installed)].generation \in Nat
          /\ new.generation \in Nat
      BY <1>2, <1>3, <1>5, <2>1, GenerationIsNat
    <3>4. QED
      BY <1>4, <2>1, <2>3, <3>1, <3>2, <3>3
  <2>4. QED
    BY <1>5, <2>2, <2>3, <1>3
<1>8. \A k \in DOMAIN installed : k \in DOMAIN installed' /\ installed'[k] = installed[k]
  BY <1>3, <1>4, <1>5
<1>9. HeldWasInstalled'
  BY <1>1, <1>8 DEF StoreInv, HeldWasInstalled
<1>10. ReportsHoldTogether' /\ ReportsTyped'
  BY <1>1, <1>8 DEF StoreInv, ReportsHoldTogether, ReportsTyped, Answered
<1>11. QED
  BY <1>6, <1>7, <1>9, <1>10 DEF StoreInv

LEMMA FinishStep ==
    ASSUME StoreInv, NEW a \in Analyst, Finish(a)
    PROVE  StoreInv'
<1>1. PICK h \in held[a] :
         /\ reports' = [reports EXCEPT ![a] = {Answer(h)}]
         /\ held' = [held EXCEPT ![a] = {}]
         /\ UNCHANGED <<snapshot, built, installed>>
  BY DEF Finish
<1>2. DOMAIN reports = Analyst /\ held \in [Analyst -> SUBSET Jobs]
  BY DEF StoreInv, StoreTyped
<1>3. StoreTyped'
  BY <1>1, <1>2 DEF StoreInv, StoreTyped
<1>4. GenerationsRise'
  BY <1>1 DEF StoreInv, GenerationsRise
<1>5. HeldWasInstalled'
  BY <1>1, <1>2 DEF StoreInv, HeldWasInstalled
<1>6. ReportsHoldTogether'
  <2> SUFFICES ASSUME NEW b \in Analyst, NEW r \in reports'[b]
               PROVE  \E k \in DOMAIN installed : r = Analysis(installed[k], r.plan, r.config)
    BY <1>1 DEF ReportsHoldTogether, Answered
  <2>1. CASE b = a
    <3>1. r = Analysis(h.snap, h.plan, h.config)
      BY <1>1, <1>2, <2>1 DEF Answer
    <3>2. r.plan = h.plan /\ r.config = h.config
      BY <3>1, AnalysisOf
    <3>3. PICK k \in DOMAIN installed : h.snap = installed[k]
      BY <1>1 DEF StoreInv, HeldWasInstalled
    <3>4. QED
      BY <3>1, <3>2, <3>3
  <2>2. CASE b # a
    BY <1>1, <1>2, <2>2 DEF StoreInv, ReportsHoldTogether, Answered
  <2>3. QED
    BY <2>1, <2>2
<1>7. ReportsTyped'
  <2>1. h.plan \in Plan /\ h.config \in Config
    BY <1>1, <1>2 DEF Jobs
  <2>2. Answer(h).plan = h.plan /\ Answer(h).config = h.config
    BY AnalysisOf DEF Answer
  <2>3. QED
    BY <1>1, <1>2, <2>1, <2>2 DEF StoreInv, ReportsTyped, Answered
<1>8. QED
  BY <1>3, <1>4, <1>5, <1>6, <1>7 DEF StoreInv

LEMMA NextKeeps == StoreInv /\ [Next]_vars => StoreInv'
<1> SUFFICES ASSUME StoreInv, [Next]_vars PROVE StoreInv'
  OBVIOUS
<1>1. ASSUME NEW w \in Reloader, NEW f \in RuleFile, Build(w, f) PROVE StoreInv'
  <2>1. SnapshotOf(f) \in Snapshots
    BY DEF Snapshots
  <2>2. StoreTyped'
    BY <1>1, <2>1 DEF Build, StoreInv, StoreTyped
  <2>3. GenerationsRise' /\ HeldWasInstalled' /\ ReportsHoldTogether' /\ ReportsTyped'
    BY <1>1 DEF Build, StoreInv, GenerationsRise, HeldWasInstalled, ReportsHoldTogether,
                ReportsTyped, Answered
  <2>4. QED
    BY <2>2, <2>3 DEF StoreInv
<1>2. ASSUME NEW w \in Reloader, Store(w) PROVE StoreInv'
  BY <1>2, StoreStep
<1>3. ASSUME NEW w \in Reloader, Overtaken(w) PROVE StoreInv'
  <2>1. StoreTyped'
    BY <1>3 DEF Overtaken, StoreInv, StoreTyped
  <2>2. GenerationsRise' /\ HeldWasInstalled' /\ ReportsHoldTogether' /\ ReportsTyped'
    BY <1>3 DEF Overtaken, StoreInv, GenerationsRise, HeldWasInstalled,
                ReportsHoldTogether, ReportsTyped, Answered
  <2>3. QED
    BY <2>1, <2>2 DEF StoreInv
<1>4. ASSUME NEW a \in Analyst, NEW plan \in Plan, NEW config \in Config,
             Take(a, plan, config)
      PROVE  StoreInv'
  <2> DEFINE h == [snap |-> snapshot, plan |-> plan, config |-> config]
  <2>1. /\ held' = [held EXCEPT ![a] = {h}]
        /\ UNCHANGED <<snapshot, built, installed, reports>>
    BY <1>4 DEF Take
  <2>2. snapshot \in Snapshots /\ Len(installed) \in DOMAIN installed
    BY DEF StoreInv, StoreTyped
  <2>3. h \in Jobs /\ h.snap = installed[Len(installed)]
    BY <2>2 DEF Jobs, StoreInv, StoreTyped
  <2> HIDE DEF h
  <2>4. StoreTyped'
    BY <2>1, <2>3 DEF StoreInv, StoreTyped
  <2>5. HeldWasInstalled'
    BY <2>1, <2>2, <2>3 DEF StoreInv, StoreTyped, HeldWasInstalled
  <2>6. GenerationsRise' /\ ReportsHoldTogether' /\ ReportsTyped'
    BY <2>1 DEF StoreInv, GenerationsRise, ReportsHoldTogether, ReportsTyped, Answered
  <2>7. QED
    BY <2>4, <2>5, <2>6 DEF StoreInv
<1>5. ASSUME NEW a \in Analyst, Finish(a) PROVE StoreInv'
  BY <1>5, FinishStep
<1>6. ASSUME UNCHANGED vars PROVE StoreInv'
  BY <1>6 DEF vars, StoreInv, StoreTyped, GenerationsRise, HeldWasInstalled,
              ReportsHoldTogether, ReportsTyped, Answered
<1>7. QED
  BY <1>1, <1>2, <1>3, <1>4, <1>5, <1>6 DEF Next

LEMMA StoreInvariant == Spec => []StoreInv
BY InitHolds, NextKeeps, PTL DEF Spec

(* The store never goes back to an older rule set nor holds two under one  *)
(* generation, however many reloads overtake each other.                   *)
THEOREM StoreGenerationsRise == Spec => []GenerationsRise
<1>1. StoreInv => GenerationsRise
  BY DEF StoreInv
<1>2. QED
  BY <1>1, StoreInvariant, PTL

(* A report is made whole under one snapshot the store held and names it,  *)
(* whatever was stored while it was being made.                            *)
THEOREM StoreReportsHoldTogether == Spec => []ReportsHoldTogether
<1>1. StoreInv => ReportsHoldTogether
  BY DEF StoreInv
<1>2. QED
  BY <1>1, StoreInvariant, PTL

LEMMA MaxDominates ==
    ASSUME NEW S, NEW T, S # {}, S \subseteq Level, T \subseteq Level,
           \A x \in S : \E y \in T : y >= x
    PROVE  Max(S) \in Level /\ Max(T) \in Level /\ Max(T) >= Max(S)
<1>1. T # {} /\ Max(S) \in S
  BY MaxOfLevels
<1>2. PICK y \in T : y >= Max(S)
  BY <1>1
<1>3. Max(T) >= y /\ Max(T) \in T
  BY <1>1, MaxOfLevels
<1>4. \A l \in Level : l \in Nat
  BY DEF Level
<1>5. QED
  BY <1>1, <1>2, <1>3, <1>4

LEMMA SnapshotRules ==
    ASSUME NEW snap \in Snapshots
    PROVE  /\ \A k \in DOMAIN BuiltinRules :
                  k \in DOMAIN snap.rules /\ snap.rules[k] = BuiltinRules[k]
           /\ \A k \in DOMAIN snap.rules : snap.rules[k] \in Rule
<1>1. BuiltinRules \in Seq(Rule)
  BY RulesAssumption
<1>2. CASE snap = BuiltinSnapshot
  BY <1>1, <1>2 DEF BuiltinSnapshot
<1>3. CASE \E f \in RuleFile : snap = SnapshotOf(f)
  <2>1. PICK f \in RuleFile : snap = SnapshotOf(f)
    BY <1>3
  <2>2. f.rules \in Seq(Rule)
    BY RulesAssumption
  <2>3. snap.rules = BuiltinRules \o f.rules
    BY <2>1 DEF SnapshotOf
  <2> HIDE DEF Rule
  <2>4. QED
    BY <1>1, <2>2, <2>3, ConcatProperties
<1>4. QED
  BY <1>2, <1>3 DEF Snapshots

(* The analysis of a plan under any snapshot is at least as severe as the  *)
(* one under the built-in rules, of every intent and of the whole.         *)
LEMMA AnalysisGrows ==
    ASSUME NEW snap \in Snapshots, NEW plan \in Plan, NEW config \in Config
    PROVE  LET new   == Analysis(snap, plan, config)
               floor == Analysis(BuiltinSnapshot, plan, config)
           IN  /\ \A k \in DOMAIN plan :
                     /\ Severer(new.risks[k], floor.risks[k])
                     /\ new.risks[k].level >= config[plan[k]]
               /\ Severer(new.overall, floor.overall)
<1> DEFINE new == Analysis(snap, plan, config)
           floor == Analysis(BuiltinSnapshot, plan, config)
           NL == {new.risks[k].level : k \in DOMAIN plan}
           FL == {floor.risks[k].level : k \in DOMAIN plan}
           NP == {PolicyRank(new.risks[k].policy) : k \in DOMAIN plan}
           FP == {PolicyRank(floor.risks[k].policy) : k \in DOMAIN plan}
<1>1. /\ new.risks = [k \in DOMAIN plan |-> Risk(snap.rules, config, plan[k])]
      /\ floor.risks = [k \in DOMAIN plan |-> Risk(BuiltinRules, config, plan[k])]
      /\ new.overall = [level |-> Max(NL), policy |-> Policies[Max(NP)]]
      /\ floor.overall = [level |-> Max(FL), policy |-> Policies[Max(FP)]]
  BY DEF Analysis, BuiltinSnapshot
<1>2. plan \in Seq(Intent) /\ plan # <<>>
  BY RulesAssumption
<1>3. DOMAIN plan # {} /\ \A k \in DOMAIN plan : plan[k] \in Intent
  <2>1. Len(plan) \in Nat /\ Len(plan) # 0 /\ DOMAIN plan = 1 .. Len(plan)
    BY <1>2, EmptySeq
  <2>2. 1 \in DOMAIN plan
    BY <2>1
  <2>3. QED
    BY <1>2, <2>2
<1>4. ASSUME NEW k \in DOMAIN plan
      PROVE  /\ Severer(new.risks[k], floor.risks[k])
             /\ new.risks[k].level >= config[plan[k]]
  <2> DEFINE i == plan[k]
  <2>1. i \in Intent
    BY <1>3
  <2>2. /\ \A j \in DOMAIN BuiltinRules :
              j \in DOMAIN snap.rules /\ snap.rules[j] = BuiltinRules[j]
        /\ \A j \in DOMAIN snap.rules : snap.rules[j] \in Rule
    BY SnapshotRules
  <2> HIDE DEF i
  <2>3. /\ Severer(Risk(snap.rules, config, i), Risk(BuiltinRules, config, i))
        /\ Risk(snap.rules, config, i).level >= config[i]
    BY <2>1, <2>2, RiskGrows
  <2>4. /\ new.risks[k] = Risk(snap.rules, config, i)
        /\ floor.risks[k] = Risk(BuiltinRules, config, i)
    BY <1>1 DEF i
  <2>5. QED
    BY <2>3, <2>4 DEF i
<1>5. /\ FL # {} /\ FL \subseteq Level /\ NL \subseteq Level
      /\ FP # {} /\ FP \subseteq Level /\ NP \subseteq Level
  BY <1>3, <1>4, PolicyHasRank DEF Severer
<1>6. /\ \A x \in FL : \E y \in NL : y >= x
      /\ \A x \in FP : \E y \in NP : y >= x
  BY <1>4 DEF Severer
<1> HIDE DEF NL, FL, NP, FP
<1>7. /\ Max(FL) \in Level /\ Max(NL) \in Level /\ Max(NL) >= Max(FL)
      /\ Max(FP) \in Level /\ Max(NP) \in Level /\ Max(NP) >= Max(FP)
  BY <1>5, <1>6, MaxDominates
<1>8. Severer(new.overall, floor.overall)
  BY <1>1, <1>7, RankOfPolicy DEF Severer
<1>9. QED
  BY <1>4, <1>8

(* No rule file makes anything milder: whatever was reloaded, a report is  *)
(* at least as severe as the built-in rules and the score make it.         *)
THEOREM StoreRulesOnlyRaise == Spec => []RulesOnlyRaise
<1>1. StoreInv => RulesOnlyRaise
  <2> SUFFICES ASSUME StoreInv, NEW r \in Answered
               PROVE  LET floor == Analysis(BuiltinSnapshot, r.plan, r.config)
                      IN  /\ \A k \in DOMAIN r.plan :
                                /\ Severer(r.risks[k], floor.risks[k])
                                /\ r.risks[k].level >= r.config[r.plan[k]]
                          /\ Severer(r.overall, floor.overall)
    BY DEF RulesOnlyRaise, Severer
  <2>1. PICK k \in DOMAIN installed : r = Analysis(installed[k], r.plan, r.config)
    BY DEF StoreInv, ReportsHoldTogether
  <2>2. installed[k] \in Snapshots /\ r.plan \in Plan /\ r.config \in Config
    BY DEF StoreInv, StoreTyped, ReportsTyped
  <2>3. QED
    BY <2>1, <2>2, AnalysisGrows
<1>2. QED
  BY <1>1, StoreInvariant, PTL

-----------------------------------------------------------------------------
(* The orders a report asks to confirm.                                    *)
LEMMA HasLeast ==
    ASSUME NEW K \in SUBSET Nat, K # {}
    PROVE  \E m \in K : \A k \in K : m <= k
<1>1. PICK m \in K : \A k \in K : ~(<<k, m>> \in OpToRel(<, Nat))
  BY NatLessThanWellFounded, WFMin
<1>2. ASSUME NEW k \in K PROVE m <= k
  <2>1. k \in Nat /\ m \in Nat
    OBVIOUS
  <2>2. ~(<<k, m>> \in OpToRel(<, Nat))
    BY <1>1
  <2>3. ~(k < m)
    BY <2>1, <2>2 DEF OpToRel
  <2>4. QED
    BY <2>1, <2>3
<1>3. QED
  BY <1>2

Ascending(s) == \A j, k \in DOMAIN s : j < k => s[j] < s[k]

(* A finite set of numbers can be put in ascending order: a smallest one   *)
(* that cannot would, without its least element, be smaller still.         *)
LEMMA AscendingExists ==
    ASSUME NEW K \in SUBSET Nat, IsFiniteSet(K)
    PROVE  \E s \in [1 .. Cardinality(K) -> K] : Ascending(s)
<1> DEFINE Ordered(n) == \A S \in SUBSET Nat :
                            IsFiniteSet(S) /\ Cardinality(S) = n =>
                               \E s \in [1 .. n -> S] : Ascending(s)
           Bad == {n \in Nat : ~Ordered(n)}
<1>1. ASSUME NEW n \in Bad, \A m \in Bad : n <= m
      PROVE  FALSE
  <2>1. n \in Nat /\ ~Ordered(n)
    <3> HIDE DEF Ordered
    <3>1. QED
      OBVIOUS
  <2>2. PICK S \in SUBSET Nat : /\ IsFiniteSet(S) /\ Cardinality(S) = n
                                /\ ~\E s \in [1 .. n -> S] : Ascending(s)
    BY <2>1, Zenon
  <2>3. CASE n = 0
    <3> DEFINE s == [k \in 1 .. 0 |-> 0]
    <3>1. s \in [1 .. n -> S] /\ Ascending(s)
      BY <2>3 DEF Ascending
    <3>2. QED
      BY <2>2, <3>1
  <2>4. CASE n # 0
    <3>1. S # {}
      BY <2>2, <2>4, FS_EmptySet
    <3>2. PICK m \in S : \A k \in S : m <= k
      BY <3>1, HasLeast
    <3> DEFINE T == S \ {m}
    <3>3. IsFiniteSet(T) /\ Cardinality(T) = n - 1 /\ T \in SUBSET Nat
      BY <2>2, FS_RemoveElement
    <3>4. Ordered(n - 1)
      <4>1. n - 1 \in Nat /\ ~(n <= n - 1)
        BY <2>1, <2>4
      <4> HIDE DEF Ordered
      <4>2. QED
        BY <1>1, <4>1
    <3> HIDE DEF T
    <3>5. PICK t \in [1 .. n - 1 -> T] : Ascending(t)
      BY <3>3, <3>4
    <3> DEFINE s == [k \in 1 .. n |-> IF k = 1 THEN m ELSE t[k - 1]]
    <3>6. \A k \in 1 .. n : k # 1 => k - 1 \in 1 .. n - 1
      BY <2>1
    <3>7. \A k \in 1 .. n - 1 : t[k] \in S /\ t[k] \in Nat /\ m < t[k]
      <4>1. ASSUME NEW k \in 1 .. n - 1 PROVE t[k] \in S /\ t[k] # m
        BY <3>5 DEF T
      <4>2. \A x \in S : x # m => m < x /\ x \in Nat
        BY <3>2
      <4>3. QED
        BY <4>1, <4>2
    <3>8. s \in [1 .. n -> S]
      BY <3>6, <3>7
    <3>9. Ascending(s)
      <4>1. ASSUME NEW j \in 1 .. n, NEW k \in 1 .. n, j < k
            PROVE  s[j] < s[k]
        <5>1. k # 1 /\ k - 1 \in 1 .. n - 1 /\ s[k] = t[k - 1]
          BY <4>1, <2>1
        <5>2. CASE j = 1
          BY <5>1, <5>2, <3>7
        <5>3. CASE j # 1
          <6>1. j - 1 \in 1 .. n - 1 /\ j - 1 < k - 1 /\ s[j] = t[j - 1]
            BY <4>1, <5>3, <2>1
          <6>2. QED
            BY <3>5, <5>1, <6>1 DEF Ascending
        <5>4. QED
          BY <5>2, <5>3
      <4>2. QED
        BY <4>1 DEF Ascending
    <3> HIDE DEF s
    <3>10. QED
      BY <2>2, <3>8, <3>9
  <2>5. QED
    BY <2>3, <2>4
<1>2. Bad = {}
  <2>1. Bad \in SUBSET Nat
    OBVIOUS
  <2> HIDE DEF Bad
  <2>2. QED
    BY <1>1, <2>1, HasLeast
<1>3. Cardinality(K) \in Nat
  BY FS_CardinalityType
<1>4. QED
  BY <1>2, <1>3

OrdersToConfirm(r) ==
    {k - 1 : k \in {j \in DOMAIN r.plan :
                      r.risks[j] = [level |-> 3, policy |-> "confirm"]}}

LEMMA ConfirmOrdersOfReport ==
    ASSUME NEW r \in Analyses
    PROVE  /\ ConfirmOrders(r) \in Seq(OrdersToConfirm(r))
           /\ OrdersToConfirm(r) \subseteq Nat
           /\ ConfirmOrders(r) = <<>> => OrdersToConfirm(r) = {}
<1> DEFINE K == OrdersToConfirm(r)
<1>1. r.plan \in Seq(Intent)
  <2>1. r.plan \in Plan
    BY AnalysisOf DEF Analyses
  <2>2. QED
    BY <2>1, RulesAssumption
<1>2. DOMAIN r.plan = 1 .. Len(r.plan) /\ Len(r.plan) \in Nat
  BY <1>1
<1>3. K \subseteq 0 .. Len(r.plan)
  BY <1>2 DEF OrdersToConfirm
<1>4. K \in SUBSET Nat /\ IsFiniteSet(K)
  <2>1. IsFiniteSet(0 .. Len(r.plan))
    BY <1>2, FS_Interval
  <2>2. \A n \in 0 .. Len(r.plan) : n \in Nat
    BY <1>2
  <2> HIDE DEF K
  <2>3. IsFiniteSet(K)
    BY <1>3, <2>1, FS_Subset
  <2>4. QED
    BY <1>3, <2>2, <2>3
<1>5. ConfirmOrders(r) = CHOOSE s \in [1 .. Cardinality(K) -> K] : Ascending(s)
  BY DEF ConfirmOrders, OrdersToConfirm, Ascending
<1> HIDE DEF K
<1>6. ConfirmOrders(r) \in [1 .. Cardinality(K) -> K]
  <2>1. \E s \in [1 .. Cardinality(K) -> K] : Ascending(s)
    BY <1>4, AscendingExists
  <2>2. QED
    BY <1>5, <2>1
<1>7. Cardinality(K) \in Nat
  BY <1>4, FS_CardinalityType
<1>8. ConfirmOrders(r) = <<>> => Cardinality(K) = 0
  <2>1. ASSUME ConfirmOrders(r) = <<>>
        PROVE  Cardinality(K) = 0
    <3>1. DOMAIN ConfirmOrders(r) = {} /\ DOMAIN ConfirmOrders(r) = 1 .. Cardinality(K)
      BY <1>6, <2>1
    <3>2. 1 \notin 1 .. Cardinality(K)
      BY <3>1
    <3>3. QED
      BY <1>7, <3>2
  <2>2. QED
    BY <2>1
<1>9. Cardinality(K) = 0 => K = {}
  BY <1>4, FS_EmptySet
<1>10. QED
  BY <1>4, <1>6, <1>7, <1>8, <1>9 DEF K

-----------------------------------------------------------------------------
(* Level and policy never come apart: not in a rule of a snapshot that was *)
(* validated, and so not in a rating made under one.                       *)
LevelsMatch(rules) == \A k \in DOMAIN rules : ValidLevelPolicy(rules[k])

ValidInv ==
    /\ \A w \in Reloader : \A new \in built[w] : LevelsMatch(new.rules)
    /\ \A k \in DOMAIN installed : LevelsMatch(installed[k].rules)

LEMMA ValidInit == Init => ValidInv
<1> SUFFICES ASSUME Init PROVE ValidInv
  OBVIOUS
<1>1. LevelsMatch(BuiltinSnapshot.rules)
  BY RulesAssumption DEF ValidRules, LevelsMatch, BuiltinSnapshot
<1>2. DOMAIN installed = {1} /\ installed[1] = BuiltinSnapshot
  BY DEF Init
<1>3. \A w \in Reloader : built[w] = {}
  BY DEF Init
<1>4. QED
  BY <1>1, <1>2, <1>3 DEF ValidInv

LEMMA ValidStep == StoreInv /\ ValidInv /\ [Next]_vars => ValidInv'
<1> SUFFICES ASSUME StoreInv, ValidInv, [Next]_vars PROVE ValidInv'
  OBVIOUS
<1>0. built \in [Reloader -> SUBSET Snapshots] /\ installed \in Seq(Snapshots)
  BY DEF StoreInv, StoreTyped
<1>1. ASSUME NEW w \in Reloader, NEW f \in RuleFile, Build(w, f) PROVE ValidInv'
  <2>1. LevelsMatch(SnapshotOf(f).rules)
    BY <1>1 DEF Build, Buildable, ValidRules, LevelsMatch, SnapshotOf
  <2>2. built' = [built EXCEPT ![w] = {SnapshotOf(f)}] /\ installed' = installed
    BY <1>1 DEF Build
  <2>3. QED
    BY <1>0, <2>1, <2>2 DEF ValidInv
<1>2. ASSUME NEW w \in Reloader, Store(w) PROVE ValidInv'
  <2>1. PICK new \in built[w] : /\ installed' = Append(installed, new)
                                /\ built' = [built EXCEPT ![w] = {}]
    BY <1>2 DEF Store
  <2>2. new \in Snapshots /\ LevelsMatch(new.rules)
    BY <1>0 DEF ValidInv
  <2>3. /\ \A k \in 1 .. Len(installed) : installed'[k] = installed[k]
        /\ installed'[Len(installed) + 1] = new
        /\ DOMAIN installed = 1 .. Len(installed)
        /\ DOMAIN installed' = 1 .. Len(installed) + 1
        /\ Len(installed) \in Nat
    BY <1>0, <2>1, <2>2, AppendProperties
  <2>4. \A k \in DOMAIN installed' : LevelsMatch(installed'[k].rules)
    BY <2>2, <2>3 DEF ValidInv
  <2>5. QED
    BY <1>0, <2>1, <2>4 DEF ValidInv
<1>3. ASSUME NEW w \in Reloader, Overtaken(w) PROVE ValidInv'
  BY <1>0, <1>3 DEF Overtaken, ValidInv
<1>4. ASSUME NEW a \in Analyst, NEW plan \in Plan, NEW config \in Config,
             Take(a, plan, config)
      PROVE  ValidInv'
  BY <1>4 DEF Take, ValidInv
<1>5. ASSUME NEW a \in Analyst, Finish(a) PROVE ValidInv'
  BY <1>5 DEF Finish, ValidInv
<1>6. ASSUME UNCHANGED vars PROVE ValidInv'
  BY <1>6 DEF vars, ValidInv
<1>7. QED
  BY <1>1, <1>2, <1>3, <1>4, <1>5, <1>6 DEF Next

LEMMA RatingMatches ==
    ASSUME NEW rules, \A k \in DOMAIN rules : rules[k] \in Rule, LevelsMatch(rules),
           NEW config \in Config, NEW i \in Intent
    PROVE  \E l \in Level : Risk(rules, config, i) = [level |-> l, policy |-> Policies[l]]
<1> DEFINE ms == Matches(rules, i)
           L == {config[i]} \cup {m.level : m \in ms}
           R == {config[i]} \cup {PolicyRank(m.policy) : m \in ms}
<1>1. 4 \in Level /\ Policies[4] = "deny"
  BY DEF Level, Policies
<1>2. \A m \in ms : m.level \in Level /\ m.policy = Policies[m.level]
  BY <1>1 DEF Matches, Match, LevelsMatch, ValidLevelPolicy, PolicyForLevel, Rule
<1>3. config[i] \in Level
  BY RulesAssumption
<1>4. \A m \in ms : PolicyRank(m.policy) = m.level
  BY <1>2, RankOfPolicy
<1>5. L = R /\ L \subseteq Level /\ L # {}
  BY <1>2, <1>3, <1>4
<1>6. Raised(config[i], ms) = [level |-> Max(L), policy |-> Policies[Max(L)]]
  <2>1. Raised(config[i], ms) = [level |-> Max(L), policy |-> Policies[Max(R)]]
    BY DEF Raised
  <2> HIDE DEF L, R
  <2>2. QED
    BY <1>5, <2>1
<1>7. Max(L) \in Level
  <2> HIDE DEF L
  <2>1. QED
    BY <1>5, MaxOfLevels
<1>8. \/ Risk(rules, config, i) = [level |-> 4, policy |-> "deny"]
      \/ Risk(rules, config, i) = Raised(config[i], ms)
  BY DEF Risk
<1> HIDE DEF L, R, ms
<1>9. QED
  BY <1>1, <1>6, <1>7, <1>8

(* What runs without a question is nowhere above level 2.                  *)
LEMMA NothingSlips == StoreInv /\ ValidInv => NothingSlipsPast
<1> SUFFICES ASSUME StoreInv, ValidInv, NEW r \in Answered,
                    ~Denied(r), ConfirmOrders(r) = <<>>, NEW k \in DOMAIN r.risks
             PROVE  r.risks[k].level <= 2
  BY DEF NothingSlipsPast
<1>1. PICK j \in DOMAIN installed : r = Analysis(installed[j], r.plan, r.config)
  BY DEF StoreInv, ReportsHoldTogether
<1>2. installed[j] \in Snapshots /\ r.plan \in Plan /\ r.config \in Config
  BY DEF StoreInv, StoreTyped, ReportsTyped
<1>3. r \in Analyses
  BY <1>1, <1>2 DEF Analyses
<1>4. /\ DOMAIN r.risks = DOMAIN r.plan
      /\ r.risks[k] = Risk(installed[j].rules, r.config, r.plan[k])
  <2>1. r.risks = [x \in DOMAIN r.plan |-> Risk(installed[j].rules, r.config, r.plan[x])]
    BY <1>1 DEF Analysis
  <2>2. QED
    BY <2>1
<1>5. r.plan[k] \in Intent
  <2>1. r.plan \in Seq(Intent)
    BY <1>2, RulesAssumption
  <2>2. QED
    BY <1>4, <2>1
<1>6. PICK l \in Level : r.risks[k] = [level |-> l, policy |-> Policies[l]]
  <2>1. \A x \in DOMAIN installed[j].rules : installed[j].rules[x] \in Rule
    BY <1>2, SnapshotRules
  <2>2. LevelsMatch(installed[j].rules)
    BY DEF ValidInv
  <2>3. QED
    BY <1>2, <1>4, <1>5, <2>1, <2>2, RatingMatches
<1>7. l # 4
  BY <1>6 DEF Denied
<1>8. l # 3
  <2>1. ASSUME l = 3 PROVE FALSE
    <3>1. r.risks[k] = [level |-> 3, policy |-> "confirm"]
      BY <1>6, <2>1 DEF Policies
    <3>2. k - 1 \in OrdersToConfirm(r)
      BY <1>4, <3>1 DEF OrdersToConfirm
    <3>3. OrdersToConfirm(r) = {}
      BY <1>3, ConfirmOrdersOfReport
    <3>4. QED
      BY <3>2, <3>3
  <2>2. QED
    BY <2>1
<1>9. r.risks[k].level = l /\ l \in 1 .. 4
  BY <1>6 DEF Level
<1>10. QED
  BY <1>7, <1>8, <1>9

-----------------------------------------------------------------------------
(* What validation makes of a rule file: its rules come after the built-in *)
(* ones, take none of their ids, and are not hard rules.                   *)
FormedInv ==
    /\ \A w \in Reloader : \A new \in built[w] : IsSnapshot(new)
    /\ \A k \in DOMAIN installed : IsSnapshot(installed[k])

LEMMA BuiltinIsSnapshot == IsSnapshot(BuiltinSnapshot)
<1>1. SubSeq(BuiltinRules, 1, Len(BuiltinRules)) = BuiltinRules
  BY RulesAssumption, SubSeqFull
<1>2. QED
  BY <1>1, RulesAssumption DEF IsSnapshot, BuiltinSnapshot, ValidRules, UniqueIds

LEMMA BuildableIsSnapshot ==
    ASSUME NEW f \in RuleFile, NEW current, Buildable(f, current)
    PROVE  IsSnapshot(SnapshotOf(f))
<1> DEFINE b == BuiltinRules
           rules == b \o f.rules
<1>1. b \in Seq(Rule) /\ f.rules \in Seq(Rule) /\ f.generation \in Nat
  BY RulesAssumption
<1>2. /\ rules \in Seq(Rule) /\ DOMAIN rules = 1 .. Len(rules)
      /\ Len(b) \in Nat /\ Len(f.rules) \in Nat
      /\ Len(rules) = Len(b) + Len(f.rules)
      /\ \A k \in 1 .. Len(b) : rules[k] = b[k]
      /\ \A k \in Len(b) + 1 .. Len(rules) : rules[k] = f.rules[k - Len(b)]
  <2>1. \A k \in 1 .. Len(b) + Len(f.rules) :
            rules[k] = IF k <= Len(b) THEN b[k] ELSE f.rules[k - Len(b)]
    BY <1>1, ConcatProperties
  <2>2. QED
    BY <1>1, <2>1, ConcatProperties
<1>3. SubSeq(rules, 1, Len(b)) = b
  <2>1. SubSeq(rules, 1, Len(b)) \in Seq(Rule) /\ Len(SubSeq(rules, 1, Len(b))) = Len(b)
    BY <1>2, SubSeqProperties
  <2>2. \A k \in 1 .. Len(b) : SubSeq(rules, 1, Len(b))[k] = b[k]
    BY <1>2, SubSeqProperties
  <2>3. QED
    BY <1>1, <2>1, <2>2, SeqEqual
<1>4. \A j, k \in DOMAIN rules : rules[j].id = rules[k].id => j = k
  BY DEF Buildable, ValidRules, UniqueIds
<1>5. ASSUME NEW k \in DOMAIN rules, rules[k].hard PROVE k \in DOMAIN b
  <2>1. CASE k <= Len(b)
    BY <1>1, <1>2, <2>1
  <2>2. CASE Len(b) < k
    <3>1. k - Len(b) \in DOMAIN f.rules /\ rules[k] = f.rules[k - Len(b)]
      BY <1>1, <1>2, <2>2
    <3>2. QED
      BY <1>5, <3>1 DEF Buildable, ValidRules
  <2>3. QED
    BY <1>2, <2>1, <2>2
<1> HIDE DEF rules
<1>6. SnapshotOf(f).rules = rules /\ SnapshotOf(f).generation = f.generation
  BY DEF SnapshotOf, rules
<1>7. QED
  BY <1>1, <1>2, <1>3, <1>4, <1>5, <1>6 DEF IsSnapshot

LEMMA FormedStep == StoreInv /\ FormedInv /\ [Next]_vars => FormedInv'
<1> SUFFICES ASSUME StoreInv, FormedInv, [Next]_vars PROVE FormedInv'
  OBVIOUS
<1>0. built \in [Reloader -> SUBSET Snapshots] /\ installed \in Seq(Snapshots)
  BY DEF StoreInv, StoreTyped
<1>1. ASSUME NEW w \in Reloader, NEW f \in RuleFile, Build(w, f) PROVE FormedInv'
  <2>1. IsSnapshot(SnapshotOf(f))
    BY <1>1, BuildableIsSnapshot DEF Build
  <2>2. built' = [built EXCEPT ![w] = {SnapshotOf(f)}] /\ installed' = installed
    BY <1>1 DEF Build
  <2>3. QED
    BY <1>0, <2>1, <2>2 DEF FormedInv
<1>2. ASSUME NEW w \in Reloader, Store(w) PROVE FormedInv'
  <2>1. PICK new \in built[w] : /\ installed' = Append(installed, new)
                                /\ built' = [built EXCEPT ![w] = {}]
    BY <1>2 DEF Store
  <2>2. new \in Snapshots /\ IsSnapshot(new)
    BY <1>0 DEF FormedInv
  <2>3. /\ \A k \in 1 .. Len(installed) : installed'[k] = installed[k]
        /\ installed'[Len(installed) + 1] = new
        /\ DOMAIN installed = 1 .. Len(installed)
        /\ DOMAIN installed' = 1 .. Len(installed) + 1
        /\ Len(installed) \in Nat
    BY <1>0, <2>1, <2>2, AppendProperties
  <2>4. \A k \in DOMAIN installed' : IsSnapshot(installed'[k])
    BY <2>2, <2>3 DEF FormedInv
  <2>5. QED
    BY <1>0, <2>1, <2>4 DEF FormedInv
<1>3. ASSUME NEW w \in Reloader, Overtaken(w) PROVE FormedInv'
  BY <1>0, <1>3 DEF Overtaken, FormedInv
<1>4. ASSUME \/ \E a \in Analyst, plan \in Plan, config \in Config : Take(a, plan, config)
             \/ \E a \in Analyst : Finish(a)
             \/ UNCHANGED vars
      PROVE  FormedInv'
  BY <1>4 DEF Take, Finish, vars, FormedInv
<1>5. QED
  BY <1>1, <1>2, <1>3, <1>4 DEF Next

(* Every snapshot in the store, on its way there or under an analysis has  *)
(* the built-in rules as they are and after them none that claims what     *)
(* only these may have, whatever the rule files hold (validate_rules).     *)
THEOREM StoreTypeOK == Spec => []TypeOK
<1>1. Init => FormedInv
  <2>1. Init => DOMAIN installed = {1} /\ installed[1] = BuiltinSnapshot
                 /\ \A w \in Reloader : built[w] = {}
    BY DEF Init
  <2>2. QED
    BY <2>1, BuiltinIsSnapshot DEF FormedInv
<1>2. ASSUME StoreInv, FormedInv PROVE TypeOK
  <2>1. IsSnapshot(snapshot) /\ \A k \in DOMAIN installed : IsSnapshot(installed[k])
    <3>1. Len(installed) \in DOMAIN installed
      BY <1>2 DEF StoreInv, StoreTyped
    <3>2. QED
      BY <1>2, <3>1 DEF StoreInv, StoreTyped, FormedInv
  <2>2. /\ DOMAIN built = Reloader /\ DOMAIN held = Analyst /\ DOMAIN reports = Analyst
        /\ \A a \in Analyst : \A h \in held[a] : h \in Jobs
    BY <1>2 DEF StoreInv, StoreTyped
  <2>3. \A a \in Analyst : \A h \in held[a] : IsSnapshot(h.snap)
    <3>1. ASSUME NEW a \in Analyst, NEW h \in held[a] PROVE IsSnapshot(h.snap)
      <4>1. PICK k \in DOMAIN installed : h.snap = installed[k]
        BY <1>2 DEF StoreInv, HeldWasInstalled
      <4>2. QED
        BY <2>1, <4>1
    <3>2. QED
      BY <3>1
  <2>4. ASSUME NEW r \in Answered PROVE r.plan \in Plan /\ DOMAIN r.risks = DOMAIN r.plan
    <3>1. PICK j \in DOMAIN installed : r = Analysis(installed[j], r.plan, r.config)
      BY <1>2 DEF StoreInv, ReportsHoldTogether
    <3>2. r.risks = [k \in DOMAIN r.plan |-> Risk(installed[j].rules, r.config, r.plan[k])]
      BY <3>1 DEF Analysis
    <3>3. QED
      BY <1>2, <3>2 DEF StoreInv, ReportsTyped
  <2>5. \A w \in Reloader : \A s \in built[w] : IsSnapshot(s)
    BY <1>2 DEF FormedInv
  <2>6. \A a \in Analyst : \A h \in held[a] : h.plan \in Plan /\ h.config \in Config
    BY <2>2 DEF Jobs
  <2>7. QED
    BY <2>1, <2>2, <2>3, <2>4, <2>5, <2>6 DEF TypeOK
<1>3. QED
  BY <1>1, <1>2, FormedStep, StoreInvariant, PTL DEF Spec

-----------------------------------------------------------------------------
(* The gate of the pipeline is a gate: its proofs apply to it.             *)
GateProofs == INSTANCE ConfirmationGateProofs WITH Report <- GateReports

LEMMA GateReportsFit ==
    ASSUME NEW r \in GateReports
    PROVE  /\ DOMAIN r = GateProofs!ReportFields
           /\ r.confirm \in Seq(Nat)
           /\ \A k \in DOMAIN r.confirm : r.confirm[k] \in DOMAIN r.risk
           /\ r.denied \in BOOLEAN
<1>1. PICK a \in Analyses : r = GateReport(a)
  BY DEF GateReports
<1>2. /\ DOMAIN r = {"plan", "generation", "confirm", "risk", "denied"}
      /\ r.confirm = ConfirmOrders(a) /\ r.denied = Denied(a)
      /\ DOMAIN r.risk = {k - 1 : k \in DOMAIN a.plan}
  BY <1>1 DEF GateReport
<1>3. /\ ConfirmOrders(a) \in Seq(OrdersToConfirm(a))
      /\ OrdersToConfirm(a) \subseteq Nat
  BY ConfirmOrdersOfReport
<1>4. OrdersToConfirm(a) \subseteq DOMAIN r.risk
  BY <1>2 DEF OrdersToConfirm
<1>5. r.denied \in BOOLEAN
  BY <1>2 DEF Denied
<1>6. r.confirm \in Seq(Nat) /\ \A k \in DOMAIN r.confirm : r.confirm[k] \in DOMAIN r.risk
  BY <1>2, <1>3, <1>4
<1>7. QED
  BY <1>2, <1>5, <1>6 DEF GateProofs!ReportFields

LEMMA GateAssumed == GateProofs!GateAssumption
BY GateReportsFit, PipelineAssumption DEF GateProofs!GateAssumption

(* The two instances of the gate are one.                                  *)
LEMMA SameGate ==
    /\ Gate!Init <=> GateProofs!Init
    /\ [Gate!Next]_(Gate!vars) <=> [GateProofs!Next]_(GateProofs!vars)
    /\ Gate!Capacity <=> GateProofs!Capacity
BY DEF Gate!Init, GateProofs!Init, Gate!Next, GateProofs!Next, Gate!vars, GateProofs!vars,
       Gate!Capacity, GateProofs!Capacity, Gate!Cardinality, GateProofs!Cardinality,
       Gate!Require, GateProofs!Require, Gate!RefuseRequire, GateProofs!RefuseRequire,
       Gate!DecideExpired, GateProofs!DecideExpired, Gate!Deny, GateProofs!Deny,
       Gate!DecideFails, GateProofs!DecideFails, Gate!AllowOnce, GateProofs!AllowOnce,
       Gate!Consume, GateProofs!Consume, Gate!ConsumeExpired, GateProofs!ConsumeExpired,
       Gate!Live, GateProofs!Live, Gate!LiveLedger, GateProofs!LiveLedger,
       Gate!Ledger!Drop, GateProofs!Ledger!Drop, Gate!Ledger!Put, GateProofs!Ledger!Put,
       Gate!Ledger!NewGrant, GateProofs!Ledger!NewGrant,
       Gate!Ledger!Validate, GateProofs!Ledger!Validate,
       Gate!Shown, GateProofs!Shown, Gate!ScopeFor, GateProofs!ScopeFor,
       Gate!Needed, GateProofs!Needed, Gate!OrdersOf, GateProofs!OrdersOf,
       Gate!HasRoom, GateProofs!HasRoom, Gate!DeadlineFits, GateProofs!DeadlineFits,
       Gate!Admits, GateProofs!Admits, Gate!SweepTokens, GateProofs!SweepTokens,
       Gate!ValidOrders, GateProofs!ValidOrders, Gate!DropToken, GateProofs!DropToken,
       Gate!Presented, GateProofs!Presented, Gate!MatchesToken, GateProofs!MatchesToken,
       Gate!ConsumedOrders, GateProofs!ConsumedOrders,
       Gate!LedgerAnswer, GateProofs!LedgerAnswer, Gate!Mode, GateProofs!Mode,
       Gate!Id, GateProofs!Id, Gate!Time, GateProofs!Time,
       Gate!ConfirmOrders, GateProofs!ConfirmOrders,
       Gate!OrderOption, GateProofs!OrderOption,
       Gate!FoundExpired, GateProofs!FoundExpired

LEMMA SameRequire ==
    ASSUME NEW s, NEW r, NEW mode, NEW rollbackOk, NEW now,
           Gate!Require(s, r, mode, rollbackOk, now)
    PROVE  GateProofs!Require(s, r, mode, rollbackOk, now)
BY DEF Gate!Require, GateProofs!Require, Gate!Cardinality, GateProofs!Cardinality,
       Gate!Live, GateProofs!Live, Gate!LiveLedger, GateProofs!LiveLedger,
       Gate!Ledger!Drop, GateProofs!Ledger!Drop, Gate!Shown, GateProofs!Shown,
       Gate!ScopeFor, GateProofs!ScopeFor, Gate!Needed, GateProofs!Needed,
       Gate!OrdersOf, GateProofs!OrdersOf, Gate!HasRoom, GateProofs!HasRoom,
       Gate!DeadlineFits, GateProofs!DeadlineFits, Gate!Admits, GateProofs!Admits,
       Gate!SweepTokens, GateProofs!SweepTokens

(* The reports of the pipeline are reports of the gate.                    *)
LEMMA AnswersAreReports ==
    ASSUME StoreInv, NEW a \in Answered
    PROVE  a \in Analyses /\ GateReport(a) \in GateReports
<1>1. PICK j \in DOMAIN installed : a = Analysis(installed[j], a.plan, a.config)
  BY DEF StoreInv, ReportsHoldTogether
<1>2. installed[j] \in Snapshots /\ a.plan \in Plan /\ a.config \in Config
  BY DEF StoreInv, StoreTyped, ReportsTyped
<1>3. QED
  BY <1>1, <1>2 DEF Analyses, GateReports

GateInvs == GateProofs!GateInv /\ GateProofs!TermsInv

(* Every step of the gate in the pipeline is a step of the gate.           *)
LEMMA GateStepIsGateStep ==
    ASSUME StoreInv, GateInvs, GateNext
    PROVE  Gate!Next
<1>1. PICK now \in Gate!Time, answers \in {{GateReport(a) : a \in Answered}} :
          \/ \E r \in answers, mode \in Gate!Mode, s \in Session :
                \/ Gate!Require(s, r, mode, TRUE, now)
                \/ \E t \in DOMAIN issued, order \in Gate!OrderOption,
                      actor, executor \in Actor :
                      Gate!Consume(t, s, r, mode, order, actor, executor, now)
          \/ Gate!RefuseRequire(answers, now)
          \/ \E t \in DOMAIN issued : Gate!ConsumeExpired(t, answers, now)
          \/ \E id \in DOMAIN pending :
                \/ Gate!DecideExpired(id, now)
                \/ Gate!DecideFails(id, now)
                \/ Gate!Deny(id, now)
                \/ \E actor, executor \in Actor : Gate!AllowOnce(id, actor, executor, now)
  BY DEF GateNext
<1>2. answers \subseteq GateReports
  <2>1. \A r \in answers : \E a \in Answered : r = GateReport(a)
    BY <1>1
  <2>2. QED
    BY <2>1, AnswersAreReports
<1>3. \A id \in DOMAIN pending : id \in Gate!Id
  <2>1. U64Max \in Nat /\ counter \in 0 .. U64Max /\ DOMAIN pending \subseteq 1 .. counter
    BY PipelineAssumption DEF GateInvs, GateProofs!GateInv, GateProofs!Maps
  <2>2. QED
    BY <2>1 DEF Gate!Id
<1>4. ASSUME NEW r \in answers, NEW mode \in Gate!Mode, NEW s \in Session,
             \/ Gate!Require(s, r, mode, TRUE, now)
             \/ \E t \in DOMAIN issued, order \in Gate!OrderOption,
                   actor, executor \in Actor :
                   Gate!Consume(t, s, r, mode, order, actor, executor, now)
      PROVE  Gate!Next
  BY <1>2, <1>4 DEF Gate!Next
<1>5. CASE Gate!RefuseRequire(answers, now)
  <2>1. Gate!RefuseRequire(GateReports, now)
    BY <1>2, <1>5 DEF Gate!RefuseRequire
  <2>2. QED
    BY <2>1 DEF Gate!Next
<1>6. ASSUME NEW t \in DOMAIN issued, Gate!ConsumeExpired(t, answers, now)
      PROVE  Gate!Next
  <2>1. Gate!ConsumeExpired(t, GateReports, now)
    BY <1>2, <1>6 DEF Gate!ConsumeExpired, Gate!FoundExpired
  <2>2. QED
    BY <2>1 DEF Gate!Next
<1>7. ASSUME NEW id \in DOMAIN pending,
             \/ Gate!DecideExpired(id, now)
             \/ Gate!DecideFails(id, now)
             \/ Gate!Deny(id, now)
             \/ \E actor, executor \in Actor : Gate!AllowOnce(id, actor, executor, now)
      PROVE  Gate!Next
  BY <1>3, <1>7 DEF Gate!Next
<1>8. QED
  BY <1>1, <1>4, <1>5, <1>6, <1>7

LEMMA GateInvsStep ==
    ASSUME StoreInv, GateInvs, [PipelineNext]_allVars
    PROVE  GateInvs' /\ [Gate!Next]_(Gate!vars)
<1>1. [Gate!Next]_(Gate!vars)
  BY GateStepIsGateStep DEF PipelineNext, RulesNext, allVars, gateVars, Gate!vars
<1>2. [GateProofs!Next]_(GateProofs!vars)
  BY <1>1, SameGate
<1>3. GateProofs!GateInv' /\ GateProofs!TermsInv'
  BY <1>2, GateAssumed, GateProofs!GateStep, GateProofs!TermsStep DEF GateInvs
<1>4. QED
  BY <1>1, <1>3 DEF GateInvs

-----------------------------------------------------------------------------
(* What users were asked to confirm was rated by a rule set the store has  *)
(* held, the one whose generation the question carries.  The store knows   *)
(* nothing of it: it keeps so because the store forgets no rule set it has *)
(* held and never has two under one generation.                            *)
RatedBy(snap, scope, config) ==
    /\ snap.generation = scope.generation
    /\ [k \in DOMAIN scope.orders |->
           Risk(snap.rules, config, scope.plan[scope.orders[k] + 1])] = scope.risks

AskedFromStore ==
    \A id \in 1 .. counter : \E j \in DOMAIN installed, config \in Config :
        RatedBy(installed[j], asked[id], config)

PipelineInv == StoreInv /\ ValidInv /\ GateInvs /\ AskedFromStore

LEMMA HistoryGrows ==
    ASSUME StoreInv, [Next]_vars
    PROVE  \A k \in DOMAIN installed : k \in DOMAIN installed' /\ installed'[k] = installed[k]
<1>1. ASSUME NEW w \in Reloader, Store(w)
      PROVE  \A k \in DOMAIN installed :
                k \in DOMAIN installed' /\ installed'[k] = installed[k]
  <2>1. PICK new \in built[w] : installed' = Append(installed, new)
    BY <1>1 DEF Store
  <2>2. installed \in Seq(Snapshots) /\ new \in Snapshots
    BY DEF StoreInv, StoreTyped
  <2>3. /\ \A k \in 1 .. Len(installed) : installed'[k] = installed[k]
        /\ DOMAIN installed = 1 .. Len(installed) /\ Len(installed) \in Nat
        /\ DOMAIN installed' = 1 .. Len(installed) + 1
    BY <2>1, <2>2, AppendProperties
  <2>4. QED
    BY <2>3
<1>2. CASE installed' = installed
  BY <1>2
<1>3. QED
  BY <1>1, <1>2 DEF Next, Build, Overtaken, Take, Finish, vars

(* A question is put in the terms of the report it is about.               *)
LEMMA ShownIsRated ==
    ASSUME StoreInv, NEW a \in Answered, NEW s, NEW mode, NEW orders,
           GateProofs!Bindable(GateReport(a), orders)
    PROVE  \E j \in DOMAIN installed, config \in Config :
              RatedBy(installed[j], GateProofs!Shown(s, GateReport(a), mode, orders), config)
<1> DEFINE r == GateReport(a)
           scope == GateProofs!Shown(s, r, mode, orders)
<1>1. PICK j \in DOMAIN installed : a = Analysis(installed[j], a.plan, a.config)
  BY DEF StoreInv, ReportsHoldTogether
<1>2. a.config \in Config
  BY DEF StoreInv, ReportsTyped
<1>3. /\ r.plan = a.plan /\ r.generation = a.generation
      /\ r.risk = [o \in {k - 1 : k \in DOMAIN a.plan} |-> a.risks[o + 1]]
  BY DEF GateReport
<1>4. /\ a.generation = installed[j].generation
      /\ a.risks = [k \in DOMAIN a.plan |-> Risk(installed[j].rules, a.config, a.plan[k])]
  BY <1>1 DEF Analysis
<1>5. a.plan \in Seq(Intent)
  <2>1. a.plan \in Plan
    BY DEF StoreInv, ReportsTyped
  <2>2. QED
    BY <2>1, RulesAssumption
<1>6. /\ scope.plan = r.plan /\ scope.generation = r.generation /\ scope.orders = orders
      /\ scope.risks = [k \in DOMAIN orders |-> r.risk[orders[k]]]
  BY DEF GateProofs!Shown
<1> HIDE DEF r, scope
<1>7. ASSUME NEW k \in DOMAIN orders
      PROVE  r.risk[orders[k]] = Risk(installed[j].rules, a.config, a.plan[orders[k] + 1])
  <2>1. orders[k] \in DOMAIN r.risk
    BY DEF GateProofs!Bindable, r
  <2>2. PICK x \in DOMAIN a.plan : orders[k] = x - 1
    BY <1>3, <2>1
  <2>3. x \in Nat
    BY <1>5
  <2>4. orders[k] + 1 = x
    BY <2>2, <2>3
  <2>5. QED
    BY <1>3, <1>4, <2>1, <2>4
<1>8. [k \in DOMAIN orders |-> Risk(installed[j].rules, a.config, a.plan[orders[k] + 1])]
        = [k \in DOMAIN orders |-> r.risk[orders[k]]]
  BY <1>7
<1>9. RatedBy(installed[j], scope, a.config)
  BY <1>3, <1>4, <1>6, <1>8 DEF RatedBy
<1>10. QED
  BY <1>2, <1>9 DEF r, scope

(* Only a call of require_confirmation asks anything.                      *)
LEMMA OnlyRequireAsks ==
    ASSUME GateNext
    PROVE  \/ counter' = counter /\ asked' = asked
           \/ \E a \in Answered, s \in Session, mode \in Gate!Mode, now \in Gate!Time :
                 Gate!Require(s, GateReport(a), mode, TRUE, now)
<1>1. PICK now \in Gate!Time, answers \in {{GateReport(a) : a \in Answered}} :
          \/ \E r \in answers, mode \in Gate!Mode, s \in Session :
                \/ Gate!Require(s, r, mode, TRUE, now)
                \/ \E t \in DOMAIN issued, order \in Gate!OrderOption,
                      actor, executor \in Actor :
                      Gate!Consume(t, s, r, mode, order, actor, executor, now)
          \/ Gate!RefuseRequire(answers, now)
          \/ \E t \in DOMAIN issued : Gate!ConsumeExpired(t, answers, now)
          \/ \E id \in DOMAIN pending :
                \/ Gate!DecideExpired(id, now)
                \/ Gate!DecideFails(id, now)
                \/ Gate!Deny(id, now)
                \/ \E actor, executor \in Actor : Gate!AllowOnce(id, actor, executor, now)
  BY DEF GateNext
<1>2. ASSUME NEW r \in answers, NEW mode \in Gate!Mode, NEW s \in Session,
             Gate!Require(s, r, mode, TRUE, now)
      PROVE  \E a \in Answered : Gate!Require(s, GateReport(a), mode, TRUE, now)
  <2>1. PICK a \in Answered : r = GateReport(a)
    BY <1>1
  <2>2. QED
    BY <1>2, <2>1
<1>3. ASSUME NEW r \in answers, NEW mode \in Gate!Mode, NEW s \in Session,
             NEW t \in DOMAIN issued, NEW order \in Gate!OrderOption,
             NEW actor \in Actor, NEW executor \in Actor,
             Gate!Consume(t, s, r, mode, order, actor, executor, now)
      PROVE  counter' = counter /\ asked' = asked
  BY <1>3 DEF Gate!Consume, Gate!DropToken
<1>4. CASE \/ Gate!RefuseRequire(answers, now)
           \/ \E t \in DOMAIN issued : Gate!ConsumeExpired(t, answers, now)
  BY <1>4 DEF Gate!RefuseRequire, Gate!ConsumeExpired, Gate!DropToken
<1>5. CASE \E id \in DOMAIN pending :
              \/ Gate!DecideExpired(id, now)
              \/ Gate!DecideFails(id, now)
              \/ Gate!Deny(id, now)
              \/ \E actor, executor \in Actor : Gate!AllowOnce(id, actor, executor, now)
  BY <1>5 DEF Gate!DecideExpired, Gate!DecideFails, Gate!Deny, Gate!AllowOnce
<1>6. QED
  BY <1>1, <1>2, <1>3, <1>4, <1>5

LEMMA AskedFromStoreStep ==
    ASSUME PipelineInv, [PipelineNext]_allVars
    PROVE  AskedFromStore'
<1>1. CASE RulesNext \/ UNCHANGED allVars
  <2>1. /\ counter' = counter /\ asked' = asked
        /\ [Next]_vars
    BY <1>1 DEF RulesNext, allVars, gateVars
  <2>2. \A k \in DOMAIN installed : k \in DOMAIN installed' /\ installed'[k] = installed[k]
    BY <2>1, HistoryGrows DEF PipelineInv
  <2>3. QED
    BY <2>1, <2>2 DEF PipelineInv, AskedFromStore
<1>2. CASE GateNext
  <2>1. installed' = installed
    BY <1>2 DEF GateNext, vars
  <2>2. CASE counter' = counter /\ asked' = asked
    BY <2>1, <2>2 DEF PipelineInv, AskedFromStore
  <2>3. ASSUME NEW a \in Answered, NEW s \in Session, NEW mode \in Gate!Mode,
               NEW now \in Gate!Time, Gate!Require(s, GateReport(a), mode, TRUE, now)
        PROVE  AskedFromStore'
    <3> DEFINE r == GateReport(a)
    <3>1. r \in GateReports
      BY AnswersAreReports DEF PipelineInv
    <3>2. mode \in GateProofs!Mode /\ now \in GateProofs!Time
      BY DEF Gate!Mode, GateProofs!Mode, Gate!Time, GateProofs!Time
    <3>3. GateProofs!Require(s, r, mode, TRUE, now)
      BY <2>3, SameRequire
    <3> HIDE DEF r
    <3>4. /\ \A id \in 1 .. counter : asked'[id] = asked[id]
          /\ \A id \in counter + 1 .. counter' :
                LET orders == GateProofs!OrdersOf(r, mode, id - counter)
                IN  /\ asked'[id] = GateProofs!Shown(s, r, mode, orders)
                    /\ GateProofs!Bindable(r, orders)
      BY <3>1, <3>2, <3>3, GateAssumed, GateProofs!RequireAppends DEF PipelineInv, GateInvs
    <3>5. ASSUME NEW id \in 1 .. counter', id \notin counter + 1 .. counter'
          PROVE  id \in 1 .. counter
      <4>1. counter \in Nat /\ counter' \in Nat
        <5>1. GateInvs'
          BY <1>2, GateInvsStep DEF PipelineInv, PipelineNext
        <5>2. QED
          BY <5>1, PipelineAssumption
             DEF PipelineInv, GateInvs, GateProofs!GateInv, GateProofs!Maps
      <4>2. QED
        BY <3>5, <4>1
    <3>6. ASSUME NEW id \in counter + 1 .. counter'
          PROVE  \E j \in DOMAIN installed, config \in Config :
                    RatedBy(installed[j], asked'[id], config)
      <4> DEFINE orders == GateProofs!OrdersOf(r, mode, id - counter)
      <4>1. asked'[id] = GateProofs!Shown(s, r, mode, orders) /\ GateProofs!Bindable(r, orders)
        BY <3>4
      <4> HIDE DEF orders
      <4>2. QED
        BY <4>1, ShownIsRated DEF PipelineInv, r
    <3>7. QED
      BY <2>1, <3>4, <3>5, <3>6 DEF PipelineInv, AskedFromStore
  <2>4. QED
    BY <1>2, <2>2, <2>3, OnlyRequireAsks
<1>3. QED
  BY <1>1, <1>2 DEF PipelineNext

LEMMA PipelineStep == PipelineInv /\ [PipelineNext]_allVars => PipelineInv'
<1> SUFFICES ASSUME PipelineInv, [PipelineNext]_allVars PROVE PipelineInv'
  OBVIOUS
<1>1. [Next]_vars
  BY DEF PipelineNext, RulesNext, GateNext, allVars, vars
<1>2. StoreInv' /\ ValidInv'
  BY <1>1, NextKeeps, ValidStep DEF PipelineInv
<1>3. GateInvs' /\ AskedFromStore'
  BY GateInvsStep, AskedFromStoreStep DEF PipelineInv
<1>4. QED
  BY <1>2, <1>3 DEF PipelineInv

LEMMA PipelineStarts == PipelineInit => PipelineInv
<1> SUFFICES ASSUME PipelineInit PROVE PipelineInv
  OBVIOUS
<1>1. StoreInv /\ ValidInv
  BY InitHolds, ValidInit DEF PipelineInit
<1>2. GateProofs!Init /\ counter = 0
  BY SameGate DEF PipelineInit, Gate!Init
<1>3. GateInvs
  BY <1>2, GateAssumed, GateProofs!GateInit, GateProofs!TermsInit DEF GateInvs
<1>4. AskedFromStore
  BY <1>2 DEF AskedFromStore
<1>5. QED
  BY <1>1, <1>3, <1>4 DEF PipelineInv

LEMMA PipelineInvariant == PipelineSpec => []PipelineInv
BY PipelineStarts, PipelineStep, PTL DEF PipelineSpec

(* The gate of the pipeline is the confirmation gate: every behaviour of   *)
(* the pipeline is one of the gate alone, whatever happens in the store,   *)
(* so all that is proved of the gate holds of it.                          *)
THEOREM PipelineImplementsGate == PipelineSpec => Gate!Spec
<1>1. PipelineInit => Gate!Init
  BY DEF PipelineInit
<1>2. PipelineInv /\ [PipelineNext]_allVars => [Gate!Next]_(Gate!vars)
  BY GateInvsStep DEF PipelineInv
<1>3. QED
  BY <1>1, <1>2, PipelineInvariant, PTL DEF PipelineSpec, Gate!Spec

(* The pipeline implements the abstract one-shot authorisation: whatever   *)
(* rules are loaded meanwhile, what runs is what was asked for, by whom it *)
(* was approved for, once, before the deadline.                            *)
THEOREM PipelineImplementsOneShot == PipelineSpec => GateProofs!ImplementsOneShot
<1>1. PipelineInit => GateProofs!Init
  BY SameGate DEF PipelineInit
<1>2. PipelineInv /\ [PipelineNext]_allVars => [GateProofs!Next]_(GateProofs!vars)
  BY GateInvsStep, SameGate DEF PipelineInv
<1>3. PipelineSpec => GateProofs!Spec
  BY <1>1, <1>2, PipelineInvariant, PTL DEF PipelineSpec, GateProofs!Spec
<1>4. GateProofs!Spec => GateProofs!ImplementsOneShot
  BY GateAssumed, GateProofs!GateImplementsOneShot
<1>5. QED
  BY <1>3, <1>4, PTL

(* Requests and tokens together stay within max_pending.                   *)
THEOREM PipelineCapacity == PipelineSpec => []Capacity
<1>1. PipelineInv => Capacity
  BY SameGate DEF PipelineInv, GateInvs, GateProofs!TermsInv, Capacity
<1>2. QED
  BY <1>1, PipelineInvariant, PTL

(* A plan that runs with no one asked has no intent above level 2, because *)
(* every rule the store can hold was validated to bear the policy of its   *)
(* level (validate_level_policy).                                          *)
THEOREM PipelineNothingSlipsPast == PipelineSpec => []NothingSlipsPast
<1>1. PipelineInv => NothingSlipsPast
  BY NothingSlips DEF PipelineInv
<1>2. QED
  BY <1>1, PipelineInvariant, PTL

(* From the generation in a token the rating its user saw can be made      *)
(* again: a rule set with that generation was in the store, and there was  *)
(* no other.                                                               *)
THEOREM PipelineExecutionsAreReproducible == PipelineSpec => []ExecutionsAreReproducible
<1>1. ASSUME PipelineInv PROVE ExecutionsAreReproducible
  <2> SUFFICES ASSUME NEW n \in DOMAIN log
               PROVE  LET e == log[n]
                          bearers == {j \in DOMAIN installed :
                                        installed[j].generation = e.scope.generation}
                      IN  /\ bearers # {}
                          /\ \A j \in bearers : \E config \in Config :
                                Ratings(installed[j], e, config) = asked[e.id].risks
    BY DEF ExecutionsAreReproducible
  <2> DEFINE e == log[n]
  <2>1. e.id \in 1 .. counter /\ e.scope = asked[e.id]
    BY <1>1 DEF PipelineInv, GateInvs, GateProofs!GateInv, GateProofs!LoggedIds,
                GateProofs!TermsInv, GateProofs!ScopesAsAsked
  <2>2. PICK j \in DOMAIN installed, config \in Config :
               RatedBy(installed[j], asked[e.id], config)
    BY <1>1, <2>1 DEF PipelineInv, AskedFromStore
  <2> HIDE DEF e
  <2>3. /\ installed[j].generation = e.scope.generation
        /\ Ratings(installed[j], e, config) = asked[e.id].risks
    BY <2>1, <2>2 DEF RatedBy, Ratings
  <2>4. ASSUME NEW k \in DOMAIN installed,
               installed[k].generation = e.scope.generation
        PROVE  k = j
    <3>1. installed \in Seq(Snapshots)
      BY <1>1 DEF PipelineInv, StoreInv, StoreTyped
    <3>2. installed[j] \in Snapshots /\ installed[k] \in Snapshots
      BY <3>1
    <3>3. installed[j].generation \in Nat /\ installed[k].generation \in Nat
      BY <3>2, GenerationIsNat
    <3>4. j \in Nat /\ k \in Nat
      BY <3>1
    <3>5. ~(j < k) /\ ~(k < j)
      BY <1>1, <2>3, <2>4, <3>3 DEF PipelineInv, StoreInv, GenerationsRise
    <3>6. QED
      BY <3>4, <3>5
  <2>5. QED
    BY <2>3, <2>4 DEF e
<1>2. QED
  BY <1>1, PipelineInvariant, PTL

-----------------------------------------------------------------------------
(* The approval-token ledger by itself, as lanes and policies use it: any  *)
(* tokens, scopes and people, any bound on uses and time.                  *)
CONSTANTS Token, Scope, MaxUses, Horizon

VARIABLES grants, history

Tokens == INSTANCE ApprovalTokenLedger

(* The use budget needs the type of the grants; together they are          *)
(* inductive.                                                              *)
LedgerInv == Tokens!TypeOK /\ Tokens!UseBudget /\ Tokens!RevokedIsRefused

(* An accepted use was of a granted, unspent grant.                        *)
LEMMA AcceptedUse ==
    ASSUME NEW g \in Tokens!Grant, NEW scope, NEW executor, NEW now,
           Tokens!Validate(g, scope, executor, now) = "ok"
    PROVE  g.status = "granted" /\ g.uses < g.maxUses
BY DEF Tokens!Validate, Tokens!Grant, Tokens!Status, Tokens!Time, Tokens!Never

LEMMA UsedIsGrant ==
    ASSUME Tokens!LedgerBounds, NEW g \in Tokens!Grant, g.uses < g.maxUses
    PROVE  /\ Tokens!Used(g) \in Tokens!Grant
           /\ Tokens!Used(g).uses = g.uses + 1
           /\ Tokens!Used(g).maxUses = g.maxUses
           /\ Tokens!Used(g).status = "granted" => g.uses + 1 < g.maxUses
<1>1. g.uses + 1 \in 0 .. MaxUses
  BY DEF Tokens!LedgerBounds, Tokens!Grant
<1>2. DEFINE u == [g EXCEPT !.uses = g.uses + 1]
<1>3. u \in Tokens!Grant /\ u.uses = g.uses + 1 /\ u.maxUses = g.maxUses
  BY <1>1 DEF Tokens!Grant
<1>4. Tokens!Used(g) = [u EXCEPT !.status = IF g.uses + 1 >= g.maxUses THEN "consumed" ELSE u.status]
  BY DEF Tokens!Used, Tokens!Grant
<1>5. Tokens!Used(g) \in Tokens!Grant
  BY <1>3, <1>4 DEF Tokens!Grant, Tokens!Status
<1>6. Tokens!Used(g).status = "granted" => g.uses + 1 < g.maxUses
  BY <1>1, <1>3, <1>4 DEF Tokens!LedgerBounds, Tokens!Grant, Tokens!Status
<1>7. QED
  BY <1>3, <1>4, <1>5, <1>6 DEF Tokens!Grant

LEMMA LedgerStep ==
    ASSUME Tokens!LedgerBounds, LedgerInv, [Tokens!Next]_(Tokens!vars)
    PROVE  LedgerInv'
<1> USE DEF Tokens!LedgerBounds, LedgerInv, Tokens!TypeOK, Tokens!UseBudget, Tokens!RevokedIsRefused
<1>1. ASSUME NEW t \in Token, NEW g \in Tokens!Grant, g.status \in {"pending", "granted"},
             g.uses = 0, Tokens!Insert(t, g)
      PROVE  LedgerInv'
  BY <1>1 DEF Tokens!Insert, Tokens!Put, Tokens!Grant, Tokens!Use
<1>2. ASSUME NEW t \in Token, Tokens!Remove(t)
      PROVE  LedgerInv'
  BY <1>2 DEF Tokens!Remove, Tokens!Drop
<1>3. ASSUME NEW t \in Token, Tokens!Revoke(t)
      PROVE  LedgerInv'
  <2> DEFINE g == [grants[t] EXCEPT !.status = "revoked"]
             h == [history[t] EXCEPT !.revoked = TRUE]
  <2>1. grants[t] \in Tokens!Grant /\ history[t] \in Tokens!Use
    BY <1>3 DEF Tokens!Revoke
  <2>2. /\ g \in Tokens!Grant /\ g.uses = grants[t].uses
        /\ g.maxUses = grants[t].maxUses /\ g.status = "revoked"
    BY <2>1 DEF Tokens!Grant, Tokens!Status
  <2>3. h \in Tokens!Use /\ h.count = history[t].count
    BY <2>1 DEF Tokens!Use
  <2>4. grants' = [grants EXCEPT ![t] = g] /\ history' = [history EXCEPT ![t] = h]
    BY <1>3 DEF Tokens!Revoke
  <2> HIDE DEF g, h
  <2>5. t \in DOMAIN grants /\ DOMAIN grants' = DOMAIN grants
    BY <1>3, <2>4 DEF Tokens!Revoke
  <2>6. Tokens!TypeOK'
    BY <2>2, <2>3, <2>4, <2>5
  <2>7. ASSUME NEW x \in DOMAIN grants
        PROVE  /\ history'[x].count <= grants'[x].maxUses
               /\ history'[x].count = grants'[x].uses
               /\ grants'[x].status = "granted" => grants'[x].uses < grants'[x].maxUses
               /\ history'[x].revoked => grants'[x].status = "revoked"
    <3>1. CASE x = t
      BY <3>1, <2>2, <2>3, <2>4, <2>5
    <3>2. CASE x # t
      BY <3>2, <2>4, <2>5
    <3>3. QED
      BY <3>1, <3>2
  <2>8. QED
    BY <2>5, <2>6, <2>7
<1>4. ASSUME NEW t \in Token, NEW s \in Scope, NEW e \in Actor, NEW now \in Tokens!Time,
             Tokens!Consume(t, s, e, now)
      PROVE  LedgerInv'
  <2>1. grants[t].status = "granted" /\ grants[t].uses < grants[t].maxUses
    BY <1>4, AcceptedUse DEF Tokens!Consume
  <2>2. /\ Tokens!Used(grants[t]) \in Tokens!Grant
        /\ Tokens!Used(grants[t]).uses = grants[t].uses + 1
        /\ Tokens!Used(grants[t]).maxUses = grants[t].maxUses
        /\ Tokens!Used(grants[t]).status = "granted" => grants[t].uses + 1 < grants[t].maxUses
    BY <1>4, <2>1, UsedIsGrant DEF Tokens!Consume
  <2>3. history[t].count + 1 \in 0 .. MaxUses
    BY <1>4, <2>1 DEF Tokens!Consume, Tokens!Grant, Tokens!Use
  <2>4. QED
    BY <1>4, <2>1, <2>2, <2>3 DEF Tokens!Consume, Tokens!Use, Tokens!Grant
<1>5. CASE UNCHANGED Tokens!vars
  BY <1>5 DEF Tokens!vars
<1>6. ASSUME NEW t \in Token, NEW s \in Scope, NEW a \in Actor, NEW e \in Actor,
             NEW m \in 1 .. MaxUses, NEW x \in Tokens!Time \cup {Tokens!Never},
             NEW st \in {"pending", "granted"}
      PROVE  /\ Tokens!NewGrant(s, a, e, st, x, m) \in Tokens!Grant
             /\ Tokens!NewGrant(s, a, e, st, x, m).status = st
             /\ Tokens!NewGrant(s, a, e, st, x, m).uses = 0
  BY DEF Tokens!NewGrant, Tokens!Grant, Tokens!Status
<1>7. QED
  BY <1>1, <1>2, <1>3, <1>4, <1>5, <1>6 DEF Tokens!Next

(* The ledger hands out at most max_uses acceptances per inserted grant    *)
(* and counts them exactly (ApprovalTokenLedger::consume).                 *)
THEOREM LedgerUseBudget ==
    ASSUME Tokens!LedgerBounds
    PROVE  Tokens!Spec => []Tokens!UseBudget
<1>1. Tokens!Init => LedgerInv
  BY DEF Tokens!Init, LedgerInv, Tokens!TypeOK, Tokens!UseBudget, Tokens!RevokedIsRefused
<1>2. LedgerInv => Tokens!UseBudget
  BY DEF LedgerInv
<1>3. LedgerInv /\ [Tokens!Next]_(Tokens!vars) => LedgerInv'
  BY LedgerStep
<1>4. QED
  BY <1>1, <1>2, <1>3, PTL DEF Tokens!Spec

(* A revoked token is not accepted again, short of a new insertion.        *)
THEOREM LedgerRevokedIsRefused ==
    ASSUME Tokens!LedgerBounds
    PROVE  Tokens!Spec => []Tokens!RevokedIsRefused
<1>1. Tokens!Init => LedgerInv
  BY DEF Tokens!Init, LedgerInv, Tokens!TypeOK, Tokens!UseBudget, Tokens!RevokedIsRefused
<1>2. LedgerInv => Tokens!RevokedIsRefused
  BY DEF LedgerInv
<1>3. LedgerInv /\ [Tokens!Next]_(Tokens!vars) => LedgerInv'
  BY LedgerStep
<1>4. QED
  BY <1>1, <1>2, <1>3, PTL DEF Tokens!Spec
=============================================================================
