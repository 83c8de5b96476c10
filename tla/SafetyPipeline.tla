--------------------------- MODULE SafetyPipeline ---------------------------
(***************************************************************************)
(* The three safety components together: the rule store, the analyses that *)
(* read it, and the confirmation gate their reports go to.  The store and  *)
(* the gate never call each other: what ties an execution to the rules it  *)
(* was confirmed under is the generation number a report carries.  A       *)
(* caller may hold on to a report while the rules are replaced.            *)
(*                                                                         *)
(* Of a risk record the gate's hash sees more than is kept here (score,    *)
(* factors, matched rules), so this gate accepts more than the code does.  *)
(***************************************************************************)
EXTENDS SafetyRules

CONSTANTS Session, Actor, MaxRequestItems, MaxPending, Ttl, U64Max

ASSUME PipelineAssumption ==
    /\ MaxRequestItems \in Nat
    /\ MaxPending \in Nat \ {0}
    /\ Ttl \in Nat \ {0}
    /\ U64Max \in Nat

VARIABLES pending, issued, ledger, counter, asked, log

gateVars == <<pending, issued, ledger, counter, asked, log>>

allVars == <<vars, gateVars>>

(* `l3_confirm_orders` of a report, in report order; intents are numbered  *)
(* from 0.                                                                 *)
ConfirmOrders(r) ==
    LET orders == {k - 1 : k \in {j \in DOMAIN r.plan :
                                     r.risks[j] = [level |-> 3, policy |-> "confirm"]}}
    IN  CHOOSE s \in [1 .. Cardinality(orders) -> orders] :
            \A j, k \in DOMAIN s : j < k => s[j] < s[k]

(* `has_l4`, and the overall rating the gate looks at beside it.           *)
Denied(r) ==
    \/ \E k \in DOMAIN r.risks : r.risks[k].level = 4 \/ r.risks[k].policy = "deny"
    \/ r.overall.policy = "deny"
    \/ r.overall.level = 4

(* A report as the gate reads it.                                          *)
GateReport(r) ==
    [plan       |-> r.plan,
     generation |-> r.generation,
     confirm    |-> ConfirmOrders(r),
     risk       |-> [o \in {k - 1 : k \in DOMAIN r.plan} |-> r.risks[o + 1]],
     denied     |-> Denied(r)]

Snapshots == {BuiltinSnapshot} \cup {SnapshotOf(f) : f \in RuleFile}

Analyses == {Analysis(s, p, c) : s \in Snapshots, p \in Plan, c \in Config}

GateReports == {GateReport(a) : a \in Analyses}

Gate == INSTANCE ConfirmationGate WITH Report <- GateReports

-----------------------------------------------------------------------------
PipelineInit == Init /\ Gate!Init

RulesNext == Next /\ UNCHANGED gateVars

(* The gate's operations, on the reports analyses have answered.           *)
GateNext ==
    /\ UNCHANGED vars
    /\ \E now \in Gate!Time, answers \in {{GateReport(a) : a \in Answered}} :
          \/ \E r \in answers, mode \in Gate!Mode, s \in Session :
                \/ Gate!Require(s, r, mode, TRUE, now)
                \/ \E t \in DOMAIN issued, order \in Gate!OrderOption,
                      actor, executor \in Actor :
                      Gate!Consume(t, s, r, mode, order, actor, executor, now)
          \/ Gate!RefuseRequire(answers, now)
          \/ \E t \in DOMAIN issued : Gate!ConsumeExpired(t, answers, now)
          \/ \E id \in DOMAIN pending :
                \/ Gate!DecideExpired(id, now)
                \/ Gate!DecideFails(id, now)
                \/ Gate!Deny(id, now)
                \/ \E actor, executor \in Actor : Gate!AllowOnce(id, actor, executor, now)

PipelineNext == RulesNext \/ GateNext

PipelineSpec == PipelineInit /\ [][PipelineNext]_allVars

-----------------------------------------------------------------------------
(* What a rule set rates the intents of an execution, under a              *)
(* configuration.                                                          *)
Ratings(snap, e, config) ==
    [k \in DOMAIN e.scope.orders |->
        Risk(snap.rules, config, e.scope.plan[e.scope.orders[k] + 1])]

(* The rules an execution ran under can be told from its token: some rule  *)
(* set with the generation in its scope was in the store, and every one    *)
(* with that generation rates its intents, under some configuration, as    *)
(* the user was shown them.  The store knows nothing of tokens and the     *)
(* gate nothing of the store (replay of a rating from its generation,      *)
(* docs/requirements-4.3-safety-intent-plan.md:78).                        *)
ExecutionsAreReproducible ==
    \A e \in {log[k] : k \in DOMAIN log} :
        LET bearers == {j \in DOMAIN installed :
                          installed[j].generation = e.scope.generation}
        IN  /\ bearers # {}
            /\ \A j \in bearers : \E config \in Config :
                  Ratings(installed[j], e, config) = asked[e.id].risks

(* A plan the gate answers NotRequired for, and that therefore runs with   *)
(* no one asked, has no intent above level 2: level 3 and the confirm      *)
(* policy never come apart (require_confirmation,                          *)
(* safety_confirmation.rs:354).                                            *)
NothingSlipsPast ==
    \A r \in Answered :
        ~Denied(r) /\ ConfirmOrders(r) = <<>> => \A k \in DOMAIN r.risks : r.risks[k].level <= 2

(* Requests waiting and tokens out together stay within max_pending,       *)
(* however many requests a call asks for at once                           *)
(* (require_confirmation, safety_confirmation.rs:373).                     *)
Capacity == Gate!Capacity
=============================================================================
