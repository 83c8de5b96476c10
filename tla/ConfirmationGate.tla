-------------------------- MODULE ConfirmationGate --------------------------
(***************************************************************************)
(* The confirmation gate of the runtime crate                              *)
(* (rust/crates/runtime/src/safety_confirmation.rs): it turns the level-3  *)
(* intents of a safety report into requests, a decision on a request into  *)
(* a one-shot token, and the token into one execution.                     *)
(*                                                                         *)
(* Every operation takes the time from its caller, so the model lets each  *)
(* call bring any time: clocks that step back are included.  Hashes are    *)
(* injective: a scope is the record of what is hashed into it, and a       *)
(* request id, which hashes the request counter, is the counter itself.  A *)
(* token hashes the request id with a nonce, and a request is approved at  *)
(* most once, so a token is named by the request it was minted for.        *)
(***************************************************************************)
EXTENDS Naturals, Sequences, FiniteSets

CONSTANTS
    Session,            \* session ids that pass validate_session
    Actor,              \* authenticated actors and executors
    Report,             \* safety reports a caller may present
    MaxRequestItems,    \* MAX_REQUEST_ITEMS
    MaxPending,         \* config.max_pending
    Ttl,                \* config.ttl_seconds
    U64Max              \* u64::MAX, for the counter and for epoch seconds

(* Of a report the gate reads the plan (input_summary_hash and intents),   *)
(* the rule generation, the orders of its L3-confirm intents in report     *)
(* order (l3_confirm_orders), the risk record of each of them, and whether *)
(* any intent or the whole is denied.                                      *)
ReportFields == {"plan", "generation", "confirm", "risk", "denied"}

ASSUME GateAssumption ==
    /\ MaxRequestItems \in Nat
    /\ MaxPending \in Nat \ {0}
    /\ Ttl \in Nat \ {0}
    /\ U64Max \in Nat
    /\ \A r \in Report :
          /\ DOMAIN r = ReportFields
          /\ r.confirm \in Seq(Nat)
          /\ \A k \in DOMAIN r.confirm : r.confirm[k] \in DOMAIN r.risk
          /\ r.denied \in BOOLEAN

VARIABLES
    pending,    \* request id -> [scope, expires]
    issued,     \* token -> [actor, executor, expires]
    ledger,     \* the ApprovalTokenLedger: token -> grant
    counter,    \* requests built so far
    asked,      \* observation: what each request built showed its user
    log         \* observation: the executions `consume` let through

vars == <<pending, issued, ledger, counter, asked, log>>

Mode == {"per_item", "batch"}

Time == 0 .. U64Max

Id == 1 .. U64Max

Risk == UNION {{r.risk[o] : o \in DOMAIN r.risk} : r \in Report}

Scope ==
    [session: Session, mode: Mode, plan: {r.plan : r \in Report},
     generation: {r.generation : r \in Report}, orders: Seq(Nat), risks: Seq(Risk)]

Ledger == INSTANCE ApprovalTokenLedger
            WITH Token <- Id, MaxUses <- 1, Horizon <- U64Max, grants <- ledger,
                 history <- [t \in DOMAIN ledger |->
                               [count |-> ledger[t].uses, revoked |-> FALSE]]

-----------------------------------------------------------------------------
(* What a user is shown, and what a caller is about to run, as opposed to  *)
(* what the code compares.                                                 *)
Shown(s, r, mode, orders) ==
    [session |-> s, mode |-> mode, plan |-> r.plan, generation |-> r.generation,
     orders |-> orders, risks |-> [k \in DOMAIN orders |-> r.risk[orders[k]]]]

(* Mutant of ScopeFor: the rule generation is left out of the hash.        *)
ScopeForAnyGeneration(s, r, mode, orders) ==
    [session |-> s, mode |-> mode, plan |-> r.plan, orders |-> orders,
     risks |-> [k \in DOMAIN orders |-> r.risk[orders[k]]]]

(* `confirmation_binding_hash`: what a token is bound to.                  *)
ScopeFor(s, r, mode, orders) ==
    [session |-> s, mode |-> mode, plan |-> r.plan, generation |-> r.generation,
     orders |-> orders, risks |-> [k \in DOMAIN orders |-> r.risk[orders[k]]]]

(* `validate_orders`: only L3-confirm intents, and in batch mode all of    *)
(* them, in order.                                                         *)
ValidOrders(r, mode, orders) ==
    /\ orders # <<>>
    /\ \A k \in DOMAIN orders : \E j \in DOMAIN r.confirm : orders[k] = r.confirm[j]
    /\ mode = "batch" => orders = r.confirm

(* The entries of a map `clear_expired` keeps.                             *)
Live(f, now) == [k \in {x \in DOMAIN f : now < f[x].expires} |-> f[k]]

(* Mutant of LiveLedger: only `issued` is swept.                           *)
LiveLedgerUnswept(now) == ledger

(* ... and the ledger without the tokens it expires.                       *)
LiveLedger(now) ==
    Ledger!Drop(ledger, {t \in DOMAIN issued : now >= issued[t].expires})

Needed(r, mode) == IF mode = "batch" THEN 1 ELSE Len(r.confirm)

(* The orders the k-th request of a call asks for.                         *)
OrdersOf(r, mode, k) == IF mode = "batch" THEN r.confirm ELSE <<r.confirm[k]>>

(* Mutant of HasRoom: the tokens already out are not counted.              *)
HasRoomBesideTokens(r, mode, now) ==
    Cardinality(DOMAIN Live(pending, now)) + Needed(r, mode) <= MaxPending

(* The pending limit, after the sweep.                                     *)
HasRoom(r, mode, now) ==
    Cardinality(DOMAIN Live(pending, now)) + Cardinality(DOMAIN Live(issued, now))
        + Needed(r, mode) <= MaxPending

(* The deadline overflow the first `build_request` may run into.           *)
DeadlineFits(now) == now + Ttl <= U64Max

(* The checks of `require_confirmation` before it builds any request.      *)
Admits(r, mode, rollbackOk, now) ==
    /\ ~r.denied
    /\ r.confirm # <<>>
    /\ Len(r.confirm) <= MaxRequestItems
    /\ counter + Needed(r, mode) <= U64Max
    /\ HasRoom(r, mode, now)
    /\ rollbackOk
    /\ DeadlineFits(now)

-----------------------------------------------------------------------------
Init ==
    /\ pending = [id \in {} |-> 0]
    /\ issued = [t \in {} |-> 0]
    /\ ledger = [t \in {} |-> 0]
    /\ counter = 0
    /\ asked = <<>>
    /\ log = <<>>

(* The removals every operation that sweeps makes on the token side.       *)
SweepTokens(now) ==
    /\ issued' = Live(issued, now)
    /\ ledger' = LiveLedger(now)

(* `require_confirmation` that answers Required: one request per L3 intent *)
(* or one for the batch.                                                   *)
Require(s, r, mode, rollbackOk, now) ==
    /\ Admits(r, mode, rollbackOk, now)
    /\ SweepTokens(now)
    /\ LET swept == Live(pending, now)
           new   == counter + 1 .. counter + Needed(r, mode)
       IN  pending' = [id \in DOMAIN swept \cup new |->
                         IF id \in new
                           THEN [scope |-> ScopeFor(s, r, mode,
                                                    OrdersOf(r, mode, id - counter)),
                                 expires |-> now + Ttl]
                           ELSE swept[id]]
    /\ counter' = counter + Needed(r, mode)
    /\ asked' = asked \o [k \in 1 .. Needed(r, mode) |->
                             Shown(s, r, mode, OrdersOf(r, mode, k))]
    /\ UNCHANGED log

(* `require_confirmation` that answers Rejected, NotRequired or an error   *)
(* to a call with one of `reports`.                                        *)
RefuseRequire(reports, now) ==
    /\ ~\A r \in reports, mode \in Mode, rollbackOk \in BOOLEAN :
           Admits(r, mode, rollbackOk, now)
    /\ SweepTokens(now)
    /\ pending' = Live(pending, now)
    /\ UNCHANGED <<counter, asked, log>>

(* `decide` on a request that has expired removes that request only.       *)
DecideExpired(id, now) ==
    /\ id \in DOMAIN pending
    /\ now >= pending[id].expires
    /\ pending' = Ledger!Drop(pending, {id})
    /\ UNCHANGED <<issued, ledger, counter, asked, log>>

(* `decide` on an unknown request, or one for which no nonce could be      *)
(* drawn: the sweep has happened, the request (if any) is still pending.   *)
DecideFails(id, now) ==
    /\ id \in DOMAIN pending => now < pending[id].expires
    /\ SweepTokens(now)
    /\ pending' = Live(pending, now)
    /\ UNCHANGED <<counter, asked, log>>

Deny(id, now) ==
    /\ id \in DOMAIN pending
    /\ now < pending[id].expires
    /\ SweepTokens(now)
    /\ pending' = Ledger!Drop(Live(pending, now), {id})
    /\ UNCHANGED <<counter, asked, log>>

(* `decide` with AllowOnce: the request becomes a token with the request's *)
(* own deadline.                                                           *)
AllowOnce(id, actor, executor, now) ==
    /\ id \in DOMAIN pending
    /\ now < pending[id].expires
    /\ pending' = Ledger!Drop(Live(pending, now), {id})
    /\ issued' = Ledger!Put(Live(issued, now), id,
                            [actor |-> actor, executor |-> executor,
                             expires |-> pending[id].expires])
    /\ ledger' = Ledger!Put(LiveLedger(now), id,
                            Ledger!NewGrant(pending[id].scope, actor, executor,
                                            "granted", pending[id].expires, 1))
    /\ UNCHANGED <<counter, asked, log>>

(* The checks `consume` makes before it looks at the token's deadline: the *)
(* risks of the intents that were not to be confirmed are no part of what  *)
(* a token is bound to, so the report is looked at again.                  *)
Presented(t, r) == ~r.denied /\ t \in DOMAIN issued

(* The orders `consume` binds: the caller's one order in per-item mode     *)
(* (`order` is its Option, empty or a singleton), the report's in batch.   *)
ConsumedOrders(r, mode, order) == IF mode = "batch" THEN r.confirm ELSE order

MatchesToken(t, r, mode, order, actor, executor) ==
    /\ issued[t].actor = actor
    /\ issued[t].executor = executor
    /\ mode = "batch" => order = <<>>
    /\ ValidOrders(r, mode, ConsumedOrders(r, mode, order))

LedgerAnswer(t, s, r, mode, order, executor, now) ==
    IF t \in DOMAIN ledger
      THEN Ledger!Validate(ledger[t],
                           ScopeFor(s, r, mode, ConsumedOrders(r, mode, order)),
                           executor, now)
      ELSE "no_approval"

(* Mutant of DropToken: a used token is left in place.                     *)
KeepToken(t) == UNCHANGED <<pending, issued, ledger, counter, asked>>

DropToken(t) ==
    /\ issued' = Ledger!Drop(issued, {t})
    /\ ledger' = Ledger!Drop(ledger, {t})
    /\ UNCHANGED <<pending, counter, asked>>

(* `consume` that lets the execution through.                              *)
Consume(t, s, r, mode, order, actor, executor, now) ==
    /\ Presented(t, r)
    /\ now < issued[t].expires
    /\ MatchesToken(t, r, mode, order, actor, executor)
    /\ LedgerAnswer(t, s, r, mode, order, executor, now) = "ok"
    /\ DropToken(t)
    /\ log' = Append(log, [id |-> t,
                           scope |-> Shown(s, r, mode, ConsumedOrders(r, mode, order)),
                           actor |-> actor, executor |-> executor, at |-> now])

(* The caller's Option<usize>: none, or one of the orders reports use.     *)
ConfirmOrders == UNION {{r.confirm[k] : k \in DOMAIN r.confirm} : r \in Report}

OrderOption == {<<>>} \cup {<<o>> : o \in ConfirmOrders}

(* The tokens some call of `consume` with one of `reports` finds expired,  *)
(* or, by the ledger, spent.                                               *)
FoundExpired(reports, now) ==
    {t \in DOMAIN issued :
        \E s \in Session, r \in reports, mode \in Mode, order \in OrderOption,
           actor, executor \in Actor :
              /\ Presented(t, r)
              /\ \/ now >= issued[t].expires
                 \/ /\ MatchesToken(t, r, mode, order, actor, executor)
                    /\ LedgerAnswer(t, s, r, mode, order, executor, now)
                          \in {"expired", "consumed"}}

(* ... are taken away by it.  Every other refusal leaves the gate as it    *)
(* was.                                                                    *)
ConsumeExpired(t, reports, now) ==
    /\ t \in FoundExpired(reports, now)
    /\ DropToken(t)
    /\ UNCHANGED log

Next ==
    \E now \in Time :
       \/ \E r \in Report, mode \in Mode, rollbackOk \in BOOLEAN, s \in Session :
             Require(s, r, mode, rollbackOk, now)
       \/ RefuseRequire(Report, now)
       \/ \E id \in Id :
             \/ DecideExpired(id, now)
             \/ DecideFails(id, now)
             \/ Deny(id, now)
             \/ \E actor, executor \in Actor : AllowOnce(id, actor, executor, now)
       \/ \E t \in DOMAIN issued :
             \/ \E s \in Session, r \in Report, mode \in Mode, order \in OrderOption,
                   actor, executor \in Actor :
                   Consume(t, s, r, mode, order, actor, executor, now)
             \/ ConsumeExpired(t, Report, now)

Spec == Init /\ [][Next]_vars

-----------------------------------------------------------------------------
PendingConfirmation == [scope: Scope, expires: Time]

IssuedConfirmation == [actor: Actor, executor: Actor, expires: Time]

Execution == [id: Id, scope: Scope, actor: Actor, executor: Actor, at: Time]

(* Type invariant of the gate's maps and of the execution log.             *)
TypeOK ==
    /\ counter \in 0 .. U64Max
    /\ DOMAIN pending \subseteq 1 .. counter
    /\ pending \in [DOMAIN pending -> PendingConfirmation]
    /\ DOMAIN issued \subseteq 1 .. counter
    /\ issued \in [DOMAIN issued -> IssuedConfirmation]
    /\ DOMAIN ledger \subseteq 1 .. counter
    /\ ledger \in [DOMAIN ledger -> Ledger!Grant]
    /\ asked \in Seq(Scope)
    /\ Len(asked) = counter
    /\ log \in Seq(Execution)

(* The two token maps never drift apart, whatever sweeps and expiries have *)
(* removed: a token is in `issued` exactly when the ledger has an unspent  *)
(* grant for it, on the same people and with the same deadline.            *)
TokensMirrorLedger ==
    /\ DOMAIN ledger = DOMAIN issued
    /\ \A t \in DOMAIN issued :
          /\ ledger[t].status = "granted"
          /\ ledger[t].uses = 0
          /\ ledger[t].approver = issued[t].actor
          /\ ledger[t].executor = issued[t].executor
          /\ ledger[t].expires = issued[t].expires

(* Requests waiting and tokens out together stay within max_pending, also  *)
(* when a per-item call asks for several at once                           *)
(* (require_confirmation, safety_confirmation.rs:373).                     *)
Capacity ==
    Cardinality(DOMAIN pending) + Cardinality(DOMAIN issued) <= MaxPending

(* A request that has been used is neither waiting nor approved again, and *)
(* no request is used twice: one confirmation, one execution.              *)
OneExecutionPerRequest ==
    /\ \A j, k \in DOMAIN log : log[j].id = log[k].id => j = k
    /\ \A k \in DOMAIN log : log[k].id \notin DOMAIN pending \cup DOMAIN issued
    /\ DOMAIN pending \cap DOMAIN issued = {}

-----------------------------------------------------------------------------
(* The gate as the abstract authorisation: where every request ever built  *)
(* stands.                                                                 *)
Book ==
    [id \in 1 .. counter |->
        CASE id \in DOMAIN pending ->
               [phase |-> "asked", scope |-> asked[id],
                deadline |-> pending[id].expires]
          [] id \in DOMAIN issued ->
               [phase |-> "approved", scope |-> asked[id],
                deadline |-> issued[id].expires, actor |-> issued[id].actor,
                executor |-> issued[id].executor]
          [] \E k \in DOMAIN log : log[k].id = id -> [phase |-> "used"]
          [] OTHER -> [phase |-> "dropped"]]

OneShot == INSTANCE OneShotAuthorization WITH book <- Book

(* The gate implements the abstract authorisation: a token runs only what  *)
(* was asked for, by who was approved, once, and before the deadline fixed *)
(* when it was asked; nothing dropped, denied or used ever comes back.     *)
ImplementsOneShot == OneShot!Spec
=============================================================================
