----------------------- MODULE ConfirmationGateProofs -----------------------
(***************************************************************************)
(* Proofs about the confirmation gate, for every set of sessions, people   *)
(* and reports, every limit and every time to live.                        *)
(***************************************************************************)
EXTENDS ConfirmationGate, SequenceTheorems, FiniteSetTheorems, TLAPS

(* TypeOK in two halves: the maps, each of them a function to its record   *)
(* type over requests that were built, and the logs.                       *)
Maps ==
    /\ counter \in 0 .. U64Max
    /\ pending \in [DOMAIN pending -> PendingConfirmation]
    /\ issued \in [DOMAIN issued -> IssuedConfirmation]
    /\ ledger \in [DOMAIN ledger -> Ledger!Grant]
    /\ DOMAIN pending \subseteq 1 .. counter
    /\ DOMAIN issued \subseteq 1 .. counter
    /\ DOMAIN ledger \subseteq 1 .. counter

Logs ==
    /\ asked \in Seq(Scope)
    /\ Len(asked) = counter
    /\ log \in Seq(Execution)

(* Executions bear the numbers of requests that were built, so a request   *)
(* built later cannot meet one.                                            *)
LoggedIds == \A k \in DOMAIN log : log[k].id \in 1 .. counter

GateInv == Maps /\ Logs /\ TokensMirrorLedger /\ LoggedIds /\ OneExecutionPerRequest

-----------------------------------------------------------------------------
LEMMA LiveKeeps ==
    ASSUME NEW f, NEW S, NEW now, f \in [DOMAIN f -> S]
    PROVE  /\ Live(f, now) \in [DOMAIN Live(f, now) -> S]
           /\ DOMAIN Live(f, now) = {x \in DOMAIN f : now < f[x].expires}
           /\ \A k \in DOMAIN Live(f, now) : Live(f, now)[k] = f[k]
BY DEF Live

(* The sweep leaves the two token maps in step.                            *)
LEMMA SweepMirrors ==
    ASSUME Maps, TokensMirrorLedger, NEW now \in Time
    PROVE  LET i == Live(issued, now)
               l == LiveLedger(now)
           IN  /\ i \in [DOMAIN i -> IssuedConfirmation]
               /\ l \in [DOMAIN l -> Ledger!Grant]
               /\ DOMAIN i \subseteq DOMAIN issued
               /\ DOMAIN l = DOMAIN i
               /\ \A t \in DOMAIN i : i[t] = issued[t] /\ l[t] = ledger[t]
<1> DEFINE E == {t \in DOMAIN issued : now >= issued[t].expires}
<1>1. \A t \in DOMAIN issued : issued[t].expires \in Nat /\ now \in Nat
  <2>1. \A t \in DOMAIN issued : issued[t] \in IssuedConfirmation
    BY DEF Maps
  <2>2. QED
    BY <2>1, GateAssumption DEF IssuedConfirmation, Time
<1>2. /\ Live(issued, now) \in [DOMAIN Live(issued, now) -> IssuedConfirmation]
      /\ DOMAIN Live(issued, now) = {x \in DOMAIN issued : now < issued[x].expires}
      /\ \A k \in DOMAIN Live(issued, now) : Live(issued, now)[k] = issued[k]
  <2>1. issued \in [DOMAIN issued -> IssuedConfirmation]
    BY DEF Maps
  <2>2. QED
    BY <2>1, LiveKeeps
<1>3. /\ LiveLedger(now) \in [DOMAIN LiveLedger(now) -> Ledger!Grant]
      /\ DOMAIN LiveLedger(now) = DOMAIN ledger \ E
      /\ \A k \in DOMAIN LiveLedger(now) : LiveLedger(now)[k] = ledger[k]
  <2>1. ledger \in [DOMAIN ledger -> Ledger!Grant]
    BY DEF Maps
  <2> HIDE DEF E
  <2>2. /\ Ledger!Drop(ledger, E) \in [DOMAIN Ledger!Drop(ledger, E) -> Ledger!Grant]
        /\ DOMAIN Ledger!Drop(ledger, E) = DOMAIN ledger \ E
        /\ \A k \in DOMAIN Ledger!Drop(ledger, E) : Ledger!Drop(ledger, E)[k] = ledger[k]
    BY <2>1 DEF Ledger!Drop
  <2>3. LiveLedger(now) = Ledger!Drop(ledger, E)
    BY DEF LiveLedger, E
  <2>4. QED
    BY <2>2, <2>3
<1>4. DOMAIN ledger \ E = {x \in DOMAIN issued : now < issued[x].expires}
  BY <1>1 DEF TokensMirrorLedger
<1>5. QED
  BY <1>2, <1>3, <1>4

-----------------------------------------------------------------------------
(* A step that at most takes entries away, from `pending` and, in step,    *)
(* from the two token maps.                                                *)
PendingShrinks ==
    /\ pending' \in [DOMAIN pending' -> PendingConfirmation]
    /\ DOMAIN pending' \subseteq DOMAIN pending
    /\ \A id \in DOMAIN pending' : pending'[id] = pending[id]

TokensShrink ==
    /\ issued' \in [DOMAIN issued' -> IssuedConfirmation]
    /\ ledger' \in [DOMAIN ledger' -> Ledger!Grant]
    /\ DOMAIN issued' \subseteq DOMAIN issued
    /\ DOMAIN ledger' = DOMAIN issued'
    /\ \A t \in DOMAIN issued' : issued'[t] = issued[t] /\ ledger'[t] = ledger[t]

LEMMA ShrinkingKeepsMaps ==
    ASSUME Maps, TokensMirrorLedger, PendingShrinks, TokensShrink, counter' = counter
    PROVE  Maps' /\ TokensMirrorLedger'
<1>1. Maps'
  BY DEF Maps, PendingShrinks, TokensShrink
<1>2. TokensMirrorLedger'
  BY DEF TokensMirrorLedger, TokensShrink
<1>3. QED
  BY <1>1, <1>2

LEMMA ShrinkingStep ==
    ASSUME GateInv, PendingShrinks, TokensShrink, UNCHANGED <<counter, asked, log>>
    PROVE  GateInv'
<1>1. Maps' /\ TokensMirrorLedger'
  BY ShrinkingKeepsMaps DEF GateInv
<1>2. Logs' /\ LoggedIds'
  BY DEF GateInv, Logs, LoggedIds
<1>3. OneExecutionPerRequest'
  BY DEF GateInv, OneExecutionPerRequest, PendingShrinks, TokensShrink
<1>4. QED
  BY <1>1, <1>2, <1>3 DEF GateInv

LEMMA SweepShrinks ==
    ASSUME Maps, TokensMirrorLedger, NEW now \in Time, SweepTokens(now)
    PROVE  TokensShrink
BY SweepMirrors DEF SweepTokens, TokensShrink

LEMMA PendingSweepShrinks ==
    ASSUME Maps, NEW now, pending' = Live(pending, now)
    PROVE  PendingShrinks
<1>1. pending \in [DOMAIN pending -> PendingConfirmation]
  BY DEF Maps
<1>2. QED
  BY <1>1 DEF PendingShrinks, Live

LEMMA PendingDropShrinks ==
    ASSUME Maps, NEW id, NEW now,
           \/ pending' = Ledger!Drop(pending, {id})
           \/ pending' = Ledger!Drop(Live(pending, now), {id})
    PROVE  PendingShrinks /\ id \notin DOMAIN pending'
<1>1. pending \in [DOMAIN pending -> PendingConfirmation]
  BY DEF Maps
<1>2. CASE pending' = Ledger!Drop(pending, {id})
  BY <1>1, <1>2 DEF PendingShrinks, Ledger!Drop
<1>3. CASE pending' = Ledger!Drop(Live(pending, now), {id})
  <2>1. /\ Live(pending, now) \in [DOMAIN Live(pending, now) -> PendingConfirmation]
        /\ DOMAIN Live(pending, now) \subseteq DOMAIN pending
        /\ \A k \in DOMAIN Live(pending, now) : Live(pending, now)[k] = pending[k]
    BY <1>1 DEF Live
  <2> HIDE DEF Live
  <2>2. QED
    BY <1>3, <2>1 DEF PendingShrinks, Ledger!Drop
<1>4. QED
  BY <1>2, <1>3

LEMMA DropTokenShrinks ==
    ASSUME Maps, TokensMirrorLedger, NEW t, DropToken(t)
    PROVE  TokensShrink /\ PendingShrinks /\ t \notin DOMAIN issued'
<1>1. /\ issued \in [DOMAIN issued -> IssuedConfirmation]
      /\ ledger \in [DOMAIN ledger -> Ledger!Grant]
      /\ pending \in [DOMAIN pending -> PendingConfirmation]
  BY DEF Maps
<1>2. DOMAIN ledger = DOMAIN issued
  BY DEF TokensMirrorLedger
<1>3. issued' = Ledger!Drop(issued, {t}) /\ ledger' = Ledger!Drop(ledger, {t})
  BY DEF DropToken
<1>4. TokensShrink /\ t \notin DOMAIN issued'
  BY <1>1, <1>2, <1>3 DEF TokensShrink, Ledger!Drop
<1>5. PendingShrinks
  BY <1>1 DEF DropToken, PendingShrinks
<1>6. QED
  BY <1>4, <1>5

-----------------------------------------------------------------------------
(* Orders a report has a risk record for make a scope.                     *)
Bindable(r, orders) ==
    orders \in Seq(Nat) /\ \A k \in DOMAIN orders : orders[k] \in DOMAIN r.risk

LEMMA BindableScope ==
    ASSUME NEW s \in Session, NEW r \in Report, NEW mode \in Mode, NEW orders,
           Bindable(r, orders)
    PROVE  ScopeFor(s, r, mode, orders) \in Scope /\ Shown(s, r, mode, orders) \in Scope
<1> DEFINE risks == [k \in DOMAIN orders |-> r.risk[orders[k]]]
<1>1. \A k \in DOMAIN orders : risks[k] \in Risk
  BY DEF Bindable, Risk
<1>2. risks \in Seq(Risk)
  <2>1. DOMAIN orders = 1 .. Len(orders) /\ Len(orders) \in Nat
    BY DEF Bindable
  <2> HIDE DEF Risk
  <2>2. risks \in [1 .. Len(orders) -> Risk]
    BY <1>1, <2>1
  <2> HIDE DEF risks
  <2>3. QED
    BY <2>1, <2>2
<1> HIDE DEF risks, Risk
<1>3. QED
  BY <1>2 DEF ScopeFor, Shown, Scope, Bindable, risks

LEMMA ConfirmBindable ==
    ASSUME NEW r \in Report
    PROVE  /\ Bindable(r, r.confirm)
           /\ \A k \in DOMAIN r.confirm : Bindable(r, <<r.confirm[k]>>)
<1>1. r.confirm \in Seq(Nat) /\ \A k \in DOMAIN r.confirm : r.confirm[k] \in DOMAIN r.risk
  BY GateAssumption
<1>2. QED
  BY <1>1 DEF Bindable

(* The requests a call builds carry scopes, and the call has one for each. *)
LEMMA NewScopes ==
    ASSUME NEW s \in Session, NEW r \in Report, NEW mode \in Mode, r.confirm # <<>>
    PROVE  /\ Needed(r, mode) \in Nat \ {0}
           /\ \A k \in 1 .. Needed(r, mode) :
                 /\ ScopeFor(s, r, mode, OrdersOf(r, mode, k)) \in Scope
                 /\ Shown(s, r, mode, OrdersOf(r, mode, k)) \in Scope
<1>1. /\ r.confirm \in Seq(Nat) /\ Len(r.confirm) \in Nat \ {0}
      /\ DOMAIN r.confirm = 1 .. Len(r.confirm)
  BY GateAssumption
<1>2. Needed(r, mode) \in Nat \ {0}
  BY <1>1 DEF Needed
<1>3. ASSUME NEW k \in 1 .. Needed(r, mode)
      PROVE  Bindable(r, OrdersOf(r, mode, k))
  BY <1>1, <1>3, ConfirmBindable DEF OrdersOf, Needed
<1>4. QED
  BY <1>2, <1>3, BindableScope

LEMMA RequireStep ==
    ASSUME GateInv, NEW s \in Session, NEW r \in Report, NEW mode \in Mode,
           NEW rollbackOk \in BOOLEAN, NEW now \in Time,
           Require(s, r, mode, rollbackOk, now)
    PROVE  GateInv'
<1> DEFINE n     == Needed(r, mode)
           new   == counter + 1 .. counter + n
           swept == Live(pending, now)
           Entry(id) == [scope |-> ScopeFor(s, r, mode, OrdersOf(r, mode, id - counter)),
                         expires |-> now + Ttl]
           shown == [k \in 1 .. n |-> Shown(s, r, mode, OrdersOf(r, mode, k))]
<1>1. /\ r.confirm # <<>> /\ counter + n <= U64Max /\ now + Ttl <= U64Max
      /\ SweepTokens(now) /\ counter' = counter + n
      /\ pending' = [id \in DOMAIN swept \cup new |->
                        IF id \in new THEN Entry(id) ELSE swept[id]]
      /\ asked' = asked \o shown /\ log' = log
  BY DEF Require, Admits, DeadlineFits
<1>2. /\ n \in Nat \ {0} /\ counter \in Nat /\ counter' \in 0 .. U64Max
      /\ now + Ttl \in Time
  BY <1>1, NewScopes, GateAssumption DEF GateInv, Maps, Time
<1>3. /\ swept \in [DOMAIN swept -> PendingConfirmation]
      /\ DOMAIN swept \subseteq DOMAIN pending
  <2>1. pending \in [DOMAIN pending -> PendingConfirmation]
    BY DEF GateInv, Maps
  <2>2. QED
    BY <2>1 DEF Live
<1>4. \A id \in new : Entry(id) \in PendingConfirmation
  <2>1. ASSUME NEW id \in new
        PROVE  id - counter \in 1 .. n
    BY <1>2
  <2>2. QED
    BY <1>1, <1>2, <2>1, NewScopes DEF PendingConfirmation
<1>5. TokensShrink
  BY <1>1, SweepShrinks DEF GateInv
<1> HIDE DEF n, Entry, swept, shown
<1>6. /\ pending' \in [DOMAIN pending' -> PendingConfirmation]
      /\ DOMAIN pending' = DOMAIN swept \cup new
  BY <1>1, <1>3, <1>4
<1>7. Maps'
  <2>1. DOMAIN pending' \subseteq 1 .. counter'
    BY <1>1, <1>2, <1>3, <1>6 DEF GateInv, Maps
  <2>2. DOMAIN issued' \subseteq 1 .. counter' /\ DOMAIN ledger' \subseteq 1 .. counter'
    BY <1>1, <1>2, <1>5 DEF GateInv, Maps, TokensShrink
  <2>3. QED
    BY <1>2, <1>5, <1>6, <2>1, <2>2 DEF Maps, TokensShrink
<1>8. TokensMirrorLedger'
  BY <1>5 DEF GateInv, TokensMirrorLedger, TokensShrink
<1>9. Logs'
  <2>1. shown \in Seq(Scope) /\ Len(shown) = n
    BY <1>1, <1>2, NewScopes DEF shown, n
  <2>2. asked \in Seq(Scope) /\ Len(asked) = counter
    BY DEF GateInv, Logs
  <2>3. asked' \in Seq(Scope) /\ Len(asked') = counter'
    BY <1>1, <2>1, <2>2, ConcatProperties
  <2>4. QED
    BY <1>1, <2>3 DEF GateInv, Logs
<1>10. LoggedIds'
  BY <1>1, <1>2 DEF GateInv, LoggedIds
<1>11. OneExecutionPerRequest'
  <2>1. \A id \in new : id > counter
    BY <1>2
  <2>2. \A k \in DOMAIN log : log[k].id \notin new
    BY <1>2, <2>1 DEF GateInv, LoggedIds
  <2>3. \A t \in DOMAIN issued : t \notin new
    BY <1>2, <2>1 DEF GateInv, Maps
  <2>4. QED
    BY <1>1, <1>3, <1>5, <1>6, <2>2, <2>3
       DEF GateInv, OneExecutionPerRequest, TokensShrink
<1>12. QED
  BY <1>7, <1>8, <1>9, <1>10, <1>11 DEF GateInv

(* What a call asks is appended to what was asked before: scopes of orders *)
(* its report has a risk record for.                                       *)
LEMMA RequireAppends ==
    ASSUME GateInv, NEW s \in Session, NEW r \in Report, NEW mode \in Mode,
           NEW rollbackOk \in BOOLEAN, NEW now \in Time,
           Require(s, r, mode, rollbackOk, now)
    PROVE  /\ \A id \in 1 .. counter : asked'[id] = asked[id]
           /\ \A id \in counter + 1 .. counter' :
                 LET orders == OrdersOf(r, mode, id - counter)
                 IN  asked'[id] = Shown(s, r, mode, orders) /\ Bindable(r, orders)
<1> DEFINE n     == Needed(r, mode)
           shown == [k \in 1 .. n |-> Shown(s, r, mode, OrdersOf(r, mode, k))]
<1>1. /\ r.confirm # <<>> /\ counter' = counter + n /\ asked' = asked \o shown
  BY DEF Require, Admits
<1>2. n \in Nat \ {0} /\ counter \in Nat
  BY <1>1, NewScopes, GateAssumption DEF GateInv, Maps
<1>3. shown \in Seq(Scope) /\ Len(shown) = n
  <2>1. \A k \in 1 .. n : Shown(s, r, mode, OrdersOf(r, mode, k)) \in Scope
    BY <1>1, NewScopes
  <2> HIDE DEF n
  <2>2. shown \in [1 .. n -> Scope]
    BY <2>1
  <2> HIDE DEF shown
  <2>3. QED
    BY <1>2, <2>2
<1>4. asked \in Seq(Scope) /\ Len(asked) = counter
  BY DEF GateInv, Logs
<1>5. \A id \in counter + 1 .. counter' : id - counter \in 1 .. n /\ id > counter
  BY <1>1, <1>2
<1>6. \A k \in 1 .. n : shown[k] = Shown(s, r, mode, OrdersOf(r, mode, k))
  OBVIOUS
<1>7. \A k \in 1 .. n : Bindable(r, OrdersOf(r, mode, k))
  <2>1. /\ r.confirm \in Seq(Nat) /\ Len(r.confirm) \in Nat
        /\ DOMAIN r.confirm = 1 .. Len(r.confirm)
    BY GateAssumption
  <2>2. QED
    BY <1>1, <2>1, ConfirmBindable DEF OrdersOf, Needed
<1> HIDE DEF shown, n
<1>8. \A id \in 1 .. counter + n :
          asked'[id] = IF id <= counter THEN asked[id] ELSE shown[id - counter]
  BY <1>1, <1>2, <1>3, <1>4, ConcatProperties
<1>9. \A id \in 1 .. counter : asked'[id] = asked[id]
  BY <1>2, <1>8
<1>10. ASSUME NEW id \in counter + 1 .. counter'
       PROVE  /\ asked'[id] = Shown(s, r, mode, OrdersOf(r, mode, id - counter))
              /\ Bindable(r, OrdersOf(r, mode, id - counter))
  <2>1. id \in 1 .. counter + n /\ ~(id <= counter)
    BY <1>1, <1>2
  <2>2. asked'[id] = shown[id - counter]
    BY <1>8, <2>1
  <2>3. id - counter \in 1 .. n
    BY <1>5
  <2>4. QED
    BY <1>6, <1>7, <2>2, <2>3
<1>11. QED
  BY <1>9, <1>10

LEMMA AllowOnceStep ==
    ASSUME GateInv, NEW id, NEW actor \in Actor, NEW executor \in Actor,
           NEW now \in Time, AllowOnce(id, actor, executor, now)
    PROVE  GateInv'
<1> DEFINE i == Live(issued, now)
           l == LiveLedger(now)
           e == [actor |-> actor, executor |-> executor, expires |-> pending[id].expires]
           g == Ledger!NewGrant(pending[id].scope, actor, executor,
                                "granted", pending[id].expires, 1)
<1>1. id \in DOMAIN pending /\ pending[id] \in PendingConfirmation
  BY DEF AllowOnce, GateInv, Maps
<1>2. id \in 1 .. counter /\ id \notin DOMAIN issued
  BY <1>1 DEF GateInv, Maps, OneExecutionPerRequest
<1>3. /\ e \in IssuedConfirmation
      /\ e.actor = actor /\ e.executor = executor /\ e.expires = pending[id].expires
  BY <1>1 DEF IssuedConfirmation, PendingConfirmation
<1>4. /\ g \in Ledger!Grant /\ g.status = "granted" /\ g.uses = 0
      /\ g.approver = actor /\ g.executor = executor /\ g.expires = pending[id].expires
  BY <1>1 DEF PendingConfirmation, Ledger!NewGrant, Ledger!Grant, Ledger!Status,
              Ledger!Time, Time
<1>5. /\ i \in [DOMAIN i -> IssuedConfirmation]
      /\ l \in [DOMAIN l -> Ledger!Grant]
      /\ DOMAIN i \subseteq DOMAIN issued /\ DOMAIN l = DOMAIN i
      /\ \A t \in DOMAIN i : i[t] = issued[t] /\ l[t] = ledger[t]
  BY SweepMirrors DEF GateInv
<1>6. PendingShrinks /\ id \notin DOMAIN pending'
  BY PendingDropShrinks DEF GateInv, AllowOnce
<1>7. /\ issued' = Ledger!Put(i, id, e) /\ ledger' = Ledger!Put(l, id, g)
      /\ counter' = counter /\ asked' = asked /\ log' = log
  BY DEF AllowOnce
<1> HIDE DEF i, l, e, g
<1>8. /\ issued' \in [DOMAIN issued' -> IssuedConfirmation]
      /\ DOMAIN issued' = DOMAIN i \cup {id}
      /\ issued'[id] = e
      /\ \A t \in DOMAIN i : issued'[t] = i[t]
  BY <1>2, <1>3, <1>5, <1>7 DEF Ledger!Put
<1>9. /\ ledger' \in [DOMAIN ledger' -> Ledger!Grant]
      /\ DOMAIN ledger' = DOMAIN i \cup {id}
      /\ ledger'[id] = g
      /\ \A t \in DOMAIN i : ledger'[t] = l[t]
  BY <1>2, <1>4, <1>5, <1>7 DEF Ledger!Put
<1>10. Maps'
  <2>1. Maps
    BY DEF GateInv
  <2>2. /\ counter' \in 0 .. U64Max
        /\ DOMAIN pending' \subseteq 1 .. counter'
        /\ DOMAIN issued' \subseteq 1 .. counter'
        /\ DOMAIN ledger' \subseteq 1 .. counter'
    BY <2>1, <1>2, <1>5, <1>6, <1>7, <1>8, <1>9 DEF Maps, PendingShrinks
  <2>3. QED
    BY <2>2, <1>6, <1>8, <1>9 DEF Maps, PendingShrinks
<1>11. TokensMirrorLedger'
  <2>1. ASSUME NEW t \in DOMAIN issued'
        PROVE  /\ ledger'[t].status = "granted" /\ ledger'[t].uses = 0
               /\ ledger'[t].approver = issued'[t].actor
               /\ ledger'[t].executor = issued'[t].executor
               /\ ledger'[t].expires = issued'[t].expires
    <3>1. CASE t = id
      BY <3>1, <1>3, <1>4, <1>8, <1>9
    <3>2. CASE t # id
      BY <3>2, <1>5, <1>8, <1>9 DEF GateInv, TokensMirrorLedger
    <3>3. QED
      BY <3>1, <3>2
  <2>2. QED
    BY <2>1, <1>8, <1>9 DEF TokensMirrorLedger
<1>12. Logs' /\ LoggedIds'
  BY <1>7 DEF GateInv, Logs, LoggedIds
<1>13. OneExecutionPerRequest'
  BY <1>1, <1>5, <1>6, <1>7, <1>8 DEF GateInv, OneExecutionPerRequest, PendingShrinks
<1>14. QED
  BY <1>10, <1>11, <1>12, <1>13 DEF GateInv


LEMMA ConsumeStep ==
    ASSUME GateInv, NEW t \in DOMAIN issued, NEW s \in Session, NEW r \in Report,
           NEW mode \in Mode, NEW order \in OrderOption, NEW actor \in Actor,
           NEW executor \in Actor, NEW now \in Time,
           Consume(t, s, r, mode, order, actor, executor, now)
    PROVE  GateInv'
<1> DEFINE orders == ConsumedOrders(r, mode, order)
           e == [id |-> t, scope |-> Shown(s, r, mode, orders), actor |-> actor,
                 executor |-> executor, at |-> now]
<1>1. TokensShrink /\ PendingShrinks /\ t \notin DOMAIN issued'
  BY DropTokenShrinks DEF GateInv, Consume
<1>2. counter' = counter /\ asked' = asked /\ log' = Append(log, e)
  BY DEF Consume, DropToken
<1>3. Bindable(r, orders)
  <2>1. ValidOrders(r, mode, orders)
    BY DEF Consume, MatchesToken
  <2>2. orders \in Seq(Nat)
    <3>1. \A q \in Report : q.confirm \in Seq(Nat)
      BY GateAssumption
    <3>2. ConfirmOrders \subseteq Nat
      BY <3>1 DEF ConfirmOrders
    <3>3. ASSUME NEW o \in ConfirmOrders PROVE <<o>> \in Seq(Nat)
      BY <3>2
    <3>4. <<>> \in Seq(Nat)
      OBVIOUS
    <3>5. QED
      BY <3>1, <3>3, <3>4 DEF OrderOption, ConsumedOrders
  <2>3. \A k \in DOMAIN r.confirm : r.confirm[k] \in DOMAIN r.risk
    BY GateAssumption
  <2> HIDE DEF orders
  <2>4. QED
    BY <2>1, <2>2, <2>3 DEF ValidOrders, Bindable
<1>4. t \in 1 .. counter /\ counter \in 0 .. U64Max
  BY DEF GateInv, Maps
<1>5. e \in Execution /\ e.id = t
  <2>1. Shown(s, r, mode, orders) \in Scope
    BY <1>3, BindableScope
  <2>2. t \in Id
    BY <1>4, GateAssumption DEF Id
  <2> HIDE DEF orders
  <2>3. QED
    BY <2>1, <2>2 DEF Execution
<1> HIDE DEF e
<1>6. Maps' /\ TokensMirrorLedger'
  BY <1>1, <1>2, ShrinkingKeepsMaps DEF GateInv
<1>7. /\ log \in Seq(Execution) /\ log' \in Seq(Execution)
      /\ Len(log') = Len(log) + 1
      /\ \A k \in 1 .. Len(log) : log'[k] = log[k]
      /\ log'[Len(log) + 1] = e
      /\ DOMAIN log = 1 .. Len(log) /\ DOMAIN log' = 1 .. Len(log) + 1
  BY <1>2, <1>5, AppendProperties DEF GateInv, Logs
<1>8. Logs' /\ LoggedIds'
  BY <1>2, <1>4, <1>5, <1>7 DEF GateInv, Logs, LoggedIds
<1>9. \A k \in 1 .. Len(log) : log[k].id # t
  BY <1>7 DEF GateInv, OneExecutionPerRequest
<1>10. OneExecutionPerRequest'
  <2>1. ASSUME NEW j \in DOMAIN log', NEW k \in DOMAIN log', log'[j].id = log'[k].id
        PROVE  j = k
    BY <2>1, <1>5, <1>7, <1>9 DEF GateInv, OneExecutionPerRequest
  <2>2. ASSUME NEW k \in DOMAIN log'
        PROVE  log'[k].id \notin DOMAIN pending' \cup DOMAIN issued'
    <3>1. CASE k = Len(log) + 1
      BY <3>1, <1>1, <1>5, <1>7
         DEF GateInv, OneExecutionPerRequest, PendingShrinks
    <3>2. CASE k # Len(log) + 1
      BY <3>2, <1>1, <1>7
         DEF GateInv, OneExecutionPerRequest, PendingShrinks, TokensShrink
    <3>3. QED
      BY <3>1, <3>2
  <2>3. QED
    BY <2>1, <2>2, <1>1
       DEF GateInv, OneExecutionPerRequest, PendingShrinks, TokensShrink
<1>11. QED
  BY <1>6, <1>8, <1>10 DEF GateInv

(* The calls that at most take something away: whatever reports they were  *)
(* made with.                                                              *)
Shrinks == PendingShrinks /\ TokensShrink /\ UNCHANGED <<counter, asked, log>>

LEMMA ShrinkingCalls ==
    ASSUME GateInv, NEW reports, NEW now \in Time, NEW id,
           \/ RefuseRequire(reports, now)
           \/ DecideExpired(id, now)
           \/ DecideFails(id, now)
           \/ Deny(id, now)
           \/ ConsumeExpired(id, reports, now)
    PROVE  Shrinks
<1>1. CASE RefuseRequire(reports, now)
  BY <1>1, SweepShrinks, PendingSweepShrinks DEF GateInv, RefuseRequire, Shrinks
<1>2. CASE DecideExpired(id, now)
  <2>1. PendingShrinks
    BY <1>2, PendingDropShrinks DEF GateInv, DecideExpired
  <2>2. TokensShrink
    BY <1>2 DEF GateInv, DecideExpired, Maps, TokensMirrorLedger, TokensShrink
  <2>3. QED
    BY <1>2, <2>1, <2>2 DEF DecideExpired, Shrinks
<1>3. CASE DecideFails(id, now)
  BY <1>3, SweepShrinks, PendingSweepShrinks DEF GateInv, DecideFails, Shrinks
<1>4. CASE Deny(id, now)
  BY <1>4, SweepShrinks, PendingDropShrinks DEF GateInv, Deny, Shrinks
<1>5. CASE ConsumeExpired(id, reports, now)
  <2>1. DropToken(id) /\ log' = log
    BY <1>5 DEF ConsumeExpired
  <2>2. TokensShrink /\ PendingShrinks
    BY <2>1, DropTokenShrinks DEF GateInv
  <2>3. QED
    BY <2>1, <2>2 DEF DropToken, Shrinks
<1>6. QED
  BY <1>1, <1>2, <1>3, <1>4, <1>5

LEMMA GateStep == GateInv /\ [Next]_vars => GateInv'
<1> SUFFICES ASSUME GateInv, [Next]_vars PROVE GateInv'
  OBVIOUS
<1>1. ASSUME NEW s \in Session, NEW r \in Report, NEW mode \in Mode,
             NEW rollbackOk \in BOOLEAN, NEW now \in Time,
             Require(s, r, mode, rollbackOk, now)
      PROVE  GateInv'
  BY <1>1, RequireStep
<1>2. ASSUME NEW now \in Time, NEW id,
             \/ RefuseRequire(Report, now)
             \/ DecideExpired(id, now)
             \/ DecideFails(id, now)
             \/ Deny(id, now)
             \/ ConsumeExpired(id, Report, now)
      PROVE  GateInv'
  BY <1>2, ShrinkingCalls, ShrinkingStep DEF Shrinks
<1>3. ASSUME NEW id \in Id, NEW now \in Time, NEW actor \in Actor, NEW executor \in Actor,
             AllowOnce(id, actor, executor, now)
      PROVE  GateInv'
  BY <1>3, AllowOnceStep
<1>4. ASSUME NEW t \in DOMAIN issued, NEW s \in Session, NEW r \in Report,
             NEW mode \in Mode, NEW order \in OrderOption, NEW actor \in Actor,
             NEW executor \in Actor, NEW now \in Time,
             Consume(t, s, r, mode, order, actor, executor, now)
      PROVE  GateInv'
  BY <1>4, ConsumeStep
<1>5. CASE UNCHANGED vars
  BY <1>5 DEF vars, GateInv, Maps, Logs, TokensMirrorLedger, LoggedIds,
              OneExecutionPerRequest
<1>6. QED
  BY <1>1, <1>2, <1>3, <1>4, <1>5 DEF Next

LEMMA GateInit == Init => GateInv
BY GateAssumption DEF Init, GateInv, Maps, Logs, TokensMirrorLedger, LoggedIds,
                      OneExecutionPerRequest

LEMMA GateInvariant == Spec => []GateInv
BY GateInit, GateStep, PTL DEF Spec

-----------------------------------------------------------------------------
(* What is waiting, approved or executed is what was asked for.  The terms *)
(* travel through three maps and a hash; nothing compares them on the way  *)
(* but the ledger, at the end.                                             *)
ScopesAsAsked ==
    /\ \A id \in DOMAIN pending : pending[id].scope = asked[id]
    /\ \A t \in DOMAIN ledger : ledger[t].scope = asked[t]
    /\ \A k \in DOMAIN log : log[k].scope = asked[log[k].id]

TermsInv == ScopesAsAsked /\ Capacity

LEMMA DomainsFinite ==
    ASSUME Maps
    PROVE  IsFiniteSet(DOMAIN pending) /\ IsFiniteSet(DOMAIN issued)
<1>1. counter \in Nat
  BY GateAssumption DEF Maps
<1>2. IsFiniteSet(1 .. counter)
  BY <1>1, FS_Interval
<1>3. QED
  BY <1>2, FS_Subset DEF Maps

(* Two sets of which each is no larger than before.                        *)
LEMMA CardinalitiesShrink ==
    ASSUME NEW P, NEW I, IsFiniteSet(P), IsFiniteSet(I),
           NEW Q \in SUBSET P, NEW J \in SUBSET I, NEW n \in Nat,
           Cardinality(P) + Cardinality(I) <= n
    PROVE  Cardinality(Q) + Cardinality(J) <= n
<1>1. /\ Cardinality(Q) <= Cardinality(P) /\ Cardinality(J) <= Cardinality(I)
      /\ IsFiniteSet(Q) /\ IsFiniteSet(J)
  BY FS_Subset
<1>2. /\ Cardinality(Q) \in Nat /\ Cardinality(P) \in Nat
      /\ Cardinality(J) \in Nat /\ Cardinality(I) \in Nat
  BY <1>1, FS_CardinalityType
<1>3. QED
  BY <1>1, <1>2

LEMMA ShrinkingTerms ==
    ASSUME GateInv, TermsInv, Shrinks
    PROVE  TermsInv'
<1>1. ScopesAsAsked'
  BY DEF TermsInv, ScopesAsAsked, Shrinks, PendingShrinks, TokensShrink, GateInv,
         TokensMirrorLedger
<1>2. Capacity'
  <2>1. DOMAIN pending' \in SUBSET DOMAIN pending /\ DOMAIN issued' \in SUBSET DOMAIN issued
    BY DEF Shrinks, PendingShrinks, TokensShrink
  <2>2. MaxPending \in Nat
    BY GateAssumption
  <2>3. Cardinality(DOMAIN pending) + Cardinality(DOMAIN issued) <= MaxPending
    BY DEF TermsInv, Capacity
  <2>4. Cardinality(DOMAIN pending') + Cardinality(DOMAIN issued') <= MaxPending
    BY <2>1, <2>2, <2>3, DomainsFinite, CardinalitiesShrink DEF GateInv
  <2>5. QED
    BY <2>4 DEF Capacity
<1>3. QED
  BY <1>1, <1>2 DEF TermsInv

LEMMA RequireTerms ==
    ASSUME GateInv, TermsInv, NEW s \in Session, NEW r \in Report, NEW mode \in Mode,
           NEW rollbackOk \in BOOLEAN, NEW now \in Time,
           Require(s, r, mode, rollbackOk, now)
    PROVE  TermsInv'
<1> DEFINE n     == Needed(r, mode)
           new   == counter + 1 .. counter + n
           swept == Live(pending, now)
<1>1. /\ r.confirm # <<>>
      /\ Cardinality(DOMAIN swept) + Cardinality(DOMAIN Live(issued, now)) + n <= MaxPending
      /\ SweepTokens(now) /\ issued' = Live(issued, now)
      /\ pending' = [id \in DOMAIN swept \cup new |->
                        IF id \in new
                          THEN [scope |-> Shown(s, r, mode, OrdersOf(r, mode, id - counter)),
                                expires |-> now + Ttl]
                          ELSE swept[id]]
      /\ log' = log
  BY DEF Require, Admits, HasRoom, SweepTokens, ScopeFor, Shown
<1>2. n \in Nat \ {0} /\ counter \in Nat
  BY <1>1, NewScopes, GateAssumption DEF GateInv, Maps
<1>3. /\ swept \in [DOMAIN swept -> PendingConfirmation]
      /\ DOMAIN swept \subseteq DOMAIN pending
      /\ \A id \in DOMAIN swept : swept[id] = pending[id]
  <2>1. pending \in [DOMAIN pending -> PendingConfirmation]
    BY DEF GateInv, Maps
  <2>2. QED
    BY <2>1 DEF Live
<1>4. TokensShrink
  BY <1>1, SweepShrinks DEF GateInv
<1>5. /\ \A id \in 1 .. counter : asked'[id] = asked[id]
      /\ \A id \in new : asked'[id] = Shown(s, r, mode, OrdersOf(r, mode, id - counter))
  <2>1. new = counter + 1 .. counter'
    BY DEF Require
  <2> HIDE DEF new
  <2>2. QED
    BY <2>1, RequireAppends
<1>6. \A id \in new : id \notin 1 .. counter
  BY <1>2
<1> HIDE DEF n, swept
<1>7. ScopesAsAsked'
  <2>1. \A id \in DOMAIN pending' : pending'[id].scope = asked'[id]
    BY <1>1, <1>3, <1>5 DEF GateInv, Maps, TermsInv, ScopesAsAsked
  <2>2. \A t \in DOMAIN ledger' : ledger'[t].scope = asked'[t]
    BY <1>4, <1>5 DEF TokensShrink, GateInv, Maps, TokensMirrorLedger, TermsInv, ScopesAsAsked
  <2>3. \A k \in DOMAIN log' : log'[k].scope = asked'[log'[k].id]
    BY <1>1, <1>5 DEF GateInv, LoggedIds, TermsInv, ScopesAsAsked
  <2>4. QED
    BY <2>1, <2>2, <2>3 DEF ScopesAsAsked
<1>8. Capacity'
  <2>1. IsFiniteSet(DOMAIN swept)
    BY <1>3, DomainsFinite, FS_Subset DEF GateInv
  <2>2. IsFiniteSet(new) /\ Cardinality(new) = n
    BY <1>2, FS_Interval
  <2>3. DOMAIN swept \cap new = {}
    BY <1>3, <1>6 DEF GateInv, Maps
  <2>4. Cardinality(DOMAIN swept \cup new) = Cardinality(DOMAIN swept) + n
    <3>1. Cardinality(DOMAIN swept) \in Nat /\ Cardinality(DOMAIN swept \cap new) = 0
      BY <2>1, <2>3, FS_CardinalityType, FS_EmptySet
    <3>2. Cardinality(DOMAIN swept \cup new)
            = Cardinality(DOMAIN swept) + Cardinality(new)
              - Cardinality(DOMAIN swept \cap new)
      BY <2>1, <2>2, FS_Union
    <3>3. QED
      BY <1>2, <2>2, <3>1, <3>2
  <2>5. DOMAIN pending' = DOMAIN swept \cup new
    BY <1>1
  <2>6. /\ Cardinality(DOMAIN swept) \in Nat
        /\ Cardinality(DOMAIN Live(issued, now)) \in Nat
    <3>1. IsFiniteSet(DOMAIN Live(issued, now))
      BY <1>1, <1>4, DomainsFinite, FS_Subset DEF GateInv, TokensShrink
    <3>2. QED
      BY <2>1, <3>1, FS_CardinalityType
  <2>7. QED
    BY <1>1, <1>2, <2>4, <2>5, <2>6, GateAssumption DEF Capacity
<1>9. QED
  BY <1>7, <1>8 DEF TermsInv

LEMMA AllowOnceTerms ==
    ASSUME GateInv, TermsInv, NEW id, NEW actor \in Actor, NEW executor \in Actor,
           NEW now \in Time, AllowOnce(id, actor, executor, now)
    PROVE  TermsInv'
<1> DEFINE i == Live(issued, now)
           l == LiveLedger(now)
           p == Live(pending, now)
           e == [actor |-> actor, executor |-> executor, expires |-> pending[id].expires]
           g == Ledger!NewGrant(pending[id].scope, actor, executor,
                                "granted", pending[id].expires, 1)
<1>1. /\ id \in DOMAIN pending /\ now < pending[id].expires
      /\ pending' = Ledger!Drop(p, {id})
      /\ issued' = Ledger!Put(i, id, e) /\ ledger' = Ledger!Put(l, id, g)
      /\ counter' = counter /\ asked' = asked /\ log' = log
  BY DEF AllowOnce
<1>2. g.scope = pending[id].scope
  BY DEF Ledger!NewGrant
<1>3. /\ DOMAIN i \subseteq DOMAIN issued /\ DOMAIN l = DOMAIN i
      /\ \A t \in DOMAIN i : l[t] = ledger[t]
  BY SweepMirrors DEF GateInv
<1>4. /\ DOMAIN p \subseteq DOMAIN pending /\ id \in DOMAIN p
      /\ \A k \in DOMAIN p : p[k] = pending[k]
  BY <1>1 DEF Live
<1> HIDE DEF i, l, p, e, g
<1>5. /\ DOMAIN pending' = DOMAIN p \ {id}
      /\ \A k \in DOMAIN pending' : pending'[k] = p[k]
  BY <1>1 DEF Ledger!Drop
<1>6. DOMAIN issued' = DOMAIN i \cup {id}
  BY <1>1 DEF Ledger!Put
<1>7. /\ DOMAIN ledger' = DOMAIN l \cup {id} /\ ledger'[id] = g
      /\ \A t \in DOMAIN l : t # id => ledger'[t] = l[t]
  BY <1>1 DEF Ledger!Put
<1>8. ScopesAsAsked'
  <2>1. ASSUME NEW k \in DOMAIN pending'
        PROVE  pending'[k].scope = asked'[k]
    BY <1>1, <1>4, <1>5 DEF TermsInv, ScopesAsAsked
  <2>2. ASSUME NEW t \in DOMAIN ledger'
        PROVE  ledger'[t].scope = asked'[t]
    <3>1. CASE t = id
      BY <3>1, <1>1, <1>2, <1>7 DEF TermsInv, ScopesAsAsked
    <3>2. CASE t # id
      <4>1. t \in DOMAIN l /\ ledger'[t] = l[t] /\ t \in DOMAIN i
        BY <3>2, <1>3, <1>7
      <4>2. t \in DOMAIN ledger /\ l[t] = ledger[t]
        BY <4>1, <1>3 DEF GateInv, TokensMirrorLedger
      <4>3. QED
        BY <1>1, <4>1, <4>2 DEF TermsInv, ScopesAsAsked
    <3>3. QED
      BY <3>1, <3>2
  <2>3. QED
    BY <1>1, <2>1, <2>2 DEF TermsInv, ScopesAsAsked
<1>9. Capacity'
  <2>1. IsFiniteSet(DOMAIN p) /\ IsFiniteSet(DOMAIN i)
    BY <1>3, <1>4, DomainsFinite, FS_Subset DEF GateInv
  <2>2. Cardinality(DOMAIN p) + Cardinality(DOMAIN i) <= MaxPending
    <3>1. MaxPending \in Nat
      BY GateAssumption
    <3>2. Cardinality(DOMAIN pending) + Cardinality(DOMAIN issued) <= MaxPending
      BY DEF TermsInv, Capacity
    <3>3. QED
      BY <1>3, <1>4, <3>1, <3>2, DomainsFinite, CardinalitiesShrink DEF GateInv
  <2>3. /\ Cardinality(DOMAIN pending') = Cardinality(DOMAIN p) - 1
        /\ Cardinality(DOMAIN issued') =
               IF id \in DOMAIN i THEN Cardinality(DOMAIN i) ELSE Cardinality(DOMAIN i) + 1
    BY <1>4, <1>5, <1>6, <2>1, FS_RemoveElement, FS_AddElement
  <2>4. Cardinality(DOMAIN p) \in Nat /\ Cardinality(DOMAIN i) \in Nat
    BY <2>1, FS_CardinalityType
  <2>5. QED
    BY <2>2, <2>3, <2>4, GateAssumption DEF Capacity
<1>10. QED
  BY <1>8, <1>9 DEF TermsInv

(* An execution that is let through is the one its token was asked for: by *)
(* the people the token was given to, before the token's deadline.         *)
LEMMA ConsumeOnTerms ==
    ASSUME GateInv, TermsInv, NEW t \in DOMAIN issued, NEW s, NEW r, NEW mode, NEW order,
           NEW actor, NEW executor, NEW now,
           Consume(t, s, r, mode, order, actor, executor, now)
    PROVE  /\ Shown(s, r, mode, ConsumedOrders(r, mode, order)) = asked[t]
           /\ issued[t].actor = actor /\ issued[t].executor = executor
           /\ now < issued[t].expires
<1> DEFINE scope == ScopeFor(s, r, mode, ConsumedOrders(r, mode, order))
<1>1. /\ now < issued[t].expires
      /\ issued[t].actor = actor /\ issued[t].executor = executor
      /\ t \in DOMAIN ledger
      /\ Ledger!Validate(ledger[t], scope, executor, now) = "ok"
  BY DEF Consume, Presented, MatchesToken, LedgerAnswer
<1>2. ledger[t].status = "granted"
  BY DEF GateInv, TokensMirrorLedger
<1> HIDE DEF scope
<1>3. ledger[t].scope = scope
  BY <1>1, <1>2 DEF Ledger!Validate
<1>4. scope = Shown(s, r, mode, ConsumedOrders(r, mode, order))
  BY DEF scope, ScopeFor, Shown
<1>5. QED
  BY <1>1, <1>3, <1>4 DEF TermsInv, ScopesAsAsked

LEMMA ConsumeTerms ==
    ASSUME GateInv, TermsInv, NEW t \in DOMAIN issued, NEW s \in Session, NEW r \in Report,
           NEW mode \in Mode, NEW order \in OrderOption, NEW actor \in Actor,
           NEW executor \in Actor, NEW now \in Time,
           Consume(t, s, r, mode, order, actor, executor, now)
    PROVE  TermsInv'
<1> DEFINE e == [id |-> t, scope |-> Shown(s, r, mode, ConsumedOrders(r, mode, order)),
                 actor |-> actor, executor |-> executor, at |-> now]
<1>1. TokensShrink /\ PendingShrinks /\ t \notin DOMAIN issued'
  BY DropTokenShrinks DEF GateInv, Consume
<1>2. asked' = asked /\ log' = Append(log, e)
  BY DEF Consume, DropToken
<1>3. Shown(s, r, mode, ConsumedOrders(r, mode, order)) = asked[t]
  <2> HIDE DEF e
  <2>1. QED
    BY ConsumeOnTerms
<1>4. e.id = t /\ e.scope = asked[t]
  BY <1>3
<1> HIDE DEF e
<1>5. /\ DOMAIN log = 1 .. Len(log) /\ DOMAIN log' = 1 .. Len(log) + 1
      /\ \A k \in 1 .. Len(log) : log'[k] = log[k]
      /\ log'[Len(log) + 1] = e /\ Len(log) \in Nat
  <2>1. log \in Seq(Execution \cup {e})
    BY DEF GateInv, Logs
  <2>2. e \in Execution \cup {e}
    OBVIOUS
  <2>3. QED
    BY <1>2, <2>1, <2>2, AppendProperties
<1>6. ScopesAsAsked'
  <2>1. \A k \in DOMAIN log' : log'[k].scope = asked'[log'[k].id]
    BY <1>2, <1>4, <1>5 DEF TermsInv, ScopesAsAsked
  <2>2. /\ \A id \in DOMAIN pending' : pending'[id].scope = asked'[id]
        /\ \A x \in DOMAIN ledger' : ledger'[x].scope = asked'[x]
    BY <1>1, <1>2 DEF TermsInv, ScopesAsAsked, PendingShrinks, TokensShrink, GateInv,
                      TokensMirrorLedger
  <2>3. QED
    BY <2>1, <2>2 DEF ScopesAsAsked
<1>7. Capacity'
  <2>1. DOMAIN pending' \in SUBSET DOMAIN pending /\ DOMAIN issued' \in SUBSET DOMAIN issued
    BY <1>1 DEF PendingShrinks, TokensShrink
  <2>2. MaxPending \in Nat
    BY GateAssumption
  <2>3. Cardinality(DOMAIN pending) + Cardinality(DOMAIN issued) <= MaxPending
    BY DEF TermsInv, Capacity
  <2>4. Cardinality(DOMAIN pending') + Cardinality(DOMAIN issued') <= MaxPending
    BY <2>1, <2>2, <2>3, DomainsFinite, CardinalitiesShrink DEF GateInv
  <2>5. QED
    BY <2>4 DEF Capacity
<1>8. QED
  BY <1>6, <1>7 DEF TermsInv

LEMMA TermsStep == GateInv /\ TermsInv /\ [Next]_vars => TermsInv'
<1> SUFFICES ASSUME GateInv, TermsInv, [Next]_vars PROVE TermsInv'
  OBVIOUS
<1>1. ASSUME NEW s \in Session, NEW r \in Report, NEW mode \in Mode,
             NEW rollbackOk \in BOOLEAN, NEW now \in Time,
             Require(s, r, mode, rollbackOk, now)
      PROVE  TermsInv'
  BY <1>1, RequireTerms
<1>2. ASSUME NEW now \in Time, NEW id,
             \/ RefuseRequire(Report, now)
             \/ DecideExpired(id, now)
             \/ DecideFails(id, now)
             \/ Deny(id, now)
             \/ ConsumeExpired(id, Report, now)
      PROVE  TermsInv'
  BY <1>2, ShrinkingCalls, ShrinkingTerms
<1>3. ASSUME NEW id \in Id, NEW now \in Time, NEW actor \in Actor, NEW executor \in Actor,
             AllowOnce(id, actor, executor, now)
      PROVE  TermsInv'
  BY <1>3, AllowOnceTerms
<1>4. ASSUME NEW t \in DOMAIN issued, NEW s \in Session, NEW r \in Report,
             NEW mode \in Mode, NEW order \in OrderOption, NEW actor \in Actor,
             NEW executor \in Actor, NEW now \in Time,
             Consume(t, s, r, mode, order, actor, executor, now)
      PROVE  TermsInv'
  BY <1>4, ConsumeTerms
<1>5. CASE UNCHANGED vars
  BY <1>5 DEF vars, TermsInv, ScopesAsAsked, Capacity
<1>6. QED
  BY <1>1, <1>2, <1>3, <1>4, <1>5 DEF Next

LEMMA TermsInit == Init => TermsInv
<1> SUFFICES ASSUME Init PROVE TermsInv
  OBVIOUS
<1>1. DOMAIN pending = {} /\ DOMAIN issued = {} /\ DOMAIN ledger = {} /\ DOMAIN log = {}
  BY DEF Init
<1>2. Cardinality(DOMAIN pending) = 0 /\ Cardinality(DOMAIN issued) = 0
  BY <1>1, FS_EmptySet
<1>3. QED
  BY <1>1, <1>2, GateAssumption DEF TermsInv, ScopesAsAsked, Capacity

LEMMA TermsInvariant == Spec => []TermsInv
BY GateInvariant, TermsInit, TermsStep, PTL DEF Spec

-----------------------------------------------------------------------------
(* Where the requests stand in the abstract authorisation, read off the    *)
(* gate's maps.                                                            *)
Executed(id) == \E k \in DOMAIN log : log[k].id = id

Waiting(id) ==
    [phase |-> "asked", scope |-> asked[id], deadline |-> pending[id].expires]

Confirmed(id) ==
    [phase |-> "approved", scope |-> asked[id], deadline |-> issued[id].expires,
     actor |-> issued[id].actor, executor |-> issued[id].executor]

Entries ==
    /\ Len(Book) = counter
    /\ Book = [id \in 1 .. counter |-> Book[id]]
    /\ \A id \in 1 .. counter :
          /\ id \in DOMAIN pending => Book[id] = Waiting(id)
          /\ id \in DOMAIN issued => Book[id] = Confirmed(id)
          /\ id \notin DOMAIN pending \cup DOMAIN issued =>
                Book[id] = IF Executed(id) THEN OneShot!Used ELSE OneShot!Dropped

LEMMA LengthOfFunction ==
    ASSUME NEW n \in Nat, NEW f, f = [i \in 1 .. n |-> f[i]]
    PROVE  Len(f) = n
<1>1. f \in [1 .. n -> {f[i] : i \in 1 .. n}]
  OBVIOUS
<1>2. f \in Seq({f[i] : i \in 1 .. n})
  BY <1>1
<1>3. QED
  BY <1>1, <1>2

LEMMA BookEntries == GateInv => Entries
<1> SUFFICES ASSUME GateInv PROVE Entries
  OBVIOUS
<1>1. Book = [id \in 1 .. counter |-> Book[id]]
  BY DEF Book
<1>2. Len(Book) = counter
  <2>1. counter \in Nat
    BY GateAssumption DEF GateInv, Maps
  <2> HIDE DEF Book
  <2>2. QED
    BY <1>1, <2>1, LengthOfFunction
<1>3. ASSUME NEW id \in 1 .. counter
      PROVE  /\ id \in DOMAIN pending => Book[id] = Waiting(id)
             /\ id \in DOMAIN issued => Book[id] = Confirmed(id)
             /\ id \notin DOMAIN pending \cup DOMAIN issued =>
                   Book[id] = IF Executed(id) THEN OneShot!Used ELSE OneShot!Dropped
  <2>1. /\ id \in DOMAIN issued => id \notin DOMAIN pending
        /\ Executed(id) => id \notin DOMAIN pending \cup DOMAIN issued
    BY DEF GateInv, OneExecutionPerRequest, Executed
  <2>2. Book[id] = CASE id \in DOMAIN pending -> Waiting(id)
                     [] id \in DOMAIN issued -> Confirmed(id)
                     [] Executed(id) -> OneShot!Used
                     [] OTHER -> OneShot!Dropped
    BY DEF Book, Waiting, Confirmed, Executed, OneShot!Used, OneShot!Dropped
  <2> HIDE DEF Book, Waiting, Confirmed, Executed, OneShot!Used, OneShot!Dropped
  <2>3. CASE id \in DOMAIN pending
    BY <2>1, <2>2, <2>3
  <2>4. CASE id \in DOMAIN issued
    BY <2>1, <2>2, <2>4
  <2>5. CASE id \notin DOMAIN pending \cup DOMAIN issued /\ Executed(id)
    BY <2>2, <2>5
  <2>6. CASE id \notin DOMAIN pending \cup DOMAIN issued /\ ~Executed(id)
    BY <2>2, <2>6
  <2>7. QED
    BY <2>3, <2>4, <2>5, <2>6
<1>4. QED
  BY <1>1, <1>2, <1>3 DEF Entries

LEMMA BookEntriesAfter == GateInv' => Entries'
BY BookEntries, PTL

(* A request whose entries are kept or lost stays or is dropped.           *)
KeptOrLost(id) ==
    /\ id \in DOMAIN pending' => id \in DOMAIN pending /\ pending'[id] = pending[id]
    /\ id \in DOMAIN issued' => id \in DOMAIN issued /\ issued'[id] = issued[id]
    /\ asked'[id] = asked[id]

LEMMA KeptOrLostStaysOrDrops ==
    ASSUME GateInv, GateInv', counter <= counter', log' = log,
           NEW id \in 1 .. counter, KeptOrLost(id)
    PROVE  OneShot!StaysOrDrops(id)
<1>1. Entries /\ Entries'
  BY BookEntries, BookEntriesAfter
<1>2. id \in 1 .. counter' /\ counter' \in Nat /\ counter \in Nat
  BY GateAssumption DEF GateInv, Maps
<1>3. Executed(id) => id \notin DOMAIN pending \cup DOMAIN issued
  BY DEF Executed, GateInv, OneExecutionPerRequest
<1>4. Executed(id)' <=> Executed(id)
  BY DEF Executed
<1>5. DOMAIN pending \cap DOMAIN issued = {}
  BY DEF GateInv, OneExecutionPerRequest
<1> HIDE DEF Book, Executed
<1>6. CASE id \in DOMAIN pending'
  <2>1. Book[id] = Waiting(id) /\ Book'[id] = Waiting(id)'
    BY <1>1, <1>2, <1>6 DEF Entries, KeptOrLost
  <2>2. Waiting(id)' = Waiting(id)
    BY <1>6 DEF Waiting, KeptOrLost
  <2>3. QED
    BY <2>1, <2>2 DEF OneShot!StaysOrDrops
<1>7. CASE id \in DOMAIN issued'
  <2>1. Book[id] = Confirmed(id) /\ Book'[id] = Confirmed(id)'
    BY <1>1, <1>2, <1>7 DEF Entries, KeptOrLost
  <2>2. Confirmed(id)' = Confirmed(id)
    BY <1>7 DEF Confirmed, KeptOrLost
  <2>3. QED
    BY <2>1, <2>2 DEF OneShot!StaysOrDrops
<1>8. CASE id \notin DOMAIN pending' \cup DOMAIN issued'
  <2>1. Book'[id] = IF Executed(id) THEN OneShot!Used ELSE OneShot!Dropped
    BY <1>1, <1>2, <1>4, <1>8 DEF Entries, OneShot!Used, OneShot!Dropped
  <2>2. CASE id \in DOMAIN pending \cup DOMAIN issued
    <3>1. Book[id].phase \in {"asked", "approved"}
      BY <1>1, <2>2 DEF Entries, Waiting, Confirmed
    <3>2. Book'[id] = OneShot!Dropped
      BY <1>3, <2>1, <2>2
    <3>3. QED
      BY <3>1, <3>2 DEF OneShot!StaysOrDrops
  <2>3. CASE id \notin DOMAIN pending \cup DOMAIN issued
    BY <1>1, <2>1, <2>3 DEF Entries, OneShot!StaysOrDrops
  <2>4. QED
    BY <2>2, <2>3
<1>9. QED
  BY <1>6, <1>7, <1>8

LEMMA ShrinkingAsks ==
    ASSUME GateInv, Shrinks
    PROVE  OneShot!Ask
<1>1. GateInv' /\ counter' = counter /\ log' = log /\ counter \in Nat
  BY ShrinkingStep, GateAssumption DEF Shrinks, GateInv, Maps
<1>2. ASSUME NEW id \in 1 .. counter
      PROVE  OneShot!StaysOrDrops(id)
  <2>1. KeptOrLost(id)
    BY DEF Shrinks, PendingShrinks, TokensShrink, KeptOrLost
  <2>2. QED
    BY <1>1, <2>1, KeptOrLostStaysOrDrops
<1>3. Len(Book) = counter /\ Len(Book)' = counter
  BY <1>1, BookEntries, BookEntriesAfter DEF Entries
<1> HIDE DEF Book
<1>4. QED
  BY <1>1, <1>2, <1>3 DEF OneShot!Ask

LEMMA RequireAsks ==
    ASSUME GateInv, NEW s \in Session, NEW r \in Report, NEW mode \in Mode,
           NEW rollbackOk \in BOOLEAN, NEW now \in Time,
           Require(s, r, mode, rollbackOk, now)
    PROVE  OneShot!Ask
<1> DEFINE n     == Needed(r, mode)
           new   == counter + 1 .. counter + n
           swept == Live(pending, now)
<1>1. /\ r.confirm # <<>> /\ counter' = counter + n /\ SweepTokens(now)
      /\ DOMAIN pending' = DOMAIN swept \cup new
      /\ \A id \in DOMAIN pending' : id \notin new => pending'[id] = swept[id]
      /\ log' = log
  BY DEF Require, Admits
<1>2. n \in Nat \ {0} /\ counter \in Nat
  BY <1>1, NewScopes, GateAssumption DEF GateInv, Maps
<1>3. GateInv'
  BY RequireStep
<1>4. /\ DOMAIN swept \subseteq DOMAIN pending
      /\ \A id \in DOMAIN swept : swept[id] = pending[id]
  BY DEF Live
<1>5. TokensShrink
  BY <1>1, SweepShrinks DEF GateInv
<1>6. \A id \in 1 .. counter : asked'[id] = asked[id]
  BY RequireAppends
<1>7. \A id \in 1 .. counter : id \notin new
  BY <1>2
<1>8. new \subseteq 1 .. counter' /\ counter <= counter' /\ counter' \in Nat
  BY <1>1, <1>2
<1>9. \A id \in 1 .. counter' : id > counter => id \in new
  BY <1>1, <1>2
<1> HIDE DEF n, new, swept
<1>10. ASSUME NEW id \in 1 .. counter
       PROVE  OneShot!StaysOrDrops(id)
  <2>1. KeptOrLost(id)
    BY <1>1, <1>4, <1>5, <1>6, <1>7 DEF TokensShrink, KeptOrLost
  <2>2. QED
    BY <1>1, <1>3, <1>8, <2>1, KeptOrLostStaysOrDrops
<1>11. ASSUME NEW id \in 1 .. counter', id > counter
       PROVE  Book'[id] \in OneShot!Asked
  <2>1. id \in DOMAIN pending'
    BY <1>1, <1>9, <1>11
  <2>2. Book'[id] = Waiting(id)'
    BY <1>3, <2>1, BookEntriesAfter DEF Entries
  <2>3. pending'[id].expires \in Time
    BY <1>3, <2>1 DEF GateInv, Maps, PendingConfirmation
  <2>4. asked'[id] \in Scope
    BY <1>3 DEF GateInv, Logs
  <2>5. QED
    BY <2>2, <2>3, <2>4 DEF Waiting, OneShot!Asked
<1>12. Len(Book) = counter /\ Len(Book)' = counter'
  BY <1>3, BookEntries, BookEntriesAfter DEF Entries
<1> HIDE DEF Book
<1>13. QED
  BY <1>1, <1>2, <1>8, <1>10, <1>11, <1>12 DEF OneShot!Ask

LEMMA AllowOnceGrants ==
    ASSUME GateInv, NEW id, NEW actor \in Actor, NEW executor \in Actor,
           NEW now \in Time, AllowOnce(id, actor, executor, now)
    PROVE  id \in 1 .. Len(Book) /\ OneShot!Grant(id)
<1> DEFINE e == [actor |-> actor, executor |-> executor, expires |-> pending[id].expires]
<1>1. /\ id \in DOMAIN pending
      /\ issued' = Ledger!Put(Live(issued, now), id, e)
      /\ counter' = counter /\ asked' = asked /\ log' = log
  BY DEF AllowOnce
<1>2. GateInv'
  BY AllowOnceStep
<1>3. PendingShrinks
  BY PendingDropShrinks DEF GateInv, AllowOnce
<1>4. /\ id \in DOMAIN issued'
      /\ issued'[id] = e
      /\ \A t \in DOMAIN issued' : t # id =>
            t \in DOMAIN issued /\ issued'[t] = issued[t]
  BY <1>1 DEF Ledger!Put, Live
<1>5. e.actor = actor /\ e.executor = executor /\ e.expires = pending[id].expires
  OBVIOUS
<1> HIDE DEF e
<1>6. id \in 1 .. counter /\ counter \in Nat /\ counter <= counter'
  BY <1>1, GateAssumption DEF GateInv, Maps
<1>7. /\ Entries /\ Entries'
      /\ Len(Book) = counter /\ Len(Book)' = counter
  BY <1>1, <1>2, BookEntries, BookEntriesAfter DEF Entries
<1> HIDE DEF Book
<1>8. Book[id] = Waiting(id) /\ Book'[id] = Confirmed(id)'
  BY <1>1, <1>4, <1>6, <1>7 DEF Entries
<1>9. Book[id].phase = "asked" /\ Book'[id] = OneShot!Approve(Book[id], actor, executor)
  BY <1>1, <1>4, <1>5, <1>8 DEF Waiting, Confirmed, OneShot!Approve
<1>10. ASSUME NEW other \in 1 .. Len(Book) \ {id}
       PROVE  OneShot!StaysOrDrops(other)
  <2>1. KeptOrLost(other)
    BY <1>1, <1>3, <1>4, <1>7 DEF PendingShrinks, KeptOrLost
  <2>2. QED
    BY <1>1, <1>2, <1>6, <1>7, <2>1, KeptOrLostStaysOrDrops
<1>11. QED
  BY <1>1, <1>6, <1>7, <1>9, <1>10 DEF OneShot!Grant

LEMMA ConsumeExecutes ==
    ASSUME GateInv, TermsInv, NEW t \in DOMAIN issued, NEW s \in Session, NEW r \in Report,
           NEW mode \in Mode, NEW order \in OrderOption, NEW actor \in Actor,
           NEW executor \in Actor, NEW now \in Time,
           Consume(t, s, r, mode, order, actor, executor, now)
    PROVE  t \in 1 .. Len(Book) /\ OneShot!Execute(t)
<1> DEFINE scope == Shown(s, r, mode, ConsumedOrders(r, mode, order))
           e == [id |-> t, scope |-> scope, actor |-> actor, executor |-> executor,
                 at |-> now]
           p == [id |-> t, scope |-> asked[t], actor |-> issued[t].actor,
                 executor |-> issued[t].executor, at |-> now]
<1>1. /\ issued' = Ledger!Drop(issued, {t})
      /\ pending' = pending /\ counter' = counter /\ asked' = asked
      /\ log' = Append(log, e)
  BY DEF Consume, DropToken
<1>2. GateInv'
  BY ConsumeStep
<1>3. /\ scope = asked[t] /\ issued[t].actor = actor /\ issued[t].executor = executor
      /\ now < issued[t].expires
  <2> HIDE DEF e, p
  <2>1. Shown(s, r, mode, ConsumedOrders(r, mode, order)) = asked[t]
    BY ConsumeOnTerms
  <2>2. issued[t].actor = actor /\ issued[t].executor = executor /\ now < issued[t].expires
    BY DEF Consume, MatchesToken
  <2>3. QED
    BY <2>1, <2>2
<1>4. e.id = t /\ e = p
  BY <1>3
<1>5. /\ DOMAIN log = 1 .. Len(log) /\ DOMAIN log' = 1 .. Len(log) + 1
      /\ \A k \in 1 .. Len(log) : log'[k] = log[k]
      /\ log'[Len(log) + 1] = e /\ Len(log) \in Nat
  <2> HIDE DEF e
  <2>1. log \in Seq(Execution \cup {e})
    BY DEF GateInv, Logs
  <2>2. e \in Execution \cup {e}
    OBVIOUS
  <2>3. QED
    BY <1>1, <2>1, <2>2, AppendProperties
<1> HIDE DEF e
<1>6. /\ DOMAIN issued' = DOMAIN issued \ {t}
      /\ \A id \in DOMAIN issued' : issued'[id] = issued[id]
  BY <1>1 DEF Ledger!Drop
<1>7. t \in 1 .. counter /\ counter \in Nat
  BY GateAssumption DEF GateInv, Maps
<1>8. /\ Entries /\ Entries'
      /\ Len(Book) = counter /\ Len(Book)' = counter
  BY <1>1, <1>2, BookEntries, BookEntriesAfter DEF Entries
<1>9. \A id \in 1 .. counter : Executed(id)' <=> (Executed(id) \/ id = t)
  <2>1. \A id : Executed(id) => Executed(id)'
    BY <1>5 DEF Executed
  <2>2. Executed(t)'
    BY <1>4, <1>5 DEF Executed
  <2>3. \A id : id # t /\ Executed(id)' => Executed(id)
    BY <1>4, <1>5 DEF Executed
  <2>4. QED
    BY <2>1, <2>2, <2>3
<1>10. log' = Append(log, p)
  BY <1>1, <1>4
<1> HIDE DEF Book, Executed
<1>11. Book[t] = Confirmed(t)
  BY <1>7, <1>8 DEF Entries
<1>12. Book' = [Book EXCEPT ![t] = OneShot!Used]
  <2>1. t \notin DOMAIN pending /\ t \notin DOMAIN issued'
    BY <1>6 DEF GateInv, OneExecutionPerRequest
  <2>2. Book'[t] = OneShot!Used
    BY <1>1, <1>7, <1>8, <1>9, <2>1 DEF Entries, OneShot!Used
  <2>3. ASSUME NEW id \in 1 .. counter, id # t
        PROVE  Book'[id] = Book[id]
    <3>1. CASE id \in DOMAIN pending
      BY <3>1, <1>1, <1>8 DEF Entries, Waiting
    <3>2. CASE id \in DOMAIN issued
      BY <2>3, <3>2, <1>1, <1>6, <1>8 DEF Entries, Confirmed
    <3>3. CASE id \notin DOMAIN pending \cup DOMAIN issued
      BY <2>3, <3>3, <1>1, <1>6, <1>8, <1>9 DEF Entries, OneShot!Used, OneShot!Dropped
    <3>4. QED
      BY <3>1, <3>2, <3>3
  <2>4. /\ Book = [id \in 1 .. counter |-> Book[id]]
        /\ Book' = [id \in 1 .. counter |-> Book'[id]]
    BY <1>1, <1>8 DEF Entries
  <2>5. QED
    BY <1>7, <2>2, <2>3, <2>4
<1>13. QED
  <2>1. /\ Book[t].phase = "approved" /\ Book[t].deadline = issued[t].expires
        /\ p = [id |-> t, scope |-> Book[t].scope, actor |-> Book[t].actor,
                executor |-> Book[t].executor, at |-> now]
    BY <1>11 DEF Confirmed
  <2> HIDE DEF p
  <2>2. QED
    BY <1>3, <1>7, <1>8, <1>10, <1>12, <2>1 DEF OneShot!Execute

LEMMA GateImplements ==
    Spec => OneShot!Spec
<1>1. Init => OneShot!Init
  BY DEF Init, OneShot!Init, Book
<1>2. ASSUME GateInv, TermsInv, [Next]_vars
      PROVE  [OneShot!Next]_(OneShot!vars)
  <2>1. ASSUME NEW s \in Session, NEW r \in Report, NEW mode \in Mode,
               NEW rollbackOk \in BOOLEAN, NEW now \in Time,
               Require(s, r, mode, rollbackOk, now)
        PROVE  OneShot!Next
    BY <1>2, <2>1, RequireAsks DEF OneShot!Next
  <2>2. ASSUME NEW now \in Time, NEW id,
               \/ RefuseRequire(Report, now)
               \/ DecideExpired(id, now)
               \/ DecideFails(id, now)
               \/ Deny(id, now)
               \/ ConsumeExpired(id, Report, now)
        PROVE  OneShot!Next
    BY <1>2, <2>2, ShrinkingCalls, ShrinkingAsks DEF OneShot!Next
  <2>3. ASSUME NEW id \in Id, NEW now \in Time, NEW actor \in Actor, NEW executor \in Actor,
               AllowOnce(id, actor, executor, now)
        PROVE  OneShot!Next
    BY <1>2, <2>3, AllowOnceGrants DEF OneShot!Next
  <2>4. ASSUME NEW t \in DOMAIN issued, NEW s \in Session, NEW r \in Report,
               NEW mode \in Mode, NEW order \in OrderOption, NEW actor \in Actor,
               NEW executor \in Actor, NEW now \in Time,
               Consume(t, s, r, mode, order, actor, executor, now)
        PROVE  OneShot!Next
    BY <1>2, <2>4, ConsumeExecutes DEF OneShot!Next
  <2>5. CASE UNCHANGED vars
    BY <2>5 DEF vars, OneShot!vars, Book
  <2>6. QED
    BY <1>2, <2>1, <2>2, <2>3, <2>4, <2>5 DEF Next
<1>3. QED
  BY <1>1, <1>2, GateInvariant, TermsInvariant, PTL DEF Spec, OneShot!Spec

-----------------------------------------------------------------------------
(* The gate's maps and logs always have their types.                       *)
THEOREM GateTypeOK == Spec => []TypeOK
<1>1. GateInv => TypeOK
  BY DEF GateInv, Maps, Logs, TypeOK
<1>2. QED
  BY <1>1, GateInvariant, PTL

(* One confirmation, one execution: no request number is ever executed     *)
(* twice, and one that was executed is neither waiting nor approved        *)
(* (decide, consume).                                                      *)
THEOREM GateOneExecutionPerRequest == Spec => []OneExecutionPerRequest
<1>1. GateInv => OneExecutionPerRequest
  BY DEF GateInv
<1>2. QED
  BY <1>1, GateInvariant, PTL

(* `issued` and the ledger describe the same unspent tokens, so `consume`  *)
(* never meets a token one of them has forgotten.                          *)
THEOREM GateTokensMirrorLedger == Spec => []TokensMirrorLedger
<1>1. GateInv => TokensMirrorLedger
  BY DEF GateInv
<1>2. QED
  BY <1>1, GateInvariant, PTL

(* Requests and tokens together stay within max_pending, however many a    *)
(* call asks for (require_confirmation).                                   *)
THEOREM GateCapacity == Spec => []Capacity
<1>1. TermsInv => Capacity
  BY DEF TermsInv
<1>2. QED
  BY <1>1, TermsInvariant, PTL

(* The gate implements the abstract one-shot authorisation: what runs is   *)
(* what was asked for, by whom it was approved for, once, before the       *)
(* deadline; what was dropped, denied or used never comes back.            *)
THEOREM GateImplementsOneShot == Spec => ImplementsOneShot
BY GateImplements DEF ImplementsOneShot

=============================================================================
