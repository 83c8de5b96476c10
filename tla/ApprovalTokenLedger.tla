------------------------ MODULE ApprovalTokenLedger ------------------------
(***************************************************************************)
(* The in-memory approval-token ledger of the runtime crate                *)
(* (rust/crates/runtime/src/approval_tokens.rs): a map from token to       *)
(* grant, with the validation order of `validate_grant`.  The ledger is    *)
(* used on its own and inside ConfirmationGate, which instantiates this    *)
(* module over its own ledger variable.                                    *)
(***************************************************************************)
EXTENDS Naturals, FiniteSets

CONSTANTS
    Token,      \* token strings
    Scope,      \* ApprovalScope values (policy, action, repository, branch)
    Actor,      \* approving owners and executors
    MaxUses,    \* the largest max_uses a caller asks for
    Horizon     \* the largest epoch second a caller passes

(* What the theorems ask of the constants.                                 *)
LedgerBounds == MaxUses \in Nat \ {0} /\ Horizon \in Nat

VARIABLES
    grants,     \* BTreeMap<String, ApprovalTokenGrant>
    history     \* observation: per token, the outcome of its last `insert`

vars == <<grants, history>>

Status == {"pending", "granted", "consumed", "expired", "revoked"}

Time == 0 .. Horizon

Never == Horizon + 1        \* expires_at_epoch_seconds = None

Grant == [scope: Scope, approver: Actor, executor: Actor, status: Status,
          expires: Time \cup {Never}, maxUses: 1 .. MaxUses, uses: 0 .. MaxUses]

(* What was done with a token since the grant now under it was inserted.   *)
Use == [count: 0 .. MaxUses, revoked: BOOLEAN]

-----------------------------------------------------------------------------
(* Maps with a key added or taken away (BTreeMap insert and remove).       *)
Put(f, k, v) == [x \in DOMAIN f \cup {k} |-> IF x = k THEN v ELSE f[x]]

Drop(f, S) == [x \in DOMAIN f \ S |-> f[x]]

NewGrant(scope, approver, executor, status, expires, maxUses) ==
    [scope |-> scope, approver |-> approver, executor |-> executor,
     status |-> status, expires |-> expires, maxUses |-> maxUses, uses |-> 0]

(* `validate_grant` answers with the first check that fails, in this       *)
(* order: status, expiry, uses, scope, executor.                           *)
Validate(g, scope, executor, now) ==
    CASE g.status # "granted"         -> g.status
      [] now >= g.expires             -> "expired"
      [] g.uses >= g.maxUses          -> "consumed"
      [] g.scope # scope              -> "scope_mismatch"
      [] g.executor # executor        -> "unauthorized_delegate"
      [] OTHER                        -> "ok"

(* The grant after one accepted use.                                       *)
Used(g) ==
    [g EXCEPT !.uses = @ + 1,
              !.status = IF g.uses + 1 >= g.maxUses THEN "consumed" ELSE @]

-----------------------------------------------------------------------------
Init ==
    /\ grants = [t \in {} |-> 0]
    /\ history = [t \in {} |-> 0]

(* `insert` overwrites whatever grant the token had.                       *)
Insert(t, g) ==
    /\ grants' = Put(grants, t, g)
    /\ history' = Put(history, t, [count |-> 0, revoked |-> FALSE])

Remove(t) ==
    /\ t \in DOMAIN grants
    /\ grants' = Drop(grants, {t})
    /\ history' = Drop(history, {t})

(* `revoke` sets the status whatever it was, a consumed grant included.    *)
Revoke(t) ==
    /\ t \in DOMAIN grants
    /\ grants' = [grants EXCEPT ![t].status = "revoked"]
    /\ history' = [history EXCEPT ![t].revoked = TRUE]

(* `consume`; a refusal (and `verify`) leaves the ledger as it was.        *)
Consume(t, scope, executor, now) ==
    /\ t \in DOMAIN grants
    /\ Validate(grants[t], scope, executor, now) = "ok"
    /\ grants' = [grants EXCEPT ![t] = Used(@)]
    /\ history' = [history EXCEPT ![t].count = @ + 1]

Next ==
    \/ \E t \in Token, s \in Scope, a, e \in Actor, m \in 1 .. MaxUses,
          x \in Time \cup {Never}, st \in {"pending", "granted"} :
          Insert(t, NewGrant(s, a, e, st, x, m))
    \/ \E t \in Token : Remove(t) \/ Revoke(t)
    \/ \E t \in Token, s \in Scope, e \in Actor, now \in Time :
          Consume(t, s, e, now)

Spec == Init /\ [][Next]_vars

-----------------------------------------------------------------------------
(* Type invariant of the map and of the observation beside it.             *)
TypeOK ==
    /\ DOMAIN grants \subseteq Token
    /\ grants \in [DOMAIN grants -> Grant]
    /\ history \in [DOMAIN grants -> Use]

(* Between two insertions a token is accepted at most max_uses times, and  *)
(* the ledger's own counter agrees with the acceptances it handed out      *)
(* (consume, approval_tokens.rs:255).                                      *)
UseBudget ==
    \A t \in DOMAIN grants :
        /\ history[t].count <= grants[t].maxUses
        /\ history[t].count = grants[t].uses
        /\ grants[t].status = "granted" => grants[t].uses < grants[t].maxUses

(* A token revoked since it was inserted keeps that status, whatever is    *)
(* called next, and validate_grant refuses it (revoke, :231).              *)
RevokedIsRefused ==
    \A t \in DOMAIN grants : history[t].revoked => grants[t].status = "revoked"
=============================================================================
