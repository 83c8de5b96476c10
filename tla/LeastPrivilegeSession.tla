----------------------- MODULE LeastPrivilegeSession -----------------------
(***************************************************************************)
(* The least-privilege session of rust/crates/runtime/src/permissions.rs:  *)
(* a mode in force, raised by grants that may be for one operation, may    *)
(* carry a lease, and end with the session.                                *)
(*                                                                         *)
(* The caller sets the clock, and may set it back.  An Option is a set of  *)
(* at most one element.                                                    *)
(***************************************************************************)
EXTENDS Integers, SequencesExt

CONSTANTS
    Tool,
    MaxMode,            \* the maxima of the roles: with_max_mode
    SessionTimeout,     \* with_session_timeout_ms: Option of a time
    Request,            \* escalation requests callers make
    Template,           \* templates registered: Option of lease_ms for the lease
    MaxNow,             \* bound: the clock's last value
    MaxGrants           \* bound: grants made in one session

Mode == {"read-only", "workspace-write", "danger-full-access", "prompt", "allow"}

Time == 0 .. MaxNow

Option(S) == {o \in SUBSET S : \A x, y \in o : x = y}

RequestType ==
    [mode: Mode, once: BOOLEAN, lease: Option(Nat), tool: Option(Tool), stated: BOOLEAN]

ASSUME SessionAssumption ==
    /\ MaxMode \subseteq Mode
    /\ SessionTimeout \in Option(Nat)
    /\ Request \subseteq RequestType
    /\ Template \subseteq [mode: Mode, once: BOOLEAN, leaseFor: Option(Nat), stated: BOOLEAN]
    /\ MaxNow \in Nat
    /\ MaxGrants \in Nat

VARIABLES
    maxMode,    \* max_mode, the role's
    active,     \* active_mode
    now,        \* now_ms
    expires,    \* session_expires_at_ms
    grants,     \* every grant made, oldest first
    frozen,     \* frozen_reason is set
    auditOpen,  \* the grants still open according to the audit log
    endedAt     \* observation: grants made when the session last ended

vars == <<maxMode, active, now, expires, grants, frozen, auditOpen, endedAt>>

Grant ==
    [mode: Mode, previous: Mode, once: BOOLEAN, lease: Option(Nat), tool: Option(Tool),
     active: BOOLEAN, used: BOOLEAN]

BaseMode == "read-only"

Rank(m) ==
    CASE m = "prompt" -> 0
      [] m = "read-only" -> 1
      [] m = "workspace-write" -> 2
      [] m \in {"danger-full-access", "allow"} -> 4

Satisfies(m, required) == m = "allow" \/ Rank(m) >= Rank(required)

ClampTo(m, max) == IF Rank(m) > Rank(max) THEN max ELSE m

-----------------------------------------------------------------------------
Deactivate(gs, ks) == [k \in DOMAIN gs |-> IF k \in ks THEN [gs[k] EXCEPT !.active = FALSE]
                                                     ELSE gs[k]]

Past(option, t) == \E e \in option : e <= t

ActiveIn(gs) == {k \in DOMAIN gs : gs[k].active}

(* What `revoke_expired` comes to at time t: the mode, the end of the      *)
(* session, the grants, and what the audit log and the observation record. *)
SessionState == [active |-> active, expires |-> expires, grants |-> grants,
                 auditOpen |-> auditOpen, endedAt |-> endedAt]

(* Mutant of SessionEnded: the grants of the session stay active.          *)
SessionEndedWithGrants(st) ==
    [st EXCEPT !.active = BaseMode, !.expires = {}, !.endedAt = Len(grants)]

SessionEnded(st) ==
    [st EXCEPT !.active = BaseMode, !.expires = {}, !.auditOpen = {},
               !.grants = Deactivate(grants, DOMAIN grants), !.endedAt = Len(grants)]

(* Mutant of Closed: the audit event is written for the newest only.       *)
ClosedNewest(ks) == auditOpen \ {Max(ks)}

(* The audit events of the leases that ran out.                            *)
Closed(ks) == auditOpen \ ks

(* Mutant of LeasesRun: a grant is active as long as its lease runs.       *)
LeasesRunByClock(t) ==
    [k \in DOMAIN grants |-> IF grants[k].lease = {} THEN grants[k]
                             ELSE [grants[k] EXCEPT !.active = ~Past(grants[k].lease, t)]]

(* The grants after the leases that ran out are revoked.                   *)
LeasesRun(t) == Deactivate(grants, {k \in DOMAIN grants : Past(grants[k].lease, t)})

LeasesExpired(t) ==
    LET gs      == LeasesRun(t)
        revoked == ActiveIn(grants) \ ActiveIn(gs)
    IN  IF revoked = {} THEN [SessionState EXCEPT !.grants = gs]
        ELSE [SessionState EXCEPT
                !.grants = gs,
                !.auditOpen = Closed(revoked),
                !.active = IF ActiveIn(gs) = {} THEN BaseMode
                           ELSE gs[Max(ActiveIn(gs))].mode]

RevokeExpired(t) ==
    IF Past(expires, t) THEN SessionEnded(SessionState) ELSE LeasesExpired(t)

Become(st) ==
    /\ maxMode' = maxMode
    /\ active' = st.active
    /\ expires' = st.expires
    /\ grants' = st.grants
    /\ auditOpen' = st.auditOpen
    /\ endedAt' = st.endedAt

-----------------------------------------------------------------------------
Init ==
    /\ maxMode \in MaxMode
    /\ active = ClampTo(BaseMode, maxMode)
    /\ now = 0
    /\ expires = SessionTimeout
    /\ grants = <<>>
    /\ frozen = FALSE
    /\ auditOpen = {}
    /\ endedAt = 0

SetNow(t) ==
    /\ now' = t
    /\ Become(RevokeExpired(t))
    /\ UNCHANGED frozen

WithinCeiling(mode) == Satisfies(maxMode, mode)

Granted(st, r) ==
    [st EXCEPT
        !.active = r.mode,
        !.grants = Append(st.grants,
                          [mode |-> r.mode, previous |-> st.active, once |-> r.once,
                           lease |-> r.lease, tool |-> r.tool,
                           active |-> TRUE, used |-> FALSE]),
        !.auditOpen = @ \cup {Len(st.grants) + 1}]

(* `request_escalation`, granted.                                          *)
RequestEscalation(r) ==
    /\ ~frozen /\ WithinCeiling(r.mode) /\ r.stated
    /\ Len(grants) < MaxGrants
    /\ Become(Granted(RevokeExpired(now), r))
    /\ UNCHANGED <<now, frozen>>

(* `apply_template`: the lease counts from now.                            *)
ApplyTemplate(p) ==
    RequestEscalation([mode |-> p.mode, once |-> p.once, tool |-> {}, stated |-> p.stated,
                       lease |-> {now + d : d \in p.leaseFor}])

(* `authorize`, and `request_escalation` that refuses: whatever they       *)
(* answer, the leases have been looked at.                                 *)
Authorize ==
    /\ Become(RevokeExpired(now))
    /\ UNCHANGED <<now, frozen>>

(* `authorize` answers Allow to a tool that requires `required`.           *)
Allows(required) ==
    LET st == RevokeExpired(now)
    IN  ~frozen /\ Satisfies(maxMode, required) /\ Satisfies(st.active, required)

(* `complete_operation`: the newest open one-operation grant for the tool  *)
(* is used up and the mode goes back to what it was before that grant.     *)
CompleteOperation(tool) ==
    LET open == {k \in ActiveIn(grants) :
                   grants[k].once /\ (grants[k].tool = {} \/ tool \in grants[k].tool)}
    IN  \E last \in open :
          /\ \A k \in open : k <= last
          /\ grants' = [grants EXCEPT ![last].active = FALSE, ![last].used = TRUE]
          /\ active' = grants[last].previous
          /\ auditOpen' = auditOpen \ {last}
          /\ UNCHANGED <<maxMode, now, expires, frozen, endedAt>>

ExpireSession ==
    /\ Become(SessionEnded(SessionState))
    /\ UNCHANGED <<now, frozen>>

Freeze ==
    /\ frozen' = TRUE
    /\ active' = BaseMode
    /\ UNCHANGED <<maxMode, now, expires, grants, auditOpen, endedAt>>

Next ==
    \/ \E t \in Time : SetNow(t)
    \/ \E r \in Request : RequestEscalation(r)
    \/ \E p \in Template : ApplyTemplate(p)
    \/ Authorize
    \/ \E tool \in Tool : CompleteOperation(tool)
    \/ ExpireSession
    \/ Freeze

Spec == Init /\ [][Next]_vars

-----------------------------------------------------------------------------
(* Type invariant; a used grant is closed.                                 *)
TypeOK ==
    /\ maxMode \in MaxMode
    /\ active \in Mode
    /\ now \in Time
    /\ expires \in Option(Nat)
    /\ grants \in Seq(Grant)
    /\ \A k \in DOMAIN grants : grants[k].used => ~grants[k].active
    /\ frozen \in BOOLEAN
    /\ auditOpen \subseteq DOMAIN grants
    /\ endedAt \in 0 .. Len(grants)

(* The audit log, replayed, tells exactly which grants are open: a grant   *)
(* event opens one, an auto-drop or lease-expire event closes one, and a   *)
(* session-expire event closes all (audit, permissions.rs:526).            *)
AuditReplays == auditOpen = ActiveIn(grants)

(* A grant that has been used, revoked or ended with its session never     *)
(* comes back, also when the clock is set back before its lease.           *)
GrantsNeverRevive ==
    [][\A k \in DOMAIN grants : ~grants[k].active => ~grants'[k].active]_vars

(* Once the session has ended, the mode is the base mode until something   *)
(* is granted again: nothing left over from the session, such as an        *)
(* operation completing late, can raise it (permissions.rs:436, 468).      *)
EndedSessionIsBase ==
    Len(grants) = endedAt => Rank(active) <= Rank(BaseMode)

(* Docs: elevation is held by lease and scope                              *)
(* (docs/requirements-4.3-safety-intent-plan.md:35) and a one-operation    *)
(* grant drops by itself when the operation is done (permissions.rs:1387). *)
(* So what is authorised above the base mode is covered by a grant that is *)
(* still open.                                                             *)
ElevationIsBacked ==
    \A required \in Mode :
        Allows(required) /\ Rank(required) > Rank(BaseMode) =>
            \E k \in ActiveIn(RevokeExpired(now).grants) : Satisfies(grants[k].mode, required)
=============================================================================
