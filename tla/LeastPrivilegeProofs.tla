------------------------ MODULE LeastPrivilegeProofs ------------------------
(***************************************************************************)
(* Proofs about the least-privilege session, for every set of tools, every *)
(* role, request and template, and every clock.                            *)
(***************************************************************************)
EXTENDS LeastPrivilegeSession, SequenceTheorems, WellFoundedInduction, TLAPS

(* Nothing is open, and nothing is raised, until something is granted      *)
(* after the end of a session.                                             *)
EndedIsQuiet ==
    Len(grants) = endedAt => ActiveIn(grants) = {} /\ Rank(active) <= Rank(BaseMode)

SessionInv == TypeOK /\ AuditReplays /\ EndedIsQuiet

-----------------------------------------------------------------------------
(* A nonempty set of places of a sequence has a last one.                  *)
LEMMA MaxOfPlaces ==
    ASSUME NEW n \in Nat, NEW S \in SUBSET (1 .. n), S /= {}
    PROVE  Max(S) \in S /\ \A k \in S : k <= Max(S)
<1> DEFINE D == {d \in Nat : n - d \in S}
<1>1. D \subseteq Nat /\ D /= {}
  <2>1. PICK k \in S : TRUE
    OBVIOUS
  <2>2. n - k \in Nat /\ n - (n - k) = k
    OBVIOUS
  <2>3. QED
    BY <2>1, <2>2
<1>2. PICK d \in D : \A e \in D : ~(<<e, d>> \in OpToRel(<, Nat))
  <2> HIDE DEF D
  <2>1. QED
    BY <1>1, NatLessThanWellFounded, WFMin
<1>3. \A e \in D : d <= e
  <2>1. ASSUME NEW e \in D PROVE d <= e
    <3>1. ~(<<e, d>> \in OpToRel(<, Nat))
      BY <1>2
    <3>2. d \in Nat /\ e \in Nat
      OBVIOUS
    <3>3. ~(e < d)
      BY <3>1, <3>2 DEF OpToRel
    <3>4. QED
      BY <3>2, <3>3
  <2>2. QED
    BY <2>1
<1>4. \A k \in S : n - k \in D
  OBVIOUS
<1>5. n - d \in S /\ \A k \in S : n - d >= k
  BY <1>3, <1>4
<1>6. QED
  BY <1>5 DEF Max

-----------------------------------------------------------------------------
(* What a state of the session computed by a call satisfies, as grants of  *)
(* the session it was computed from.                                       *)
Sound(st, gs) ==
    /\ st.active \in Mode
    /\ st.expires \in Option(Nat)
    /\ st.grants \in Seq(Grant)
    /\ \A k \in DOMAIN st.grants : st.grants[k].used => ~st.grants[k].active
    /\ st.auditOpen = ActiveIn(st.grants)
    /\ st.endedAt \in 0 .. Len(st.grants)
    /\ Len(st.grants) = st.endedAt =>
           ActiveIn(st.grants) = {} /\ Rank(st.active) <= Rank(BaseMode)
    /\ DOMAIN gs \subseteq DOMAIN st.grants
    /\ \A k \in DOMAIN gs : ~gs[k].active => ~st.grants[k].active

LEMMA DeactivateKeeps ==
    ASSUME NEW gs \in Seq(Grant), NEW ks,
           \A k \in DOMAIN gs : gs[k].used => ~gs[k].active
    PROVE  LET hs == Deactivate(gs, ks)
           IN  /\ hs \in Seq(Grant)
               /\ Len(hs) = Len(gs) /\ DOMAIN hs = DOMAIN gs
               /\ \A k \in DOMAIN gs : hs[k].used => ~hs[k].active
               /\ \A k \in DOMAIN gs : hs[k].mode = gs[k].mode
               /\ ActiveIn(hs) = ActiveIn(gs) \ ks
<1> DEFINE Entry(k) == IF k \in ks THEN [gs[k] EXCEPT !.active = FALSE] ELSE gs[k]
           hs == [k \in DOMAIN gs |-> Entry(k)]
<1>1. DOMAIN gs = 1 .. Len(gs) /\ Len(gs) \in Nat /\ \A k \in DOMAIN gs : gs[k] \in Grant
  OBVIOUS
<1>2. ASSUME NEW k \in DOMAIN gs
      PROVE  /\ Entry(k) \in Grant
             /\ Entry(k).used => ~Entry(k).active
             /\ Entry(k).mode = gs[k].mode
             /\ Entry(k).active = (gs[k].active /\ k \notin ks)
  BY <1>1 DEF Grant
<1> HIDE DEF Entry
<1>3. hs \in [1 .. Len(gs) -> Grant]
  BY <1>1, <1>2
<1>4. hs \in Seq(Grant) /\ Len(hs) = Len(gs)
  <2> HIDE DEF hs
  <2>1. QED
    BY <1>1, <1>3
<1>5. ActiveIn(hs) = ActiveIn(gs) \ ks
  BY <1>2 DEF ActiveIn
<1>6. hs = Deactivate(gs, ks)
  BY DEF Deactivate, Entry
<1>7. QED
  BY <1>2, <1>4, <1>5, <1>6

LEMMA BaseModeFacts ==
    /\ BaseMode \in Mode
    /\ {} \in Option(Nat)
BY DEF BaseMode, Mode, Option

LEMMA SessionIsSound == SessionInv => Sound(SessionState, grants)
BY DEF SessionInv, TypeOK, AuditReplays, EndedIsQuiet, Sound, SessionState

LEMMA SessionEndedIsSound ==
    ASSUME SessionInv
    PROVE  /\ Sound(SessionEnded(SessionState), grants)
           /\ Len(SessionEnded(SessionState).grants) = Len(grants)
<1> DEFINE hs == Deactivate(grants, DOMAIN grants)
           st == SessionEnded(SessionState)
<1>1. /\ grants \in Seq(Grant) /\ active \in Mode
      /\ \A k \in DOMAIN grants : grants[k].used => ~grants[k].active
  BY DEF SessionInv, TypeOK
<1>2. /\ hs \in Seq(Grant) /\ Len(hs) = Len(grants) /\ DOMAIN hs = DOMAIN grants
      /\ \A k \in DOMAIN grants : hs[k].used => ~hs[k].active
      /\ ActiveIn(hs) = {}
  <2>1. ActiveIn(grants) \ DOMAIN grants = {}
    BY DEF ActiveIn
  <2>2. QED
    BY <1>1, <2>1, DeactivateKeeps
<1> HIDE DEF hs
<1>3. /\ st.active = BaseMode /\ st.expires = {} /\ st.auditOpen = {}
      /\ st.grants = hs /\ st.endedAt = Len(grants)
  BY DEF SessionEnded, SessionState, hs
<1> HIDE DEF st
<1>4. Rank(BaseMode) <= Rank(BaseMode)
  BY DEF Rank, BaseMode
<1>5. Len(grants) \in Nat
  BY <1>1
<1>6. Sound(st, grants)
  BY <1>2, <1>3, <1>4, <1>5, BaseModeFacts DEF Sound, ActiveIn
<1>7. QED
  BY <1>2, <1>3, <1>6 DEF st

LEMMA LeasesExpiredIsSound ==
    ASSUME SessionInv, NEW t
    PROVE  /\ Sound(LeasesExpired(t), grants)
           /\ Len(LeasesExpired(t).grants) = Len(grants)
<1> DEFINE ran == {k \in DOMAIN grants : Past(grants[k].lease, t)}
           gs == LeasesRun(t)
           revoked == ActiveIn(grants) \ ActiveIn(gs)
           st == LeasesExpired(t)
<1>1. /\ grants \in Seq(Grant) /\ active \in Mode /\ expires \in Option(Nat)
      /\ \A k \in DOMAIN grants : grants[k].used => ~grants[k].active
      /\ auditOpen = ActiveIn(grants)
      /\ endedAt \in 0 .. Len(grants)
      /\ Len(grants) = endedAt => ActiveIn(grants) = {} /\ Rank(active) <= Rank(BaseMode)
  BY DEF SessionInv, TypeOK, AuditReplays, EndedIsQuiet
<1>2. /\ gs \in Seq(Grant) /\ Len(gs) = Len(grants) /\ DOMAIN gs = DOMAIN grants
      /\ \A k \in DOMAIN grants : gs[k].used => ~gs[k].active
      /\ ActiveIn(gs) = ActiveIn(grants) \ ran
  <2> HIDE DEF ran
  <2>1. gs = Deactivate(grants, ran)
    BY DEF LeasesRun, ran
  <2>2. QED
    BY <1>1, <2>1, DeactivateKeeps
<1> HIDE DEF ran, gs
<1>3. \A k \in DOMAIN grants : ~grants[k].active => ~gs[k].active
  BY <1>2 DEF ActiveIn
<1>4. CASE revoked = {}
  <2>1. /\ st.active = active /\ st.expires = expires /\ st.grants = gs
        /\ st.auditOpen = auditOpen /\ st.endedAt = endedAt
    BY <1>4 DEF LeasesExpired, SessionState, gs
  <2>2. ActiveIn(gs) = ActiveIn(grants)
    BY <1>2, <1>4
  <2> HIDE DEF st
  <2>3. Sound(st, grants)
    BY <1>1, <1>2, <1>3, <2>1, <2>2 DEF Sound
  <2>4. QED
    BY <1>2, <2>1, <2>3 DEF st
<1>5. CASE revoked /= {}
  <2> DEFINE m == IF ActiveIn(gs) = {} THEN BaseMode ELSE gs[Max(ActiveIn(gs))].mode
  <2>1. /\ st.active = m /\ st.expires = expires /\ st.grants = gs
        /\ st.auditOpen = auditOpen \ revoked /\ st.endedAt = endedAt
    BY <1>5 DEF LeasesExpired, SessionState, Closed, gs
  <2>2. m \in Mode
    <3> DEFINE S == ActiveIn(gs)
    <3>0. S \subseteq DOMAIN gs
      BY DEF ActiveIn
    <3>1. DOMAIN gs = 1 .. Len(gs) /\ Len(gs) \in Nat
      BY <1>2
    <3> HIDE DEF S
    <3>2. S /= {} => Max(S) \in DOMAIN gs
      BY <3>0, <3>1, MaxOfPlaces
    <3>3. \A k \in DOMAIN gs : gs[k].mode \in Mode
      <4>1. \A k \in DOMAIN gs : gs[k] \in Grant
        BY <1>2
      <4>2. QED
        BY <4>1 DEF Grant
    <3>4. QED
      BY <3>2, <3>3, BaseModeFacts DEF S
  <2>3. auditOpen \ revoked = ActiveIn(gs)
    BY <1>1, <1>2
  <2>4. Len(grants) /= endedAt
    BY <1>1, <1>5
  <2> HIDE DEF st, m
  <2>5. Sound(st, grants)
    BY <1>1, <1>2, <1>3, <2>1, <2>2, <2>3, <2>4 DEF Sound
  <2>6. QED
    BY <1>2, <2>1, <2>5 DEF st
<1>6. QED
  BY <1>4, <1>5

LEMMA RevokeExpiredIsSound ==
    ASSUME SessionInv, NEW t
    PROVE  /\ Sound(RevokeExpired(t), grants)
           /\ Len(RevokeExpired(t).grants) = Len(grants)
BY SessionEndedIsSound, LeasesExpiredIsSound DEF RevokeExpired

LEMMA GrantedIsSound ==
    ASSUME SessionInv, NEW r \in RequestType, NEW st, Sound(st, grants),
           Len(st.grants) = Len(grants),
           st = [active |-> st.active, expires |-> st.expires, grants |-> st.grants,
                 auditOpen |-> st.auditOpen, endedAt |-> st.endedAt]
    PROVE  Sound(Granted(st, r), grants)
<1> DEFINE g == [mode |-> r.mode, previous |-> st.active, once |-> r.once,
                 lease |-> r.lease, tool |-> r.tool, active |-> TRUE, used |-> FALSE]
           n == Len(st.grants)
           gs == Append(st.grants, g)
           new == Granted(st, r)
<1>1. g \in Grant /\ g.active /\ ~g.used /\ r.mode \in Mode
  BY DEF Sound, RequestType, Grant
<1>2. /\ new.active = r.mode /\ new.expires = st.expires /\ new.grants = gs
      /\ new.auditOpen = st.auditOpen \cup {n + 1} /\ new.endedAt = st.endedAt
  BY DEF Granted
<1> HIDE DEF g, new
<1>3. /\ gs \in Seq(Grant) /\ Len(gs) = n + 1 /\ n \in Nat
      /\ DOMAIN st.grants = 1 .. n /\ DOMAIN gs = 1 .. n + 1
      /\ \A k \in 1 .. n : gs[k] = st.grants[k]
      /\ gs[n + 1] = g
  BY <1>1, AppendProperties DEF Sound
<1> HIDE DEF gs, n
<1>4. ActiveIn(gs) = ActiveIn(st.grants) \cup {n + 1}
  BY <1>1, <1>3 DEF ActiveIn
<1>5. \A k \in DOMAIN gs : gs[k].used => ~gs[k].active
  BY <1>1, <1>3 DEF Sound
<1>6. st.endedAt \in 0 .. n
  BY DEF Sound, n
<1>7. Len(gs) /= st.endedAt /\ st.endedAt \in 0 .. Len(gs)
  BY <1>3, <1>6
<1>8. DOMAIN grants \subseteq DOMAIN gs
      /\ \A k \in DOMAIN grants : ~grants[k].active => ~gs[k].active
  BY <1>3 DEF Sound
<1>9. Sound(new, grants)
  BY <1>1, <1>2, <1>3, <1>4, <1>5, <1>7, <1>8 DEF Sound
<1>10. QED
  BY <1>9 DEF new

-----------------------------------------------------------------------------
(* A step to a sound state keeps the invariant, and revives nothing.       *)
NothingRevives == \A k \in DOMAIN grants : ~grants[k].active => ~grants'[k].active

LEMMA BecomeSound ==
    ASSUME SessionInv, NEW st, Sound(st, grants), Become(st), now' \in Time,
           frozen' \in BOOLEAN
    PROVE  SessionInv' /\ NothingRevives
<1>1. maxMode' \in MaxMode
  BY DEF SessionInv, TypeOK, Become
<1>2. TypeOK'
  BY <1>1 DEF Become, Sound, TypeOK, ActiveIn
<1>3. AuditReplays' /\ EndedIsQuiet' /\ NothingRevives
  BY DEF Become, Sound, AuditReplays, EndedIsQuiet, NothingRevives
<1>4. QED
  BY <1>2, <1>3 DEF SessionInv

LEMMA CompleteOperationStep ==
    ASSUME SessionInv, NEW tool \in Tool, CompleteOperation(tool)
    PROVE  SessionInv' /\ NothingRevives
<1>1. PICK last \in ActiveIn(grants) :
          /\ grants' = [grants EXCEPT ![last].active = FALSE, ![last].used = TRUE]
          /\ active' = grants[last].previous
          /\ auditOpen' = auditOpen \ {last}
          /\ UNCHANGED <<maxMode, now, expires, frozen, endedAt>>
  BY DEF CompleteOperation
<1>2. /\ grants \in Seq(Grant) /\ last \in DOMAIN grants /\ grants[last] \in Grant
      /\ auditOpen = ActiveIn(grants) /\ endedAt \in 0 .. Len(grants)
      /\ \A k \in DOMAIN grants : grants[k].used => ~grants[k].active
      /\ Len(grants) /= endedAt
  BY <1>1 DEF SessionInv, TypeOK, AuditReplays, EndedIsQuiet, ActiveIn
<1> DEFINE a == [grants[last] EXCEPT !.active = FALSE]
           u == [a EXCEPT !.used = TRUE]
<1>3. a \in Grant
  BY <1>2 DEF Grant
<1>4. u \in Grant /\ u.active = FALSE /\ u.used = TRUE
  <2> HIDE DEF a
  <2>1. u \in Grant /\ u.used = TRUE /\ u.active = a.active
    BY <1>3 DEF Grant
  <2>2. a.active = FALSE
    BY <1>2 DEF a, Grant
  <2>3. QED
    BY <2>1, <2>2
<1>5. grants' = [grants EXCEPT ![last] = u]
  BY <1>1, <1>2
<1> HIDE DEF u
<1>6. /\ grants' \in Seq(Grant) /\ Len(grants') = Len(grants)
      /\ DOMAIN grants' = DOMAIN grants /\ grants'[last] = u
      /\ \A k \in DOMAIN grants : k /= last => grants'[k] = grants[k]
  BY <1>2, <1>4, <1>5
<1>7. ActiveIn(grants)' = ActiveIn(grants) \ {last}
  BY <1>4, <1>6 DEF ActiveIn
<1>8. active' \in Mode
  BY <1>1, <1>2 DEF Grant
<1>9. \A k \in DOMAIN grants' : grants'[k].used => ~grants'[k].active
  BY <1>2, <1>4, <1>6
<1>10. TypeOK'
  <2>1. /\ maxMode' \in MaxMode /\ now' \in Time /\ expires' \in Option(Nat)
        /\ frozen' \in BOOLEAN
    BY <1>1 DEF SessionInv, TypeOK
  <2>2. endedAt' \in 0 .. Len(grants')
    BY <1>1, <1>2, <1>6
  <2>3. auditOpen' \subseteq DOMAIN grants'
    BY <1>1, <1>2, <1>6 DEF ActiveIn
  <2>4. QED
    BY <1>6, <1>8, <1>9, <2>1, <2>2, <2>3 DEF TypeOK
<1>11. AuditReplays'
  BY <1>1, <1>2, <1>7 DEF AuditReplays
<1>12. EndedIsQuiet'
  BY <1>1, <1>2, <1>6 DEF EndedIsQuiet
<1>13. NothingRevives
  BY <1>4, <1>6 DEF NothingRevives
<1>14. QED
  BY <1>10, <1>11, <1>12, <1>13 DEF SessionInv

LEMMA EscalationStep ==
    ASSUME SessionInv, NEW r \in RequestType, RequestEscalation(r)
    PROVE  SessionInv' /\ NothingRevives
<1> DEFINE st == RevokeExpired(now)
<1>1. Sound(st, grants) /\ Len(st.grants) = Len(grants)
  BY RevokeExpiredIsSound
<1>2. st = [active |-> st.active, expires |-> st.expires, grants |-> st.grants,
            auditOpen |-> st.auditOpen, endedAt |-> st.endedAt]
  BY DEF RevokeExpired, SessionEnded, LeasesExpired, SessionState
<1>3. /\ Become(Granted(st, r)) /\ now' = now /\ frozen' = frozen
  BY DEF RequestEscalation
<1> HIDE DEF st
<1>4. Sound(Granted(st, r), grants)
  BY <1>1, <1>2, GrantedIsSound
<1>5. now' \in Time /\ frozen' \in BOOLEAN
  BY <1>3 DEF SessionInv, TypeOK
<1>6. QED
  BY <1>3, <1>4, <1>5, BecomeSound

(* The request a template makes is one a caller could make.                *)
LEMMA TemplateRequest ==
    ASSUME now \in Time, NEW p \in Template
    PROVE  [mode |-> p.mode, once |-> p.once, tool |-> {}, stated |-> p.stated,
            lease |-> {now + d : d \in p.leaseFor}] \in RequestType
<1>1. p \in [mode: Mode, once: BOOLEAN, leaseFor: Option(Nat), stated: BOOLEAN]
  BY SessionAssumption
<1>2. now \in Nat
  BY SessionAssumption DEF Time
<1>3. {now + d : d \in p.leaseFor} \in Option(Nat)
  <2>1. p.leaseFor \subseteq Nat /\ \A x, y \in p.leaseFor : x = y
    BY <1>1 DEF Option
  <2>2. \A x, y \in {now + d : d \in p.leaseFor} : x = y
    BY <2>1
  <2>3. {now + d : d \in p.leaseFor} \subseteq Nat
    BY <1>2, <2>1
  <2>4. QED
    BY <2>2, <2>3 DEF Option
<1>4. {} \in Option(Tool)
  BY DEF Option
<1>5. QED
  BY <1>1, <1>3, <1>4 DEF RequestType

LEMMA SessionStep == SessionInv /\ [Next]_vars => SessionInv' /\ (NothingRevives \/ UNCHANGED vars)
<1> SUFFICES ASSUME SessionInv, [Next]_vars
             PROVE  SessionInv' /\ (NothingRevives \/ UNCHANGED vars)
  OBVIOUS
<1>0. /\ maxMode \in MaxMode /\ now \in Time /\ frozen \in BOOLEAN
      /\ endedAt \in 0 .. Len(grants) /\ grants \in Seq(Grant)
  BY DEF SessionInv, TypeOK
<1>1. ASSUME NEW t \in Time, SetNow(t)
      PROVE  SessionInv' /\ NothingRevives
  BY <1>0, <1>1, RevokeExpiredIsSound, BecomeSound DEF SetNow
<1>2. ASSUME NEW r \in Request, RequestEscalation(r)
      PROVE  SessionInv' /\ NothingRevives
  BY <1>2, EscalationStep, SessionAssumption
<1>3. ASSUME NEW p \in Template, ApplyTemplate(p)
      PROVE  SessionInv' /\ NothingRevives
  BY <1>0, <1>3, TemplateRequest, EscalationStep DEF ApplyTemplate
<1>4. CASE Authorize
  BY <1>0, <1>4, RevokeExpiredIsSound, BecomeSound DEF Authorize
<1>5. ASSUME NEW tool \in Tool, CompleteOperation(tool)
      PROVE  SessionInv' /\ NothingRevives
  BY <1>5, CompleteOperationStep
<1>6. CASE ExpireSession
  BY <1>0, <1>6, SessionEndedIsSound, BecomeSound DEF ExpireSession
<1>7. CASE Freeze
  <2>1. active' \in Mode /\ Rank(active') <= Rank(BaseMode)
    BY <1>7 DEF Freeze, BaseMode, Mode, Rank
  <2>2. QED
    BY <1>7, <2>1 DEF Freeze, SessionInv, TypeOK, AuditReplays, EndedIsQuiet, NothingRevives
<1>8. CASE UNCHANGED vars
  BY <1>8 DEF vars, SessionInv, TypeOK, AuditReplays, EndedIsQuiet
<1>9. QED
  BY <1>1, <1>2, <1>3, <1>4, <1>5, <1>6, <1>7, <1>8 DEF Next

LEMMA SessionInit == Init => SessionInv
<1> SUFFICES ASSUME Init PROVE SessionInv
  OBVIOUS
<1>1. active \in Mode /\ Rank(active) <= Rank(BaseMode)
  BY SessionAssumption DEF Init, ClampTo, Rank, BaseMode, Mode
<1>2. grants \in Seq(Grant) /\ Len(grants) = 0 /\ DOMAIN grants = {} /\ ActiveIn(grants) = {}
  BY DEF Init, ActiveIn
<1>3. now \in Time
  BY SessionAssumption DEF Init, Time
<1>4. endedAt = 0 /\ auditOpen = {} /\ frozen = FALSE
  BY DEF Init
<1>5. maxMode \in MaxMode /\ expires \in Option(Nat)
  BY SessionAssumption DEF Init
<1>6. TypeOK
  <2>1. \A k \in DOMAIN grants : grants[k].used => ~grants[k].active
    BY <1>2
  <2>2. endedAt \in 0 .. Len(grants) /\ auditOpen \subseteq DOMAIN grants
    BY <1>2, <1>4
  <2>3. frozen \in BOOLEAN
    BY <1>4
  <2>4. QED
    BY <1>1, <1>2, <1>3, <1>5, <2>1, <2>2, <2>3, Zenon DEF TypeOK
<1>7. QED
  BY <1>1, <1>2, <1>4, <1>6 DEF SessionInv, AuditReplays, EndedIsQuiet

LEMMA SessionInvariant == Spec => []SessionInv
BY SessionInit, SessionStep, PTL DEF Spec

(* The session's fields, its grants and its audit keep their types, and a  *)
(* used grant is closed.                                                   *)
THEOREM SessionTypeOK == Spec => []TypeOK
<1>1. SessionInv => TypeOK
  BY DEF SessionInv
<1>2. QED
  BY <1>1, SessionInvariant, PTL

(* Replaying the audit log gives the open grants, through every sequence   *)
(* of leases, operations, session ends and clock settings (audit).         *)
THEOREM SessionAuditReplays == Spec => []AuditReplays
<1>1. SessionInv => AuditReplays
  BY DEF SessionInv
<1>2. QED
  BY <1>1, SessionInvariant, PTL

(* Nothing left over from a session that ended raises the mode             *)
(* (expire_session, complete_operation).                                   *)
THEOREM SessionEndedIsBase == Spec => []EndedSessionIsBase
<1>1. SessionInv => EndedSessionIsBase
  BY DEF SessionInv, EndedIsQuiet, EndedSessionIsBase
<1>2. QED
  BY <1>1, SessionInvariant, PTL

(* A closed grant stays closed, also when the clock is set back            *)
(* (revoke_expired).                                                       *)
THEOREM SessionGrantsNeverRevive == Spec => GrantsNeverRevive
<1>1. SessionInv /\ [Next]_vars =>
          [\A k \in DOMAIN grants : ~grants[k].active => ~grants'[k].active]_vars
  BY SessionStep DEF NothingRevives
<1>2. QED
  BY <1>1, SessionInvariant, PTL DEF Spec, GrantsNeverRevive
=============================================================================
