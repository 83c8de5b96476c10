--------------------- MODULE PluginRuntimeRegistryProofs ---------------------
(***************************************************************************)
(* The safety of PluginRuntimeRegistry for every set of plugins, versions, *)
(* dependencies, callers and mutators.                                     *)
(*                                                                         *)
(* SlotInv is what makes the properties of the mutations inductive: what a *)
(* mutator keeps from its preparation until it holds the slot, and that    *)
(* what it wants to install is closed.  CountInv adds the calls.           *)
(***************************************************************************)
EXTENDS PluginRuntimeRegistry, FiniteSetTheorems, TLAPS

----------------------------------------------------------------------------
(* A plugin no enabled plugin depends on may go.                           *)
Unneeded(j) == \E p \in Plugin : j.changed = {p} /\ DependentsOf(j.old, p) = {}

(* What m knows of the registry.                                           *)
Knows(m) ==
    /\ Holding(m) => mutating /\ snapshot = job[m].old /\ job[m].changed \subseteq blocked
    /\ pc[m] = "prepared" =>
           job[m].base <= generation /\ (job[m].base = generation => snapshot = job[m].old)
    /\ pc[m] \in {"prepared", "draining", "initializing"} => RequirementsHold(job[m].new)
    /\ pc[m] \in {"unloading", "stopping", "removing"} => Unneeded(job[m])

OneHolds == \A m, n \in Mutator : Holding(m) /\ Holding(n) => m = n

SlotInv ==
    /\ \A m \in Mutator : Knows(m)
    /\ OneHolds
    /\ SnapshotIsClosed
    /\ IdleIsOpen

CallsOn(p) == {c \in Caller : call[c] # None /\ call[c][1] = p}

CountInv ==
    /\ \A p \in Plugin : inFlight[p] = Cardinality(CallsOn(p))
    /\ DrainedStaysDrained

IInv == TypeOK /\ SlotInv /\ CountInv

----------------------------------------------------------------------------
(* Operators.                                                              *)

LEMMA NoJobType == NoJob \in Job
BY DEF NoJob, Job, Snapshot

(* What quarantine leaves is a snapshot that is closed.                    *)
LEMMA QuarantineCloses ==
    ASSUME NEW s \in Snapshot
    PROVE  Quarantined(s) \in Snapshot /\ RequirementsHold(Quarantined(s))
<1> DEFINE Sup == UNION {S \in SUBSET Enabled(s) : \A d \in Required : d[1] \in S => d[2] \in S}
           q == [p \in Plugin |-> IF p \in Enabled(s) \ Sup THEN Absent ELSE s[p]]
<1>1. Quarantined(s) = q
  BY DEF Quarantined
<1>2. q \in Snapshot
  BY DEF Snapshot
<1>3. Sup \subseteq Enabled(s)
  OBVIOUS
<1>4. ASSUME NEW p \in Plugin PROVE p \in Enabled(q) <=> p \in Sup
  <2>1. q[p] = IF p \in Enabled(s) \ Sup THEN Absent ELSE s[p]
    OBVIOUS
  <2> QED
    BY <1>3, <2>1, PluginAssumption DEF Enabled, Snapshot
<1>5. ASSUME NEW d \in Required, d[1] \in Enabled(q) PROVE d[2] \in Enabled(q)
  <2>1. d \in Plugin \X Plugin
    BY PluginAssumption
  <2>2. d[1] \in Plugin /\ d[2] \in Plugin
    BY <2>1
  <2>3. PICK S \in SUBSET Enabled(s) :
            (\A e \in Required : e[1] \in S => e[2] \in S) /\ d[1] \in S
    BY <1>4, <1>5, <2>2
  <2>4. d[2] \in S
    BY <2>3
  <2> QED
    BY <1>4, <2>2, <2>3, <2>4
<1> QED
  BY <1>1, <1>2, <1>5 DEF RequirementsHold

(* A snapshot stays closed when a plugin without dependents leaves it.     *)
LEMMA RemovalKeepsClosed ==
    ASSUME NEW s \in Snapshot, RequirementsHold(s),
           NEW p \in Plugin, DependentsOf(s, p) = {},
           NEW t, t = [x \in Plugin |-> IF x \in {p} THEN Absent ELSE s[x]]
    PROVE  t \in Snapshot /\ RequirementsHold(t)
<1>1. t \in Snapshot
  BY DEF Snapshot
<1>2. ASSUME NEW x \in Plugin PROVE x \in Enabled(t) <=> x \in Enabled(s) /\ x # p
  BY PluginAssumption DEF Enabled, Snapshot
<1>3. ASSUME NEW d \in Required, d[1] \in Enabled(t) PROVE d[2] \in Enabled(t)
  <2>1. d \in Plugin \X Plugin /\ d \in DependsOn
    BY PluginAssumption
  <2>2. d[1] \in Plugin /\ d[2] \in Plugin /\ d = <<d[1], d[2]>>
    BY <2>1
  <2>3. d[1] \in Enabled(s) /\ d[1] # p
    BY <1>2, <1>3, <2>2
  <2>4. d[2] \in Enabled(s)
    BY <2>3 DEF RequirementsHold
  <2>5. d[2] # p
    <3> SUFFICES ASSUME d[2] = p PROVE FALSE
      OBVIOUS
    <3>1. s[p] # Absent
      BY <2>4, PluginAssumption DEF Enabled
    <3>2. d[1] \in DependentsOf(s, p)
      BY <2>1, <2>2, <2>3, <3>1 DEF DependentsOf
    <3> QED
      BY <3>2
  <2> QED
    BY <1>2, <2>2, <2>4, <2>5
<1> QED
  BY <1>1, <1>3 DEF RequirementsHold

LEMMA AcceptedType ==
    ASSUME NEW s \in Snapshot, NEW r \in Snapshot,
           NEW refused \in SUBSET Plugin, NEW lost \in SUBSET Plugin
    PROVE  Accepted(s, r, refused, lost) \in Snapshot
<1>1. ASSUME NEW p \in Plugin
      PROVE  (CASE p \in lost -> Absent [] p \in refused -> s[p] [] OTHER -> r[p])
                  \in Version \cup {Absent, Disabled}
  BY DEF Snapshot
<1> QED
  BY <1>1 DEF Accepted, Snapshot

LEMMA ChangedType == \A s, t : Changed(s, t) \subseteq Plugin
BY DEF Changed, WithDependents

----------------------------------------------------------------------------
(* Types.                                                                  *)

(* TypeOK is inductive.                                                    *)
LEMMA TypePreserved == TypeOK /\ [Next]_vars => TypeOK'
<1> SUFFICES ASSUME TypeOK, [Next]_vars PROVE TypeOK'
  OBVIOUS
<1> USE DEF TypeOK
<1>1. ASSUME NEW c \in Caller, NEW p \in Plugin, Call(c, p) PROVE TypeOK'
  <2>1. snapshot[p] \in Version
    BY <1>1 DEF Call, Enabled
  <2> QED
    BY <1>1, <2>1 DEF Call, Instance
<1>2. ASSUME NEW c \in Caller, Return(c) PROVE TypeOK'
  <2>1. call[c] \in Instance
    BY <1>2 DEF Return
  <2>2. call[c][1] \in Plugin
    BY <2>1 DEF Instance
  <2>3. inFlight' \in [Plugin -> Nat]
    BY <1>2, <2>2 DEF Return
  <2> QED
    BY <1>2, <2>3 DEF Return
<1>3. ASSUME NEW m \in Mutator, NEW r \in Snapshot, NEW refused \in SUBSET Plugin,
             NEW lost \in SUBSET Plugin, Prepare(m, r, refused, lost)
      PROVE  TypeOK'
  <2> DEFINE acc == Accepted(snapshot, r, refused, lost)
             new == Quarantined(acc)
             j == [base |-> generation, old |-> snapshot, new |-> new,
                   changed |-> Changed(snapshot, new), degraded |-> refused # {} \/ new # acc,
                   done |-> {}, failed |-> FALSE]
  <2>1. new \in Snapshot
    BY AcceptedType, QuarantineCloses
  <2>2. Changed(snapshot, new) \in SUBSET Plugin
    BY ChangedType
  <2>3. job' = [job EXCEPT ![m] = j] /\ Go(m, "prepared") /\ UNCHANGED <<inner, call, up>>
    BY <1>3 DEF Prepare
  <2>4. (refused # {} \/ new # acc) \in BOOLEAN
    OBVIOUS
  <2> HIDE DEF new, acc
  <2>5. j \in Job
    BY <2>1, <2>2, <2>4 DEF Job
  <2> HIDE DEF j
  <2> QED
    BY <2>3, <2>5 DEF Go, inner
<1>4. ASSUME NEW m \in Mutator, Abandon(m) PROVE TypeOK'
  BY <1>4, NoJobType DEF Abandon, Leave, Go, inner
<1>5. ASSUME NEW m \in Mutator, Commit(m) PROVE TypeOK'
  <2>1. job[m].changed \subseteq Plugin /\ job[m].degraded \in BOOLEAN
    BY DEF Job
  <2> QED
    BY <1>5, <2>1 DEF Commit, Go
<1>6. ASSUME NEW m \in Mutator, NEW p \in Plugin, UnloadNothing(m, p) PROVE TypeOK'
  BY <1>6 DEF UnloadNothing, Finish
<1>7. ASSUME NEW m \in Mutator, NEW p \in Plugin, Unload(m, p) PROVE TypeOK'
  <2> DEFINE new == [snapshot EXCEPT ![p] = Absent]
             j == [base |-> generation, old |-> snapshot, new |-> new,
                   changed |-> {p}, degraded |-> FALSE, done |-> {}, failed |-> FALSE]
  <2>1. new \in Snapshot
    BY DEF Snapshot
  <2>2. job' = [job EXCEPT ![m] = j]
    BY <1>7 DEF Unload
  <2> HIDE DEF new
  <2>3. j \in Job
    BY <2>1 DEF Job
  <2> HIDE DEF j
  <2> QED
    BY <1>7, <2>2, <2>3 DEF Unload, Go
<1>8. ASSUME NEW m \in Mutator, Drained(m) PROVE TypeOK'
  BY <1>8 DEF Drained, Go, inner
<1>9. ASSUME NEW m \in Mutator, DrainExpires(m) PROVE TypeOK'
  BY <1>9, NoJobType DEF DrainExpires, Finish, Leave, Go
<1>10. ASSUME NEW m \in Mutator, NEW p \in Plugin, Initialize(m, p) PROVE TypeOK'
  <2> DEFINE j == [job[m] EXCEPT !.done = @ \cup {p}]
  <2>1. p \in Enabled(job[m].new)
    BY <1>10 DEF Initialize, ToInitialize
  <2>2. <<p, job[m].new[p]>> \in Instance
    BY <2>1 DEF Enabled, Instance
  <2>3. j \in Job
    BY DEF Job
  <2>4. job' = [job EXCEPT ![m] = j]
    BY <1>10 DEF Initialize
  <2> HIDE DEF j
  <2> QED
    BY <1>10, <2>2, <2>3, <2>4 DEF Initialize, inner
<1>11. ASSUME NEW m \in Mutator, NEW left \in SUBSET Plugin, InitializeFails(m, left)
       PROVE  TypeOK'
  BY <1>11, NoJobType DEF InitializeFails, Finish, Leave, Go
<1>12. ASSUME NEW m \in Mutator, Install(m) PROVE TypeOK'
  <2> DEFINE j == [job[m] EXCEPT !.done = {}]
  <2>1. j \in Job /\ job[m].new \in Snapshot
    BY DEF Job
  <2>2. job' = [job EXCEPT ![m] = j]
    BY <1>12 DEF Install
  <2> HIDE DEF j
  <2>3. job' \in [Mutator -> Job] /\ snapshot' \in Snapshot
    BY <1>12, <2>1, <2>2 DEF Install
  <2>4. phase' \in {"ready", "degraded"} /\ blocked' = {} /\ mutating' = FALSE
    BY <1>12 DEF Install, Finish
  <2>5. generation' \in Nat
    BY <1>12 DEF Install
  <2> QED
    BY <1>12, <2>3, <2>4, <2>5 DEF Install, Go
<1>13. ASSUME NEW m \in Mutator, NEW p \in Plugin, NEW ok \in BOOLEAN, Retire(m, p, ok)
       PROVE  TypeOK'
  <2> DEFINE f == job[m].failed \/ ~ok
             j == [job[m] EXCEPT !.done = @ \cup {p}, !.failed = f]
  <2>1. f \in BOOLEAN
    OBVIOUS
  <2>2. job' = [job EXCEPT ![m] = j]
    BY <1>13 DEF Retire
  <2> HIDE DEF f
  <2>3. j \in Job
    BY <2>1 DEF Job
  <2> HIDE DEF j
  <2>4. up' \subseteq Instance
    BY <1>13 DEF Retire
  <2> QED
    BY <1>13, <2>2, <2>3, <2>4 DEF Retire, inner
<1>14. ASSUME NEW m \in Mutator, Retired(m) PROVE TypeOK'
  BY <1>14, NoJobType DEF Retired, Leave, Go
<1>15. ASSUME NEW m \in Mutator, Stop(m) PROVE TypeOK'
  BY <1>15 DEF Stop, Go, inner
<1>16. ASSUME NEW m \in Mutator, StopFails(m) PROVE TypeOK'
  BY <1>16, NoJobType DEF StopFails, Finish, Leave, Go
<1>17. ASSUME NEW m \in Mutator, Remove(m) PROVE TypeOK'
  <2>1. snapshot' \in Snapshot
    BY <1>17 DEF Remove, Snapshot
  <2>2. phase' = "ready" /\ blocked' = {} /\ mutating' = FALSE
    BY <1>17 DEF Remove, Finish
  <2>3. job' \in [Mutator -> Job] /\ pc' = [pc EXCEPT ![m] = "idle"]
    BY <1>17, NoJobType DEF Remove, Leave, Go
  <2>4. generation' \in Nat
    BY <1>17 DEF Remove
  <2> QED
    BY <1>17, <2>1, <2>2, <2>3, <2>4 DEF Remove
<1>18. CASE UNCHANGED vars
  BY <1>18 DEF vars, inner
<1> QED
  BY <1>1, <1>2, <1>3, <1>4, <1>5, <1>6, <1>7, <1>8, <1>9, <1>10, <1>11, <1>12, <1>13,
     <1>14, <1>15, <1>16, <1>17, <1>18 DEF Next, Start, Proceed

LEMMA TypeInit == Init => TypeOK
<1> SUFFICES ASSUME Init PROVE TypeOK
  OBVIOUS
<1>1. Instances(snapshot) \subseteq Instance
  BY DEF Instances, Instance, Enabled
<1> QED
  BY <1>1, NoJobType DEF Init, TypeOK

(* Every variable of the registry keeps its type, for any plugins, versions*)
(* and threads (struct PluginRuntimeInner).                                *)
THEOREM RegistryTypeOK == Spec => []TypeOK
BY TypeInit, TypePreserved, PTL DEF Spec

----------------------------------------------------------------------------
(* The slot.                                                               *)

(* What a mutator knows survives the steps of the others: they leave the   *)
(* snapshot and its generation alone, or install another under a generation*)
(* it did not prepare for.                                                 *)
LEMMA Bystander ==
    ASSUME TypeOK, NEW n \in Mutator, Knows(n), pc'[n] = pc[n], job'[n] = job[n],
           \/ /\ snapshot' = snapshot /\ generation' = generation
              /\ Holding(n) => mutating' = mutating /\ blocked' = blocked
           \/ ~Holding(n) /\ generation' = generation + 1
    PROVE  Knows(n)'
<1>1. job[n].base \in Nat /\ generation \in Nat
  BY DEF TypeOK, Job
<1>2. Holding(n)' = Holding(n)
  BY DEF Holding
<1>3. CASE snapshot' = snapshot /\ generation' = generation
           /\ (Holding(n) => mutating' = mutating /\ blocked' = blocked)
  BY <1>2, <1>3 DEF Knows
<1>4. CASE ~Holding(n) /\ generation' = generation + 1
  <2>1. pc[n] \notin {"draining", "initializing", "unloading", "stopping", "removing"}
    BY <1>4 DEF Holding
  <2> QED
    BY <1>1, <1>2, <1>4, <2>1 DEF Knows
<1> QED
  BY <1>3, <1>4

(* One step of m, of which the others are bystanders.                      *)
LEMMA StepOfOne ==
    ASSUME TypeOK, SlotInv, NEW m \in Mutator, NEW w, NEW j,
           pc' = [pc EXCEPT ![m] = w], job' = [job EXCEPT ![m] = j],
           \/ snapshot' = snapshot /\ generation' = generation
           \/ Holding(m) /\ generation' = generation + 1,
           Holding(m) \/ ~mutating \/ (mutating' = mutating /\ blocked' = blocked),
           Holding(m)' => Holding(m) \/ ~mutating,
           Knows(m)', SnapshotIsClosed', IdleIsOpen'
    PROVE  SlotInv'
<1>1. /\ pc'[m] = w /\ job'[m] = j
      /\ \A n \in Mutator \ {m} : pc'[n] = pc[n] /\ job'[n] = job[n]
  BY DEF TypeOK
<1>2. ASSUME NEW n \in Mutator \ {m} PROVE Knows(n)'
  <2>1. Knows(n) /\ (Holding(n) /\ Holding(m) => FALSE) /\ (Holding(n) => mutating)
    BY DEF SlotInv, OneHolds, Knows
  <2>2. \/ /\ snapshot' = snapshot /\ generation' = generation
           /\ Holding(n) => mutating' = mutating /\ blocked' = blocked
        \/ ~Holding(n) /\ generation' = generation + 1
    BY <2>1
  <2> QED
    BY <1>1, <2>1, <2>2, Bystander
<1>3. \A n \in Mutator \ {m} : Holding(n)' = Holding(n)
  BY <1>1 DEF Holding
<1>4. \A n \in Mutator : Holding(n) => mutating
  BY DEF SlotInv, Knows
<1>5. OneHolds'
  <2> SUFFICES ASSUME NEW k \in Mutator, NEW n \in Mutator, Holding(k)', Holding(n)'
               PROVE  k = n
    BY DEF OneHolds
  <2>1. OneHolds
    BY DEF SlotInv
  <2>2. CASE k # m /\ n # m
    BY <1>3, <2>1, <2>2 DEF OneHolds
  <2>3. CASE k = m /\ n # m
    BY <1>3, <1>4, <2>1, <2>3 DEF OneHolds
  <2>4. CASE k # m /\ n = m
    BY <1>3, <1>4, <2>1, <2>4 DEF OneHolds
  <2> QED
    BY <2>2, <2>3, <2>4
<1> QED
  BY <1>2, <1>5 DEF SlotInv

LEMMA SlotInit == Init => SlotInv
BY DEF Init, SlotInv, Knows, OneHolds, Holding, SnapshotIsClosed, IdleIsOpen

LEMMA SlotPreserved == TypeOK /\ SlotInv /\ [Next]_vars => SlotInv'
<1> SUFFICES ASSUME TypeOK, SlotInv, [Next]_vars PROVE SlotInv'
  OBVIOUS
<1>0. SnapshotIsClosed /\ IdleIsOpen /\ \A m \in Mutator : Knows(m)
  BY DEF SlotInv
<1>1. ASSUME UNCHANGED <<snapshot, generation, phase, mutating, blocked, pc, job>>
      PROVE  SlotInv'
  BY <1>1 DEF SlotInv, Knows, OneHolds, Holding, SnapshotIsClosed, RequirementsHold, Enabled,
              IdleIsOpen
<1>2. ASSUME NEW c \in Caller, Return(c) \/ \E p \in Plugin : Call(c, p) PROVE SlotInv'
  BY <1>1, <1>2 DEF Return, Call
<1>3. ASSUME NEW m \in Mutator, NEW r \in Snapshot, NEW refused \in SUBSET Plugin,
             NEW lost \in SUBSET Plugin, Prepare(m, r, refused, lost)
      PROVE  SlotInv'
  <2> DEFINE acc == Accepted(snapshot, r, refused, lost)
             new == Quarantined(acc)
             j == [base |-> generation, old |-> snapshot, new |-> new,
                   changed |-> Changed(snapshot, new), degraded |-> refused # {} \/ new # acc,
                   done |-> {}, failed |-> FALSE]
  <2>1. RequirementsHold(new)
    BY AcceptedType, QuarantineCloses DEF TypeOK
  <2>2. /\ ~mutating /\ pc[m] = "idle"
        /\ job' = [job EXCEPT ![m] = j] /\ pc' = [pc EXCEPT ![m] = "prepared"]
        /\ UNCHANGED inner
    BY <1>3 DEF Prepare, Go
  <2> HIDE DEF new, acc
  <2>3. j.base = generation /\ j.old = snapshot /\ j.new = new
    OBVIOUS
  <2> HIDE DEF j
  <2>4. pc'[m] = "prepared" /\ job'[m] = j /\ generation \in Nat
    BY <2>2 DEF TypeOK
  <2>5. Knows(m)'
    BY <2>1, <2>2, <2>3, <2>4 DEF Knows, Holding, inner, RequirementsHold, Enabled
  <2>6. SnapshotIsClosed' /\ IdleIsOpen'
    BY <1>0, <2>2 DEF SnapshotIsClosed, RequirementsHold, Enabled, IdleIsOpen, inner
  <2>7. ~Holding(m)'
    BY <2>4 DEF Holding
  <2> QED
    BY <2>2, <2>5, <2>6, <2>7, StepOfOne DEF inner
<1>4. ASSUME NEW m \in Mutator, Abandon(m) PROVE SlotInv'
  <2>1. /\ job' = [job EXCEPT ![m] = NoJob] /\ pc' = [pc EXCEPT ![m] = "idle"]
        /\ UNCHANGED inner
    BY <1>4 DEF Abandon, Leave, Go
  <2>2. pc'[m] = "idle"
    BY <2>1 DEF TypeOK
  <2>3. Knows(m)' /\ ~Holding(m)'
    BY <2>2 DEF Knows, Holding
  <2>4. SnapshotIsClosed' /\ IdleIsOpen'
    BY <1>0, <2>1 DEF SnapshotIsClosed, RequirementsHold, Enabled, IdleIsOpen, inner
  <2> QED
    BY <2>1, <2>3, <2>4, StepOfOne DEF inner
<1>5. ASSUME NEW m \in Mutator, Commit(m) PROVE SlotInv'
  <2>1. /\ pc[m] = "prepared" /\ ~mutating /\ generation = job[m].base
        /\ mutating' = TRUE /\ blocked' = blocked \cup job[m].changed
        /\ pc' = [pc EXCEPT ![m] = "draining"] /\ job' = job
        /\ UNCHANGED <<snapshot, generation>>
    BY <1>5 DEF Commit, Go
  <2>2. job' = [job EXCEPT ![m] = job[m]] /\ pc'[m] = "draining"
    BY <2>1 DEF TypeOK
  <2>3. Knows(m)'
    BY <1>0, <2>1, <2>2 DEF Knows, Holding, RequirementsHold, Enabled
  <2>4. SnapshotIsClosed' /\ IdleIsOpen'
    BY <1>0, <2>1 DEF SnapshotIsClosed, RequirementsHold, Enabled, IdleIsOpen
  <2> QED
    BY <2>1, <2>2, <2>3, <2>4, StepOfOne
<1>6. ASSUME NEW m \in Mutator, NEW p \in Plugin, UnloadNothing(m, p) PROVE SlotInv'
  <2>1. /\ ~mutating /\ mutating' = FALSE /\ blocked' = {} /\ phase' \in {"ready", "degraded"}
        /\ UNCHANGED <<snapshot, generation, pc, job>>
    BY <1>6 DEF UnloadNothing, Finish
  <2>2. pc' = [pc EXCEPT ![m] = pc[m]] /\ job' = [job EXCEPT ![m] = job[m]]
    BY <2>1 DEF TypeOK
  <2>3. ~Holding(m) /\ ~Holding(m)'
    BY <1>0, <2>1 DEF Knows, Holding
  <2>4. Knows(m)'
    BY <1>0, <2>1, <2>3 DEF Knows, Holding, RequirementsHold, Enabled
  <2>5. SnapshotIsClosed' /\ IdleIsOpen'
    BY <1>0, <2>1 DEF SnapshotIsClosed, RequirementsHold, Enabled, IdleIsOpen
  <2> QED
    BY <2>1, <2>2, <2>3, <2>4, <2>5, StepOfOne
<1>7. ASSUME NEW m \in Mutator, NEW p \in Plugin, Unload(m, p) PROVE SlotInv'
  <2> DEFINE j == [base |-> generation, old |-> snapshot,
                   new |-> [snapshot EXCEPT ![p] = Absent], changed |-> {p},
                   degraded |-> FALSE, done |-> {}, failed |-> FALSE]
  <2>1. /\ ~mutating /\ mutating' = TRUE /\ blocked' = blocked \cup {p}
        /\ DependentsOf(snapshot, p) = {}
        /\ pc' = [pc EXCEPT ![m] = "unloading"] /\ job' = [job EXCEPT ![m] = j]
        /\ UNCHANGED <<snapshot, generation>>
    BY <1>7 DEF Unload, Go
  <2>2. j.old = snapshot /\ j.changed = {p}
    OBVIOUS
  <2> HIDE DEF j
  <2>3. pc'[m] = "unloading" /\ job'[m] = j
    BY <2>1 DEF TypeOK
  <2>4. Unneeded(job[m])'
    BY <2>1, <2>2, <2>3 DEF Unneeded
  <2>5. Knows(m)'
    BY <2>1, <2>2, <2>3, <2>4 DEF Knows, Holding
  <2>6. SnapshotIsClosed' /\ IdleIsOpen'
    BY <1>0, <2>1 DEF SnapshotIsClosed, RequirementsHold, Enabled, IdleIsOpen
  <2> QED
    BY <2>1, <2>5, <2>6, StepOfOne
<1>8. ASSUME NEW m \in Mutator, Drained(m) PROVE SlotInv'
  <2> DEFINE w == IF pc[m] = "draining" THEN "initializing" ELSE "stopping"
  <2>1. /\ pc[m] \in {"draining", "unloading"} /\ pc' = [pc EXCEPT ![m] = w]
        /\ job' = job /\ UNCHANGED inner
    BY <1>8 DEF Drained, Go
  <2>2. pc'[m] = w /\ job' = [job EXCEPT ![m] = job[m]]
    BY <2>1 DEF TypeOK
  <2>3. Holding(m)
    BY <2>1 DEF Holding
  <2>4. Knows(m)'
    BY <1>0, <2>1, <2>2, <2>3 DEF Knows, Holding, RequirementsHold, Enabled, Unneeded, DependentsOf, inner
  <2>5. SnapshotIsClosed' /\ IdleIsOpen'
    BY <1>0, <2>1 DEF SnapshotIsClosed, RequirementsHold, Enabled, IdleIsOpen, inner
  <2> HIDE DEF w
  <2> QED
    BY <2>1, <2>2, <2>3, <2>4, <2>5, StepOfOne DEF inner
<1>9. ASSUME NEW m \in Mutator,
             DrainExpires(m) \/ StopFails(m) \/ \E left \in SUBSET Plugin : InitializeFails(m, left)
      PROVE  SlotInv'
  <2>1. /\ pc[m] \in {"draining", "unloading", "stopping", "initializing"}
        /\ phase' = "degraded" /\ blocked' = {} /\ mutating' = FALSE
        /\ pc' = [pc EXCEPT ![m] = "idle"] /\ job' = [job EXCEPT ![m] = NoJob]
        /\ UNCHANGED <<snapshot, generation>>
    BY <1>9 DEF DrainExpires, StopFails, InitializeFails, Finish, Leave, Go
  <2>2. pc'[m] = "idle" /\ Holding(m)
    BY <2>1 DEF TypeOK, Holding
  <2>3. Knows(m)'
    BY <2>2 DEF Knows, Holding
  <2>4. SnapshotIsClosed' /\ IdleIsOpen'
    BY <1>0, <2>1 DEF SnapshotIsClosed, RequirementsHold, Enabled, IdleIsOpen
  <2> QED
    BY <2>1, <2>2, <2>3, <2>4, StepOfOne
<1>10. ASSUME NEW m \in Mutator, NEW p \in Plugin,
              Initialize(m, p) \/ \E ok \in BOOLEAN : Retire(m, p, ok)
       PROVE  SlotInv'
  <2>1. PICK d, f : job' = [job EXCEPT ![m] = [job[m] EXCEPT !.done = d, !.failed = f]]
    <3>1. CASE Initialize(m, p)
      <4>1. job' = [job EXCEPT ![m] = [job[m] EXCEPT !.done = @ \cup {p}]]
        BY <3>1 DEF Initialize
      <4>2. job[m] \in Job
        BY DEF TypeOK
      <4>3. [job[m] EXCEPT !.done = @ \cup {p}]
              = [job[m] EXCEPT !.done = job[m].done \cup {p}, !.failed = job[m].failed]
        BY <4>2 DEF Job
      <4> QED
        BY <4>1, <4>3
    <3>2. CASE \E ok \in BOOLEAN : Retire(m, p, ok)
      <4>1. PICK ok \in BOOLEAN : Retire(m, p, ok)
        BY <3>2
      <4> DEFINE d == job[m].done \cup {p}
                 f == job[m].failed \/ ~ok
      <4>2. job' = [job EXCEPT ![m] = [job[m] EXCEPT !.done = d, !.failed = f]]
        BY <4>1 DEF Retire
      <4> HIDE DEF d, f
      <4> QED
        BY <4>2
    <3> QED
      BY <1>10, <3>1, <3>2
  <2> DEFINE j == [job[m] EXCEPT !.done = d, !.failed = f]
  <2>2. /\ j.base = job[m].base /\ j.old = job[m].old /\ j.new = job[m].new
        /\ j.changed = job[m].changed
    BY DEF TypeOK, Job
  <2>3. job' = [job EXCEPT ![m] = j] /\ UNCHANGED <<inner, pc>>
    BY <1>10, <2>1 DEF Initialize, Retire
  <2> HIDE DEF j
  <2>4. pc' = [pc EXCEPT ![m] = pc[m]] /\ job'[m] = j /\ pc'[m] = pc[m]
    BY <2>3 DEF TypeOK
  <2>5. pc[m] \in {"initializing", "retiring"}
    BY <1>10 DEF Initialize, Retire
  <2>6. Knows(m)'
    BY <1>0, <2>2, <2>3, <2>4, <2>5 DEF Knows, Holding, RequirementsHold, Enabled, inner
  <2>7. SnapshotIsClosed' /\ IdleIsOpen'
    BY <1>0, <2>3 DEF SnapshotIsClosed, RequirementsHold, Enabled, IdleIsOpen, inner
  <2>8. Holding(m)' => Holding(m)
    BY <2>4 DEF Holding
  <2> QED
    BY <2>3, <2>4, <2>6, <2>7, <2>8, StepOfOne DEF inner
<1>11. ASSUME NEW m \in Mutator, Install(m) PROVE SlotInv'
  <2> DEFINE j == [job[m] EXCEPT !.done = {}]
  <2>1. /\ pc[m] = "initializing" /\ snapshot' = job[m].new /\ generation' = generation + 1
        /\ pc' = [pc EXCEPT ![m] = "retiring"] /\ job' = [job EXCEPT ![m] = j]
    BY <1>11 DEF Install, Go
  <2>2. phase' \in {"ready", "degraded"} /\ blocked' = {} /\ mutating' = FALSE
    BY <1>11 DEF Install, Finish
  <2> HIDE DEF j
  <2>3. pc'[m] = "retiring" /\ Holding(m)
    BY <2>1 DEF TypeOK, Holding
  <2>4. Knows(m)' /\ ~Holding(m)'
    BY <2>3 DEF Knows, Holding
  <2>5. RequirementsHold(job[m].new)
    BY <1>0, <2>1 DEF Knows
  <2>6. SnapshotIsClosed' /\ IdleIsOpen'
    BY <2>1, <2>2, <2>5 DEF SnapshotIsClosed, RequirementsHold, Enabled, IdleIsOpen
  <2> QED
    BY <2>1, <2>3, <2>4, <2>6, StepOfOne
<1>12. ASSUME NEW m \in Mutator, Retired(m) PROVE SlotInv'
  <2>1. /\ phase' \in {"degraded", phase} /\ pc' = [pc EXCEPT ![m] = "idle"]
        /\ job' = [job EXCEPT ![m] = NoJob]
        /\ UNCHANGED <<snapshot, generation, mutating, blocked>>
    BY <1>12 DEF Retired, Leave, Go
  <2>2. pc'[m] = "idle"
    BY <2>1 DEF TypeOK
  <2>3. Knows(m)' /\ ~Holding(m)'
    BY <2>2 DEF Knows, Holding
  <2>4. SnapshotIsClosed' /\ IdleIsOpen'
    BY <1>0, <2>1 DEF SnapshotIsClosed, RequirementsHold, Enabled, IdleIsOpen
  <2> QED
    BY <2>1, <2>3, <2>4, StepOfOne
<1>13. ASSUME NEW m \in Mutator, Stop(m) PROVE SlotInv'
  <2>1. /\ pc[m] = "stopping" /\ pc' = [pc EXCEPT ![m] = "removing"] /\ UNCHANGED <<inner, job>>
    BY <1>13 DEF Stop, Go
  <2>2. pc'[m] = "removing" /\ job' = [job EXCEPT ![m] = job[m]] /\ Holding(m)
    BY <2>1 DEF TypeOK, Holding
  <2>3. Knows(m)'
    BY <1>0, <2>1, <2>2 DEF Knows, Holding, Unneeded, DependentsOf, Enabled, inner
  <2>4. SnapshotIsClosed' /\ IdleIsOpen'
    BY <1>0, <2>1 DEF SnapshotIsClosed, RequirementsHold, Enabled, IdleIsOpen, inner
  <2> QED
    BY <2>1, <2>2, <2>3, <2>4, StepOfOne DEF inner
<1>14. ASSUME NEW m \in Mutator, Remove(m) PROVE SlotInv'
  <2>1. /\ pc[m] = "removing" /\ generation' = generation + 1
        /\ snapshot' = [p \in Plugin |-> IF p \in job[m].changed THEN Absent ELSE snapshot[p]]
        /\ pc' = [pc EXCEPT ![m] = "idle"] /\ job' = [job EXCEPT ![m] = NoJob]
    BY <1>14 DEF Remove, Leave, Go
  <2>2. phase' = "ready" /\ blocked' = {} /\ mutating' = FALSE
    BY <1>14 DEF Remove, Finish
  <2>3. pc'[m] = "idle" /\ Holding(m)
    BY <2>1 DEF TypeOK, Holding
  <2>4. Knows(m)' /\ ~Holding(m)'
    BY <2>3 DEF Knows, Holding
  <2>5. PICK p \in Plugin : job[m].changed = {p} /\ DependentsOf(snapshot, p) = {}
    BY <1>0, <2>1, <2>3 DEF Knows, Unneeded
  <2>6. RequirementsHold(snapshot')
    BY <1>0, <2>1, <2>5, RemovalKeepsClosed DEF SnapshotIsClosed, TypeOK
  <2>7. SnapshotIsClosed' /\ IdleIsOpen'
    BY <2>2, <2>6 DEF SnapshotIsClosed, RequirementsHold, Enabled, IdleIsOpen
  <2> QED
    BY <2>1, <2>3, <2>4, <2>7, StepOfOne
<1>15. CASE UNCHANGED vars
  BY <1>1, <1>15 DEF vars, inner
<1> QED
  BY <1>2, <1>3, <1>4, <1>5, <1>6, <1>7, <1>8, <1>9, <1>10, <1>11, <1>12, <1>13, <1>14,
     <1>15 DEF Next, Start, Proceed

LEMMA SlotHolds == Spec => [](TypeOK /\ SlotInv)
BY TypeInit, TypePreserved, SlotInit, SlotPreserved, PTL DEF Spec

(* While a mutator holds the slot, it alone does, and the snapshot is the  *)
(* one its change was worked out against (the generation compared by       *)
(* commit_prepared_hot_replace).                                           *)
THEOREM RegistryChangeIsCurrent == Spec => []ChangeIsCurrent
<1>1. TypeOK /\ SlotInv => ChangeIsCurrent
  BY DEF SlotInv, OneHolds, Knows, ChangeIsCurrent
<1> QED
  BY <1>1, SlotHolds, PTL

(* Every required dependency of a loaded plugin is loaded, whatever is     *)
(* replaced, quarantined and unloaded.                                     *)
THEOREM RegistrySnapshotIsClosed == Spec => []SnapshotIsClosed
<1>1. TypeOK /\ SlotInv => SnapshotIsClosed
  BY DEF SlotInv
<1> QED
  BY <1>1, SlotHolds, PTL

(* A mutation that has ended leaves no plugin blocked and the phase of no  *)
(* change under way (finish_runtime_mutation on every path).               *)
THEOREM RegistryIdleIsOpen == Spec => []IdleIsOpen
<1>1. TypeOK /\ SlotInv => IdleIsOpen
  BY DEF SlotInv
<1> QED
  BY <1>1, SlotHolds, PTL

----------------------------------------------------------------------------
(* The calls.                                                              *)

LEMMA CallsFinite == \A p : IsFiniteSet(CallsOn(p))
<1>1. ASSUME NEW p PROVE IsFiniteSet(CallsOn(p))
  <2>1. CallsOn(p) \in SUBSET Caller
    BY DEF CallsOn
  <2> QED
    BY <2>1, FS_Subset, PluginAssumption
<1> QED
  BY <1>1

LEMMA CountInit == Init => CountInv
<1> SUFFICES ASSUME Init PROVE CountInv
  OBVIOUS
<1>1. ASSUME NEW p \in Plugin PROVE inFlight[p] = Cardinality(CallsOn(p))
  <2>1. CallsOn(p) = {} /\ inFlight[p] = 0
    BY DEF Init, CallsOn
  <2> QED
    BY <2>1, FS_EmptySet
<1> QED
  BY <1>1 DEF Init, CountInv, DrainedStaysDrained

(* The count follows the calls as they start and end.                      *)
LEMMA CountPreserved == TypeOK /\ SlotInv /\ CountInv /\ [Next]_vars => CountInv'
<1> SUFFICES ASSUME TypeOK, SlotInv, CountInv, [Next]_vars PROVE CountInv'
  OBVIOUS
<1>0. /\ \A p \in Plugin : inFlight[p] = Cardinality(CallsOn(p)) /\ inFlight[p] \in Nat
      /\ DrainedStaysDrained
  BY DEF CountInv, TypeOK
<1>1. ASSUME NEW c \in Caller, NEW p \in Plugin, Call(c, p) PROVE CountInv'
  <2>1. /\ call[c] = None /\ p \notin blocked /\ snapshot[p] \in Version
        /\ inFlight' = [inFlight EXCEPT ![p] = @ + 1]
        /\ call' = [call EXCEPT ![c] = <<p, snapshot[p]>>]
        /\ UNCHANGED <<pc, job>>
    BY <1>1 DEF Call, Enabled
  <2>2. /\ call'[c] = <<p, snapshot[p]>> /\ call'[c] # None /\ call'[c][1] = p
        /\ \A x \in Caller \ {c} : call'[x] = call[x]
    BY <2>1, PluginAssumption DEF TypeOK
  <2>3. ASSUME NEW q \in Plugin PROVE inFlight'[q] = Cardinality(CallsOn(q)')
    <3>1. CASE q = p
      <4>1. CallsOn(q)' = CallsOn(q) \cup {c} /\ c \notin CallsOn(q)
        BY <2>1, <2>2, <3>1 DEF CallsOn
      <4>2. inFlight'[q] = inFlight[q] + 1
        BY <2>1, <3>1 DEF TypeOK
      <4> QED
        BY <1>0, <4>1, <4>2, CallsFinite, FS_AddElement
    <3>2. CASE q # p
      <4>1. CallsOn(q)' = CallsOn(q)
        BY <2>1, <2>2, <3>2 DEF CallsOn
      <4>2. inFlight'[q] = inFlight[q]
        BY <2>1, <3>2 DEF TypeOK
      <4> QED
        BY <1>0, <4>1, <4>2
    <3> QED
      BY <3>1, <3>2
  <2>4. DrainedStaysDrained'
    <3> SUFFICES ASSUME NEW m \in Mutator, pc[m] \in {"initializing", "stopping", "removing"},
                        NEW x \in Caller, call'[x] # None
                 PROVE  call'[x][1] \notin job[m].changed
      BY <2>1 DEF DrainedStaysDrained
    <3>1. job[m].changed \subseteq blocked
      BY DEF SlotInv, Knows, Holding
    <3>2. CASE x = c
      BY <2>1, <2>2, <3>1, <3>2
    <3>3. CASE x # c
      BY <1>0, <2>2, <3>3 DEF DrainedStaysDrained
    <3> QED
      BY <3>2, <3>3
  <2> QED
    BY <2>3, <2>4 DEF CountInv
<1>2. ASSUME NEW c \in Caller, Return(c) PROVE CountInv'
  <2> DEFINE p == call[c][1]
  <2>1. /\ call[c] # None
        /\ inFlight' = [inFlight EXCEPT ![p] = IF @ > 0 THEN @ - 1 ELSE 0]
        /\ call' = [call EXCEPT ![c] = None]
        /\ UNCHANGED <<pc, job>>
    BY <1>2 DEF Return
  <2>2. call'[c] = None /\ \A x \in Caller \ {c} : call'[x] = call[x]
    BY <2>1 DEF TypeOK
  <2>3. ASSUME NEW q \in Plugin PROVE inFlight'[q] = Cardinality(CallsOn(q)')
    <3>1. CASE q = p
      <4>1. CallsOn(q)' = CallsOn(q) \ {c} /\ c \in CallsOn(q)
        BY <2>1, <2>2, <3>1 DEF CallsOn
      <4>2. inFlight'[q] = IF inFlight[q] > 0 THEN inFlight[q] - 1 ELSE 0
        BY <2>1, <3>1 DEF TypeOK
      <4>3. inFlight[q] # 0
        BY <1>0, <4>1, CallsFinite, FS_EmptySet
      <4>4. Cardinality(CallsOn(q)') = Cardinality(CallsOn(q)) - 1
        BY <4>1, CallsFinite, FS_RemoveElement
      <4> QED
        BY <1>0, <4>2, <4>3, <4>4
    <3>2. CASE q # p
      <4>1. CallsOn(q)' = CallsOn(q)
        BY <2>1, <2>2, <3>2 DEF CallsOn
      <4>2. inFlight'[q] = inFlight[q]
        BY <2>1, <3>2 DEF TypeOK
      <4> QED
        BY <1>0, <4>1, <4>2
    <3> QED
      BY <3>1, <3>2
  <2>4. DrainedStaysDrained'
    <3> SUFFICES ASSUME NEW m \in Mutator, pc[m] \in {"initializing", "stopping", "removing"},
                        NEW x \in Caller, call'[x] # None
                 PROVE  call'[x][1] \notin job[m].changed
      BY <2>1 DEF DrainedStaysDrained
    <3>1. x # c
      BY <2>2
    <3> QED
      BY <1>0, <2>2, <3>1 DEF DrainedStaysDrained
  <2> QED
    BY <2>3, <2>4 DEF CountInv
<1>3. ASSUME inFlight' = inFlight, call' = call, DrainedStaysDrained' PROVE CountInv'
  BY <1>0, <1>3 DEF CountInv, CallsOn
<1>4. ASSUME NEW m \in Mutator, NEW w \in {"idle", "prepared", "draining", "unloading", "retiring"},
             NEW j, inFlight' = inFlight, call' = call,
             pc' = [pc EXCEPT ![m] = w], job' = [job EXCEPT ![m] = j]
      PROVE  CountInv'
  <2>1. /\ pc'[m] = w
        /\ \A n \in Mutator \ {m} : pc'[n] = pc[n] /\ job'[n] = job[n]
    BY <1>4 DEF TypeOK
  <2>2. DrainedStaysDrained'
    BY <1>0, <1>4, <2>1 DEF DrainedStaysDrained
  <2> QED
    BY <1>3, <1>4, <2>2
<1>5. ASSUME NEW m \in Mutator, NEW r \in Snapshot, NEW refused \in SUBSET Plugin,
             NEW lost \in SUBSET Plugin, Prepare(m, r, refused, lost)
      PROVE  CountInv'
  <2>1. /\ pc' = [pc EXCEPT ![m] = "prepared"] /\ inFlight' = inFlight /\ call' = call
        /\ \E j : job' = [job EXCEPT ![m] = j]
    BY <1>5 DEF Prepare, Go, inner
  <2> QED
    BY <1>4, <2>1
<1>6. ASSUME NEW m \in Mutator,
             \/ Abandon(m) \/ DrainExpires(m) \/ Retired(m) \/ StopFails(m) \/ Remove(m)
             \/ \E left \in SUBSET Plugin : InitializeFails(m, left)
      PROVE  CountInv'
  <2>1. /\ pc' = [pc EXCEPT ![m] = "idle"] /\ inFlight' = inFlight /\ call' = call
        /\ job' = [job EXCEPT ![m] = NoJob]
    BY <1>6 DEF Abandon, DrainExpires, Retired, StopFails, Remove, InitializeFails, Leave, Go, inner
  <2> QED
    BY <1>4, <2>1
<1>7. ASSUME NEW m \in Mutator, Commit(m) PROVE CountInv'
  <2>1. /\ pc' = [pc EXCEPT ![m] = "draining"] /\ inFlight' = inFlight /\ call' = call
        /\ job' = [job EXCEPT ![m] = job[m]]
    BY <1>7 DEF Commit, Go, TypeOK
  <2> QED
    BY <1>4, <2>1
<1>8. ASSUME NEW m \in Mutator, NEW p \in Plugin, UnloadNothing(m, p) PROVE CountInv'
  BY <1>0, <1>3, <1>8 DEF UnloadNothing, DrainedStaysDrained
<1>9. ASSUME NEW m \in Mutator, NEW p \in Plugin, Unload(m, p) PROVE CountInv'
  <2>1. /\ pc' = [pc EXCEPT ![m] = "unloading"] /\ inFlight' = inFlight /\ call' = call
        /\ \E j : job' = [job EXCEPT ![m] = j]
    BY <1>9 DEF Unload, Go
  <2> QED
    BY <1>4, <2>1
<1>10. ASSUME NEW m \in Mutator, Install(m) PROVE CountInv'
  <2>1. /\ pc' = [pc EXCEPT ![m] = "retiring"] /\ inFlight' = inFlight /\ call' = call
        /\ \E j : job' = [job EXCEPT ![m] = j]
    BY <1>10 DEF Install, Go
  <2> QED
    BY <1>4, <2>1
<1>11. ASSUME NEW m \in Mutator, Drained(m) PROVE CountInv'
  <2> DEFINE w == IF pc[m] = "draining" THEN "initializing" ELSE "stopping"
  <2>1. /\ ~Busy(m) /\ pc' = [pc EXCEPT ![m] = w] /\ job' = job
        /\ inFlight' = inFlight /\ call' = call
    BY <1>11 DEF Drained, Go, inner
  <2>2. \A n \in Mutator \ {m} : pc'[n] = pc[n]
    BY <2>1 DEF TypeOK
  <2>3. ASSUME NEW x \in Caller, call[x] # None PROVE call[x][1] \notin job[m].changed
    <3> SUFFICES ASSUME call[x][1] \in job[m].changed PROVE FALSE
      OBVIOUS
    <3>1. call[x][1] \in Plugin
      BY <2>3 DEF TypeOK, Instance
    <3>2. inFlight[call[x][1]] = 0
      BY <1>0, <2>1, <3>1 DEF Busy
    <3>3. x \in CallsOn(call[x][1])
      BY <2>3 DEF CallsOn
    <3> QED
      BY <1>0, <3>1, <3>2, <3>3, CallsFinite, FS_EmptySet
  <2>4. DrainedStaysDrained'
    BY <1>0, <2>1, <2>2, <2>3 DEF DrainedStaysDrained
  <2> QED
    BY <1>3, <2>1, <2>4
<1>12. ASSUME NEW m \in Mutator, NEW p \in Plugin,
              Initialize(m, p) \/ \E ok \in BOOLEAN : Retire(m, p, ok)
       PROVE  CountInv'
  <2>1. /\ UNCHANGED <<pc, inFlight, call>>
        /\ \A n \in Mutator : job'[n].changed = job[n].changed
    BY <1>12 DEF Initialize, Retire, inner, TypeOK, Job
  <2>2. DrainedStaysDrained'
    BY <1>0, <2>1 DEF DrainedStaysDrained
  <2> QED
    BY <1>3, <2>1, <2>2
<1>13. ASSUME NEW m \in Mutator, Stop(m) PROVE CountInv'
  <2>1. /\ pc[m] = "stopping" /\ pc' = [pc EXCEPT ![m] = "removing"]
        /\ UNCHANGED <<job, inFlight, call>>
    BY <1>13 DEF Stop, Go, inner
  <2>2. \A n \in Mutator \ {m} : pc'[n] = pc[n]
    BY <2>1 DEF TypeOK
  <2>3. DrainedStaysDrained'
    BY <1>0, <2>1, <2>2 DEF DrainedStaysDrained
  <2> QED
    BY <1>3, <2>1, <2>3
<1>14. CASE UNCHANGED vars
  BY <1>0, <1>3, <1>14 DEF vars, inner, DrainedStaysDrained
<1> QED
  BY <1>1, <1>2, <1>5, <1>6, <1>7, <1>8, <1>9, <1>10, <1>11, <1>12, <1>13, <1>14
  DEF Next, Start, Proceed

(* Once the calls in flight have ended, no call runs on a plugin that a    *)
(* mutation initialises or stops until the mutation is over (in_flight and *)
(* blocked_plugins together).                                              *)
THEOREM RegistryDrainedStaysDrained == Spec => []DrainedStaysDrained
<1>1. Init => IInv
  BY TypeInit, SlotInit, CountInit DEF IInv
<1>2. IInv /\ [Next]_vars => IInv'
  BY TypePreserved, SlotPreserved, CountPreserved DEF IInv
<1>3. IInv => DrainedStaysDrained
  BY DEF IInv, CountInv
<1> QED
  BY <1>1, <1>2, <1>3, PTL DEF Spec

==============================================================================
