------------------------ MODULE PluginRuntimeRegistry ------------------------
(***************************************************************************)
(* The plugin registry of a running process (PluginRuntimeRegistry of      *)
(* rust/crates/plugins/src/lib.rs): the snapshot of loaded plugins that    *)
(* calls run on, replaced or reduced while the process runs.               *)
(*                                                                         *)
(* One mutex guards the registry, and a condition variable wakes those who *)
(* wait.  A call takes the lock to start and to end and runs without it.   *)
(* A mutation holds the slot (mutating), blocks new calls to the plugins   *)
(* it touches, waits for the calls in flight until its deadline, and lets  *)
(* go of the lock while lifecycle commands run.  A replacement is prepared *)
(* before it holds the slot, against the generation it then read.          *)
(*                                                                         *)
(* Manifests are reduced to a version; which plugins conflict or do not    *)
(* validate, which commands fail and when a deadline passes is left open.  *)
(***************************************************************************)
EXTENDS Integers, FiniteSets

CONSTANTS
    None, Absent, Disabled,
    Plugin,
    Version,
    DependsOn,      \* <<p, q>>: the manifest of p names q
    Required,       \* the dependencies that are not optional
    HotReload,      \* capabilities.hotReload
    Caller,         \* threads in execute_tool or execute_command
    Mutator,        \* threads in hot_replace or hot_unload
    MaxGeneration   \* bound: no mutation starts past this generation

ASSUME PluginAssumption ==
    /\ Required \subseteq DependsOn /\ DependsOn \subseteq Plugin \X Plugin
    /\ HotReload \subseteq Plugin
    /\ {Absent, Disabled} \cap Version = {} /\ None \notin Plugin \X Version
    /\ IsFiniteSet(Caller) /\ MaxGeneration \in Nat

VARIABLES
    snapshot,   \* PluginRuntimeInner.snapshot: the entry of each plugin
    generation,
    phase,
    mutating,
    blocked,    \* blocked_plugins
    inFlight,   \* in_flight; a plugin without an entry has 0
    degraded,   \* degraded_plugins is not empty
    call,       \* what each caller is running
    pc,         \* where each mutator is
    job,        \* the locals of each mutator
    up          \* observation: initialised, and not shut down successfully since

inner == <<snapshot, generation, phase, mutating, blocked, inFlight, degraded>>
vars == <<inner, call, pc, job, up>>

Snapshot == [Plugin -> Version \cup {Absent, Disabled}]
Instance == Plugin \X Version
Job == [base: Nat, old: Snapshot, new: Snapshot, changed: SUBSET Plugin,
        degraded: BOOLEAN, done: SUBSET Plugin, failed: BOOLEAN]

Enabled(s) == {p \in Plugin : s[p] \in Version}
Instances(s) == {<<p, s[p]>> : p \in Enabled(s)}

(* What dependency_order() insists on.                                     *)
RequirementsHold(s) ==
    \A d \in Required : d[1] \in Enabled(s) => d[2] \in Enabled(s)

TypeOK ==
    /\ snapshot \in Snapshot /\ generation \in Nat
    /\ phase \in {"ready", "degraded", "loading", "unloading"}
    /\ mutating \in BOOLEAN /\ degraded \in BOOLEAN
    /\ blocked \subseteq Plugin /\ inFlight \in [Plugin -> Nat]
    /\ call \in [Caller -> Instance \cup {None}]
    /\ pc \in [Mutator -> {"idle", "prepared", "draining", "initializing", "retiring",
                           "unloading", "stopping", "removing"}]
    /\ job \in [Mutator -> Job]
    /\ up \subseteq Instance

----------------------------------------------------------------------------
(* Dependencies.                                                           *)

DependentsOf(s, p) ==
    IF s[p] = Absent THEN {} ELSE {q \in Enabled(s) \ {p} : <<q, p>> \in DependsOn}

(* The least superset of ps closed under DependentsOf.                     *)
WithDependents(s, ps) ==
    LET Closed == {C \in SUBSET Plugin : ps \subseteq C /\ \A p \in C : DependentsOf(s, p) \subseteq C}
    IN  {p \in Plugin : \A C \in Closed : p \in C}

Changed(old, new) ==
    LET Differ == {p \in Enabled(old) \cup Enabled(new) : old[p] # new[p]}
    IN  WithDependents(new, WithDependents(old, Differ))

(* What is left of s when the plugins that lack a required dependency are  *)
(* dropped, then those that lack these, and so on.                         *)
Quarantined(s) ==
    LET Supported == UNION {S \in SUBSET Enabled(s) :
                                \A d \in Required : d[1] \in S => d[2] \in S}
    IN  [p \in Plugin |-> IF p \in Enabled(s) \ Supported THEN Absent ELSE s[p]]

(* A refused plugin keeps its old entry, unless that conflicts too or what *)
(* it requires has the wrong version (lost).                               *)
Accepted(old, requested, refused, lost) ==
    [p \in Plugin |-> CASE p \in lost    -> Absent
                        [] p \in refused -> old[p]
                        [] OTHER         -> requested[p]]

----------------------------------------------------------------------------
NoJob == [base |-> 0, old |-> [p \in Plugin |-> Absent], new |-> [p \in Plugin |-> Absent],
          changed |-> {}, degraded |-> FALSE, done |-> {}, failed |-> FALSE]

(* The registry is built from plugins that registry.initialize() has       *)
(* started in dependency order.                                            *)
Init ==
    /\ snapshot \in {s \in Snapshot : RequirementsHold(s)}
    /\ generation = 0 /\ phase = "ready" /\ mutating = FALSE
    /\ blocked = {} /\ inFlight = [p \in Plugin |-> 0] /\ degraded = FALSE
    /\ call = [c \in Caller |-> None]
    /\ pc = [m \in Mutator |-> "idle"] /\ job = [m \in Mutator |-> NoJob]
    /\ up = Instances(snapshot)

Go(m, where) == pc' = [pc EXCEPT ![m] = where]
Leave(m) == Go(m, "idle") /\ job' = [job EXCEPT ![m] = NoJob]

----------------------------------------------------------------------------
(* Calls.                                                                  *)

(* Mutant of Call: the blocked plugins are not looked at.                  *)
CallWhileBlocked(c, p) ==
    /\ call[c] = None /\ p \in Enabled(snapshot)
    /\ inFlight' = [inFlight EXCEPT ![p] = @ + 1]
    /\ call' = [call EXCEPT ![c] = <<p, snapshot[p]>>]
    /\ UNCHANGED <<snapshot, generation, phase, mutating, blocked, degraded, pc, job, up>>

(* The tool is looked up in the snapshot, and runs on that plugin even if  *)
(* the snapshot is replaced meanwhile.                                     *)
Call(c, p) ==
    /\ call[c] = None /\ p \in Enabled(snapshot) /\ p \notin blocked
    /\ inFlight' = [inFlight EXCEPT ![p] = @ + 1]
    /\ call' = [call EXCEPT ![c] = <<p, snapshot[p]>>]
    /\ UNCHANGED <<snapshot, generation, phase, mutating, blocked, degraded, pc, job, up>>

(* Whatever the tool answers.                                              *)
Return(c) ==
    /\ call[c] # None
    /\ inFlight' = [inFlight EXCEPT ![call[c][1]] = IF @ > 0 THEN @ - 1 ELSE 0]
    /\ call' = [call EXCEPT ![c] = None]
    /\ UNCHANGED <<snapshot, generation, phase, mutating, blocked, degraded, pc, job, up>>

----------------------------------------------------------------------------
(* Mutations.                                                              *)

Finish(how) == phase' = how /\ blocked' = {} /\ mutating' = FALSE

Busy(m) == \E p \in job[m].changed : inFlight[p] > 0

(* prepare_hot_replace: the slot must be free, but is not taken.  What is  *)
(* refused here changes nothing.                                           *)
Prepare(m, requested, refused, lost) ==
    LET accepted == Accepted(snapshot, requested, refused, lost)
        new == Quarantined(accepted)
        changed == Changed(snapshot, new)
    IN  /\ pc[m] = "idle" /\ ~mutating /\ generation < MaxGeneration
        /\ lost \subseteq refused
        /\ \A p \in refused : requested[p] # Absent /\ (requested[p] = snapshot[p] => p \in lost)
        /\ changed \cap (Enabled(snapshot) \cup Enabled(new)) \subseteq HotReload
        /\ job' = [job EXCEPT ![m] = [base |-> generation, old |-> snapshot, new |-> new,
                       changed |-> changed, degraded |-> refused # {} \/ new # accepted,
                       done |-> {}, failed |-> FALSE]]
        /\ Go(m, "prepared")
        /\ UNCHANGED <<inner, call, up>>

(* The deadline passes before the slot is free, or another generation has  *)
(* been installed since.                                                   *)
Abandon(m) ==
    /\ pc[m] = "prepared" /\ (mutating \/ generation # job[m].base)
    /\ Leave(m)
    /\ UNCHANGED <<inner, call, up>>

(* Mutant of Commit: the generation is not compared.                       *)
CommitAnyGeneration(m) ==
    /\ pc[m] = "prepared" /\ ~mutating
    /\ mutating' = TRUE /\ phase' = "loading" /\ degraded' = job[m].degraded
    /\ blocked' = blocked \cup job[m].changed
    /\ Go(m, "draining")
    /\ UNCHANGED <<snapshot, generation, inFlight, call, job, up>>

Commit(m) ==
    /\ pc[m] = "prepared" /\ ~mutating /\ generation = job[m].base
    /\ mutating' = TRUE /\ phase' = "loading" /\ degraded' = job[m].degraded
    /\ blocked' = blocked \cup job[m].changed
    /\ Go(m, "draining")
    /\ UNCHANGED <<snapshot, generation, inFlight, call, job, up>>

(* hot_unload of a plugin that is not there, and one that is refused.      *)
UnloadNothing(m, p) ==
    /\ pc[m] = "idle" /\ ~mutating /\ generation < MaxGeneration
    /\ degraded' = FALSE
    /\ Finish(IF snapshot[p] = Absent THEN "ready" ELSE "degraded")
    /\ UNCHANGED <<snapshot, generation, inFlight, call, pc, job, up>>

(* Mutant of Unload: dependents are not looked for.                        *)
UnloadWithDependents(m, p) ==
    /\ pc[m] = "idle" /\ ~mutating /\ generation < MaxGeneration
    /\ snapshot[p] # Absent /\ p \in HotReload
    /\ mutating' = TRUE /\ phase' = "unloading" /\ degraded' = FALSE
    /\ blocked' = blocked \cup {p}
    /\ job' = [job EXCEPT ![m] = [base |-> generation, old |-> snapshot,
                       new |-> [snapshot EXCEPT ![p] = Absent], changed |-> {p},
                       degraded |-> FALSE, done |-> {}, failed |-> FALSE]]
    /\ Go(m, "unloading")
    /\ UNCHANGED <<snapshot, generation, inFlight, call, up>>

Unload(m, p) ==
    /\ pc[m] = "idle" /\ ~mutating /\ generation < MaxGeneration
    /\ snapshot[p] # Absent /\ p \in HotReload /\ DependentsOf(snapshot, p) = {}
    /\ mutating' = TRUE /\ phase' = "unloading" /\ degraded' = FALSE
    /\ blocked' = blocked \cup {p}
    /\ job' = [job EXCEPT ![m] = [base |-> generation, old |-> snapshot,
                       new |-> [snapshot EXCEPT ![p] = Absent], changed |-> {p},
                       degraded |-> FALSE, done |-> {}, failed |-> FALSE]]
    /\ Go(m, "unloading")
    /\ UNCHANGED <<snapshot, generation, inFlight, call, up>>

(* wait_for_runtime_in_flight: the last call has ended, or the deadline    *)
(* passes while one goes on.                                               *)
Drained(m) ==
    /\ pc[m] \in {"draining", "unloading"} /\ ~Busy(m)
    /\ Go(m, IF pc[m] = "draining" THEN "initializing" ELSE "stopping")
    /\ UNCHANGED <<inner, call, job, up>>

(* Mutant of DrainExpires: the wait has no deadline.                        *)
DrainForever(m) == FALSE

DrainExpires(m) ==
    /\ pc[m] \in {"draining", "unloading"} /\ Busy(m)
    /\ Finish("degraded") /\ Leave(m)
    /\ UNCHANGED <<snapshot, generation, inFlight, degraded, call, up>>

ToInitialize(j) == {p \in j.changed \cap Enabled(j.new) : j.new[p] # j.old[p]}

(* initialize_changed_plugins, one lifecycle command at a time.            *)
Initialize(m, p) ==
    /\ pc[m] = "initializing" /\ p \in ToInitialize(job[m]) \ job[m].done
    /\ \A q \in ToInitialize(job[m]) : <<p, q>> \in DependsOn => q \in job[m].done
    /\ up' = up \cup {<<p, job[m].new[p]>>}
    /\ job' = [job EXCEPT ![m].done = @ \cup {p}]
    /\ UNCHANGED <<inner, call, pc>>

(* A command fails, or the deadline passes before a plugin of the order:   *)
(* what was initialised is shut down, but for those that do not (left).    *)
InitializeFails(m, left) ==
    /\ pc[m] = "initializing" /\ Enabled(job[m].new) \ job[m].done # {}
    /\ left \subseteq job[m].done
    /\ up' = up \ {<<p, job[m].new[p]>> : p \in job[m].done \ left}
    /\ Finish("degraded") /\ Leave(m)
    /\ UNCHANGED <<snapshot, generation, inFlight, degraded, call>>

(* The replaced plugins are shut down afterwards, without the slot.        *)
Install(m) ==
    /\ pc[m] = "initializing" /\ ToInitialize(job[m]) \subseteq job[m].done
    /\ snapshot' = job[m].new /\ generation' = generation + 1
    /\ Finish(IF degraded THEN "degraded" ELSE "ready")
    /\ Go(m, "retiring") /\ job' = [job EXCEPT ![m].done = {}]
    /\ UNCHANGED <<inFlight, degraded, call, up>>

ToRetire(j) == j.changed \cap Enabled(j.old)

(* shutdown_replaced_plugins, one at a time, dependents first.             *)
Retire(m, p, ok) ==
    /\ pc[m] = "retiring" /\ p \in ToRetire(job[m]) \ job[m].done
    /\ \A q \in ToRetire(job[m]) : <<q, p>> \in DependsOn => q \in job[m].done
    /\ up' = IF ok THEN up \ {<<p, job[m].old[p]>>} ELSE up
    /\ job' = [job EXCEPT ![m].done = @ \cup {p}, ![m].failed = @ \/ ~ok]
    /\ UNCHANGED <<inner, call, pc>>

(* A shutdown that failed is reported in the phase, whoever holds the slot *)
(* by then.                                                                *)
Retired(m) ==
    /\ pc[m] = "retiring" /\ ToRetire(job[m]) \subseteq job[m].done
    /\ phase' = IF job[m].failed THEN "degraded" ELSE phase
    /\ Leave(m)
    /\ UNCHANGED <<snapshot, generation, mutating, blocked, inFlight, degraded, call, up>>

(* The shutdown of a plugin that is unloaded comes before the change.      *)
Stop(m) ==
    /\ pc[m] = "stopping"
    /\ up' = up \ {<<p, job[m].old[p]>> : p \in job[m].changed}
    /\ Go(m, "removing")
    /\ UNCHANGED <<inner, call, job>>

StopFails(m) ==
    /\ pc[m] = "stopping"
    /\ Finish("degraded") /\ Leave(m)
    /\ UNCHANGED <<snapshot, generation, inFlight, degraded, call, up>>

Remove(m) ==
    /\ pc[m] = "removing"
    /\ snapshot' = [p \in Plugin |-> IF p \in job[m].changed THEN Absent ELSE snapshot[p]]
    /\ generation' = generation + 1
    /\ Finish("ready") /\ Leave(m)
    /\ UNCHANGED <<inFlight, degraded, call, up>>

----------------------------------------------------------------------------
Start(m) ==
    \/ \E requested \in Snapshot, refused, lost \in SUBSET Plugin :
           Prepare(m, requested, refused, lost)
    \/ \E p \in Plugin : UnloadNothing(m, p) \/ Unload(m, p)

(* What a mutator does once it has the slot, and after it.                 *)
Proceed(m) ==
    \/ Drained(m) \/ DrainExpires(m)
    \/ \E p \in Plugin : Initialize(m, p)
    \/ \E left \in SUBSET Plugin : InitializeFails(m, left)
    \/ Install(m)
    \/ \E p \in Plugin, ok \in BOOLEAN : Retire(m, p, ok)
    \/ Retired(m)
    \/ Stop(m) \/ StopFails(m) \/ Remove(m)

Next ==
    \/ \E c \in Caller : Return(c) \/ \E p \in Plugin : Call(c, p)
    \/ \E m \in Mutator : Start(m) \/ Commit(m) \/ Abandon(m) \/ Proceed(m)

Spec == Init /\ [][Next]_vars

(* The wait for calls polls and ends at the deadline, and a lifecycle      *)
(* command runs under the time left.  Nothing is assumed of the calls.     *)
Fairness == \A m \in Mutator : WF_vars(Proceed(m))

FairSpec == Spec /\ Fairness

----------------------------------------------------------------------------
Holding(m) == pc[m] \in {"draining", "initializing", "unloading", "stopping", "removing"}

(* While a mutator holds the slot, the snapshot is the one its change was  *)
(* worked out against, and nobody else holds it: no snapshot that another  *)
(* mutation installed after the preparation is overwritten unseen.         *)
ChangeIsCurrent ==
    /\ \A m \in Mutator : Holding(m) => mutating /\ snapshot = job[m].old
    /\ \A m, n \in Mutator : Holding(m) /\ Holding(n) => m = n

(* Every required dependency of a loaded plugin is loaded: an unload that  *)
(* runs while a replacement brings in a dependent cannot break it.         *)
SnapshotIsClosed == RequirementsHold(snapshot)

(* From the moment the calls in flight have ended until the mutation is    *)
(* over, no call runs on a plugin it initialises or stops.                 *)
DrainedStaysDrained ==
    \A m \in Mutator : pc[m] \in {"initializing", "stopping", "removing"} =>
        \A c \in Caller : call[c] # None => call[c][1] \notin job[m].changed

(* A mutation that ends, however it ends, leaves no plugin blocked and     *)
(* does not leave the phase of a change under way.                         *)
IdleIsOpen == ~mutating => blocked = {} /\ phase \in {"ready", "degraded"}

(* The plugins calls may run on have been initialised and not been shut    *)
(* down: docs/requirements-4.2-mcp-ops-plugin-plan.md, FR-2.7, has a       *)
(* plugin shut down because it is unloaded.                                *)
LoadedIsUp == \A p \in Enabled(snapshot) \ blocked : <<p, snapshot[p]>> \in up

(* Every mutation ends, although a call may never return.                  *)
MutationEnds == []<>~mutating
==============================================================================
