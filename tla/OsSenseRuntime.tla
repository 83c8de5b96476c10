--------------------------- MODULE OsSenseRuntime ---------------------------
(***************************************************************************)
(* The sensing runtime of rust/crates/os-sense: the collection scheduler,  *)
(* the active alerts and the metrics store of one process, shared under a  *)
(* lock by the collector thread and the tools (tools/src/lib.rs).          *)
(*                                                                         *)
(* A scheduled collection reads the dimensions that are due, publishes     *)
(* their alerts, writes the sample and only then moves the deadlines; a    *)
(* failed write leaves the deadlines as they were.  The caller has read    *)
(* the clock before: the collector thread before it takes the lock, a tool *)
(* while it holds it.  A collection is one step, taken when it completes;  *)
(* the clock moves between the caller's reading and that step.             *)
(*                                                                         *)
(* Metrics are left out but for what a reading means to an alert.  The     *)
(* clock never steps back.                                                 *)
(***************************************************************************)
EXTENDS Integers, FiniteSets

CONSTANTS
    None,
    Dimension,      \* ResourceDimension
    Sensor,         \* the dimensions that may be absent for good (thermal)
    Alert,          \* ActiveAlertDimension
    SourceOf,       \* the dimension an alert is evaluated with
    Interval,       \* CollectionIntervals
    Retry,          \* failure_retry_ms
    MaxRuns,        \* max_runs, or None
    TTL,            \* ACTIVE_ALERT_TTL_MS
    Retention,      \* RETENTION_MS
    MinSleep,       \* the collector thread's shortest and longest sleep
    MaxSleep,
    MaxClock        \* bound: the last time there is

(* The second conjunct is SchedulerConfig::validate.                       *)
ASSUME OsSenseAssumption ==
    /\ Dimension /= {} /\ Sensor \subseteq Dimension
    /\ SourceOf \in [Alert -> Dimension]
    /\ Interval \in [Dimension -> Nat \ {0}] /\ Retry \in Nat \ {0}
    /\ MaxRuns \in Nat \cup {None}
    /\ None \notin Int \cup [at: Nat, high: BOOLEAN]
    /\ {TTL, Retention, MinSleep, MaxSleep, MaxClock} \subseteq Nat
    /\ MinSleep <= MaxSleep

VARIABLES
    clock,
    deadlines,  \* CollectionScheduler.deadlines
    runs,       \* CollectionScheduler.completed_runs
    alerts,     \* ActiveAlertStore: when the alert of each dimension expires
    store,      \* the rows of metric_snapshots
    collector,  \* the collector thread
    tool,       \* the time read by the tool that holds the lock, or None
    opened,     \* observation: when the runtime was opened
    reading,    \* observation: the last scheduled reading of each alert
    recorded    \* observation: when the schedule last counted each dimension

vars == <<clock, deadlines, runs, alerts, store, collector, tool, opened, reading, recorded>>

Time == 0 .. MaxClock

Deadline == [cadence: Nat, retry: Nat \cup {None}]

Row == [at: Time, dimensions: SUBSET Dimension]

-----------------------------------------------------------------------------
(* CollectionScheduler                                                     *)
EffectiveDue(deadline) ==
    IF deadline.retry /= None THEN deadline.retry ELSE deadline.cadence

HasReachedRunLimit == MaxRuns /= None /\ runs >= MaxRuns

DueDimensions(t) ==
    {d \in Dimension : ~HasReachedRunLimit /\ t >= EffectiveDue(deadlines[d])}

NewDeadlines(start) == [d \in Dimension |-> [cadence |-> start, retry |-> None]]

(* Mutant of Advanced: the next cadence is counted from the collection.    *)
AdvancedFromNow(d, t) == [cadence |-> t + Interval[d], retry |-> None]

(* The first cadence after t, in step with the ones before.                *)
Advanced(d, t) ==
    LET cadence == deadlines[d].cadence
        elapsed == IF t > cadence THEN t - cadence ELSE 0
    IN  [cadence |-> cadence + Interval[d] * (elapsed \div Interval[d] + 1),
         retry |-> None]

Retried(d, t) == [deadlines[d] EXCEPT !.retry = t + Retry]

(* mark_attempted: counted names the dimensions whose cadence moves.       *)
MarkAttempted(t, attempted, counted) ==
    /\ runs' = runs + 1
    /\ deadlines' = [d \in Dimension |->
            IF d \notin attempted THEN deadlines[d]
            ELSE IF d \in counted THEN Advanced(d, t)
            ELSE Retried(d, t)]

-----------------------------------------------------------------------------
(* ActiveAlertStore                                                        *)
Live(expires, now) == expires /= None /\ expires > now

(* Mutant of Published: what was not evaluated is not alerted.             *)
PublishedAll(readings) ==
    [a \in Alert |-> IF readings[a] = "high" THEN clock + TTL ELSE None]

(* publish_scheduled: expired alerts go, evaluated ones are replaced.      *)
Published(readings) ==
    [a \in Alert |->
        CASE readings[a] = "high" -> clock + TTL
          [] readings[a] = "normal" -> None
          [] OTHER -> IF Live(alerts[a], clock) THEN alerts[a] ELSE None]

-----------------------------------------------------------------------------
(* OsSenseStore                                                            *)
Pruned(rows) == {r \in rows : r.at >= clock - Retention}

(* insert_metrics_and_prune; rows that tell the same are one.              *)
Persist(attempted) == store' = Pruned(store \cup {[at |-> clock, dimensions |-> attempted]})

-----------------------------------------------------------------------------
(* What one dimension may yield, and what that may say about an alert.     *)
Outcome(d) == {"read", "failed"} \cup (IF d \in Sensor THEN {"absent"} ELSE {})

Reading(outcome) == {"unknown"} \cup (IF outcome = "read" THEN {"high", "normal"} ELSE {})

(* Mutant of Scheduled: the deadlines move although the write failed.      *)
ScheduledUnwritten(t, outcomes, readings, written) ==
    LET due == DueDimensions(t)
        counted == {d \in due : outcomes[d] /= "failed"}
    IN  /\ alerts' = Published(readings)
        /\ reading' = [a \in Alert |->
               IF readings[a] = "unknown" THEN reading[a]
               ELSE [at |-> clock, high |-> readings[a] = "high"]]
        /\ MarkAttempted(t, due, counted)
        /\ recorded' = [d \in Dimension |-> IF d \in counted THEN clock ELSE recorded[d]]
        /\ IF written THEN Persist(due) ELSE UNCHANGED store

(* collect_metrics in its scheduled mode, with at least one dimension due. *)
Scheduled(t, outcomes, readings, written) ==
    LET due == DueDimensions(t)
        counted == {d \in due : outcomes[d] /= "failed"}
    IN  /\ alerts' = Published(readings)
        /\ reading' = [a \in Alert |->
               IF readings[a] = "unknown" THEN reading[a]
               ELSE [at |-> clock, high |-> readings[a] = "high"]]
        /\ IF written
           THEN /\ Persist(due)
                /\ MarkAttempted(t, due, counted)
                /\ recorded' = [d \in Dimension |->
                       IF d \in counted THEN clock ELSE recorded[d]]
           ELSE UNCHANGED <<store, deadlines, runs, recorded>>

(* tick, with every outcome of what it reads.                              *)
Tick(t) ==
    LET due == DueDimensions(t)
    IN  IF due = {}
        THEN UNCHANGED <<alerts, reading, store, deadlines, runs, recorded>>
        ELSE \E outcomes \in [due -> {"read", "failed", "absent"}],
                readings \in [Alert -> {"unknown", "high", "normal"}],
                written \in BOOLEAN :
                 /\ \A d \in due : outcomes[d] \in Outcome(d)
                 /\ \A a \in Alert :
                        readings[a] \in
                            Reading(IF SourceOf[a] \in due
                                    THEN outcomes[SourceOf[a]] ELSE "failed")
                 /\ Scheduled(t, outcomes, readings, written)

-----------------------------------------------------------------------------
Init ==
    /\ clock = 0
    /\ deadlines = NewDeadlines(0)
    /\ runs = 0
    /\ alerts = [a \in Alert |-> None]
    /\ store = {}
    /\ collector = [state |-> "asleep", time |-> 0]
    /\ tool = None
    /\ opened = 0
    /\ reading = [a \in Alert |-> None]
    /\ recorded = [d \in Dimension |-> None]

Advance ==
    /\ clock < MaxClock
    /\ clock' = clock + 1
    /\ UNCHANGED <<deadlines, runs, alerts, store, collector, tool, opened,
                   reading, recorded>>

(* The thread reads the clock before it asks for the lock.                 *)
Wake ==
    /\ collector.state = "asleep"
    /\ clock >= collector.time
    /\ collector' = [state |-> "waiting", time |-> clock]
    /\ UNCHANGED <<clock, deadlines, runs, alerts, store, tool, opened, reading, recorded>>

Earliest(dues) == CHOOSE due \in dues : \A other \in dues : due <= other

(* How long the thread sleeps, from the time it read, after its tick.      *)
SleepFor(t) ==
    LET until == Earliest({EffectiveDue(deadlines'[d]) : d \in Dimension}) - t
    IN  IF HasReachedRunLimit' \/ until > MaxSleep THEN MaxSleep
        ELSE IF until < MinSleep THEN MinSleep
        ELSE until

CollectorTick ==
    /\ collector.state = "waiting"
    /\ tool = None
    /\ Tick(collector.time)
    /\ collector' = [state |-> "asleep", time |-> clock + SleepFor(collector.time)]
    /\ UNCHANGED <<clock, tool, opened>>

(* with_os_sense_runtime                                                   *)
ToolLock ==
    /\ tool = None
    /\ tool' = clock
    /\ UNCHANGED <<clock, deadlines, runs, alerts, store, collector, opened, reading, recorded>>

(* run_os_sense_tick                                                       *)
ToolTick ==
    /\ tool /= None
    /\ Tick(tool)
    /\ tool' = None
    /\ UNCHANGED <<clock, collector, opened>>

(* collect_metrics on demand: every dimension, and nothing of the schedule *)
(* or of the alerts.                                                       *)
ToolOnDemand(written) ==
    /\ tool /= None
    /\ IF written THEN Persist(Dimension) ELSE UNCHANGED store
    /\ tool' = None
    /\ UNCHANGED <<clock, deadlines, runs, alerts, collector, opened, reading, recorded>>

(* The process ends, wherever it is, and another opens the store.          *)
Restart ==
    /\ deadlines' = NewDeadlines(clock)
    /\ runs' = 0
    /\ alerts' = [a \in Alert |-> None]
    /\ store' = Pruned(store)
    /\ collector' = [state |-> "asleep", time |-> clock]
    /\ tool' = None
    /\ opened' = clock
    /\ reading' = [a \in Alert |-> None]
    /\ UNCHANGED <<clock, recorded>>

Next ==
    \/ Advance
    \/ Wake
    \/ CollectorTick
    \/ ToolLock
    \/ ToolTick
    \/ \E written \in BOOLEAN : ToolOnDemand(written)
    \/ Restart

Spec == Init /\ [][Next]_vars

-----------------------------------------------------------------------------
(* A limited schedule never runs more often than its limit, two callers    *)
(* or not.                                                                 *)
TypeOK ==
    /\ clock \in Time
    /\ deadlines \in [Dimension -> Deadline]
    /\ runs \in Nat /\ (MaxRuns /= None => runs <= MaxRuns)
    /\ alerts \in [Alert -> Nat \cup {None}]
    /\ store \subseteq Row
    /\ collector \in [state: {"asleep", "waiting"}, time: Nat]
    /\ tool \in Time \cup {None}
    /\ opened \in Time
    /\ reading \in [Alert -> [at: Time, high: BOOLEAN] \cup {None}]
    /\ recorded \in [Dimension -> Time \cup {None}]

(* Late collections, failures, retries and the tools never shift a         *)
(* dimension's cadence against the start, and no dimension is ever put off *)
(* by more than its interval, a retry never ahead of the cadence it is for.*)
ScheduleKeepsStep ==
    \A d \in Dimension :
        LET cadence == deadlines[d].cadence
            retry == deadlines[d].retry
        IN  /\ (cadence - opened) % Interval[d] = 0
            /\ cadence <= clock + Interval[d]
            /\ retry /= None => cadence + Retry <= retry /\ retry <= clock + Retry

(* An alert is shown exactly when the last reading that could tell was     *)
(* high and is not yet TTL old: neither failed readings of its source nor  *)
(* failed writes hide or renew it.                                         *)
AlertsTellLastReading ==
    \A a \in Alert :
        Live(alerts[a], clock) <=>
            /\ reading[a] /= None
            /\ reading[a].high
            /\ clock < reading[a].at + TTL

(* What the schedule counts as collected is in the store for as long as    *)
(* rows are kept, through failed writes and restarts.                      *)
CountedIsOnRecord ==
    \A d \in Dimension :
        recorded[d] /= None /\ recorded[d] >= clock - Retention =>
            \E r \in store : r.at = recorded[d] /\ d \in r.dimensions
=============================================================================
