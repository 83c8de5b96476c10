---------------------------- MODULE OsSenseProofs ----------------------------
(***************************************************************************)
(* Proofs about the sensing runtime - its schedule keeps step, its alerts  *)
(* tell the last reading, its store has what the schedule counts - and     *)
(* about the metrics history, which is short and stands for its window.    *)
(***************************************************************************)
EXTENDS OsSenseRuntime, MetricHistory, SequenceTheorems, WellFoundedInduction, TLAPS

-----------------------------------------------------------------------------
(* Division and remainder, as the cadence uses them.                       *)
LEMMA LastMultiple ==
    ASSUME NEW a \in Nat, NEW b \in Nat \ {0}
    PROVE  a \div b \in Nat /\ b * (a \div b) <= a
  BY SMTT(20)

LEMMA WholeSteps ==
    ASSUME NEW a \in Int, NEW b \in Nat \ {0}, a % b = 0
    PROVE  a \div b \in Int /\ a = b * (a \div b)
  BY SMTT(20)

LEMMA MultipleLeavesNothing ==
    ASSUME NEW b \in Nat \ {0}, NEW k \in Int
    PROVE  (b * k) % b = 0
  BY SMTT(20)

(* A whole number of steps more is still a whole number of steps.          *)
LEMMA MoreSteps ==
    ASSUME NEW a \in Int, NEW b \in Nat \ {0}, a % b = 0, NEW k \in Int
    PROVE  (a + b * k) % b = 0
<1> DEFINE q == a \div b
<1>1. q \in Int /\ a = b * q
  BY WholeSteps
<1> HIDE DEF q
<1>2. a + b * k = b * (q + k)
  BY <1>1, SMTT(20)
<1> QED  BY <1>1, <1>2, MultipleLeavesNothing

-----------------------------------------------------------------------------
(* What a deadline keeps, and the times that callers have read.            *)
KeepsStep(deadline, interval) ==
    /\ (deadline.cadence - opened) % interval = 0
    /\ deadline.cadence <= clock + interval
    /\ deadline.retry /= None =>
           /\ deadline.cadence + Retry <= deadline.retry
           /\ deadline.retry <= clock + Retry

TimesRead ==
    /\ clock \in Nat
    /\ opened \in Nat
    /\ deadlines \in [Dimension -> Deadline]
    /\ collector.state = "waiting" => collector.time \in Nat /\ collector.time <= clock
    /\ tool /= None => tool \in Nat /\ tool <= clock

ScheduleInv == TimesRead /\ ScheduleKeepsStep

LEMMA EachKeepsStep ==
    ScheduleKeepsStep <=> \A d \in Dimension : KeepsStep(deadlines[d], Interval[d])
  BY DEF ScheduleKeepsStep, KeepsStep

(* A dimension counted at t is next due within an interval, in step.       *)
LEMMA AdvancedKeepsStep ==
    ASSUME ScheduleInv, NEW d \in Dimension, NEW t \in Nat, t <= clock,
           t >= EffectiveDue(deadlines[d])
    PROVE  Advanced(d, t) \in Deadline /\ KeepsStep(Advanced(d, t), Interval[d])
<1> DEFINE cadence == deadlines[d].cadence
           interval == Interval[d]
           k == (t - cadence) \div interval + 1
<1>1. /\ deadlines[d] \in Deadline /\ interval \in Nat \ {0}
      /\ clock \in Nat /\ opened \in Nat /\ Retry \in Nat \ {0}
  BY OsSenseAssumption DEF ScheduleInv, TimesRead
<1>2. cadence \in Nat /\ KeepsStep(deadlines[d], interval)
  BY <1>1, EachKeepsStep DEF ScheduleInv, Deadline
<1>3. cadence <= t
  <2>1. CASE deadlines[d].retry = None
    BY <2>1 DEF EffectiveDue
  <2>2. CASE deadlines[d].retry /= None
    <3>1. deadlines[d].retry \in Nat
      BY <1>1, <2>2 DEF Deadline
    <3>2. cadence + Retry <= deadlines[d].retry /\ deadlines[d].retry <= t
      BY <1>2, <2>2 DEF KeepsStep, EffectiveDue
    <3> QED  BY <1>1, <1>2, <3>1, <3>2
  <2> QED  BY <2>1, <2>2
<1>4. t - cadence \in Nat
  BY <1>2, <1>3
<1>5. (IF t > cadence THEN t - cadence ELSE 0) = t - cadence
  BY <1>2, <1>3
<1>6. Advanced(d, t) = [cadence |-> cadence + interval * k, retry |-> None]
  BY <1>5 DEF Advanced
<1>7. (t - cadence) \div interval \in Nat
      /\ interval * ((t - cadence) \div interval) <= t - cadence
  BY <1>1, <1>4, LastMultiple
<1> HIDE DEF interval
<1>8. k \in Nat /\ interval * k = interval * ((t - cadence) \div interval) + interval
  BY <1>1, <1>7
<1>9. (cadence - opened) % interval = 0
  BY <1>2 DEF KeepsStep
<1> HIDE DEF cadence, k
<1>10. interval * k \in Nat
  BY <1>1, <1>8
<1>11. (cadence - opened + interval * k) % interval = 0
  <2> DEFINE offset == cadence - opened
  <2>1. offset \in Int /\ k \in Int
    BY <1>1, <1>2, <1>8
  <2>2. offset % interval = 0
    BY <1>9
  <2> HIDE DEF offset
  <2>3. (offset + interval * k) % interval = 0
    BY <1>1, <2>1, <2>2, MoreSteps, Zenon
  <2> QED  BY <2>3 DEF offset
<1>12. cadence + interval * k - opened = cadence - opened + interval * k
  BY <1>1, <1>2, <1>10
<1>13. cadence + interval * k <= clock + interval
  <2>1. interval * ((t - cadence) \div interval) <= t - cadence
    BY <1>7
  <2> DEFINE whole == interval * ((t - cadence) \div interval)
  <2>2. whole \in Int
    BY <1>1, <1>7
  <2>3. interval * k = whole + interval
    BY <1>8
  <2> HIDE DEF whole
  <2>4. whole <= t - cadence
    BY <2>1 DEF whole
  <2> QED  BY <1>1, <1>2, <2>2, <2>3, <2>4
<1> QED
  <2>1. Advanced(d, t) \in Deadline
    BY <1>2, <1>6, <1>10 DEF Deadline
  <2>2. /\ Advanced(d, t).cadence = cadence + interval * k
        /\ Advanced(d, t).retry = None
    BY <1>6
  <2>3. (Advanced(d, t).cadence - opened) % interval = 0
    <3>1. Advanced(d, t).cadence - opened = cadence - opened + interval * k
      BY <1>1, <1>2, <1>10, <2>2
    <3> QED  BY <1>11, <3>1, Zenon
  <2>4. Advanced(d, t).cadence <= clock + interval
    BY <1>13, <2>2
  <2>5. KeepsStep(Advanced(d, t), interval)
    BY <2>2, <2>3, <2>4, Zenon DEF KeepsStep
  <2> QED  BY <2>1, <2>5 DEF interval

(* A dimension to be retried is due again before its cadence has moved.    *)
LEMMA RetriedKeepsStep ==
    ASSUME ScheduleInv, NEW d \in Dimension, NEW t \in Nat, t <= clock,
           t >= EffectiveDue(deadlines[d])
    PROVE  Retried(d, t) \in Deadline /\ KeepsStep(Retried(d, t), Interval[d])
<1>1. /\ deadlines[d] \in Deadline /\ Retry \in Nat \ {0} /\ clock \in Nat
      /\ KeepsStep(deadlines[d], Interval[d])
  BY OsSenseAssumption, EachKeepsStep DEF ScheduleInv, TimesRead
<1>2. deadlines[d].cadence <= t
  <2>1. CASE deadlines[d].retry = None
    BY <2>1 DEF EffectiveDue
  <2>2. CASE deadlines[d].retry /= None
    BY <1>1, <2>2 DEF EffectiveDue, KeepsStep, Deadline
  <2> QED  BY <2>1, <2>2
<1>3. /\ Retried(d, t) \in Deadline
      /\ Retried(d, t).cadence = deadlines[d].cadence
      /\ Retried(d, t).retry = t + Retry
  BY <1>1 DEF Retried, Deadline
<1>4. deadlines[d].cadence \in Nat
  BY <1>1 DEF Deadline
<1> QED  BY <1>1, <1>2, <1>3, <1>4 DEF KeepsStep

(* So every tick keeps the schedule in step, whatever it reads.            *)
LEMMA TickKeepsStep ==
    ASSUME ScheduleInv, NEW t \in Nat, t <= clock, Tick(t),
           clock' = clock, opened' = opened
    PROVE  deadlines' \in [Dimension -> Deadline] /\ ScheduleKeepsStep'
<1>1. deadlines \in [Dimension -> Deadline]
  BY DEF ScheduleInv, TimesRead
<1>2. CASE UNCHANGED deadlines
  BY <1>1, <1>2 DEF ScheduleInv, ScheduleKeepsStep
<1>3. ASSUME NEW counted, MarkAttempted(t, DueDimensions(t), counted)
      PROVE  deadlines' \in [Dimension -> Deadline] /\ ScheduleKeepsStep'
  <2>1. ASSUME NEW d \in Dimension
        PROVE  /\ deadlines'[d] \in Deadline
               /\ (deadlines'[d].cadence - opened) % Interval[d] = 0
               /\ deadlines'[d].cadence <= clock + Interval[d]
               /\ deadlines'[d].retry /= None =>
                      /\ deadlines'[d].cadence + Retry <= deadlines'[d].retry
                      /\ deadlines'[d].retry <= clock + Retry
    <3>1. /\ deadlines[d] \in Deadline /\ KeepsStep(deadlines[d], Interval[d])
      BY <1>1, EachKeepsStep DEF ScheduleInv
    <3>2. deadlines'[d] = IF d \notin DueDimensions(t) THEN deadlines[d]
                          ELSE IF d \in counted THEN Advanced(d, t)
                          ELSE Retried(d, t)
      BY <1>3 DEF MarkAttempted
    <3>3. d \in DueDimensions(t) => t >= EffectiveDue(deadlines[d])
      BY DEF DueDimensions
    <3>4. deadlines'[d] \in Deadline /\ KeepsStep(deadlines'[d], Interval[d])
      BY <3>1, <3>2, <3>3, AdvancedKeepsStep, RetriedKeepsStep
    <3> QED  BY <3>4 DEF KeepsStep
  <2>2. DOMAIN deadlines' = Dimension
    BY <1>3 DEF MarkAttempted
  <2>3. deadlines' = [d \in Dimension |-> deadlines'[d]]
    BY <1>3 DEF MarkAttempted
  <2>4. deadlines' \in [Dimension -> Deadline]
    BY <2>1, <2>3
  <2>5. ScheduleKeepsStep'
    BY <2>1 DEF ScheduleKeepsStep
  <2> QED  BY <2>4, <2>5
<1>4. UNCHANGED deadlines \/ \E counted : MarkAttempted(t, DueDimensions(t), counted)
  BY DEF Tick, Scheduled
<1> QED  BY <1>2, <1>3, <1>4

-----------------------------------------------------------------------------
(* A runtime that is just opened.                                          *)
LEMMA NewKeepsStep ==
    ASSUME NEW start \in Nat, NEW d \in Dimension
    PROVE  LET deadline == NewDeadlines(start)[d]
           IN  /\ deadline \in Deadline
               /\ (deadline.cadence - start) % Interval[d] = 0
               /\ deadline.cadence <= start + Interval[d]
               /\ deadline.retry = None
<1>1. Interval[d] \in Nat \ {0}
  BY OsSenseAssumption
<1>2. \A b \in Nat \ {0} : (start - start) % b = 0
  BY SMTT(20)
<1>3. NewDeadlines(start)[d] = [cadence |-> start, retry |-> None]
  BY DEF NewDeadlines
<1>4. /\ NewDeadlines(start)[d] \in Deadline
      /\ NewDeadlines(start)[d].cadence = start
      /\ NewDeadlines(start)[d].retry = None
  BY <1>3 DEF Deadline
<1> QED  BY <1>1, <1>2, <1>4

LEMMA NewDeadlinesShape ==
    ASSUME NEW start \in Nat
    PROVE  NewDeadlines(start) \in [Dimension -> Deadline]
  BY DEF NewDeadlines, Deadline

LEMMA ScheduleInit == Init => ScheduleInv
<1> SUFFICES ASSUME Init  PROVE ScheduleInv
  OBVIOUS
<1>1. TimesRead
  BY NewDeadlinesShape DEF Init, TimesRead
<1>2. clock = 0 /\ opened = 0 /\ deadlines = NewDeadlines(0)
  BY DEF Init
<1>3. ASSUME NEW d \in Dimension  PROVE KeepsStep(deadlines[d], Interval[d])
  BY <1>2, NewKeepsStep DEF KeepsStep
<1>4. ScheduleKeepsStep
  BY <1>3, EachKeepsStep
<1> QED  BY <1>1, <1>4 DEF ScheduleInv

LEMMA ScheduleStep == ScheduleInv /\ [Next]_vars => ScheduleInv'
<1> SUFFICES ASSUME ScheduleInv, [Next]_vars  PROVE ScheduleInv'
  OBVIOUS
<1>0. TimesRead /\ ScheduleKeepsStep
  BY DEF ScheduleInv
<1>1. CASE Advance
  <2>1. TimesRead'
    BY <1>0, <1>1 DEF Advance, TimesRead
  <2>2. ASSUME NEW d \in Dimension
        PROVE  LET cadence == deadlines[d].cadence
                   retry == deadlines[d].retry
               IN  /\ (cadence - opened) % Interval[d] = 0
                   /\ cadence <= clock + 1 + Interval[d]
                   /\ retry /= None => cadence + Retry <= retry /\ retry <= clock + 1 + Retry
    <3>1. /\ deadlines[d] \in Deadline /\ clock \in Nat
          /\ Interval[d] \in Nat /\ Retry \in Nat
      BY <1>0, OsSenseAssumption DEF TimesRead
    <3>2. KeepsStep(deadlines[d], Interval[d])
      BY <1>0, EachKeepsStep
    <3>3. deadlines[d].cadence \in Nat /\ deadlines[d].retry \in Nat \cup {None}
      BY <3>1 DEF Deadline
    <3> QED  BY <3>1, <3>2, <3>3 DEF KeepsStep
  <2>3. clock' = clock + 1 /\ deadlines' = deadlines /\ opened' = opened
    BY <1>1 DEF Advance
  <2>4. ScheduleKeepsStep'
    BY <2>2, <2>3 DEF ScheduleKeepsStep
  <2> QED  BY <2>1, <2>4 DEF ScheduleInv
<1>2. CASE Wake
  BY <1>0, <1>2 DEF Wake, ScheduleInv, TimesRead, ScheduleKeepsStep
<1>3. CASE CollectorTick
  <2>1. /\ collector.time \in Nat /\ collector.time <= clock /\ Tick(collector.time)
        /\ clock' = clock /\ opened' = opened /\ tool' = tool
    BY <1>0, <1>3 DEF CollectorTick, TimesRead
  <2>2. deadlines' \in [Dimension -> Deadline] /\ ScheduleKeepsStep'
    BY <2>1, TickKeepsStep
  <2>3. collector'.state /= "waiting"
    BY <1>3 DEF CollectorTick
  <2> QED  BY <1>0, <2>1, <2>2, <2>3 DEF ScheduleInv, TimesRead
<1>4. CASE ToolLock
  BY <1>0, <1>4 DEF ToolLock, ScheduleInv, TimesRead, ScheduleKeepsStep
<1>5. CASE ToolTick
  <2>1. /\ tool \in Nat /\ tool <= clock /\ Tick(tool)
        /\ clock' = clock /\ opened' = opened /\ tool' = None /\ collector' = collector
    BY <1>0, <1>5 DEF ToolTick, TimesRead
  <2>2. deadlines' \in [Dimension -> Deadline] /\ ScheduleKeepsStep'
    BY <2>1, TickKeepsStep
  <2> QED  BY <1>0, <2>1, <2>2 DEF ScheduleInv, TimesRead
<1>6. ASSUME NEW written \in BOOLEAN, ToolOnDemand(written)  PROVE ScheduleInv'
  BY <1>0, <1>6 DEF ToolOnDemand, ScheduleInv, TimesRead, ScheduleKeepsStep
<1>7. CASE Restart
  <2>1. /\ clock \in Nat /\ clock' = clock /\ opened' = clock
        /\ deadlines' = NewDeadlines(clock) /\ tool' = None
        /\ collector' = [state |-> "asleep", time |-> clock]
    BY <1>0, <1>7 DEF Restart, TimesRead
  <2>2. TimesRead'
    BY <2>1, NewDeadlinesShape DEF TimesRead
  <2>3. ScheduleKeepsStep'
    <3> SUFFICES ASSUME NEW d \in Dimension
                 PROVE  /\ (deadlines'[d].cadence - opened') % Interval[d] = 0
                        /\ deadlines'[d].cadence <= clock' + Interval[d]
                        /\ deadlines'[d].retry = None
      BY DEF ScheduleKeepsStep
    <3> QED  BY <2>1, NewKeepsStep
  <2> QED  BY <2>2, <2>3 DEF ScheduleInv
<1>8. CASE UNCHANGED vars
  BY <1>0, <1>8 DEF vars, ScheduleInv, TimesRead, ScheduleKeepsStep
<1> QED
  BY <1>1, <1>2, <1>3, <1>4, <1>5, <1>6, <1>7, <1>8 DEF Next

(* Whatever fails, is late or is asked for on demand, no dimension leaves  *)
(* the cadence it was started with or is put off beyond its interval.      *)
THEOREM OsSenseScheduleKeepsStep == Spec => []ScheduleKeepsStep
<1>1. ScheduleInv => ScheduleKeepsStep
  BY DEF ScheduleInv
<1> QED  BY <1>1, ScheduleInit, ScheduleStep, PTL DEF Spec

-----------------------------------------------------------------------------
(* The invariant behind AlertsTellLastReading: an alert that is kept is    *)
(* that of the last reading that could tell, and a high reading not yet    *)
(* TTL old has its alert kept.                                             *)
AlertKept(a) ==
    /\ reading[a] /= None => reading[a].at \in Nat /\ reading[a].at <= clock
    /\ alerts[a] /= None =>
           /\ reading[a] /= None /\ reading[a].high
           /\ alerts[a] = reading[a].at + TTL
    /\ reading[a] /= None /\ reading[a].high /\ clock < reading[a].at + TTL =>
           alerts[a] = reading[a].at + TTL

AlertsInv == clock \in Nat /\ \A a \in Alert : AlertKept(a)

LEMMA KeptAlertsTell == AlertsInv => AlertsTellLastReading
<1> SUFFICES ASSUME AlertsInv, NEW a \in Alert
             PROVE  Live(alerts[a], clock) <=>
                        /\ reading[a] /= None /\ reading[a].high
                        /\ clock < reading[a].at + TTL
  BY DEF AlertsTellLastReading
<1>1. clock \in Nat /\ TTL \in Nat /\ None \notin Int /\ AlertKept(a)
  BY OsSenseAssumption DEF AlertsInv
<1>2. ASSUME Live(alerts[a], clock)
      PROVE  reading[a] /= None /\ reading[a].high /\ clock < reading[a].at + TTL
  <2>1. alerts[a] /= None /\ alerts[a] > clock
    BY <1>2 DEF Live
  <2>2. /\ reading[a] /= None /\ reading[a].high /\ reading[a].at \in Nat
        /\ alerts[a] = reading[a].at + TTL
    BY <1>1, <2>1 DEF AlertKept
  <2> QED  BY <1>1, <2>1, <2>2
<1>3. ASSUME reading[a] /= None, reading[a].high, clock < reading[a].at + TTL
      PROVE  Live(alerts[a], clock)
  <2>1. reading[a].at \in Nat /\ alerts[a] = reading[a].at + TTL
    BY <1>1, <1>3 DEF AlertKept
  <2> QED  BY <1>1, <1>3, <2>1 DEF Live
<1> QED  BY <1>2, <1>3

(* A scheduled reading publishes, expires and keeps in step with itself.   *)
LEMMA TickKeepsAlerts ==
    ASSUME AlertsInv, NEW t, Tick(t), clock' = clock
    PROVE  AlertsInv'
<1>0. clock \in Nat /\ TTL \in Nat /\ None \notin Int
  BY OsSenseAssumption DEF AlertsInv
<1>1. CASE UNCHANGED <<alerts, reading>>
  BY <1>1 DEF AlertsInv, AlertKept
<1>2. ASSUME NEW readings \in [Alert -> {"unknown", "high", "normal"}],
             alerts' = Published(readings),
             reading' = [a \in Alert |->
                 IF readings[a] = "unknown" THEN reading[a]
                 ELSE [at |-> clock, high |-> readings[a] = "high"]]
      PROVE  AlertsInv'
  <2>1. ASSUME NEW a \in Alert
        PROVE  /\ reading'[a] /= None => reading'[a].at \in Nat /\ reading'[a].at <= clock
               /\ alerts'[a] /= None =>
                      /\ reading'[a] /= None /\ reading'[a].high
                      /\ alerts'[a] = reading'[a].at + TTL
               /\ reading'[a] /= None /\ reading'[a].high /\ clock < reading'[a].at + TTL =>
                      alerts'[a] = reading'[a].at + TTL
    <3>1. reading'[a] = IF readings[a] = "unknown" THEN reading[a]
                        ELSE [at |-> clock, high |-> readings[a] = "high"]
      BY <1>2
    <3>2. AlertKept(a)
      BY DEF AlertsInv
    <3>3. CASE readings[a] = "unknown"
      <4>1. reading'[a] = reading[a]
        BY <3>1, <3>3
      <4>2. alerts'[a] = IF Live(alerts[a], clock) THEN alerts[a] ELSE None
        BY <1>2, <3>3 DEF Published
      <4>3. CASE Live(alerts[a], clock)
        <5>1. alerts'[a] = alerts[a]
          BY <4>2, <4>3
        <5> QED  BY <3>2, <4>1, <5>1 DEF AlertKept
      <4>4. CASE ~Live(alerts[a], clock)
        <5>1. alerts'[a] = None
          BY <4>2, <4>4
        <5>2. ~(reading[a] /= None /\ reading[a].high /\ clock < reading[a].at + TTL)
          <6> SUFFICES ASSUME reading[a] /= None, reading[a].high,
                              clock < reading[a].at + TTL
                       PROVE  FALSE
            OBVIOUS
          <6>1. reading[a].at \in Nat /\ alerts[a] = reading[a].at + TTL
            BY <3>2 DEF AlertKept
          <6> QED  BY <1>0, <4>4, <6>1 DEF Live
        <5> QED  BY <3>2, <4>1, <5>1, <5>2 DEF AlertKept
      <4> QED  BY <4>3, <4>4
    <3>4. CASE readings[a] = "high"
      <4>1. alerts'[a] = clock + TTL
        BY <1>2, <3>4 DEF Published
      <4>2. reading'[a] = [at |-> clock, high |-> TRUE]
        BY <3>1, <3>4
      <4>3. reading'[a] /= None
        <5>1. reading'[a] \in [at: Nat, high: BOOLEAN]
          BY <1>0, <4>2
        <5> QED  BY <5>1, OsSenseAssumption
      <4>4. reading'[a].at = clock /\ reading'[a].high
        BY <4>2
      <4> QED  BY <1>0, <4>1, <4>3, <4>4
    <3>5. CASE readings[a] = "normal"
      <4>1. alerts'[a] = None
        BY <1>2, <3>5 DEF Published
      <4>2. reading'[a] = [at |-> clock, high |-> FALSE]
        <5>1. (readings[a] = "high") = FALSE /\ readings[a] /= "unknown"
          BY <3>5
        <5> QED  BY <3>1, <5>1
      <4>3. reading'[a].at = clock /\ ~reading'[a].high
        BY <4>2
      <4> QED  BY <1>0, <4>1, <4>3
    <3> QED  BY <3>3, <3>4, <3>5
  <2> QED  BY <1>0, <2>1 DEF AlertsInv, AlertKept
<1>3. \/ UNCHANGED <<alerts, reading>>
      \/ \E readings \in [Alert -> {"unknown", "high", "normal"}] :
             /\ alerts' = Published(readings)
             /\ reading' = [a \in Alert |->
                    IF readings[a] = "unknown" THEN reading[a]
                    ELSE [at |-> clock, high |-> readings[a] = "high"]]
  BY DEF Tick, Scheduled
<1> QED  BY <1>1, <1>2, <1>3

LEMMA AlertsInit == Init => AlertsInv
  BY OsSenseAssumption DEF Init, AlertsInv, AlertKept

LEMMA AlertsStep == AlertsInv /\ [Next]_vars => AlertsInv'
<1> SUFFICES ASSUME AlertsInv, [Next]_vars  PROVE AlertsInv'
  OBVIOUS
<1>1. CASE Advance
  <2>1. /\ clock' = clock + 1 /\ UNCHANGED <<alerts, reading>> /\ clock \in Nat
        /\ TTL \in Nat
    BY <1>1, OsSenseAssumption DEF Advance, AlertsInv
  <2>2. ASSUME NEW a \in Alert  PROVE AlertKept(a)'
    <3>1. AlertKept(a)
      BY DEF AlertsInv
    <3>2. reading[a] /= None => reading[a].at \in Nat /\ reading[a].at <= clock + 1
      BY <2>1, <3>1 DEF AlertKept
    <3>3. reading[a] /= None /\ clock + 1 < reading[a].at + TTL =>
              clock < reading[a].at + TTL
      BY <2>1, <3>2
    <3> QED  BY <2>1, <3>1, <3>2, <3>3 DEF AlertKept
  <2> QED  BY <2>1, <2>2 DEF AlertsInv
<1>2. CASE Wake
  BY <1>2 DEF Wake, AlertsInv, AlertKept
<1>3. CASE CollectorTick
  BY <1>3, TickKeepsAlerts DEF CollectorTick
<1>4. CASE ToolLock
  BY <1>4 DEF ToolLock, AlertsInv, AlertKept
<1>5. CASE ToolTick
  BY <1>5, TickKeepsAlerts DEF ToolTick
<1>6. ASSUME NEW written \in BOOLEAN, ToolOnDemand(written)  PROVE AlertsInv'
  BY <1>6 DEF ToolOnDemand, AlertsInv, AlertKept
<1>7. CASE Restart
  BY <1>7 DEF Restart, AlertsInv, AlertKept
<1>8. CASE UNCHANGED vars
  BY <1>8 DEF vars, AlertsInv, AlertKept
<1> QED
  BY <1>1, <1>2, <1>3, <1>4, <1>5, <1>6, <1>7, <1>8 DEF Next

(* An alert is shown exactly when the last reading that could tell was     *)
(* high and is not yet TTL old, for any dimensions, sources and TTL: no    *)
(* failed reading, failed write or on-demand collection hides or renews it. *)
THEOREM OsSenseAlertsTellLastReading == Spec => []AlertsTellLastReading
  BY AlertsInit, AlertsStep, KeptAlertsTell, PTL DEF Spec

-----------------------------------------------------------------------------
(* The invariant behind CountedIsOnRecord.                                 *)
RecordsInv ==
    /\ clock \in Nat
    /\ \A d \in Dimension : recorded[d] /= None => recorded[d] \in Nat
    /\ CountedIsOnRecord

(* Pruning never takes a row that a dimension's record still needs.        *)
LEMMA PrunedKeepsRecords ==
    ASSUME RecordsInv, NEW kept, store \subseteq kept, NEW d \in Dimension,
           recorded[d] /= None, recorded[d] >= clock - Retention
    PROVE  \E r \in Pruned(kept) : r.at = recorded[d] /\ d \in r.dimensions
<1>1. PICK r \in store : r.at = recorded[d] /\ d \in r.dimensions
  BY DEF RecordsInv, CountedIsOnRecord
<1>2. r \in Pruned(kept)
  BY <1>1 DEF Pruned
<1> QED  BY <1>1, <1>2

LEMMA TickKeepsRecords ==
    ASSUME RecordsInv, NEW t, Tick(t), clock' = clock
    PROVE  RecordsInv'
<1>0. clock \in Nat /\ Retention \in Nat
  BY OsSenseAssumption DEF RecordsInv
<1>1. CASE UNCHANGED <<store, recorded>>
  BY <1>1 DEF RecordsInv, CountedIsOnRecord
<1>2. ASSUME NEW counted \in SUBSET DueDimensions(t), Persist(DueDimensions(t)),
             recorded' = [d \in Dimension |-> IF d \in counted THEN clock ELSE recorded[d]]
      PROVE  RecordsInv'
  <2> DEFINE row == [at |-> clock, dimensions |-> DueDimensions(t)]
  <2>1. store' = Pruned(store \cup {row})
    BY <1>2 DEF Persist
  <2>2. row.at = clock /\ row.dimensions = DueDimensions(t)
    OBVIOUS
  <2> HIDE DEF row
  <2>3. ASSUME NEW d \in Dimension, recorded'[d] /= None
        PROVE  /\ recorded'[d] \in Nat
               /\ recorded'[d] >= clock - Retention =>
                      \E r \in store' : r.at = recorded'[d] /\ d \in r.dimensions
    <3>1. CASE d \in counted
      <4>1. recorded'[d] = clock /\ d \in row.dimensions
        BY <1>2, <2>2, <3>1
      <4>2. row \in store'
        BY <1>0, <2>1, <2>2 DEF Pruned
      <4> QED  BY <1>0, <2>2, <4>1, <4>2
    <3>2. CASE d \notin counted
      <4>1. recorded'[d] = recorded[d]
        BY <1>2, <3>2
      <4>2. recorded[d] \in Nat
        BY <2>3, <4>1 DEF RecordsInv
      <4>3. recorded[d] >= clock - Retention =>
                \E r \in store' : r.at = recorded[d] /\ d \in r.dimensions
        BY <2>1, <2>3, <4>1, PrunedKeepsRecords
      <4> QED  BY <4>1, <4>2, <4>3
    <3> QED  BY <3>1, <3>2
  <2> QED  BY <1>0, <2>3 DEF RecordsInv, CountedIsOnRecord
<1>3. \/ UNCHANGED <<store, recorded>>
      \/ \E counted \in SUBSET DueDimensions(t) :
             /\ Persist(DueDimensions(t))
             /\ recorded' = [d \in Dimension |->
                    IF d \in counted THEN clock ELSE recorded[d]]
  BY DEF Tick, Scheduled
<1> QED  BY <1>1, <1>2, <1>3

LEMMA RecordsInit == Init => RecordsInv
  BY DEF Init, RecordsInv, CountedIsOnRecord

LEMMA RecordsStep == RecordsInv /\ [Next]_vars => RecordsInv'
<1> SUFFICES ASSUME RecordsInv, [Next]_vars  PROVE RecordsInv'
  OBVIOUS
<1>0. clock \in Nat /\ Retention \in Nat
  BY OsSenseAssumption DEF RecordsInv
<1>1. CASE Advance
  <2>1. clock' = clock + 1 /\ UNCHANGED <<store, recorded>>
    BY <1>1 DEF Advance
  <2>2. ASSUME NEW d \in Dimension, recorded[d] /= None,
               recorded[d] >= clock + 1 - Retention
        PROVE  \E r \in store : r.at = recorded[d] /\ d \in r.dimensions
    <3>1. recorded[d] \in Nat
      BY <2>2 DEF RecordsInv
    <3>2. recorded[d] >= clock - Retention
      BY <1>0, <2>2, <3>1
    <3> QED  BY <2>2, <3>2 DEF RecordsInv, CountedIsOnRecord
  <2> QED  BY <1>0, <2>1, <2>2 DEF RecordsInv, CountedIsOnRecord
<1>2. CASE Wake
  BY <1>2 DEF Wake, RecordsInv, CountedIsOnRecord
<1>3. CASE CollectorTick
  BY <1>3, TickKeepsRecords DEF CollectorTick
<1>4. CASE ToolLock
  BY <1>4 DEF ToolLock, RecordsInv, CountedIsOnRecord
<1>5. CASE ToolTick
  BY <1>5, TickKeepsRecords DEF ToolTick
<1>6. ASSUME NEW written \in BOOLEAN, ToolOnDemand(written)  PROVE RecordsInv'
  <2>1. /\ clock' = clock /\ recorded' = recorded
        /\ store' = store \/ \E kept : store \subseteq kept /\ store' = Pruned(kept)
    BY <1>6 DEF ToolOnDemand, Persist
  <2>2. CASE store' = store
    BY <2>1, <2>2 DEF RecordsInv, CountedIsOnRecord
  <2>3. CASE \E kept : store \subseteq kept /\ store' = Pruned(kept)
    BY <2>1, <2>3, PrunedKeepsRecords DEF RecordsInv, CountedIsOnRecord
  <2> QED  BY <2>1, <2>2, <2>3
<1>7. CASE Restart
  <2>1. clock' = clock /\ recorded' = recorded /\ store' = Pruned(store)
    BY <1>7 DEF Restart
  <2> QED  BY <2>1, PrunedKeepsRecords DEF RecordsInv, CountedIsOnRecord
<1>8. CASE UNCHANGED vars
  BY <1>8 DEF vars, RecordsInv, CountedIsOnRecord
<1> QED
  BY <1>1, <1>2, <1>3, <1>4, <1>5, <1>6, <1>7, <1>8 DEF Next

(* What the schedule counts as collected is in the store as long as rows   *)
(* are kept: the deadline moves only after the write, and neither pruning  *)
(* nor a restart takes the row before its time.                            *)
THEOREM OsSenseCountedIsOnRecord == Spec => []CountedIsOnRecord
<1>1. RecordsInv => CountedIsOnRecord
  BY DEF RecordsInv
<1> QED  BY <1>1, RecordsInit, RecordsStep, PTL DEF Spec

-----------------------------------------------------------------------------
(* Types.  A nonempty set of times has an earliest one, so the collector's *)
(* sleep is a time.                                                        *)
LEMMA EarliestIsThere ==
    ASSUME NEW dues \in SUBSET Nat, dues /= {}
    PROVE  Earliest(dues) \in dues
<1>1. PICK due \in dues : \A other \in dues : ~(<<other, due>> \in OpToRel(<, Nat))
  BY NatLessThanWellFounded, WFMin
<1>2. \A other \in dues : due <= other
  <2> SUFFICES ASSUME NEW other \in dues  PROVE due <= other
    OBVIOUS
  <2>1. ~(<<other, due>> \in OpToRel(<, Nat))
    BY <1>1
  <2>2. due \in Nat /\ other \in Nat
    OBVIOUS
  <2>3. ~(other < due)
    BY <2>1, <2>2 DEF OpToRel
  <2> QED  BY <2>2, <2>3
<1> QED  BY <1>2 DEF Earliest

LEMMA SleepIsTime ==
    ASSUME NEW t \in Nat, deadlines' \in [Dimension -> Deadline]
    PROVE  SleepFor(t) \in Nat
<1> DEFINE dues == {EffectiveDue(deadlines'[d]) : d \in Dimension}
           until == Earliest(dues) - t
<1>1. MinSleep \in Nat /\ MaxSleep \in Nat /\ Dimension /= {}
  BY OsSenseAssumption
<1>2. dues \in SUBSET Nat
  <2> SUFFICES ASSUME NEW d \in Dimension  PROVE EffectiveDue(deadlines'[d]) \in Nat
    OBVIOUS
  <2>1. deadlines'[d] \in Deadline
    OBVIOUS
  <2> QED  BY <2>1 DEF Deadline, EffectiveDue
<1>3. dues /= {}
  BY <1>1
<1>4. SleepFor(t) = IF HasReachedRunLimit' \/ until > MaxSleep THEN MaxSleep
                    ELSE IF until < MinSleep THEN MinSleep
                    ELSE until
  BY DEF SleepFor
<1> HIDE DEF dues
<1>5. Earliest(dues) \in Nat
  BY <1>2, <1>3, EarliestIsThere
<1>6. until \in Int
  BY <1>5
<1> HIDE DEF until
<1> QED  BY <1>1, <1>4, <1>6

(* What a tick leaves in the runtime, whoever takes it.                    *)
LEMMA TickTypes ==
    ASSUME TypeOK, NEW t, Tick(t)
    PROVE  /\ runs' \in Nat /\ (MaxRuns /= None => runs' <= MaxRuns)
           /\ alerts' \in [Alert -> Nat \cup {None}]
           /\ store' \subseteq Row
           /\ reading' \in [Alert -> [at: Time, high: BOOLEAN] \cup {None}]
           /\ recorded' \in [Dimension -> Time \cup {None}]
<1>0. clock \in Time /\ clock \in Nat /\ TTL \in Nat /\ MaxRuns \in Nat \cup {None}
  BY OsSenseAssumption DEF TypeOK, Time
<1>1. CASE UNCHANGED <<alerts, reading, store, runs, recorded>>
  BY <1>1 DEF TypeOK
<1> DEFINE due == DueDimensions(t)
<1>2. ASSUME due /= {},
             NEW outcomes, NEW readings \in [Alert -> {"unknown", "high", "normal"}],
             NEW written \in BOOLEAN,
             Scheduled(t, outcomes, readings, written)
      PROVE  /\ runs' \in Nat /\ (MaxRuns /= None => runs' <= MaxRuns)
             /\ alerts' \in [Alert -> Nat \cup {None}]
             /\ store' \subseteq Row
             /\ reading' \in [Alert -> [at: Time, high: BOOLEAN] \cup {None}]
             /\ recorded' \in [Dimension -> Time \cup {None}]
  <2>1. ~HasReachedRunLimit /\ due \in SUBSET Dimension
    BY <1>2 DEF DueDimensions
  <2>2. alerts' \in [Alert -> Nat \cup {None}]
    <3>1. ASSUME NEW a \in Alert
          PROVE  (CASE readings[a] = "high" -> clock + TTL
                    [] readings[a] = "normal" -> None
                    [] OTHER -> IF Live(alerts[a], clock) THEN alerts[a] ELSE None)
                     \in Nat \cup {None}
      <4>1. alerts[a] \in Nat \cup {None} /\ clock + TTL \in Nat
        BY <1>0 DEF TypeOK
      <4>2. readings[a] = "high" => readings[a] /= "normal"
        OBVIOUS
      <4> QED  BY <4>1, <4>2
    <3>2. alerts' = Published(readings)
      BY <1>2 DEF Scheduled
    <3> QED  BY <3>1, <3>2 DEF Published
  <2>3. reading' \in [Alert -> [at: Time, high: BOOLEAN] \cup {None}]
    <3>1. reading' = [a \in Alert |->
              IF readings[a] = "unknown" THEN reading[a]
              ELSE [at |-> clock, high |-> readings[a] = "high"]]
      BY <1>2 DEF Scheduled
    <3>2. ASSUME NEW a \in Alert
          PROVE  [at |-> clock, high |-> readings[a] = "high"] \in [at: Time, high: BOOLEAN]
      <4>1. (readings[a] = "high") \in BOOLEAN
        OBVIOUS
      <4> QED  BY <1>0, <4>1
    <3>3. \A a \in Alert : reading[a] \in [at: Time, high: BOOLEAN] \cup {None}
      BY DEF TypeOK
    <3> QED  BY <3>1, <3>2, <3>3
  <2>4. CASE written
    <3>1. Persist(due) /\ runs' = runs + 1
      BY <1>2, <2>4 DEF Scheduled, MarkAttempted
    <3>2. runs' \in Nat /\ (MaxRuns /= None => runs' <= MaxRuns)
      BY <1>0, <2>1, <3>1 DEF HasReachedRunLimit, TypeOK
    <3>3. [at |-> clock, dimensions |-> due] \in Row
      <4> HIDE DEF due
      <4> QED  BY <1>0, <2>1 DEF Row
    <3>4. store' \subseteq Row
      <4>1. store \subseteq Row
        BY DEF TypeOK
      <4> QED  BY <3>1, <3>3, <4>1 DEF Persist, Pruned
    <3>5. PICK counted : recorded' = [d \in Dimension |->
                                         IF d \in counted THEN clock ELSE recorded[d]]
      BY <1>2, <2>4 DEF Scheduled
    <3>6. recorded' \in [Dimension -> Time \cup {None}]
      <4>1. \A d \in Dimension : recorded[d] \in Time \cup {None}
        BY DEF TypeOK
      <4> QED  BY <1>0, <3>5, <4>1
    <3> QED  BY <2>2, <2>3, <3>2, <3>4, <3>6
  <2>5. CASE ~written
    <3>1. UNCHANGED <<store, runs, recorded>>
      BY <1>2, <2>5 DEF Scheduled
    <3> QED  BY <2>2, <2>3, <3>1 DEF TypeOK
  <2> QED  BY <2>4, <2>5
<1>3. \/ UNCHANGED <<alerts, reading, store, runs, recorded>>
      \/ /\ due /= {}
         /\ \E outcomes \in [due -> {"read", "failed", "absent"}],
               readings \in [Alert -> {"unknown", "high", "normal"}],
               written \in BOOLEAN : Scheduled(t, outcomes, readings, written)
  BY Zenon DEF Tick
<1> QED  BY <1>1, <1>2, <1>3

LEMMA TypeInit == Init => TypeOK
<1> SUFFICES ASSUME Init  PROVE TypeOK
  OBVIOUS
<1>1. 0 \in Time /\ (MaxRuns /= None => 0 <= MaxRuns)
  BY OsSenseAssumption DEF Time
<1>2. deadlines \in [Dimension -> Deadline]
  BY NewDeadlinesShape DEF Init
<1> QED  BY <1>1, <1>2 DEF Init, TypeOK

LEMMA TypeStep == ScheduleInv /\ TypeOK /\ [Next]_vars => TypeOK'
<1> SUFFICES ASSUME ScheduleInv, TypeOK, [Next]_vars, ScheduleInv'  PROVE TypeOK'
  BY ScheduleStep
<1>0. /\ clock \in Time /\ clock \in Nat
      /\ deadlines' \in [Dimension -> Deadline]
      /\ MaxRuns \in Nat \cup {None}
  BY OsSenseAssumption DEF TypeOK, Time, ScheduleInv, TimesRead
<1>1. CASE Advance
  <2>1. clock' \in Time
    BY <1>0, <1>1, OsSenseAssumption DEF Advance, Time
  <2> QED  BY <1>0, <1>1, <2>1 DEF Advance, TypeOK
<1>2. CASE Wake
  BY <1>0, <1>2 DEF Wake, TypeOK
<1>3. CASE CollectorTick
  <2>1. /\ collector.state = "waiting" /\ Tick(collector.time)
        /\ collector' = [state |-> "asleep", time |-> clock + SleepFor(collector.time)]
        /\ UNCHANGED <<clock, tool, opened>>
    BY <1>3 DEF CollectorTick
  <2>2. collector.time \in Nat
    BY <2>1 DEF ScheduleInv, TimesRead
  <2>3. SleepFor(collector.time) \in Nat
    BY <1>0, <2>2, SleepIsTime
  <2>4. collector' \in [state: {"asleep", "waiting"}, time: Nat]
    BY <1>0, <2>1, <2>3
  <2>5. /\ runs' \in Nat /\ (MaxRuns /= None => runs' <= MaxRuns)
        /\ alerts' \in [Alert -> Nat \cup {None}]
        /\ store' \subseteq Row
        /\ reading' \in [Alert -> [at: Time, high: BOOLEAN] \cup {None}]
        /\ recorded' \in [Dimension -> Time \cup {None}]
    BY <2>1, TickTypes
  <2> QED  BY <1>0, <2>1, <2>4, <2>5 DEF TypeOK
<1>4. CASE ToolLock
  BY <1>0, <1>4 DEF ToolLock, TypeOK
<1>5. CASE ToolTick
  <2>1. Tick(tool) /\ tool' = None /\ UNCHANGED <<clock, collector, opened>>
    BY <1>5 DEF ToolTick
  <2>2. /\ runs' \in Nat /\ (MaxRuns /= None => runs' <= MaxRuns)
        /\ alerts' \in [Alert -> Nat \cup {None}]
        /\ store' \subseteq Row
        /\ reading' \in [Alert -> [at: Time, high: BOOLEAN] \cup {None}]
        /\ recorded' \in [Dimension -> Time \cup {None}]
    BY <2>1, TickTypes
  <2> QED  BY <1>0, <2>1, <2>2 DEF TypeOK
<1>6. ASSUME NEW written \in BOOLEAN, ToolOnDemand(written)  PROVE TypeOK'
  <2>1. store' \subseteq Row
    <3>1. [at |-> clock, dimensions |-> Dimension] \in Row /\ store \subseteq Row
      BY <1>0 DEF Row, TypeOK
    <3> QED  BY <1>6, <3>1 DEF ToolOnDemand, Persist, Pruned
  <2> QED  BY <1>0, <1>6, <2>1 DEF ToolOnDemand, TypeOK
<1>7. CASE Restart
  <2>1. store' \subseteq Row
    BY <1>7 DEF Restart, Pruned, TypeOK
  <2>2. runs' \in Nat /\ (MaxRuns /= None => runs' <= MaxRuns)
    BY <1>0, <1>7 DEF Restart
  <2> QED  BY <1>0, <1>7, <2>1, <2>2 DEF Restart, TypeOK
<1>8. CASE UNCHANGED vars
  BY <1>8 DEF vars, TypeOK
<1> QED
  BY <1>1, <1>2, <1>3, <1>4, <1>5, <1>6, <1>7, <1>8 DEF Next

(* Every variable keeps its type, and a schedule with a limit never runs   *)
(* more often than that, whichever of its two callers comes first.         *)
THEOREM OsSenseTypeOK == Spec => []TypeOK
  BY ScheduleInit, ScheduleStep, TypeInit, TypeStep, PTL DEF Spec

-----------------------------------------------------------------------------
(* Division, as the buckets use it.                                        *)
LEMMA Quotient ==
    ASSUME NEW a \in Nat, NEW b \in Nat \ {0}
    PROVE  /\ a \div b \in Nat
           /\ b * (a \div b) <= a
           /\ a < b * (a \div b) + b
  BY SMTT(20)

LEMMA WholeQuotient ==
    ASSUME NEW a \in Nat, NEW b \in Nat \ {0}, a % b = 0
    PROVE  a = b * (a \div b)
  BY SMTT(20)

(* What is less than b times m is less than m times b over.                *)
LEMMA QuotientBelow ==
    ASSUME NEW a \in Nat, NEW b \in Nat \ {0}, NEW m \in Nat, a < b * m
    PROVE  a \div b < m
<1> DEFINE q == a \div b
<1>1. q \in Nat /\ b * q <= a
  BY Quotient
<1> HIDE DEF q
<1>2. SUFFICES ASSUME m <= q  PROVE FALSE
  BY <1>1 DEF q
<1>3. b * m <= b * q
  BY <1>1, <1>2, SMTT(20)
<1>4. b * m \in Int /\ b * q \in Int
  BY <1>1
<1> QED  BY <1>1, <1>3, <1>4

LEMMA QuotientMonotone ==
    ASSUME NEW a \in Nat, NEW c \in Nat, NEW b \in Nat \ {0}, a <= c
    PROVE  a \div b <= c \div b
<1> DEFINE q == c \div b
<1>1. q \in Nat /\ c < b * q + b
  BY Quotient
<1> HIDE DEF q
<1>2. b * q + b = b * (q + 1)
  BY <1>1, SMTT(20)
<1>3. a < b * (q + 1)
  BY <1>1, <1>2
<1>4. a \div b < q + 1
  BY <1>1, <1>3, QuotientBelow
<1>5. a \div b \in Nat
  BY Quotient
<1> QED  BY <1>1, <1>4, <1>5 DEF q

-----------------------------------------------------------------------------
(* The rows, and what has been made of those that are read.                *)
RowsInOrder ==
    /\ rows \in Seq(HistoryRow)
    /\ \A i, j \in 1 .. Len(rows) : i <= j => rows[i].at <= rows[j].at

Progress ==
    /\ next \in 1 .. Len(rows) + 1
    /\ first /= NoRow => first \in 1 .. next - 1
    /\ last /= NoRow => last \in 1 .. next - 1 /\ first /= NoRow
    /\ middle \in Seq(Int)

Count(i) == IF i = NoRow THEN 0 ELSE 1

(* Without buckets no row is returned twice; with them, one for each       *)
(* bucket up to the selected one at most.                                  *)
FewSoFar ==
    IF ~Downsampled
    THEN Len(middle) + Count(first) + Count(last) <= next - 1
    ELSE IF selected = NoRow THEN Len(middle) = 0
    ELSE /\ selected \in Nat /\ last /= NoRow
         /\ selected <= Bucket(last)
         /\ Len(middle) <= selected + 1

HistoryInv == RowsInOrder /\ Progress /\ FewSoFar

(* There are two buckets less than points, and they come in order.         *)
LEMMA BucketsFitAndRise ==
    ASSUME RowsInOrder, Downsampled,
           NEW i \in 1 .. Len(rows), NEW j \in 1 .. Len(rows), i <= j
    PROVE  /\ Bucket(i) \in Nat /\ Bucket(j) \in Nat
           /\ Bucket(i) <= Bucket(j)
           /\ Bucket(j) < MaxPoints - 2 /\ Bucket(j) <= MaxAt
<1> DEFINE m == MaxPoints - 2
           n == Len(rows)
           age(k) == rows[k].at - rows[1].at
<1>1. m \in Nat \ {0} /\ n \in Nat /\ n > 0
  BY HistoryAssumption DEF RowsInOrder
<1>2. ASSUME NEW k \in 1 .. n  PROVE rows[k].at \in Nat /\ rows[k].at <= MaxAt
  <2>1. rows[k] \in HistoryRow
    BY DEF RowsInOrder
  <2>2. rows[k].at \in 0 .. MaxAt
    BY <2>1 DEF HistoryRow
  <2> QED  BY <2>2, HistoryAssumption
<1>3. ASSUME NEW k \in 1 .. n  PROVE age(k) \in Nat /\ age(k) < Span
  <2>1. rows[1].at <= rows[k].at /\ rows[k].at <= rows[n].at
    BY <1>1 DEF RowsInOrder
  <2>2. rows[1].at \in Nat /\ rows[k].at \in Nat /\ rows[n].at \in Nat
    BY <1>1, <1>2
  <2> QED  BY <2>1, <2>2 DEF Span
<1>4. Span \in Nat \ {0}
  <2>1. rows[1].at <= rows[n].at
    BY <1>1 DEF RowsInOrder
  <2>2. rows[1].at \in Nat /\ rows[n].at \in Nat
    BY <1>1, <1>2
  <2> QED  BY <2>1, <2>2 DEF Span
<1>5. age(i) <= age(j)
  <2>1. rows[i].at <= rows[j].at
    BY DEF RowsInOrder
  <2>2. rows[1].at \in Nat /\ rows[i].at \in Nat /\ rows[j].at \in Nat
    BY <1>1, <1>2
  <2> QED  BY <2>1, <2>2
<1>6. Span \div m \in Nat /\ Span < m * (Span \div m) + m
  BY <1>1, <1>4, Quotient
<1>7. BucketWidth \in Nat \ {0} /\ Span <= m * BucketWidth
  <2> DEFINE q == Span \div m
  <2>1. CASE Span % m = 0
    <3>1. Span = m * q
      BY <1>1, <1>4, <2>1, WholeQuotient
    <3>2. BucketWidth = q + 0
      BY <2>1 DEF BucketWidth
    <3> HIDE DEF q, m
    <3>3. q \in Nat
      BY <1>6 DEF q
    <3>4. q /= 0
      BY <1>1, <1>4, <3>1, <3>3
    <3> QED  BY <1>4, <3>1, <3>2, <3>3, <3>4
  <2>2. CASE Span % m /= 0
    <3>1. BucketWidth = q + 1
      BY <2>2 DEF BucketWidth
    <3> HIDE DEF q, m
    <3>2. q \in Nat /\ Span < m * q + m
      BY <1>6 DEF q
    <3>3. m * (q + 1) = m * q + m
      BY <1>1, <3>2, SMTT(20)
    <3>4. m * q \in Int
      BY <1>1, <3>2
    <3> QED  BY <1>1, <1>4, <3>1, <3>2, <3>3, <3>4
  <2> QED  BY <2>1, <2>2
<1> HIDE DEF m
<1>8. m * BucketWidth = BucketWidth * m
  BY <1>1, <1>7, SMTT(20)
<1>9. age(j) < BucketWidth * m
  <2>1. m * BucketWidth \in Int
    BY <1>1, <1>7
  <2> QED  BY <1>3, <1>4, <1>7, <1>8, <2>1
<1>10. Bucket(i) = age(i) \div BucketWidth /\ Bucket(j) = age(j) \div BucketWidth
  BY DEF Bucket
<1>11. age(i) \in Nat /\ age(j) \in Nat /\ age(j) <= MaxAt
  <2>1. rows[1].at \in Nat /\ rows[j].at \in Nat /\ rows[j].at <= MaxAt
    BY <1>1, <1>2
  <2> QED  BY <1>3, <2>1, HistoryAssumption
<1> HIDE DEF age
<1>12. age(i) \div BucketWidth \in Nat /\ age(j) \div BucketWidth \in Nat
  BY <1>7, <1>11, Quotient
<1>13. age(i) \div BucketWidth <= age(j) \div BucketWidth
  BY <1>5, <1>7, <1>11, QuotientMonotone
<1>14. age(j) \div BucketWidth < m
  BY <1>1, <1>7, <1>9, <1>11, QuotientBelow
<1>15. age(j) \div BucketWidth <= MaxAt
  <2> DEFINE q == age(j) \div BucketWidth
  <2>1. q \in Nat /\ BucketWidth * q <= age(j)
    BY <1>7, <1>11, Quotient
  <2> HIDE DEF q
  <2>2. q <= BucketWidth * q
    BY <1>7, <2>1, SMTT(20)
  <2>3. BucketWidth * q \in Int
    BY <1>7, <2>1
  <2>4. q <= MaxAt
    BY <1>11, <2>1, <2>2, <2>3, HistoryAssumption
  <2> QED  BY <2>4 DEF q
<1> QED  BY <1>10, <1>12, <1>13, <1>14, <1>15 DEF m

(* The invariant leaves room for the first and the last row.               *)
LEMMA FewIsWithinLimit == HistoryInv => WithinLimit
<1> SUFFICES ASSUME HistoryInv  PROVE WithinLimit
  OBVIOUS
<1>0. Count(first) \in {0, 1} /\ Count(last) \in {0, 1}
  BY DEF Count
<1>1. Len(rows) \in Nat /\ Len(middle) \in Nat /\ MaxPoints \in Nat /\ MaxPoints > 2
  BY HistoryAssumption DEF HistoryInv, RowsInOrder, Progress
<1>2. One(first) \in Seq(Int) /\ Len(One(first)) = Count(first)
  BY DEF HistoryInv, Progress, One, Count
<1>3. One(last) \in Seq(Int) /\ Len(One(last)) = Count(last)
  BY DEF HistoryInv, Progress, One, Count
<1>4. Len(Samples) = Len(middle) + Count(first) + Count(last)
  <2>1. middle \in Seq(Int)
    BY DEF HistoryInv, Progress
  <2>2. /\ One(first) \o middle \in Seq(Int)
        /\ Len(One(first) \o middle) = Len(One(first)) + Len(middle)
    BY <1>2, <2>1, ConcatProperties
  <2> DEFINE a == One(first) \o middle
             b == One(last)
  <2>3. Samples = a \o b
    BY DEF Samples
  <2>4. a \in Seq(Int) /\ b \in Seq(Int)
    BY <1>3, <2>2
  <2> HIDE DEF a, b
  <2>5. Len(Samples) = Len(a) + Len(b)
    BY <2>3, <2>4, ConcatProperties
  <2>6. Len(a) = Len(One(first)) + Len(middle) /\ Len(b) = Len(One(last))
    BY <2>2 DEF a, b
  <2> QED  BY <1>0, <1>1, <1>2, <1>3, <2>5, <2>6
<1>5. CASE ~Downsampled
  <2>1. next \in Int /\ next - 1 <= Len(rows) /\ Len(rows) <= MaxPoints
    BY <1>1, <1>5 DEF HistoryInv, Progress, Downsampled
  <2>2. Len(Samples) <= next - 1
    BY <1>4, <1>5 DEF HistoryInv, FewSoFar, Count
  <2>3. Len(Samples) \in Int
    BY <1>0, <1>1, <1>4
  <2> QED  BY <1>1, <2>1, <2>2, <2>3 DEF WithinLimit
<1>6. CASE Downsampled
  <2>1. Len(middle) <= MaxPoints - 2
    <3>1. CASE selected = NoRow
      BY <1>1, <1>6, <3>1 DEF HistoryInv, FewSoFar, Count
    <3>2. CASE selected /= NoRow
      <4>1. /\ selected \in Nat /\ last /= NoRow
            /\ selected <= Bucket(last)
            /\ Len(middle) <= selected + 1
        BY <1>6, <3>2 DEF HistoryInv, FewSoFar, Count
      <4>2. last \in 1 .. Len(rows)
        BY <1>1, <4>1 DEF HistoryInv, Progress
      <4>3. Bucket(last) \in Nat /\ Bucket(last) < MaxPoints - 2
        BY <1>6, <4>2, BucketsFitAndRise DEF HistoryInv
      <4> QED  BY <1>1, <4>1, <4>3
    <3> QED  BY <3>1, <3>2
  <2>2. Len(Samples) <= Len(middle) + 2
    BY <1>0, <1>1, <1>4
  <2>3. Len(Samples) \in Int
    BY <1>0, <1>1, <1>4
  <2> QED  BY <1>1, <2>1, <2>2, <2>3 DEF WithinLimit
<1> QED  BY <1>5, <1>6

LEMMA HistoryInit == QueryInit => HistoryInv
<1> SUFFICES ASSUME QueryInit  PROVE HistoryInv
  OBVIOUS
<1>1. PICK n \in 0 .. MaxRows :
        \E times \in [1 .. n -> 0 .. MaxAt], readable \in [1 .. n -> BOOLEAN] :
            /\ InOrder(times)
            /\ rows = [i \in 1 .. n |-> [at |-> times[i], readable |-> readable[i]]]
  BY DEF QueryInit
<1>2. PICK times \in [1 .. n -> 0 .. MaxAt], readable \in [1 .. n -> BOOLEAN] :
        /\ InOrder(times)
        /\ rows = [i \in 1 .. n |-> [at |-> times[i], readable |-> readable[i]]]
  BY <1>1
<1>3. n \in Nat
  BY HistoryAssumption
<1>4. rows \in Seq(HistoryRow) /\ Len(rows) = n
  <2>1. \A i \in 1 .. n : [at |-> times[i], readable |-> readable[i]] \in HistoryRow
    BY DEF HistoryRow
  <2>2. rows \in [1 .. n -> HistoryRow]
    BY <1>2, <2>1
  <2> QED  BY <1>3, <2>2
<1>5. ASSUME NEW i \in 1 .. Len(rows), NEW j \in 1 .. Len(rows), i <= j
      PROVE  rows[i].at <= rows[j].at
  <2>1. i \in 1 .. n /\ j \in 1 .. n
    BY <1>4
  <2>2. times[i] <= times[j]
    BY <1>2, <1>5, <2>1 DEF InOrder
  <2>3. rows[i].at = times[i] /\ rows[j].at = times[j]
    BY <1>2, <2>1
  <2> QED  BY <2>2, <2>3
<1>6. next = 1 /\ first = NoRow /\ middle = <<>> /\ last = NoRow /\ selected = NoRow
  BY DEF QueryInit
<1>7. middle \in Seq(Int) /\ Len(middle) = 0
  BY <1>6
<1> QED
  BY <1>4, <1>5, <1>6, <1>7, <1>3 DEF HistoryInv, RowsInOrder, Progress, FewSoFar, Count

LEMMA HistoryStep == HistoryInv /\ [QueryNext]_queryVars => HistoryInv'
<1> SUFFICES ASSUME HistoryInv, [QueryNext]_queryVars  PROVE HistoryInv'
  OBVIOUS
<1>0. Len(rows) \in Nat /\ next \in Nat /\ middle \in Seq(Int) /\ Len(middle) \in Nat
  BY DEF HistoryInv, RowsInOrder, Progress
<1>1. CASE Corrupt
  <2>1. /\ next <= Len(rows) /\ next' = next + 1
        /\ UNCHANGED <<rows, first, middle, last, selected>>
    BY <1>1 DEF Corrupt
  <2>2. Downsampled' = Downsampled /\ Bucket(last)' = Bucket(last)
    BY <2>1 DEF Downsampled, Bucket, BucketWidth, Span
  <2>3. RowsInOrder' /\ Progress'
    BY <1>0, <2>1 DEF HistoryInv, RowsInOrder, Progress
  <2>4. FewSoFar'
    <3>1. CASE ~Downsampled
      <4>1. Count(first) \in {0, 1} /\ Count(last) \in {0, 1}
        BY DEF Count
      <4>2. Len(middle) + Count(first) + Count(last) <= next - 1
        BY <3>1 DEF HistoryInv, FewSoFar
      <4>3. Count(first)' = Count(first) /\ Count(last)' = Count(last)
        BY <2>1 DEF Count
      <4> QED  BY <1>0, <2>1, <2>2, <3>1, <4>1, <4>2, <4>3 DEF FewSoFar
    <3>2. CASE Downsampled
      BY <2>1, <2>2, <3>2 DEF HistoryInv, FewSoFar
    <3> QED  BY <3>1, <3>2
  <2> QED  BY <2>3, <2>4 DEF HistoryInv
<1>2. CASE First
  <2>1. /\ next <= Len(rows) /\ first = NoRow /\ first' = next /\ next' = next + 1
        /\ UNCHANGED <<rows, middle, last, selected>>
    BY <1>2 DEF First
  <2>2. last = NoRow /\ next /= NoRow
    BY <1>0, <2>1, HistoryAssumption DEF HistoryInv, Progress
  <2>3. RowsInOrder' /\ Progress'
    BY <1>0, <2>1, <2>2 DEF HistoryInv, RowsInOrder, Progress
  <2>4. Downsampled' = Downsampled
    BY <2>1 DEF Downsampled
  <2>5. FewSoFar'
    BY <1>0, <2>1, <2>2, <2>4 DEF HistoryInv, FewSoFar, Count
  <2> QED  BY <2>3, <2>5 DEF HistoryInv
<1>3. CASE Later
  <2>1. /\ next <= Len(rows) /\ first /= NoRow
        /\ last' = next /\ next' = next + 1 /\ rows' = rows /\ first' = first
    BY <1>3 DEF Later
  <2>2. next \in 1 .. Len(rows) /\ next /= NoRow /\ RowsInOrder
    BY <1>0, <2>1, HistoryAssumption DEF HistoryInv, Progress
  <2>3. RowsInOrder'
    BY <2>1, <2>2 DEF RowsInOrder
  <2>4. Downsampled' = Downsampled /\ Bucket(last)' = Bucket(next)
    BY <2>1 DEF Downsampled, Bucket, BucketWidth, Span
  <2>5. CASE last /= NoRow /\ Takes(last)
    <3>1. /\ last \in 1 .. next - 1 /\ last \in Int
      BY <1>0, <2>5 DEF HistoryInv, Progress
    <3>2. /\ middle' = Append(middle, last)
          /\ selected' = IF Downsampled THEN Bucket(last) ELSE NoRow
      BY <1>3, <2>5 DEF Later
    <3>3. middle' \in Seq(Int) /\ Len(middle') = Len(middle) + 1
      BY <1>0, <3>1, <3>2, AppendProperties
    <3>4. Progress'
      BY <1>0, <2>1, <2>2, <3>3 DEF HistoryInv, Progress
    <3>5. CASE ~Downsampled
      <4>1. Len(middle) + 2 <= next - 1
        BY <1>0, <2>1, <2>5, <3>5 DEF HistoryInv, FewSoFar, Count
      <4> QED
        BY <1>0, <2>1, <2>2, <2>3, <2>4, <3>3, <3>4, <3>5, <4>1
          DEF HistoryInv, FewSoFar, Count
    <3>6. CASE Downsampled
      <4>1. /\ Bucket(last) \in Nat /\ Bucket(next) \in Nat
            /\ Bucket(last) <= Bucket(next)
        <5>1. last \in 1 .. Len(rows) /\ last <= next
          BY <1>0, <2>2, <3>1
        <5> QED  BY <2>2, <3>6, <5>1, BucketsFitAndRise
      <4>2. Len(middle') <= Bucket(last) + 1
        <5>1. CASE selected = NoRow
          BY <1>0, <3>3, <3>6, <4>1, <5>1 DEF HistoryInv, FewSoFar, Count
        <5>2. CASE selected /= NoRow
          <6>1. /\ selected \in Nat /\ selected <= Bucket(last)
                /\ Len(middle) <= selected + 1
            BY <3>6, <5>2 DEF HistoryInv, FewSoFar, Count
          <6>2. Bucket(last) /= selected
            BY <2>5, <3>6, <5>2 DEF Takes
          <6> QED  BY <1>0, <3>3, <4>1, <6>1, <6>2
        <5> QED  BY <5>1, <5>2
      <4>3. selected' = Bucket(last) /\ selected' /= NoRow
        BY <3>2, <3>6, <4>1, HistoryAssumption
      <4>4. last' /= NoRow /\ selected' <= Bucket(last)'
        BY <2>1, <2>2, <2>4, <4>1, <4>3
      <4>5. FewSoFar'
        BY <2>4, <3>6, <4>1, <4>2, <4>3, <4>4 DEF FewSoFar, Count
      <4> QED  BY <2>3, <3>4, <4>5 DEF HistoryInv
    <3> QED  BY <3>5, <3>6
  <2>6. CASE ~(last /= NoRow /\ Takes(last))
    <3>1. middle' = middle /\ selected' = selected
      BY <1>3, <2>6 DEF Later
    <3>2. Progress'
      BY <1>0, <2>1, <2>2, <3>1 DEF HistoryInv, Progress
    <3>3. CASE ~Downsampled
      <4>1. last = NoRow
        BY <2>6, <3>3 DEF Takes
      <4>2. Len(middle) + 1 <= next - 1
        BY <1>0, <2>1, <3>3, <4>1 DEF HistoryInv, FewSoFar, Count
      <4> QED
        BY <1>0, <2>1, <2>2, <2>3, <2>4, <3>1, <3>2, <3>3, <4>2
          DEF HistoryInv, FewSoFar, Count
    <3>4. CASE Downsampled /\ selected = NoRow
      BY <2>3, <2>4, <3>1, <3>2, <3>4 DEF HistoryInv, FewSoFar, Count
    <3>5. CASE Downsampled /\ selected /= NoRow
      <4>1. /\ selected \in Nat /\ last /= NoRow /\ selected <= Bucket(last)
            /\ Len(middle) <= selected + 1
        BY <3>5 DEF HistoryInv, FewSoFar, Count
      <4>2. last \in 1 .. Len(rows) /\ last <= next
        BY <1>0, <2>2, <4>1 DEF HistoryInv, Progress
      <4>3. /\ Bucket(last) \in Nat /\ Bucket(next) \in Nat
            /\ Bucket(last) <= Bucket(next)
        BY <2>2, <3>5, <4>2, BucketsFitAndRise
      <4>4. last' /= NoRow /\ selected' <= Bucket(last)'
        BY <2>1, <2>2, <2>4, <3>1, <4>1, <4>3
      <4>5. FewSoFar'
        BY <2>4, <3>1, <3>5, <4>1, <4>4 DEF FewSoFar, Count
      <4> QED  BY <2>3, <3>2, <4>5 DEF HistoryInv
    <3> QED  BY <3>3, <3>4, <3>5
  <2> QED  BY <2>5, <2>6
<1>4. CASE UNCHANGED queryVars
  BY <1>4
    DEF queryVars, HistoryInv, RowsInOrder, Progress, FewSoFar, Count, Downsampled, Bucket,
        BucketWidth, Span
<1> QED  BY <1>1, <1>2, <1>3, <1>4 DEF QueryNext

(* For every maximum, and any number, spread and state of the rows, the    *)
(* history has at most the maximum of points.                              *)
THEOREM HistoryWithinLimit == QuerySpec => []WithinLimit
  BY HistoryInit, HistoryStep, FewIsWithinLimit, PTL DEF QuerySpec

-----------------------------------------------------------------------------
(* The invariant behind SelectionIsFaithful.  The first readable row is    *)
(* kept, the last one is held back, and those in between that were taken   *)
(* come in order; of the others each has a row of its bucket before it,    *)
(* the last one taken being of the selected bucket.                        *)
MiddleInOrder ==
    /\ \A n \in 1 .. Len(middle) :
           middle[n] \in ReadSoFar /\ first < middle[n] /\ middle[n] < last
    /\ \A n \in 1 .. Len(middle) - 1 : middle[n] < middle[n + 1]

EndsHeld ==
    /\ first = NoRow => ReadSoFar = {} /\ last = NoRow
    /\ last = NoRow => Len(middle) = 0 /\ ReadSoFar \subseteq {first}
    /\ first /= NoRow => first \in ReadSoFar /\ \A i \in ReadSoFar : first <= i
    /\ last /= NoRow => /\ last \in ReadSoFar /\ first /= NoRow /\ first < last
                        /\ \A i \in ReadSoFar : i <= last

StandIn(i) ==
    \E n \in 1 .. Len(middle) :
        IF Downsampled THEN middle[n] <= i /\ Bucket(middle[n]) = Bucket(i)
        ELSE middle[n] = i

SelectionInv ==
    /\ EndsHeld
    /\ MiddleInOrder
    /\ \A i \in ReadSoFar \ {first, last} : StandIn(i)
    /\ Downsampled /\ selected /= NoRow =>
           Len(middle) > 0 /\ Bucket(middle[Len(middle)]) = selected

(* Of the rows that are read the next one is the last.                     *)
LEMMA ReadIsPast ==
    ASSUME HistoryInv
    PROVE  /\ next \in Nat /\ NoRow \notin Int
           /\ \A i \in ReadSoFar : i \in Nat /\ i < next
           /\ ReadSoFar \subseteq 1 .. Len(rows)
  BY HistoryAssumption DEF HistoryInv, RowsInOrder, Progress, ReadSoFar

LEMMA ReadNext ==
    ASSUME HistoryInv, next' = next + 1, rows' = rows
    PROVE  ReadSoFar' = IF rows[next].readable THEN ReadSoFar \cup {next} ELSE ReadSoFar
<1>1. next \in Nat /\ next >= 1
  BY DEF HistoryInv, Progress, RowsInOrder
<1>2. 1 .. (next + 1) - 1 = (1 .. next - 1) \cup {next}
  BY <1>1
<1>3. ReadSoFar' = {i \in 1 .. (next + 1) - 1 : rows[i].readable}
  BY DEF ReadSoFar
<1>4. ReadSoFar = {i \in 1 .. next - 1 : rows[i].readable}
  BY DEF ReadSoFar
<1> HIDE DEF ReadSoFar
<1> QED  BY <1>2, <1>3, <1>4

LEMMA BucketsUnchanged ==
    ASSUME rows' = rows
    PROVE  Downsampled' = Downsampled /\ \A i : Bucket(i)' = Bucket(i)
  BY DEF Downsampled, Bucket, BucketWidth, Span

LEMMA SelectionInit == QueryInit => SelectionInv
<1> SUFFICES ASSUME QueryInit  PROVE SelectionInv
  OBVIOUS
<1>1. next = 1 /\ first = NoRow /\ middle = <<>> /\ last = NoRow /\ selected = NoRow
  BY DEF QueryInit
<1>2. ReadSoFar = {} /\ Len(middle) = 0
  BY <1>1 DEF ReadSoFar
<1> QED  BY <1>1, <1>2 DEF SelectionInv, EndsHeld, MiddleInOrder

LEMMA SelectionStep == HistoryInv /\ SelectionInv /\ [QueryNext]_queryVars => SelectionInv'
<1> SUFFICES ASSUME HistoryInv, SelectionInv, [QueryNext]_queryVars  PROVE SelectionInv'
  OBVIOUS
<1>0. /\ next \in Nat /\ NoRow \notin Int /\ middle \in Seq(Int) /\ Len(middle) \in Nat
      /\ \A i \in ReadSoFar : i \in Nat /\ i < next
  BY ReadIsPast DEF HistoryInv, Progress
<1>1. CASE Corrupt
  <2>1. /\ next' = next + 1 /\ rows' = rows /\ ~rows[next].readable
        /\ UNCHANGED <<first, middle, last, selected>>
    BY <1>1 DEF Corrupt
  <2>2. ReadSoFar' = ReadSoFar
    BY <2>1, ReadNext
  <2>3. Downsampled' = Downsampled /\ \A i : Bucket(i)' = Bucket(i)
    BY <2>1, BucketsUnchanged
  <2>4. EndsHeld' /\ MiddleInOrder'
    BY <2>1, <2>2 DEF SelectionInv, EndsHeld, MiddleInOrder
  <2>5. \A i : StandIn(i) => StandIn(i)'
    <3> SUFFICES ASSUME NEW i, NEW n \in 1 .. Len(middle),
                        IF Downsampled THEN middle[n] <= i /\ Bucket(middle[n]) = Bucket(i)
                        ELSE middle[n] = i
                 PROVE  StandIn(i)'
      BY DEF StandIn
    <3>1. Bucket(middle[n])' = Bucket(middle[n]) /\ Bucket(i)' = Bucket(i)
      BY <2>1, <2>3 DEF Bucket, BucketWidth, Span
    <3> QED  BY <2>1, <2>3, <3>1 DEF StandIn
  <2>6. Bucket(middle[Len(middle)])' = Bucket(middle[Len(middle)])
    BY <2>1 DEF Bucket, BucketWidth, Span
  <2> QED  BY <2>1, <2>2, <2>3, <2>4, <2>5, <2>6 DEF SelectionInv
<1>2. CASE First
  <2>1. /\ next' = next + 1 /\ rows' = rows /\ rows[next].readable
        /\ first = NoRow /\ first' = next
        /\ UNCHANGED <<middle, last, selected>>
    BY <1>2 DEF First
  <2>2. ReadSoFar = {} /\ last = NoRow /\ Len(middle) = 0
    BY <2>1 DEF SelectionInv, EndsHeld
  <2>3. ReadSoFar' = {next}
    BY <2>1, <2>2, ReadNext
  <2>4. Downsampled' = Downsampled
    BY <2>1, BucketsUnchanged
  <2>5. EndsHeld' /\ MiddleInOrder'
    BY <1>0, <2>1, <2>2, <2>3 DEF EndsHeld, MiddleInOrder
  <2>6. ~(Downsampled /\ selected /= NoRow)
    BY <2>2 DEF SelectionInv
  <2> QED  BY <2>1, <2>3, <2>4, <2>5, <2>6 DEF SelectionInv
<1>3. CASE Later
  <2>1. /\ next' = next + 1 /\ rows' = rows /\ rows[next].readable
        /\ first /= NoRow /\ first' = first /\ last' = next
    BY <1>3 DEF Later
  <2>2. ReadSoFar' = ReadSoFar \cup {next}
    BY <2>1, ReadNext
  <2>3. Downsampled' = Downsampled
    BY <2>1, BucketsUnchanged
  <2>4. first \in ReadSoFar /\ (\A i \in ReadSoFar : first <= i) /\ first < next
    BY <1>0, <2>1 DEF SelectionInv, EndsHeld
  <2>5. EndsHeld'
    BY <1>0, <2>1, <2>2, <2>4 DEF EndsHeld
  <2>6. CASE last /= NoRow /\ Takes(last)
    <3> DEFINE n == Len(middle) + 1
    <3>1. /\ last \in ReadSoFar /\ first < last /\ last \in Nat /\ last < next
          /\ \A i \in ReadSoFar : i <= last
      BY <1>0, <2>6 DEF SelectionInv, EndsHeld
    <3>2. /\ middle' = Append(middle, last)
          /\ selected' = IF Downsampled THEN Bucket(last) ELSE NoRow
      BY <1>3, <2>6 DEF Later
    <3>3. /\ middle' \in Seq(Int) /\ Len(middle') = n /\ middle'[n] = last
          /\ \A k \in 1 .. Len(middle) : middle'[k] = middle[k]
      BY <1>0, <3>1, <3>2, AppendProperties
    <3>4. MiddleInOrder'
      <4>1. ASSUME NEW k \in 1 .. n
            PROVE  middle'[k] \in ReadSoFar \cup {next} /\ first < middle'[k]
                   /\ middle'[k] < next
        <5>1. CASE k = n
          BY <3>1, <3>3, <5>1
        <5>2. CASE k /= n
          <6>1. k \in 1 .. Len(middle)
            BY <1>0, <5>2
          <6>2. middle[k] \in ReadSoFar /\ first < middle[k]
            BY <6>1 DEF SelectionInv, MiddleInOrder
          <6> QED  BY <1>0, <3>3, <6>1, <6>2
        <5> QED  BY <5>1, <5>2
      <4>2. ASSUME NEW k \in 1 .. n - 1  PROVE middle'[k] < middle'[k + 1]
        <5>1. k \in 1 .. Len(middle) /\ middle'[k] = middle[k]
          BY <1>0, <3>3
        <5>2. CASE k = Len(middle)
          <6>1. middle[k] < last /\ middle'[k + 1] = last
            BY <3>3, <5>1, <5>2 DEF SelectionInv, MiddleInOrder
          <6> QED  BY <5>1, <6>1
        <5>3. CASE k /= Len(middle)
          <6>1. k \in 1 .. Len(middle) - 1 /\ k + 1 \in 1 .. Len(middle)
            BY <1>0, <5>1, <5>3
          <6>2. middle[k] < middle[k + 1]
            BY <6>1 DEF SelectionInv, MiddleInOrder
          <6> QED  BY <3>3, <5>1, <6>1, <6>2
        <5> QED  BY <5>2, <5>3
      <4> HIDE DEF n
      <4> QED  BY <2>1, <2>2, <3>3, <4>1, <4>2 DEF MiddleInOrder
    <3>5. ASSUME NEW i \in ReadSoFar' \ {first', last'}  PROVE StandIn(i)'
      <4>1. i \in ReadSoFar /\ i /= first
        BY <2>1, <2>2
      <4>2. CASE i = last
        <5>1. n \in 1 .. Len(middle') /\ middle'[n] = i
          BY <1>0, <3>3, <4>2
        <5>2. i <= i
          BY <1>0, <4>1
        <5> HIDE DEF n
        <5> QED  BY <5>1, <5>2 DEF StandIn
      <4>3. CASE i /= last
        <5>1. PICK k \in 1 .. Len(middle) :
                  IF Downsampled THEN middle[k] <= i /\ Bucket(middle[k]) = Bucket(i)
                  ELSE middle[k] = i
          BY <4>1, <4>3 DEF SelectionInv, StandIn
        <5>2. k \in 1 .. Len(middle') /\ middle'[k] = middle[k]
          BY <1>0, <3>3
        <5>3. Bucket(i)' = Bucket(i)
          BY <2>1 DEF Bucket, BucketWidth, Span
        <5>4. Bucket(middle[k])' = Bucket(middle[k])
          BY <2>1, <5>2 DEF Bucket, BucketWidth, Span
        <5> QED  BY <2>3, <5>1, <5>2, <5>3, <5>4 DEF StandIn
      <4> QED  BY <4>2, <4>3
    <3>6. ASSUME Downsampled', selected' /= NoRow
          PROVE  Len(middle') > 0 /\ Bucket(middle[Len(middle)])' = selected'
      <4>1. selected' = Bucket(last)
        BY <2>3, <3>2, <3>6
      <4>2. middle'[Len(middle')] = last /\ Len(middle') > 0
        BY <1>0, <3>3
      <4>3. Bucket(middle[Len(middle)])' = Bucket(last)
        BY <2>1, <4>2 DEF Bucket, BucketWidth, Span
      <4> QED  BY <4>1, <4>2, <4>3
    <3> QED  BY <2>5, <3>4, <3>5, <3>6 DEF SelectionInv
  <2>7. CASE ~(last /= NoRow /\ Takes(last))
    <3>1. middle' = middle /\ selected' = selected
      BY <1>3, <2>7 DEF Later
    <3>2. MiddleInOrder'
      <4>1. \A k \in 1 .. Len(middle) : middle[k] \in ReadSoFar /\ first < middle[k]
        BY DEF SelectionInv, MiddleInOrder
      <4>2. \A k \in 1 .. Len(middle) : middle[k] < next
        BY <1>0, <4>1
      <4> QED  BY <2>1, <2>2, <3>1, <4>1, <4>2 DEF SelectionInv, MiddleInOrder
    <3>3. ASSUME NEW i \in ReadSoFar' \ {first', last'}  PROVE StandIn(i)
      <4>1. i \in ReadSoFar /\ i /= first
        BY <2>1, <2>2
      <4>2. CASE i /= last
        BY <4>1, <4>2 DEF SelectionInv
      <4>3. CASE i = last
        <5>1. last /= NoRow /\ ~Takes(last)
          BY <1>0, <2>7, <4>1, <4>3
        <5>2. Downsampled /\ selected /= NoRow /\ Bucket(last) = selected
          BY <5>1 DEF Takes
        <5>3. Len(middle) > 0 /\ Bucket(middle[Len(middle)]) = Bucket(i)
          BY <4>3, <5>2 DEF SelectionInv
        <5>4. Len(middle) \in 1 .. Len(middle)
          BY <1>0, <5>3
        <5>5. middle[Len(middle)] < i
          BY <4>3, <5>4 DEF SelectionInv, MiddleInOrder
        <5>6. middle[Len(middle)] \in Int /\ i \in Int
          BY <1>0, <4>1, <5>4
        <5>7. middle[Len(middle)] <= i
          BY <5>5, <5>6
        <5> QED  BY <5>2, <5>3, <5>4, <5>7 DEF StandIn
      <4> QED  BY <4>2, <4>3
    <3>4. \A i : StandIn(i) => StandIn(i)'
      <4> SUFFICES ASSUME NEW i, NEW k \in 1 .. Len(middle),
                          IF Downsampled
                          THEN middle[k] <= i /\ Bucket(middle[k]) = Bucket(i)
                          ELSE middle[k] = i
                   PROVE  StandIn(i)'
        BY DEF StandIn
      <4>1. Bucket(middle[k])' = Bucket(middle[k]) /\ Bucket(i)' = Bucket(i)
        BY <2>1, <3>1 DEF Bucket, BucketWidth, Span
      <4> QED  BY <2>3, <3>1, <4>1 DEF StandIn
    <3>5. Bucket(middle[Len(middle)])' = Bucket(middle[Len(middle)])
      BY <2>1, <3>1 DEF Bucket, BucketWidth, Span
    <3> QED  BY <2>3, <2>5, <3>1, <3>2, <3>3, <3>4, <3>5 DEF SelectionInv
  <2> QED  BY <2>6, <2>7
<1>4. CASE UNCHANGED queryVars
  <2>1. UNCHANGED <<rows, next, first, middle, last, selected>>
    BY <1>4 DEF queryVars
  <2>2. ReadSoFar' = ReadSoFar /\ Downsampled' = Downsampled
    BY <2>1 DEF ReadSoFar, Downsampled
  <2>3. \A i : StandIn(i)' = StandIn(i)
    BY <2>1 DEF StandIn, Downsampled, Bucket, BucketWidth, Span
  <2>4. Bucket(middle[Len(middle)])' = Bucket(middle[Len(middle)])
    BY <2>1 DEF Bucket, BucketWidth, Span
  <2> QED  BY <2>1, <2>2, <2>3, <2>4 DEF SelectionInv, EndsHeld, MiddleInOrder
<1> QED  BY <1>1, <1>2, <1>3, <1>4 DEF QueryNext

(* What is returned once a row is read: the first, those in between, and   *)
(* the last when there is another.                                         *)
LEMMA SamplesAre ==
    ASSUME HistoryInv, first /= NoRow
    PROVE  /\ Len(Samples) = 1 + Len(middle) + Count(last)
           /\ Samples[1] = first
           /\ \A n \in 1 .. Len(middle) : Samples[n + 1] = middle[n]
           /\ last /= NoRow => Samples[Len(middle) + 2] = last
<1>1. middle \in Seq(Int) /\ Len(middle) \in Nat /\ first \in Int
  BY DEF HistoryInv, Progress
<1> DEFINE a == One(first) \o middle
           b == One(last)
<1>2. One(first) = <<first>>
  BY DEF One
<1>3. /\ a \in Seq(Int) /\ Len(a) = 1 + Len(middle)
      /\ a[1] = first
      /\ \A n \in 1 .. Len(middle) : a[n + 1] = middle[n]
  <2>1. <<first>> \in Seq(Int) /\ Len(<<first>>) = 1 /\ <<first>>[1] = first
    BY <1>1
  <2>2. a \in Seq(Int) /\ Len(a) = 1 + Len(middle)
    BY <1>1, <1>2, <2>1, ConcatProperties
  <2>3. a[1] = first
    BY <1>1, <1>2, <2>1, ConcatProperties
  <2>4. ASSUME NEW n \in 1 .. Len(middle)  PROVE a[n + 1] = middle[n]
    BY <1>1, <1>2, <2>1, ConcatProperties
  <2> QED  BY <2>2, <2>3, <2>4
<1>4. b \in Seq(Int) /\ Len(b) = Count(last) /\ (last /= NoRow => b[1] = last)
  <2>1. CASE last = NoRow
    BY <2>1 DEF One, Count
  <2>2. CASE last /= NoRow
    <3>1. last \in Int
      BY <2>2 DEF HistoryInv, Progress
    <3> QED  BY <2>2, <3>1 DEF One, Count
  <2> QED  BY <2>1, <2>2
<1>5. Samples = a \o b
  BY DEF Samples
<1>6. Count(last) \in {0, 1} /\ (last /= NoRow => Count(last) = 1)
  BY DEF Count
<1> HIDE DEF a, b
<1>7. Len(Samples) = 1 + Len(middle) + Count(last)
  BY <1>1, <1>3, <1>4, <1>5, <1>6, ConcatProperties
<1>8. ASSUME NEW i \in 1 .. Len(a)  PROVE Samples[i] = a[i]
  BY <1>1, <1>3, <1>4, <1>5, <1>6, ConcatProperties
<1>9. Samples[1] = first
  <2>1. 1 \in 1 .. Len(a)
    BY <1>1, <1>3
  <2> QED  BY <1>3, <1>8, <2>1
<1>10. ASSUME NEW n \in 1 .. Len(middle)  PROVE Samples[n + 1] = middle[n]
  <2>1. n + 1 \in 1 .. Len(a)
    BY <1>1, <1>3
  <2> QED  BY <1>3, <1>8, <2>1
<1>11. ASSUME last /= NoRow  PROVE Samples[Len(middle) + 2] = last
  <2>1. 1 \in 1 .. Len(b) /\ b[1] = last /\ Len(a) + 1 = Len(middle) + 2
    BY <1>1, <1>3, <1>4, <1>6, <1>11
  <2>2. Samples[Len(a) + 1] = b[1]
    BY <1>1, <1>3, <1>4, <1>5, <2>1, ConcatProperties
  <2> QED  BY <2>1, <2>2
<1> QED  BY <1>7, <1>9, <1>10, <1>11

LEMMA SelectionKeepsFaith == HistoryInv /\ SelectionInv => SelectionIsFaithful
<1> SUFFICES ASSUME HistoryInv, SelectionInv  PROVE SelectionIsFaithful
  OBVIOUS
<1> USE DEF SelectionInv, EndsHeld, MiddleInOrder
<1>0. /\ NoRow \notin Int /\ Len(middle) \in Nat /\ middle \in Seq(Int)
      /\ \A i \in ReadSoFar : i \in Nat
  BY ReadIsPast DEF HistoryInv, Progress
<1>1. ASSUME ReadSoFar /= {}
      PROVE  /\ \A i \in ReadSoFar : Samples[1] <= i /\ i <= Samples[Len(Samples)]
             /\ \A n \in 1 .. Len(Samples) - 1 : Samples[n] < Samples[n + 1]
  <2>1. first /= NoRow /\ first \in Nat
    BY <1>0, <1>1
  <2>2. /\ Len(Samples) = 1 + Len(middle) + Count(last)
        /\ Samples[1] = first
        /\ \A n \in 1 .. Len(middle) : Samples[n + 1] = middle[n]
        /\ last /= NoRow => Samples[Len(middle) + 2] = last
    BY <2>1, SamplesAre
  <2>3. CASE last = NoRow
    <3>1. Len(middle) = 0 /\ ReadSoFar \subseteq {first} /\ Count(last) = 0
      BY <2>3 DEF Count
    <3>2. Len(Samples) = 1
      BY <2>2, <3>1
    <3> QED  BY <1>0, <2>1, <2>2, <3>1, <3>2
  <2>4. CASE last /= NoRow
    <3>1. Len(Samples) = Len(middle) + 2 /\ Samples[Len(Samples)] = last
      BY <1>0, <2>2, <2>4 DEF Count
    <3>2. \A i \in ReadSoFar : Samples[1] <= i /\ i <= Samples[Len(Samples)]
      BY <2>1, <2>2, <2>4, <3>1
    <3>3. ASSUME NEW n \in 1 .. Len(Samples) - 1  PROVE Samples[n] < Samples[n + 1]
      <4>1. CASE Len(middle) = 0
        <5>1. n = 1 /\ n + 1 = Len(middle) + 2
          BY <3>1, <4>1
        <5> QED  BY <2>1, <2>2, <2>4, <5>1
      <4>2. CASE Len(middle) /= 0 /\ n = 1
        <5>1. 1 \in 1 .. Len(middle)
          BY <1>0, <4>2
        <5> QED  BY <2>2, <4>2, <5>1
      <4>3. CASE Len(middle) /= 0 /\ n = Len(middle) + 1
        <5>1. Len(middle) \in 1 .. Len(middle) /\ n + 1 = Len(middle) + 2
          BY <1>0, <4>3
        <5>2. Samples[n] = middle[Len(middle)] /\ Samples[n + 1] = last
          BY <2>2, <2>4, <4>3, <5>1
        <5> QED  BY <5>1, <5>2
      <4>4. CASE n /= 1 /\ n /= Len(middle) + 1
        <5>1. n - 1 \in 1 .. Len(middle) - 1 /\ n - 1 \in 1 .. Len(middle)
              /\ n \in 1 .. Len(middle) /\ (n - 1) + 1 = n
          BY <1>0, <3>1, <4>4
        <5>2. Samples[n] = middle[n - 1] /\ Samples[n + 1] = middle[n]
          BY <2>2, <5>1
        <5>3. middle[n - 1] < middle[(n - 1) + 1]
          BY <5>1
        <5> QED  BY <5>1, <5>2, <5>3
      <4> QED  BY <4>1, <4>2, <4>3, <4>4
    <3> QED  BY <3>2, <3>3
  <2> QED  BY <2>3, <2>4
<1>2. ASSUME ~Downsampled, NEW i \in ReadSoFar
      PROVE  \E n \in 1 .. Len(Samples) : Samples[n] = i
  <2>1. first /= NoRow
    BY <1>2
  <2>2. /\ Len(Samples) = 1 + Len(middle) + Count(last)
        /\ Samples[1] = first
        /\ \A n \in 1 .. Len(middle) : Samples[n + 1] = middle[n]
        /\ last /= NoRow => Samples[Len(middle) + 2] = last
    BY <2>1, SamplesAre
  <2>3. Count(last) \in {0, 1} /\ (last /= NoRow => Count(last) = 1)
    BY DEF Count
  <2>4. CASE i = first
    <3>1. 1 \in 1 .. Len(Samples)
      BY <1>0, <2>2, <2>3
    <3> QED  BY <2>2, <2>4, <3>1
  <2>5. CASE i = last
    <3>1. last /= NoRow
      BY <1>0, <2>5
    <3>2. Len(middle) + 2 \in 1 .. Len(Samples)
      BY <1>0, <2>2, <2>3, <3>1
    <3> QED  BY <2>2, <2>5, <3>1, <3>2
  <2>6. CASE i /= first /\ i /= last
    <3>1. PICK n \in 1 .. Len(middle) : middle[n] = i
      BY <1>2, <2>6 DEF StandIn
    <3>2. n + 1 \in 1 .. Len(Samples) /\ Samples[n + 1] = i
      BY <1>0, <2>2, <2>3, <3>1
    <3> QED  BY <3>2
  <2> QED  BY <2>4, <2>5, <2>6
<1>3. EndsAreKept
  BY <1>1, <1>2 DEF EndsAreKept
<1>4. NoBucketIsLost
  BY DEF NoBucketIsLost, StandIn
<1> QED  BY <1>3, <1>4 DEF SelectionIsFaithful

(* Whatever the maximum and the rows, what is returned stands for them:    *)
(* the first and the last readable row, each once and in order, all of     *)
(* them when there are few, and the first of every bucket otherwise - at   *)
(* every point where the rows may end.                                     *)
THEOREM HistorySelectionIsFaithful == QuerySpec => []SelectionIsFaithful
  BY HistoryInit, HistoryStep, SelectionInit, SelectionStep, SelectionKeepsFaith, PTL
     DEF QuerySpec

(* The bucket selected is one of the window's time.                        *)
SelectedInTime == selected \in 0 .. MaxAt \cup {NoRow}

LEMMA SelectedStep ==
    HistoryInv /\ SelectionInv /\ SelectedInTime /\ [QueryNext]_queryVars => SelectedInTime'
<1> SUFFICES ASSUME HistoryInv, SelectionInv, SelectedInTime, [QueryNext]_queryVars
             PROVE  SelectedInTime'
  OBVIOUS
<1>1. CASE Later /\ last /= NoRow /\ Downsampled
  <2>1. last \in 1 .. Len(rows) /\ RowsInOrder
    BY <1>1, ReadIsPast DEF SelectionInv, EndsHeld, HistoryInv
  <2>2. Len(rows) \in Nat
    BY <2>1 DEF RowsInOrder
  <2>3. Bucket(last) \in Nat /\ Bucket(last) <= MaxAt
    BY <1>1, <2>1, <2>2, BucketsFitAndRise
  <2>4. selected' \in {Bucket(last), selected}
    BY <1>1 DEF Later
  <2> QED  BY <2>3, <2>4, HistoryAssumption DEF SelectedInTime
<1>2. CASE Later /\ ~(last /= NoRow /\ Downsampled)
  BY <1>2 DEF Later, SelectedInTime
<1>3. CASE ~Later
  BY <1>3 DEF QueryNext, Corrupt, First, queryVars, SelectedInTime
<1> QED  BY <1>1, <1>2, <1>3

LEMMA SelectionTypes == HistoryInv /\ SelectionInv /\ SelectedInTime => QueryTypeOK
<1> SUFFICES ASSUME HistoryInv, SelectionInv, SelectedInTime  PROVE QueryTypeOK
  OBVIOUS
<1>1. middle \in Seq(Int) /\ \A n \in 1 .. Len(middle) : middle[n] \in ReadSoFar
  BY DEF HistoryInv, Progress, SelectionInv, MiddleInOrder
<1>2. middle \in Seq(ReadSoFar)
  <2>1. middle \in [1 .. Len(middle) -> Int] /\ Len(middle) \in Nat
    BY <1>1
  <2>2. middle \in [1 .. Len(middle) -> ReadSoFar]
    BY <1>1, <2>1
  <2> QED  BY <2>1, <2>2
<1>3. first \in ReadSoFar \cup {NoRow} /\ last \in ReadSoFar \cup {NoRow}
  BY DEF SelectionInv, EndsHeld
<1> QED
  BY <1>2, <1>3 DEF QueryTypeOK, HistoryInv, RowsInOrder, Progress, SelectedInTime

(* What is kept of a query are rows it has read and could read.            *)
THEOREM HistoryTypeOK == QuerySpec => []QueryTypeOK
<1>1. QueryInit => SelectedInTime
  BY DEF QueryInit, SelectedInTime
<1> QED
  BY <1>1, HistoryInit, HistoryStep, SelectionInit, SelectionStep, SelectedStep,
     SelectionTypes, PTL DEF QuerySpec
=============================================================================
