----------------------- MODULE RuntimeProcessesProofs -----------------------
(***************************************************************************)
(* Proofs about the processes that the runtime drives: the workers of the  *)
(* worker boot registry, for every set of prompts and receipts and every   *)
(* number of deliveries, and the servers of the MCP server manager, for    *)
(* every set of servers, tools and prompts and every number of pages.      *)
(***************************************************************************)
EXTENDS WorkerBoot, McpServerManager, SequenceTheorems, TLAPS

-----------------------------------------------------------------------------
(* The worker boot registry.                                               *)

(* The errors a status carries.                                            *)
Explains(status, error) ==
    /\ status = "TrustRequired" => error = "TrustGate"
    /\ status = "ToolPermissionRequired" => error = "ToolPermissionGate"
    /\ status = "Failed" => error \in {"PromptDelivery", "Provider", "StartupNoEvidence"}
    /\ status \in {"Spawning", "Running"} => error = None

(* What a delivery that the worker w, in the given status, has open relies *)
(* on; seen says whether it was accepted, c is the last event's finding.   *)
MayBeOpen(w, status, c, seen) ==
    /\ w.last_prompt /= None
    /\ w.prompt_sent
    /\ w.attempts > 0
    /\ w.replay_prompt = None
    /\ status \notin {"ReadyForPrompt", "Finished", "Failed"}
    /\ c /= "PromptAcceptanceTimeout"
    /\ ~seen

(* The inductive invariant, as a condition on a worker and on whether its  *)
(* last delivery was accepted.  Beyond the checked invariants it says that *)
(* an open delivery has not been accepted, and that startup has not been   *)
(* given up on since it began.                                             *)
Good(w, seen) ==
    /\ w \in Worker /\ seen \in BOOLEAN
    /\ w.prompt_in_flight => MayBeOpen(w, w.status, w.last_event.classification, seen)
    /\ w.last_event.classification = "PromptAcceptanceTimeout" =>
           w.last_prompt /= None /\ ~seen
    /\ Explains(w.status, w.last_error)
    /\ w.file /= None =>
           /\ w.file.status = "ReadyForPrompt" <=> w.status = "ReadyForPrompt"
           /\ w.prompt_in_flight => w.file.prompt_in_flight
           /\ w.file.status = w.status \/ (seen /\ w.status = "Running")

WorkerInv == Good(worker, accepted)

(* A worker to which an event is about to be pushed: create has none yet.  *)
Draft ==
    [status: WorkerStatus,
     trust_auto_resolve: BOOLEAN,
     trust_gate_cleared: BOOLEAN,
     auto_recover: BOOLEAN,
     attempts: 0 .. MaxAttempts,
     prompt_in_flight: BOOLEAN,
     prompt_sent: BOOLEAN,
     last_prompt: Prompt \cup {None},
     expected_receipt: Receipt \cup {None},
     replay_prompt: Prompt \cup {None},
     last_error: WorkerFailureKind \cup {None},
     last_event: Event \cup {None},
     file: StateSnapshot \cup {None}]

LEMMA WorkerIsDraft == ASSUME NEW w \in Worker PROVE w \in Draft
BY DEF Worker, Draft

-----------------------------------------------------------------------------
(* push_event sets the status, the event and the file, and leaves every    *)
(* other field alone.                                                      *)
LEMMA PushedFields ==
    ASSUME NEW w \in Draft, NEW kind \in WorkerEventKind, NEW status \in WorkerStatus,
           NEW c \in StartupFailureClassification \cup {None}
    PROVE  LET n == Pushed(w, kind, status, c)
           IN  /\ n \in Worker
               /\ n.status = status
               /\ n.last_event.classification = c
               /\ n.trust_auto_resolve = w.trust_auto_resolve
               /\ n.trust_gate_cleared = w.trust_gate_cleared
               /\ n.auto_recover = w.auto_recover
               /\ n.attempts = w.attempts
               /\ n.prompt_in_flight = w.prompt_in_flight
               /\ n.prompt_sent = w.prompt_sent
               /\ n.last_prompt = w.last_prompt
               /\ n.expected_receipt = w.expected_receipt
               /\ n.replay_prompt = w.replay_prompt
               /\ n.last_error = w.last_error
               /\ n.file.status = status
               /\ n.file.prompt_in_flight = w.prompt_in_flight
<1> DEFINE e == [kind |-> kind, classification |-> c]
           n == [w EXCEPT !.status = status, !.last_event = e]
           f == Snapshot(n)
<1>1. e \in Event /\ e.classification = c
  BY DEF Event
<1>2. Pushed(w, kind, status, c) = [n EXCEPT !.file = f]
  BY DEF Pushed
<1> HIDE DEF e
<1>3. /\ n \in Draft
      /\ n.status = status /\ n.last_event = e
      /\ n.trust_auto_resolve = w.trust_auto_resolve
      /\ n.trust_gate_cleared = w.trust_gate_cleared
      /\ n.auto_recover = w.auto_recover
      /\ n.attempts = w.attempts
      /\ n.prompt_in_flight = w.prompt_in_flight
      /\ n.prompt_sent = w.prompt_sent
      /\ n.last_prompt = w.last_prompt
      /\ n.expected_receipt = w.expected_receipt
      /\ n.replay_prompt = w.replay_prompt
      /\ n.last_error = w.last_error
  BY <1>1 DEF Draft
<1> HIDE DEF n
<1>4. f \in StateSnapshot /\ f.status = status /\ f.prompt_in_flight = w.prompt_in_flight
  BY <1>1, <1>3 DEF Draft, Snapshot, StateSnapshot
<1> HIDE DEF f
<1>5. QED
  BY <1>1, <1>2, <1>3, <1>4 DEF Worker, Draft

(* A call that ends in push_event has only the fields before it to answer  *)
(* for: the file follows.                                                  *)
LEMMA PushedIsGood ==
    ASSUME NEW w \in Draft, NEW kind \in WorkerEventKind, NEW status \in WorkerStatus,
           NEW c \in StartupFailureClassification \cup {None}, NEW seen \in BOOLEAN,
           w.prompt_in_flight => MayBeOpen(w, status, c, seen),
           c = "PromptAcceptanceTimeout" => w.last_prompt /= None /\ ~seen,
           Explains(status, w.last_error)
    PROVE  Good(Pushed(w, kind, status, c), seen)
<1> DEFINE n == Pushed(w, kind, status, c)
<1>1. /\ n \in Worker
      /\ n.status = status /\ n.last_event.classification = c
      /\ n.attempts = w.attempts /\ n.prompt_in_flight = w.prompt_in_flight
      /\ n.prompt_sent = w.prompt_sent /\ n.last_prompt = w.last_prompt
      /\ n.replay_prompt = w.replay_prompt /\ n.last_error = w.last_error
      /\ n.file.status = status
      /\ n.file.prompt_in_flight = w.prompt_in_flight
  BY PushedFields
<1> HIDE DEF n
<1>2. Good(n, seen)
  BY <1>1 DEF Good, MayBeOpen
<1>3. QED
  BY <1>2 DEF n

(* The events of which nothing needs to be known but their status.         *)
LEMMA ClosedIsGood ==
    ASSUME NEW w \in Draft, NEW kind \in WorkerEventKind, NEW status \in WorkerStatus,
           NEW seen \in BOOLEAN, ~w.prompt_in_flight, Explains(status, w.last_error)
    PROVE  Good(Pushed(w, kind, status, None), seen)
BY PushedIsGood, WorkerAssumption DEF StartupFailureClassification

(* The same with a delivery that is left as it was.                        *)
SameDelivery(w, v) ==
    /\ w.prompt_in_flight = v.prompt_in_flight
    /\ w.last_prompt = v.last_prompt
    /\ w.prompt_sent = v.prompt_sent
    /\ w.attempts = v.attempts
    /\ w.replay_prompt = v.replay_prompt

LEMMA SameDeliveryIsGood ==
    ASSUME NEW v, NEW seen \in BOOLEAN, Good(v, seen),
           NEW w \in Draft, SameDelivery(w, v),
           NEW kind \in WorkerEventKind, NEW status \in WorkerStatus,
           v.prompt_in_flight => status \notin {"ReadyForPrompt", "Finished", "Failed"},
           Explains(status, w.last_error)
    PROVE  Good(Pushed(w, kind, status, None), seen)
<1>1. None /= "PromptAcceptanceTimeout"
  BY WorkerAssumption DEF StartupFailureClassification
<1>2. w.prompt_in_flight => MayBeOpen(w, status, None, seen)
  BY <1>1 DEF Good, MayBeOpen, SameDelivery
<1>3. QED
  BY <1>1, <1>2, PushedIsGood

LEMMA NewWorkerPushed ==
    ASSUME NEW trusted \in BOOLEAN, NEW recovers \in BOOLEAN
    PROVE  \E d \in Draft :
              /\ NewWorker(trusted, recovers) = Pushed(d, "Spawning", "Spawning", None)
              /\ ~d.prompt_in_flight /\ d.last_error = None
              /\ d.last_prompt = None /\ d.replay_prompt = None
<1> DEFINE d == [status |-> "Spawning", trust_auto_resolve |-> trusted,
                 trust_gate_cleared |-> FALSE, auto_recover |-> recovers, attempts |-> 0,
                 prompt_in_flight |-> FALSE, prompt_sent |-> FALSE, last_prompt |-> None,
                 expected_receipt |-> None, replay_prompt |-> None, last_error |-> None,
                 last_event |-> None, file |-> None]
<1>1. d \in Draft
  BY WorkerAssumption DEF Draft, WorkerStatus
<1>2. NewWorker(trusted, recovers) = Pushed(d, "Spawning", "Spawning", None)
  BY DEF NewWorker
<1>3. /\ ~d.prompt_in_flight /\ d.last_error = None
      /\ d.last_prompt = None /\ d.replay_prompt = None
  OBVIOUS
<1> HIDE DEF d
<1>4. QED
  BY <1>1, <1>2, <1>3

LEMMA WorkerInit == Init => WorkerInv
<1> SUFFICES ASSUME Init PROVE WorkerInv
  OBVIOUS
<1>1. PICK d \in Draft :
          /\ worker = Pushed(d, "Spawning", "Spawning", None)
          /\ ~d.prompt_in_flight /\ d.last_error = None
  BY NewWorkerPushed DEF Init
<1>2. Explains("Spawning", None)
  BY DEF Explains
<1>3. QED
  BY <1>1, <1>2, ClosedIsGood DEF Init, WorkerInv, WorkerStatus, WorkerEventKind

-----------------------------------------------------------------------------
(* observe.                                                                *)
LEMMA PastTrustIsGood ==
    ASSUME WorkerInv, NEW s \in Screen
    PROVE  Good(PastTrust(s), accepted)
<1> DEFINE w == [worker EXCEPT !.trust_gate_cleared = TRUE, !.last_error = None]
<1>1. CASE TrustGateSeen(s)
  <2>1. w \in Draft /\ w.last_error = None /\ SameDelivery(w, worker)
    BY DEF WorkerInv, Good, Worker, Draft, SameDelivery
  <2>2. Explains("Spawning", None)
    BY DEF Explains
  <2> HIDE DEF w
  <2>3. Good(Pushed(w, "TrustResolved", "Spawning", None), accepted)
    BY <2>1, <2>2, SameDeliveryIsGood DEF WorkerInv, Good, WorkerStatus, WorkerEventKind
  <2>4. QED
    BY <1>1, <2>3 DEF PastTrust, w
<1>2. CASE ~TrustGateSeen(s)
  BY <1>2 DEF PastTrust, WorkerInv
<1>3. QED
  BY <1>1, <1>2

LEMMA MisdeliveryIsGood ==
    ASSUME NEW w, NEW seen \in BOOLEAN, Good(w, seen), w.prompt_in_flight
    PROVE  Good(AfterMisdelivery(w), seen)
<1> DEFINE c == [w EXCEPT !.last_error = "PromptDelivery", !.prompt_in_flight = FALSE]
           l == Pushed(c, "PromptMisdelivery", "Failed", None)
           r == [l EXCEPT !.replay_prompt = w.last_prompt]
<1>1. c \in Draft /\ c.last_error = "PromptDelivery" /\ ~c.prompt_in_flight
  BY DEF Good, Worker, Draft, WorkerFailureKind
<1>2. Explains("Failed", "PromptDelivery") /\ \A e : Explains("ReadyForPrompt", e)
  BY DEF Explains
<1> HIDE DEF c
<1>3. Good(l, seen) /\ ~l.prompt_in_flight
  BY <1>1, <1>2, ClosedIsGood, PushedFields DEF WorkerStatus, WorkerEventKind
<1> HIDE DEF l
<1>4. r \in Draft /\ ~r.prompt_in_flight
  <2>1. l \in Worker /\ w.last_prompt \in Prompt \cup {None}
    BY <1>3 DEF Good, Worker
  <2>2. QED
    BY <1>3, <2>1 DEF Worker, Draft
<1> HIDE DEF r
<1>5. Good(Pushed(r, "PromptReplayArmed", "ReadyForPrompt", None), seen)
  BY <1>2, <1>4, ClosedIsGood DEF WorkerStatus, WorkerEventKind
<1>6. QED
  BY <1>3, <1>5 DEF AfterMisdelivery, c, l, r

LEMMA AcceptanceIsGood ==
    ASSUME NEW w, NEW seen \in BOOLEAN, Good(w, seen), w.prompt_in_flight
    PROVE  Good(AfterAcceptance(w), TRUE)
BY DEF Good, MayBeOpen, AfterAcceptance, Worker, WorkerStatus, Explains

LEMMA ReadyIsGood ==
    ASSUME NEW w, NEW seen \in BOOLEAN, Good(w, seen)
    PROVE  Good(AfterReady(w), seen)
<1> DEFINE c == [w EXCEPT !.prompt_in_flight = FALSE,
                          !.last_error = IF @ = "TrustGate" THEN None ELSE @]
<1>1. c \in Draft /\ ~c.prompt_in_flight
  <2> DEFINE e == IF w.last_error = "TrustGate" THEN None ELSE w.last_error
  <2>1. w \in Worker /\ e \in WorkerFailureKind \cup {None}
    BY DEF Good, Worker
  <2>2. c = [w EXCEPT !.prompt_in_flight = FALSE, !.last_error = e]
    BY <2>1 DEF Worker
  <2> HIDE DEF c, e
  <2>3. QED
    BY <2>1, <2>2 DEF Worker, Draft
<1>2. Explains("ReadyForPrompt", c.last_error)
  BY DEF Explains
<1> HIDE DEF c
<1>3. Good(Pushed(c, "ReadyForPrompt", "ReadyForPrompt", None), seen)
  BY <1>1, <1>2, ClosedIsGood DEF WorkerStatus, WorkerEventKind
<1>4. QED
  BY <1>3 DEF AfterReady, c

(* A gate on the screen: the delivery, if one is open, stays open.         *)
LEMMA GateIsGood ==
    ASSUME WorkerInv, NEW error \in WorkerFailureKind,
           NEW gate \in {"ToolPermissionRequired", "TrustRequired"}, Explains(gate, error)
    PROVE  Good(Pushed([worker EXCEPT !.last_error = error], gate, gate, None), accepted)
<1> DEFINE w == [worker EXCEPT !.last_error = error]
<1>1. w \in Draft /\ w.last_error = error /\ SameDelivery(w, worker)
  BY DEF WorkerInv, Good, Worker, Draft, SameDelivery
<1> HIDE DEF w
<1>2. gate \in WorkerStatus /\ gate \in WorkerEventKind /\ accepted \in BOOLEAN
  BY DEF WorkerInv, Good, WorkerStatus, WorkerEventKind
<1>3. gate \notin {"ReadyForPrompt", "Finished", "Failed"}
  OBVIOUS
<1>4. Good(Pushed(w, gate, gate, None), accepted)
  BY <1>1, <1>2, <1>3, SameDeliveryIsGood DEF WorkerInv
<1>5. QED
  BY <1>4 DEF w

LEMMA ObserveStep ==
    ASSUME WorkerInv, NEW s \in Screen, Observe(s)
    PROVE  WorkerInv'
<1> DEFINE w == PastTrust(s)
<1>1. Good(w, accepted) /\ accepted \in BOOLEAN
  BY PastTrustIsGood DEF WorkerInv, Good
<1>2. CASE ObserveToolGate(s)
  BY <1>2, GateIsGood DEF ObserveToolGate, WorkerInv, Explains, WorkerFailureKind
<1>3. CASE ObserveTrustGate(s)
  BY <1>3, GateIsGood DEF ObserveTrustGate, WorkerInv, Explains, WorkerFailureKind
<1>4. CASE ObserveMisdelivery(s)
  BY <1>1, <1>4, MisdeliveryIsGood DEF ObserveMisdelivery, Misdelivered, WorkerInv
<1>5. CASE ObserveProgress(s)
  <2> DEFINE a == IF Accepts(w, s) THEN AfterAcceptance(w) ELSE w
  <2>1. /\ worker' = IF s.ready /\ a.status /= "ReadyForPrompt" THEN AfterReady(a) ELSE a
        /\ accepted' = (accepted \/ Accepts(w, s))
    BY <1>5 DEF ObserveProgress
  <2> HIDE DEF w
  <2>2. CASE Accepts(w, s)
    BY <1>1, <2>1, <2>2, AcceptanceIsGood, ReadyIsGood DEF Accepts, WorkerInv
  <2>3. CASE ~Accepts(w, s)
    BY <1>1, <2>1, <2>3, ReadyIsGood DEF WorkerInv
  <2>4. QED
    BY <2>2, <2>3
<1>6. QED
  BY <1>2, <1>3, <1>4, <1>5 DEF Observe

-----------------------------------------------------------------------------
LEMMA WorkerStep == WorkerInv /\ [Next]_vars => WorkerInv'
<1> SUFFICES ASSUME WorkerInv, [Next]_vars PROVE WorkerInv'
  OBVIOUS
<1> USE DEF WorkerStatus, WorkerEventKind
<1>0. worker \in Worker /\ accepted \in BOOLEAN
  BY DEF WorkerInv, Good
<1>1. ASSUME NEW s \in Screen, Observe(s)
      PROVE  WorkerInv'
  BY <1>1, ObserveStep
<1>2. CASE ResolveTrust
  <2> DEFINE w == [worker EXCEPT !.trust_gate_cleared = TRUE, !.last_error = None]
  <2>1. w \in Draft /\ w.last_error = None /\ SameDelivery(w, worker)
    BY <1>0 DEF Worker, Draft, SameDelivery
  <2>2. worker' = Pushed(w, "TrustResolved", "Spawning", None) /\ accepted' = accepted
    BY <1>2 DEF ResolveTrust, TrustGranted
  <2> HIDE DEF w
  <2>3. Explains("Spawning", None)
    BY DEF Explains
  <2>4. QED
    BY <1>0, <2>1, <2>2, <2>3, SameDeliveryIsGood DEF WorkerInv
<1>3. ASSUME NEW given \in Prompt \cup {None}, NEW receipt \in Receipt \cup {None},
             SendPrompt(given, receipt)
      PROVE  WorkerInv'
  <2> DEFINE next == IF given /= None THEN given ELSE worker.replay_prompt
             w == [worker EXCEPT !.attempts = Attempted(worker), !.prompt_in_flight = TRUE,
                                 !.prompt_sent = TRUE, !.last_prompt = next,
                                 !.expected_receipt = receipt, !.replay_prompt = None,
                                 !.last_error = None]
  <2>1. /\ worker.attempts < MaxAttempts /\ next /= None
        /\ worker' = Pushed(w, "Running", "Running", None) /\ accepted' = FALSE
    BY <1>3 DEF SendPrompt
  <2>2. next \in Prompt \cup {None}
    BY <1>0 DEF Worker
  <2>3. worker.attempts + 1 \in 0 .. MaxAttempts /\ worker.attempts + 1 > 0
    BY <1>0, <2>1, WorkerAssumption DEF Worker
  <2> HIDE DEF next
  <2>4. /\ w \in Draft /\ w.last_error = None /\ w.last_prompt = next /\ w.prompt_sent
        /\ w.attempts = worker.attempts + 1 /\ w.replay_prompt = None
    BY <1>0, <2>2, <2>3 DEF Worker, Draft, Attempted
  <2> HIDE DEF w
  <2>5. None /= "PromptAcceptanceTimeout" /\ Explains("Running", None)
    BY WorkerAssumption DEF StartupFailureClassification, Explains
  <2>6. MayBeOpen(w, "Running", None, FALSE)
    BY <2>1, <2>3, <2>4, <2>5 DEF MayBeOpen
  <2>7. QED
    BY <2>1, <2>4, <2>5, <2>6, PushedIsGood DEF WorkerInv
<1>4. CASE Restart
  <2> DEFINE w == [worker EXCEPT !.trust_gate_cleared = FALSE, !.last_prompt = None,
                                 !.replay_prompt = None, !.last_error = None,
                                 !.attempts = 0, !.prompt_in_flight = FALSE,
                                 !.prompt_sent = FALSE]
  <2>1. w \in Draft /\ w.last_error = None /\ ~w.prompt_in_flight
    <3>1. 0 \in 0 .. MaxAttempts
      BY WorkerAssumption
    <3>2. QED
      BY <1>0, <3>1 DEF Worker, Draft
  <2>2. worker' = Pushed(w, "Restarted", "Spawning", None) /\ accepted' = FALSE
    BY <1>4 DEF Restart
  <2> HIDE DEF w
  <2>3. Explains("Spawning", None)
    BY DEF Explains
  <2>4. QED
    BY <2>1, <2>2, <2>3, ClosedIsGood DEF WorkerInv
<1>5. ASSUME NEW v \in Worker
      PROVE  Good(Stopped(v), accepted)
  <2> DEFINE w == [v EXCEPT !.prompt_in_flight = FALSE]
  <2>1. w \in Draft /\ ~w.prompt_in_flight
    BY DEF Worker, Draft
  <2> HIDE DEF w
  <2>2. Explains("Finished", w.last_error)
    BY DEF Explains
  <2>3. Good(Pushed(w, "Finished", "Finished", None), accepted)
    BY <1>0, <2>1, <2>2, ClosedIsGood
  <2>4. QED
    BY <2>3 DEF Stopped, w
<1>6. CASE Terminate
  BY <1>0, <1>5, <1>6 DEF Terminate, WorkerInv
<1>7. ASSUME NEW providerFailure \in BOOLEAN, ObserveCompletion(providerFailure)
      PROVE  WorkerInv'
  <2> DEFINE w == [worker EXCEPT !.last_error = "Provider", !.prompt_in_flight = FALSE]
             v == [worker EXCEPT !.last_error = None]
  <2>1. /\ w \in Draft /\ w.last_error = "Provider" /\ ~w.prompt_in_flight
        /\ v \in Worker
    BY <1>0 DEF Worker, Draft, WorkerFailureKind
  <2>2. /\ worker' = IF providerFailure THEN Pushed(w, "Failed", "Failed", None)
                     ELSE Stopped(v)
        /\ accepted' = accepted
    BY <1>7 DEF ObserveCompletion
  <2> HIDE DEF w, v
  <2>3. Explains("Failed", "Provider")
    BY DEF Explains
  <2>4. Good(Pushed(w, "Failed", "Failed", None), accepted)
    BY <1>0, <2>1, <2>3, ClosedIsGood
  <2>5. QED
    BY <1>5, <2>1, <2>2, <2>4 DEF WorkerInv
<1>8. CASE ObserveStartupPreflight
  <2>1. worker' = Pushed(worker, "StartupPreflightWarning", worker.status, None)
    BY <1>8 DEF ObserveStartupPreflight
  <2>2. worker \in Draft /\ SameDelivery(worker, worker) /\ worker.status \in WorkerStatus
    BY <1>0 DEF Worker, Draft, SameDelivery
  <2>3. Explains(worker.status, worker.last_error)
    BY DEF WorkerInv, Good
  <2>4. worker.prompt_in_flight =>
            worker.status \notin {"ReadyForPrompt", "Finished", "Failed"}
    BY DEF WorkerInv, Good, MayBeOpen
  <2>5. Good(worker', accepted)
    BY <1>0, <2>1, <2>2, <2>3, <2>4, SameDeliveryIsGood DEF WorkerInv
  <2>6. QED
    BY <1>8, <2>5 DEF ObserveStartupPreflight, WorkerInv
<1>9. ASSUME NEW transport \in BOOLEAN, NEW mcp \in BOOLEAN, NEW late \in BOOLEAN,
             ObserveStartupTimeout(transport, mcp, late)
      PROVE  WorkerInv'
  <2> DEFINE w == [worker EXCEPT !.last_error = "StartupNoEvidence",
                                 !.prompt_in_flight = FALSE]
             c == Classification(worker, transport, mcp, late)
  <2>1. /\ w \in Draft /\ w.last_error = "StartupNoEvidence" /\ ~w.prompt_in_flight
        /\ w.last_prompt = worker.last_prompt
    BY <1>0 DEF Worker, Draft, WorkerFailureKind
  <2>2. worker' = Pushed(w, "StartupNoEvidence", "Failed", c) /\ accepted' = accepted
    BY <1>9 DEF ObserveStartupTimeout
  <2>3. c \in StartupFailureClassification
    BY DEF Classification, StartupFailureClassification
  <2>4. c = "PromptAcceptanceTimeout" => worker.last_prompt /= None /\ ~accepted
    <3>1. c = "PromptAcceptanceTimeout" =>
              worker.status = "Running" /\ PromptUnaccepted(worker)
      BY DEF Classification
    <3>2. worker.status = "Running" /\ PromptUnaccepted(worker) => worker.prompt_in_flight
      BY DEF PromptUnaccepted
    <3>3. QED
      BY <3>1, <3>2 DEF WorkerInv, Good, MayBeOpen
  <2> HIDE DEF w, c
  <2>5. Explains("Failed", "StartupNoEvidence")
    BY DEF Explains
  <2>6. QED
    BY <1>0, <2>1, <2>2, <2>3, <2>4, <2>5, PushedIsGood DEF WorkerInv
<1>10. CASE StateFileTaken
  <2>1. worker' = [worker EXCEPT !.file = None] /\ accepted' = accepted
    BY <1>10 DEF StateFileTaken
  <2>2. /\ worker' \in Worker /\ worker'.file = None /\ SameDelivery(worker', worker)
        /\ worker'.status = worker.status /\ worker'.last_error = worker.last_error
        /\ worker'.last_event = worker.last_event
    BY <1>0, <2>1 DEF Worker, SameDelivery
  <2>3. QED
    BY <2>1, <2>2 DEF WorkerInv, Good, MayBeOpen, SameDelivery
<1>11. CASE UNCHANGED vars
  BY <1>11 DEF vars, WorkerInv
<1>12. QED
  BY <1>1, <1>2, <1>3, <1>4, <1>6, <1>7, <1>8, <1>9, <1>10, <1>11 DEF Next

LEMMA WorkerInvariant == Spec => []WorkerInv
BY WorkerInit, WorkerStep, PTL DEF Spec

(* The registry's entry and the state file keep their shapes.              *)
THEOREM WorkerTypeOK == Spec => []TypeOK
<1>1. WorkerInv => TypeOK
  BY DEF WorkerInv, Good, TypeOK
<1>2. QED
  BY <1>1, WorkerInvariant, PTL

(* Whatever the terminal shows and in whatever order the calls come, a     *)
(* delivery is open only while its worker can still take it (send_prompt,  *)
(* observe, observe_startup_timeout).                                      *)
THEOREM WorkerDeliveryIsLive == Spec => []DeliveryIsLive
<1>1. WorkerInv => DeliveryIsLive
  BY DEF WorkerInv, Good, MayBeOpen, DeliveryIsLive
<1>2. QED
  BY <1>1, WorkerInvariant, PTL

(* The reason await_ready gives for a blocked worker is the one it is      *)
(* blocked for, and an acceptance is only said to have timed out for a     *)
(* prompt that was sent and not accepted.                                  *)
THEOREM WorkerBlockedSaysWhy == Spec => []BlockedSaysWhy
<1>1. WorkerInv => BlockedSaysWhy
  BY DEF WorkerInv, Good, Explains, BlockedSaysWhy
<1>2. QED
  BY <1>1, WorkerInvariant, PTL

(* A poller may act on a state file that names the worker                  *)
(* (emit_state_file).                                                      *)
THEOREM WorkerStateFileCanBeActedOn == Spec => []StateFileCanBeActedOn
<1>1. WorkerInv => StateFileCanBeActedOn
  BY DEF WorkerInv, Good, StateFileCanBeActedOn
<1>2. QED
  BY <1>1, WorkerInvariant, PTL

-----------------------------------------------------------------------------
(* The refinement of PromptDelivery.  All calls but send_prompt and        *)
(* restart do to a delivery what Keeps says: it may only be closed, and    *)
(* what was closed stays what it is.                                       *)
Keeps(w, v) ==
    /\ w.last_prompt = v.last_prompt
    /\ w.prompt_in_flight => v.prompt_in_flight
    /\ ~v.prompt_in_flight => w.replay_prompt = v.replay_prompt

LEMMA KeepingImplements ==
    ASSUME WorkerInv, WorkerInv', Keeps(worker', worker),
           ~worker.prompt_in_flight => accepted' = accepted
    PROVE  [Delivery!Next]_(Delivery!vars)
<1> USE DEF Delivery!vars
<1>1. CASE worker.prompt_in_flight /\ worker'.prompt_in_flight
  BY <1>1 DEF Keeps
<1>2. CASE worker.prompt_in_flight /\ ~worker'.prompt_in_flight
  <2>1. worker'.last_prompt = worker.last_prompt /\ worker.last_prompt /= None
    BY <1>2 DEF Keeps, WorkerInv, Good, MayBeOpen
  <2>2. Delivery!Settle
    BY <1>2, <2>1 DEF Delivery!Settle
  <2>3. QED
    BY <2>2 DEF Delivery!Next
<1>3. CASE ~worker.prompt_in_flight
  BY <1>3 DEF Keeps
<1>4. QED
  BY <1>1, <1>2, <1>3

LEMMA PushedKeeps ==
    ASSUME NEW w \in Draft, NEW v, Keeps(w, v),
           NEW kind \in WorkerEventKind, NEW status \in WorkerStatus,
           NEW c \in StartupFailureClassification \cup {None}
    PROVE  Keeps(Pushed(w, kind, status, c), v)
BY PushedFields DEF Keeps

LEMMA PastTrustKeeps ==
    ASSUME worker \in Worker, NEW s \in Screen
    PROVE  PastTrust(s) \in Worker /\ Keeps(PastTrust(s), worker)
<1> DEFINE w == [worker EXCEPT !.trust_gate_cleared = TRUE, !.last_error = None]
<1>1. w \in Draft /\ Keeps(w, worker)
  BY DEF Worker, Draft, Keeps
<1>2. PastTrust(s) \in {worker, Pushed(w, "TrustResolved", "Spawning", None)}
  BY DEF PastTrust
<1> HIDE DEF w
<1>3. QED
  BY <1>1, <1>2, PushedFields, PushedKeeps DEF WorkerStatus, WorkerEventKind, Keeps

LEMMA MisdeliveryKeeps ==
    ASSUME NEW w \in Worker, w.prompt_in_flight
    PROVE  Keeps(AfterMisdelivery(w), w)
<1> DEFINE c == [w EXCEPT !.last_error = "PromptDelivery", !.prompt_in_flight = FALSE]
           l == Pushed(c, "PromptMisdelivery", "Failed", None)
           r == [l EXCEPT !.replay_prompt = w.last_prompt]
<1>1. c \in Draft /\ ~c.prompt_in_flight /\ c.last_prompt = w.last_prompt
  BY DEF Worker, Draft, WorkerFailureKind
<1> HIDE DEF c
<1>2. l \in Worker /\ ~l.prompt_in_flight /\ l.last_prompt = w.last_prompt
  BY <1>1, PushedFields DEF WorkerStatus, WorkerEventKind
<1> HIDE DEF l
<1>3. w.last_prompt \in Prompt \cup {None}
  BY DEF Worker
<1>4. r \in Draft /\ ~r.prompt_in_flight /\ r.last_prompt = w.last_prompt
  BY <1>2, <1>3 DEF Worker, Draft
<1> HIDE DEF r
<1>5. Keeps(l, w) /\ Keeps(r, w)
  BY <1>2, <1>4 DEF Keeps
<1>6. Keeps(Pushed(r, "PromptReplayArmed", "ReadyForPrompt", None), w)
  BY <1>4, <1>5, PushedKeeps DEF WorkerStatus, WorkerEventKind
<1>7. QED
  BY <1>5, <1>6 DEF AfterMisdelivery, c, l, r

LEMMA AcceptanceKeeps ==
    ASSUME NEW w \in Worker
    PROVE  AfterAcceptance(w) \in Worker /\ Keeps(AfterAcceptance(w), w)
BY DEF AfterAcceptance, Worker, WorkerStatus, Keeps

LEMMA ReadyKeeps ==
    ASSUME NEW w \in Worker
    PROVE  Keeps(AfterReady(w), w)
<1> DEFINE e == IF w.last_error = "TrustGate" THEN None ELSE w.last_error
           c == [w EXCEPT !.prompt_in_flight = FALSE, !.last_error = e]
<1>1. e \in WorkerFailureKind \cup {None}
  BY DEF Worker
<1>2. AfterReady(w) = Pushed(c, "ReadyForPrompt", "ReadyForPrompt", None)
  BY DEF AfterReady, Worker
<1> HIDE DEF e
<1>3. c \in Draft /\ Keeps(c, w)
  BY <1>1 DEF Worker, Draft, Keeps
<1>4. QED
  BY <1>2, <1>3, PushedKeeps DEF WorkerStatus, WorkerEventKind

LEMMA KeepsTransitive ==
    ASSUME NEW u, NEW v, NEW w, Keeps(u, v), Keeps(v, w)
    PROVE  Keeps(u, w)
BY DEF Keeps

LEMMA ObserveImplements ==
    ASSUME WorkerInv, WorkerInv', NEW s \in Screen, Observe(s)
    PROVE  [Delivery!Next]_(Delivery!vars)
<1> DEFINE w == PastTrust(s)
<1>1. worker \in Worker /\ w \in Worker /\ Keeps(w, worker)
  BY PastTrustKeeps DEF WorkerInv, Good
<1>2. ASSUME NEW gate \in {"ToolPermissionRequired", "TrustRequired"},
             NEW error \in WorkerFailureKind
      PROVE  Keeps(Pushed([worker EXCEPT !.last_error = error], gate, gate, None), worker)
  <2> DEFINE v == [worker EXCEPT !.last_error = error]
  <2>1. v \in Draft /\ Keeps(v, worker)
    BY <1>1 DEF Worker, Draft, Keeps
  <2> HIDE DEF v
  <2>2. Keeps(Pushed(v, gate, gate, None), worker)
    BY <2>1, PushedKeeps DEF WorkerStatus, WorkerEventKind
  <2>3. QED
    BY <2>2 DEF v
<1>3. CASE ObserveToolGate(s) \/ ObserveTrustGate(s)
  BY <1>2, <1>3, KeepingImplements DEF ObserveToolGate, ObserveTrustGate, WorkerFailureKind
<1>4. CASE ObserveMisdelivery(s)
  <2>1. worker' = AfterMisdelivery(w) /\ w.prompt_in_flight /\ accepted' = accepted
    BY <1>4 DEF ObserveMisdelivery, Misdelivered
  <2> HIDE DEF w
  <2>2. Keeps(worker', worker)
    BY <1>1, <2>1, MisdeliveryKeeps, KeepsTransitive
  <2>3. QED
    BY <2>1, <2>2, KeepingImplements
<1>5. CASE ObserveProgress(s)
  <2> DEFINE a == IF Accepts(w, s) THEN AfterAcceptance(w) ELSE w
  <2>1. /\ worker' = IF s.ready /\ a.status /= "ReadyForPrompt" THEN AfterReady(a) ELSE a
        /\ accepted' = (accepted \/ Accepts(w, s))
    BY <1>5 DEF ObserveProgress
  <2>2. accepted \in BOOLEAN
    BY DEF WorkerInv, Good
  <2> HIDE DEF w
  <2>3. a \in Worker /\ Keeps(a, worker)
    BY <1>1, AcceptanceKeeps, KeepsTransitive
  <2>4. ~worker.prompt_in_flight => accepted' = accepted
    BY <1>1, <2>1, <2>2 DEF Accepts, Keeps
  <2> HIDE DEF a
  <2>5. Keeps(worker', worker)
    BY <2>1, <2>3, ReadyKeeps, KeepsTransitive
  <2>6. QED
    BY <2>4, <2>5, KeepingImplements
<1>6. QED
  BY <1>3, <1>4, <1>5 DEF Observe

LEMMA WorkerImplements ==
    WorkerInv /\ WorkerInv' /\ [Next]_vars => [Delivery!Next]_(Delivery!vars)
<1> SUFFICES ASSUME WorkerInv, WorkerInv', [Next]_vars
             PROVE  [Delivery!Next]_(Delivery!vars)
  OBVIOUS
<1> USE DEF WorkerStatus, WorkerEventKind
<1>0. worker \in Worker /\ worker' \in Worker
  BY DEF WorkerInv, Good
<1>1. ASSUME NEW s \in Screen, Observe(s)
      PROVE  [Delivery!Next]_(Delivery!vars)
  BY <1>1, ObserveImplements
<1>2. ASSUME NEW w \in Draft, Keeps(w, worker), NEW kind \in WorkerEventKind,
             NEW status \in WorkerStatus,
             NEW c \in StartupFailureClassification \cup {None},
             worker' = Pushed(w, kind, status, c), accepted' = accepted
      PROVE  [Delivery!Next]_(Delivery!vars)
  BY <1>2, PushedKeeps, KeepingImplements
<1>3. CASE ResolveTrust
  <2> DEFINE w == [worker EXCEPT !.trust_gate_cleared = TRUE, !.last_error = None]
  <2>1. w \in Draft /\ Keeps(w, worker)
    BY <1>0 DEF Worker, Draft, Keeps
  <2>2. worker' = Pushed(w, "TrustResolved", "Spawning", None) /\ accepted' = accepted
    BY <1>3 DEF ResolveTrust, TrustGranted
  <2> HIDE DEF w
  <2>3. QED
    BY <1>2, <2>1, <2>2
<1>4. ASSUME NEW given \in Prompt \cup {None}, NEW receipt \in Receipt \cup {None},
             SendPrompt(given, receipt)
      PROVE  [Delivery!Next]_(Delivery!vars)
  <2> DEFINE next == IF given /= None THEN given ELSE worker.replay_prompt
             w == [worker EXCEPT !.attempts = Attempted(worker), !.prompt_in_flight = TRUE,
                                 !.prompt_sent = TRUE, !.last_prompt = next,
                                 !.expected_receipt = receipt, !.replay_prompt = None,
                                 !.last_error = None]
  <2>1. /\ worker.status = "ReadyForPrompt" /\ worker.attempts < MaxAttempts
        /\ next /= None
        /\ worker' = Pushed(w, "Running", "Running", None)
    BY <1>4 DEF SendPrompt
  <2>2. next \in Prompt
    BY <1>0, <2>1 DEF Worker
  <2>3. worker.attempts + 1 \in 0 .. MaxAttempts
    BY <1>0, <2>1, WorkerAssumption DEF Worker
  <2> HIDE DEF next
  <2>4. w \in Draft /\ w.last_prompt = next /\ w.prompt_in_flight = TRUE
    BY <1>0, <2>2, <2>3 DEF Worker, Draft, Attempted
  <2> HIDE DEF w
  <2>5. worker'.last_prompt = next /\ worker'.prompt_in_flight
    BY <2>1, <2>4, PushedFields
  <2>6. ~worker.prompt_in_flight
    BY <2>1 DEF WorkerInv, Good, MayBeOpen
  <2>7. Delivery!Deliver(next)
    BY <2>5, <2>6 DEF Delivery!Deliver
  <2>8. QED
    BY <2>2, <2>7 DEF Delivery!Next
<1>5. CASE Restart
  <2> DEFINE w == [worker EXCEPT !.trust_gate_cleared = FALSE, !.last_prompt = None,
                                 !.replay_prompt = None, !.last_error = None,
                                 !.attempts = 0, !.prompt_in_flight = FALSE,
                                 !.prompt_sent = FALSE]
  <2>1. 0 \in 0 .. MaxAttempts
    BY WorkerAssumption
  <2>2. /\ w \in Draft /\ w.last_prompt = None /\ w.replay_prompt = None
        /\ w.prompt_in_flight = FALSE
    BY <1>0, <2>1 DEF Worker, Draft
  <2>3. worker' = Pushed(w, "Restarted", "Spawning", None)
    BY <1>5 DEF Restart
  <2> HIDE DEF w
  <2>4. /\ worker'.last_prompt = None /\ worker'.replay_prompt = None
        /\ ~worker'.prompt_in_flight
    BY <2>2, <2>3, PushedFields
  <2>5. Delivery!Forget
    BY <2>4 DEF Delivery!Forget
  <2>6. QED
    BY <2>5 DEF Delivery!Next
<1>6. ASSUME NEW v \in Worker, Keeps(v, worker), worker' = Stopped(v), accepted' = accepted
      PROVE  [Delivery!Next]_(Delivery!vars)
  <2> DEFINE w == [v EXCEPT !.prompt_in_flight = FALSE]
  <2>1. w \in Draft /\ Keeps(w, worker)
    BY <1>6 DEF Worker, Draft, Keeps
  <2>2. worker' = Pushed(w, "Finished", "Finished", None)
    BY <1>6 DEF Stopped
  <2> HIDE DEF w
  <2>3. QED
    BY <1>2, <1>6, <2>1, <2>2
<1>7. CASE Terminate
  BY <1>0, <1>6, <1>7 DEF Terminate, Keeps
<1>8. ASSUME NEW providerFailure \in BOOLEAN, ObserveCompletion(providerFailure)
      PROVE  [Delivery!Next]_(Delivery!vars)
  <2> DEFINE w == [worker EXCEPT !.last_error = "Provider", !.prompt_in_flight = FALSE]
             v == [worker EXCEPT !.last_error = None]
  <2>1. w \in Draft /\ Keeps(w, worker) /\ v \in Worker /\ Keeps(v, worker)
    <3>1. w \in Draft /\ Keeps(w, worker)
      BY <1>0 DEF Worker, Draft, WorkerFailureKind, Keeps
    <3>2. v \in Worker /\ Keeps(v, worker)
      BY <1>0 DEF Worker, Keeps
    <3>3. QED
      BY <3>1, <3>2
  <2>2. /\ worker' = IF providerFailure THEN Pushed(w, "Failed", "Failed", None)
                     ELSE Stopped(v)
        /\ accepted' = accepted
    BY <1>8 DEF ObserveCompletion
  <2> HIDE DEF w, v
  <2>3. CASE providerFailure
    BY <1>2, <2>1, <2>2, <2>3
  <2>4. CASE ~providerFailure
    BY <1>6, <2>1, <2>2, <2>4
  <2>5. QED
    BY <2>3, <2>4
<1>9. CASE ObserveStartupPreflight
  <2>1. worker \in Draft /\ Keeps(worker, worker) /\ worker.status \in WorkerStatus
    BY <1>0 DEF Worker, Draft, Keeps
  <2>2. QED
    BY <1>2, <1>9, <2>1 DEF ObserveStartupPreflight
<1>10. ASSUME NEW transport \in BOOLEAN, NEW mcp \in BOOLEAN, NEW late \in BOOLEAN,
              ObserveStartupTimeout(transport, mcp, late)
       PROVE  [Delivery!Next]_(Delivery!vars)
  <2> DEFINE w == [worker EXCEPT !.last_error = "StartupNoEvidence",
                                 !.prompt_in_flight = FALSE]
             c == Classification(worker, transport, mcp, late)
  <2>1. w \in Draft /\ Keeps(w, worker)
    BY <1>0 DEF Worker, Draft, WorkerFailureKind, Keeps
  <2>2. worker' = Pushed(w, "StartupNoEvidence", "Failed", c) /\ accepted' = accepted
    BY <1>10 DEF ObserveStartupTimeout
  <2>3. c \in StartupFailureClassification
    BY DEF Classification, StartupFailureClassification
  <2> HIDE DEF w, c
  <2>4. QED
    BY <1>2, <2>1, <2>2, <2>3
<1>11. CASE StateFileTaken
  <2>1. Keeps(worker', worker) /\ accepted' = accepted
    BY <1>0, <1>11 DEF StateFileTaken, Worker, Keeps
  <2>2. QED
    BY <2>1, KeepingImplements
<1>12. CASE UNCHANGED vars
  BY <1>12 DEF vars, Delivery!vars
<1>13. QED
  BY <1>1, <1>3, <1>4, <1>5, <1>7, <1>8, <1>9, <1>10, <1>11, <1>12 DEF Next

(* However the calls interleave, prompts are delivered one at a time and a *)
(* prompt is kept for replay only when its own last delivery was lost.     *)
THEOREM WorkerDeliversAsPromised == Spec => DeliversAsPromised
<1>1. Init => Delivery!Init
  <2> SUFFICES ASSUME Init PROVE Delivery!Init
    OBVIOUS
  <2>1. PICK d \in Draft :
            /\ worker = Pushed(d, "Spawning", "Spawning", None)
            /\ ~d.prompt_in_flight /\ d.last_prompt = None /\ d.replay_prompt = None
    BY NewWorkerPushed DEF Init
  <2>2. /\ worker.last_prompt = None /\ worker.replay_prompt = None
        /\ ~worker.prompt_in_flight
    BY <2>1, PushedFields DEF WorkerStatus, WorkerEventKind
  <2>3. QED
    BY <2>2 DEF Delivery!Init
<1>2. QED
  BY <1>1, WorkerInvariant, WorkerImplements, PTL DEF Spec, DeliversAsPromised, Delivery!Spec

-----------------------------------------------------------------------------
(* The MCP server manager.                                                 *)

(* The parts that calls consist of.                                        *)
Consists(name, part) ==
    CASE name \in {"call", "read"} -> part = "request"
      [] name = "list_tools"       -> part = "tools"
      [] name = "list_resources"   -> part = "resources"
      [] name = "list_prompts"     -> part = "prompts"
      [] name = "get"              -> part \in {"open", "prompts", "request"}
      [] name = "discover"         -> part \in Listings \cup {"open"}
      [] name = "check"            -> part = "check"

(* The steps that a part may have, with a remote server or another.        *)
MayHave(name, part, remote, step) ==
    /\ IF remote THEN step \in {"remote", "known"} ELSE step /= "remote"
    /\ name = "check" => step \in {"ping_ready", "ping", "remote"}
    /\ step = "skip" => name = "discover"
    /\ part = "open" /\ step = "remote" => name = "discover"
    /\ step = "known" => name = "get"

(* Steps that do not rely on a handshake done before them.                 *)
Opening == {"ready", "ping_ready", "skip"}

(* The steps left of a part: a request or what stands for it comes last.   *)
StepsFit(name, part, remote, todo) ==
    \A i \in 1 .. Len(todo) :
        /\ MayHave(name, part, remote, todo[i])
        /\ todo[i] \in {"ask", "remote", "skip"} => i = Len(todo)

(* The call relies on the handshake being done.                            *)
Relies(o) ==
    IF o.todo = <<>> THEN o.name /= "discover" ELSE Head(o.todo) \notin Opening

(* What holds between a call and the server v that it works on.            *)
CallFits(o, v) ==
    /\ o \in Operation
    /\ Consists(o.name, o.part)
    /\ o.name = "discover" /\ v.remote => o.part = "open"
    /\ StepsFit(o.name, o.part, v.remote, o.todo)
    /\ o.waiting =>
           /\ o.todo /= <<>> /\ Head(o.todo) \in {"ready", "ping_ready", "ping", "ask"}
           /\ v.process /= Nothing
    /\ ~v.remote /\ Relies(o) => v.initialized
    /\ o.name /= "call" => o.sent = 0
    /\ o.sent <= 1
    /\ o.sent = 1 => o.todo = <<>> \/ (o.waiting /\ Head(o.todo) = "ask")

(* A server that counts as ready has a process that was told so.           *)
ServerFits(v) ==
    /\ v \in ManagedServer
    /\ v.remote => v.process = Nothing
    /\ ~v.remote /\ v.initialized => v.process /= Nothing /\ v.process.met

CountFits(v, n) ==
    /\ n \in 0 .. 3
    /\ n <= v.failures
    /\ n > 0 => v.status \in {"Degraded", "Failed"}
    /\ n = 3 => v.status = "Failed"

(* The call is to replace the routes of its server when it ends.           *)
Rebuilds(o) ==
    o /= Nothing /\ (o.name = "discover" \/ (o.name = "list_tools" /\ o.todo = <<>>))

McpInv ==
    /\ McpTypeOK
    /\ \A s \in Server : ServerFits(servers[s])
    /\ \A s \in Server : CountFits(servers[s], failing[s])
    /\ op /= Nothing => CallFits(op, servers[op.server])
    /\ \A s \in Server : (Rebuilds(op) /\ op.server = s) \/ routes[s] \subseteq servers[s].tools

-----------------------------------------------------------------------------
(* Lemmas about what is done with a server.                                *)

(* The servers v and w differ in their heartbeats only.                    *)
Alike(v, w) ==
    /\ w.remote = v.remote /\ w.monitored = v.monitored
    /\ w.process = v.process /\ w.initialized = v.initialized
    /\ w.caps = v.caps /\ w.tools = v.tools
    /\ w.prompts = v.prompts /\ w.prompts_complete = v.prompts_complete

LEMMA AlikeFits ==
    ASSUME NEW v, NEW w \in ManagedServer, ServerFits(v), Alike(v, w)
    PROVE  ServerFits(w)
BY DEF ServerFits, Alike

Marked(v, status, n) == [v EXCEPT !.status = status, !.failures = n, !.overdue = FALSE]

LEMMA MarkedIsServer ==
    ASSUME NEW v \in ManagedServer, NEW status \in Status, NEW n \in 0 .. 3
    PROVE  Marked(v, status, n) \in ManagedServer
<1> DEFINE a == [v EXCEPT !.status = status]
           b == [a EXCEPT !.failures = n]
           c == [b EXCEPT !.overdue = FALSE]
<1>1. a \in ManagedServer
  BY DEF ManagedServer
<1> HIDE DEF a
<1>2. b \in ManagedServer
  BY <1>1 DEF ManagedServer
<1> HIDE DEF b
<1>3. c \in ManagedServer
  BY <1>2 DEF ManagedServer
<1>4. c = Marked(v, status, n)
  BY DEF a, b, Marked, ManagedServer
<1> QED BY <1>3, <1>4

LEMMA SuccessKeeps ==
    ASSUME NEW v, ServerFits(v)
    PROVE  /\ ServerFits(MarkSuccess(v)) /\ Alike(v, MarkSuccess(v))
           /\ CountFits(MarkSuccess(v), 0)
<1>1. MarkSuccess(v) \in ManagedServer
  <2>1. MarkSuccess(v) = Marked(v, "Healthy", 0)
    BY DEF MarkSuccess, Marked
  <2>2. "Healthy" \in Status /\ 0 \in 0 .. 3 /\ v \in ManagedServer
    BY DEF Status, ServerFits
  <2> QED BY <2>1, <2>2, MarkedIsServer
<1>2. Alike(v, MarkSuccess(v))
  BY DEF ServerFits, ManagedServer, MarkSuccess, Alike
<1>3. CountFits(MarkSuccess(v), 0)
  BY DEF ServerFits, ManagedServer, MarkSuccess, CountFits
<1> QED BY <1>1, <1>2, <1>3, AlikeFits

(* One more failure recorded makes up for one more counted.                *)
LEMMA FailureKeeps ==
    ASSUME NEW v, ServerFits(v)
    PROVE  /\ ServerFits(MarkFailure(v)) /\ Alike(v, MarkFailure(v))
           /\ \A n \in 0 .. 3 : CountFits(v, n) =>
                /\ CountFits(MarkFailure(v), n)
                /\ CountFits(MarkFailure(v), IF n = 3 THEN 3 ELSE n + 1)
           /\ CountFits(MarkFailure(v), 0)
<1> DEFINE n0 == IF v.failures = 3 THEN 3 ELSE v.failures + 1
<1>0. v.failures \in 0 .. 3 /\ n0 \in 1 .. 3
  BY DEF ServerFits, ManagedServer
<1>1. /\ MarkFailure(v).failures = n0
      /\ MarkFailure(v).status = IF n0 >= 3 THEN "Failed" ELSE "Degraded"
      /\ Alike(v, MarkFailure(v))
  BY DEF ServerFits, ManagedServer, MarkFailure, Alike
<1>2. MarkFailure(v) \in ManagedServer
  <2>1. MarkFailure(v) = Marked(v, IF n0 >= 3 THEN "Failed" ELSE "Degraded", n0)
    BY DEF ServerFits, ManagedServer, MarkFailure, Marked
  <2>2. (IF n0 >= 3 THEN "Failed" ELSE "Degraded") \in Status
    BY DEF Status
  <2>3. v \in ManagedServer
    BY DEF ServerFits
  <2> HIDE DEF n0
  <2> QED BY <1>0, <2>1, <2>2, <2>3, MarkedIsServer
<1>3. ASSUME NEW n \in 0 .. 3, CountFits(v, n)
      PROVE  /\ CountFits(MarkFailure(v), n)
             /\ CountFits(MarkFailure(v), IF n = 3 THEN 3 ELSE n + 1)
  BY <1>0, <1>1, <1>3 DEF CountFits
<1>4. CountFits(MarkFailure(v), 0)
  BY <1>0, <1>1 DEF CountFits
<1> QED BY <1>1, <1>2, <1>3, <1>4, AlikeFits

LEMMA ResetKeeps ==
    ASSUME NEW v, ServerFits(v)
    PROVE  /\ ServerFits(Reset(v))
           /\ Reset(v).remote = v.remote /\ Reset(v).tools = v.tools
           /\ Reset(v).process = Nothing
           /\ \A n : CountFits(v, n) => CountFits(Reset(v), n)
<1>1. /\ Reset(v).remote = v.remote /\ Reset(v).tools = v.tools
      /\ Reset(v).process = Nothing /\ Reset(v).initialized = FALSE
      /\ Reset(v).failures = v.failures /\ Reset(v).status = v.status
  BY DEF ServerFits, ManagedServer, Reset
<1>2. Reset(v) \in ManagedServer
  BY DEF ServerFits, ManagedServer, Reset
<1> QED BY <1>1, <1>2 DEF ServerFits, CountFits

LEMMA PreflightKeeps ==
    ASSUME NEW v, ServerFits(v)
    PROVE  /\ ServerFits(Preflight(v)) /\ Alike(v, Preflight(v))
           /\ \A n \in 0 .. 3 : CountFits(v, n) => CountFits(Preflight(v), n)
<1>1. CASE v.status \in {"Degraded", "Failed"}
  <2>1. Preflight(v) = [v EXCEPT !.overdue = FALSE]
    BY <1>1 DEF Preflight
  <2>2. /\ Alike(v, Preflight(v))
        /\ Preflight(v).failures = v.failures /\ Preflight(v).status = v.status
    BY <2>1 DEF ServerFits, ManagedServer, Alike
  <2>3. Preflight(v) \in ManagedServer
    BY <2>1 DEF ServerFits, ManagedServer
  <2> QED BY <2>2, <2>3, AlikeFits DEF CountFits
<1>2. CASE v.status \notin {"Degraded", "Failed"}
  <2>1. Preflight(v) = MarkSuccess(v)
    BY <1>2 DEF Preflight
  <2>2. ASSUME NEW n \in 0 .. 3, CountFits(v, n) PROVE n = 0
    BY <1>2, <2>2 DEF CountFits
  <2> QED BY <2>1, <2>2, SuccessKeeps
<1> QED BY <1>1, <1>2

Piped(v, asked, said) ==
    [v EXCEPT !.process = [v.process EXCEPT !.asked = asked, !.said = said]]

(* What becomes of the pipe of a process does not matter to the call.      *)
LEMMA PipeKeeps ==
    ASSUME NEW v, ServerFits(v), v.process /= Nothing, NEW asked \in SUBSET Message,
           NEW said \in Seq(Message)
    PROVE  /\ ServerFits(Piped(v, asked, said)) /\ Piped(v, asked, said).process /= Nothing
           /\ Piped(v, asked, said).remote = v.remote
           /\ Piped(v, asked, said).tools = v.tools
           /\ Piped(v, asked, said).initialized = v.initialized
           /\ \A n : CountFits(v, n) => CountFits(Piped(v, asked, said), n)
<1> DEFINE w == Piped(v, asked, said)
<1>1. v.process \in Process /\ v \in ManagedServer
  BY DEF ServerFits, ManagedServer
<1> DEFINE p == [v.process EXCEPT !.asked = asked, !.said = said]
<1>2. p \in Process /\ p.met = v.process.met
  BY <1>1 DEF Process
<1>3. p /= Nothing
  BY <1>2, NothingAssumption
<1> HIDE DEF p
<1>4. w = [v EXCEPT !.process = p]
  BY DEF p, Piped
<1>5. /\ w.remote = v.remote /\ w.tools = v.tools /\ w.initialized = v.initialized
      /\ w.process = p /\ w.failures = v.failures /\ w.status = v.status
  BY <1>1, <1>4 DEF ManagedServer
<1>6. w \in ManagedServer
  BY <1>1, <1>2, <1>4 DEF ManagedServer
<1> QED BY <1>2, <1>3, <1>5, <1>6 DEF ServerFits, CountFits

-----------------------------------------------------------------------------
(* Lemmas about what is left of a call.                                    *)

LEMMA TailFits ==
    ASSUME NEW name, NEW part, NEW remote, NEW todo \in Seq(Step), todo /= <<>>,
           StepsFit(name, part, remote, todo)
    PROVE  /\ Tail(todo) \in Seq(Step)
           /\ StepsFit(name, part, remote, Tail(todo))
           /\ MayHave(name, part, remote, Head(todo))
           /\ Head(todo) \in Step
           /\ Head(todo) \in {"ask", "remote", "skip"} => Tail(todo) = <<>>
<1>1. /\ Len(todo) \in Nat \ {0} /\ Head(todo) = todo[1] /\ todo[1] \in Step
      /\ Tail(todo) \in Seq(Step) /\ Len(Tail(todo)) = Len(todo) - 1
      /\ \A i \in 1 .. Len(Tail(todo)) : Tail(todo)[i] = todo[i + 1]
  OBVIOUS
<1>2. MayHave(name, part, remote, Head(todo))
  <2>1. 1 \in 1 .. Len(todo)
    BY <1>1
  <2> QED BY <1>1, <2>1 DEF StepsFit
<1>3. ASSUME Head(todo) \in {"ask", "remote", "skip"}
      PROVE  Tail(todo) = <<>>
  <2>1. 1 \in 1 .. Len(todo)
    BY <1>1
  <2>2. Len(todo) = 1
    BY <1>1, <1>3, <2>1 DEF StepsFit
  <2>3. Len(Tail(todo)) = 0 /\ Tail(todo) \in Seq(Step)
    BY <1>1, <2>2
  <2> QED BY <2>3, EmptySeq
<1>4. StepsFit(name, part, remote, Tail(todo))
  <2> SUFFICES ASSUME NEW i \in 1 .. Len(Tail(todo))
               PROVE  /\ MayHave(name, part, remote, Tail(todo)[i])
                      /\ Tail(todo)[i] \in {"ask", "remote", "skip"} => i = Len(Tail(todo))
    BY DEF StepsFit
  <2>1. i + 1 \in 1 .. Len(todo) /\ Tail(todo)[i] = todo[i + 1]
    BY <1>1
  <2>2. /\ MayHave(name, part, remote, todo[i + 1])
        /\ todo[i + 1] \in {"ask", "remote", "skip"} => i + 1 = Len(todo)
    BY <2>1 DEF StepsFit
  <2>3. i + 1 = Len(todo) => i = Len(Tail(todo))
    <3> DEFINE n == Len(todo)
               k == Len(Tail(todo))
    <3>1. n \in Nat /\ k = n - 1 /\ i \in 1 .. k
      BY <1>1
    <3> HIDE DEF n, k
    <3>2. i + 1 = n => i = k
      BY <3>1
    <3> QED BY <3>2 DEF n, k
  <2> QED BY <2>1, <2>2, <2>3
<1> QED BY <1>1, <1>2, <1>3, <1>4

(* The steps of a part that ends with a request.                           *)
LEMMA BeforeAsking ==
    ASSUME NEW name, NEW part, name /= "check", NEW s \in Server,
           NEW before \in Seq(Step), before /= <<>>, StepsFit(name, part, FALSE, before),
           \A i \in 1 .. Len(before) : before[i] \notin {"ask", "remote", "skip"}
    PROVE  /\ before \o Asking(s) \in Seq(Step)
           /\ StepsFit(name, part, FALSE, before \o Asking(s))
           /\ before \o Asking(s) /= <<>> /\ Head(before \o Asking(s)) = Head(before)
<1> DEFINE last == Asking(s)
           all == before \o last
<1>1. last \in Seq(Step) /\ StepsFit(name, part, FALSE, last) /\ Len(last) > 0
  <2>1. CASE servers[s].monitored
    <3>1. last = <<"ping_ready", "ping", "ask">>
      BY <2>1 DEF Asking
    <3> QED BY <3>1 DEF StepsFit, MayHave, Step
  <2>2. CASE ~servers[s].monitored
    <3>1. last = <<"ask">>
      BY <2>2 DEF Asking
    <3> QED BY <3>1 DEF StepsFit, MayHave, Step
  <2> QED BY <2>1, <2>2
<1> HIDE DEF last
<1>2. /\ all \in Seq(Step) /\ Len(all) = Len(before) + Len(last)
      /\ \A i \in 1 .. Len(before) + Len(last) :
            all[i] = IF i <= Len(before) THEN before[i] ELSE last[i - Len(before)]
  BY <1>1, ConcatProperties
<1>3. Len(before) \in Nat \ {0} /\ Len(last) \in Nat \ {0}
  BY <1>1, EmptySeq
<1>4. ASSUME NEW i \in 1 .. Len(all)
      PROVE  /\ MayHave(name, part, FALSE, all[i])
             /\ all[i] \in {"ask", "remote", "skip"} => i = Len(all)
  <2>1. i \in 1 .. Len(before) + Len(last)
    BY <1>2
  <2>2. CASE i <= Len(before)
    <3>1. all[i] = before[i] /\ i \in 1 .. Len(before)
      BY <1>2, <1>3, <2>1, <2>2
    <3> QED BY <3>1 DEF StepsFit
  <2>3. CASE ~(i <= Len(before))
    <3> DEFINE k == i - Len(before)
    <3>1. all[i] = last[k] /\ k \in 1 .. Len(last)
      BY <1>2, <1>3, <2>1, <2>3
    <3>2. /\ MayHave(name, part, FALSE, last[k])
          /\ last[k] \in {"ask", "remote", "skip"} => k = Len(last)
      BY <1>1, <3>1 DEF StepsFit
    <3>3. k = Len(last) => i = Len(all)
      BY <1>2, <1>3, <2>1
    <3> QED BY <3>1, <3>2, <3>3
  <2> QED BY <2>2, <2>3
<1>5. all /= <<>> /\ Head(all) = Head(before)
  <2>1. Len(all) > 0
    BY <1>2, <1>3
  <2>2. all /= <<>>
    BY <2>1, EmptySeq
  <2>3. Head(all) = all[1] /\ Head(before) = before[1]
    BY <1>2, <1>3, <2>2
  <2>4. 1 \in 1 .. Len(before) + Len(last) /\ 1 <= Len(before)
    BY <1>3
  <2> QED BY <1>2, <2>2, <2>3, <2>4
<1>6. StepsFit(name, part, FALSE, all)
  <2> HIDE DEF all
  <2> QED BY <1>4 DEF StepsFit
<1> QED BY <1>2, <1>5, <1>6 DEF last

(* A part relies on nothing before it, but for the request of a prompt.    *)
LEMMA StepsOfPart ==
    ASSUME NEW name \in Name, NEW part \in Part, Consists(name, part), NEW s \in Server,
           NEW caps, servers[s].remote \in BOOLEAN
    PROVE  /\ Steps(name, part, s, caps) \in Seq(Step)
           /\ part = "open" \/ Steps(name, part, s, caps) /= <<>>
           /\ StepsFit(name, part, servers[s].remote, Steps(name, part, s, caps))
           /\ ~servers[s].remote /\ ~(name = "get" /\ part = "request") =>
                 /\ Steps(name, part, s, caps) /= <<>>
                 /\ Head(Steps(name, part, s, caps)) \in Opening
<1> DEFINE todo == Steps(name, part, s, caps)
           Ok(t) == /\ t \in Seq(Step)
                    /\ part = "open" \/ t /= <<>>
                    /\ StepsFit(name, part, servers[s].remote, t)
                    /\ ~servers[s].remote /\ ~(name = "get" /\ part = "request") =>
                          t /= <<>> /\ Head(t) \in Opening
<1>1. CASE part = "check"
  <2>1. name = "check"
    BY <1>1 DEF Consists, Name, Listings
  <2>2. todo = CheckSteps(s)
    BY <1>1 DEF Steps
  <2>3. CASE servers[s].remote
    <3>1. todo = <<"remote">>
      BY <2>2, <2>3 DEF CheckSteps
    <3>2. Ok(<<"remote">>)
      BY <1>1, <2>1, <2>3 DEF StepsFit, MayHave, Step
    <3> QED BY <3>1, <3>2
  <2>4. CASE ~servers[s].remote
    <3>1. todo = <<"ping_ready", "ping">>
      BY <2>2, <2>4 DEF CheckSteps
    <3>2. Ok(<<"ping_ready", "ping">>)
      BY <1>1, <2>1, <2>4 DEF StepsFit, MayHave, Step, Opening
    <3> QED BY <3>1, <3>2
  <2> QED BY <2>3, <2>4
<1>2. CASE part = "open"
  <2>1. name \in {"get", "discover"}
    BY <1>2 DEF Consists, Name, Listings
  <2>2. todo = OpenSteps(name, s)
    BY <1>2 DEF Steps
  <2>3. todo = IF servers[s].remote THEN IF name = "get" THEN <<>> ELSE <<"remote">>
               ELSE IF name = "get" THEN <<"ready", "capable">> ELSE <<"ready">>
    BY <2>2 DEF OpenSteps
  <2>4. CASE servers[s].remote
    <3>1. name = "get" => Ok(<<>>)
      BY <1>2, <2>4 DEF StepsFit
    <3>2. name = "discover" => Ok(<<"remote">>)
      BY <1>2, <2>4 DEF StepsFit, MayHave, Step
    <3> QED BY <2>1, <2>3, <2>4, <3>1, <3>2
  <2>5. CASE ~servers[s].remote
    <3>1. name = "get" => Ok(<<"ready", "capable">>)
      BY <1>2, <2>5 DEF StepsFit, MayHave, Step, Opening
    <3>2. name = "discover" => Ok(<<"ready">>)
      BY <1>2, <2>5 DEF StepsFit, MayHave, Step, Opening
    <3> QED BY <2>1, <2>3, <2>5, <3>1, <3>2
  <2> QED BY <2>4, <2>5
<1>3. CASE part = "request"
  <2>1. name \in {"get", "call", "read"}
    BY <1>3 DEF Consists, Name, Listings
  <2>2. todo = RequestSteps(name, s)
    BY <1>3 DEF Steps
  <2>3. CASE servers[s].remote
    <3>1. todo = IF name = "get" THEN <<"known", "remote">> ELSE <<"remote">>
      BY <2>2, <2>3 DEF RequestSteps
    <3>2. name = "get" => Ok(<<"known", "remote">>)
      BY <1>3, <2>3 DEF StepsFit, MayHave, Step
    <3>3. name \in {"call", "read"} => Ok(<<"remote">>)
      BY <1>3, <2>3 DEF StepsFit, MayHave, Step
    <3> QED BY <2>1, <3>1, <3>2, <3>3
  <2>4. CASE ~servers[s].remote /\ name = "get"
    <3>1. todo = <<"known">> \o Asking(s)
      BY <2>2, <2>4 DEF RequestSteps
    <3>2. /\ <<"known">> \in Seq(Step) /\ <<"known">> /= <<>>
          /\ StepsFit(name, part, FALSE, <<"known">>)
          /\ \A i \in 1 .. Len(<<"known">>) : <<"known">>[i] \notin {"ask", "remote", "skip"}
      BY <1>3, <2>4 DEF StepsFit, MayHave, Step
    <3> QED BY <1>3, <2>1, <2>4, <3>1, <3>2, BeforeAsking
  <2>5. CASE ~servers[s].remote /\ name /= "get"
    <3>1. todo = <<"ready", "capable">> \o Asking(s)
      BY <2>2, <2>5 DEF RequestSteps
    <3>2. /\ <<"ready", "capable">> \in Seq(Step) /\ <<"ready", "capable">> /= <<>>
          /\ StepsFit(name, part, FALSE, <<"ready", "capable">>)
          /\ \A i \in 1 .. Len(<<"ready", "capable">>) :
                <<"ready", "capable">>[i] \notin {"ask", "remote", "skip"}
          /\ Head(<<"ready", "capable">>) \in Opening
      BY <1>3, <2>1, <2>5 DEF StepsFit, MayHave, Step, Opening
    <3>3. Ok(<<"ready", "capable">> \o Asking(s))
      <4> DEFINE two == <<"ready", "capable">>
      <4>1. servers[s].remote = FALSE /\ name /= "check"
        BY <2>1, <2>5
      <4>2. /\ two \in Seq(Step) /\ two /= <<>>
            /\ StepsFit(name, part, FALSE, two)
            /\ \A i \in 1 .. Len(two) : two[i] \notin {"ask", "remote", "skip"}
            /\ Head(two) \in Opening
        BY <3>2
      <4> HIDE DEF two
      <4>3. Ok(two \o Asking(s))
        BY <4>1, <4>2, BeforeAsking
      <4> QED BY <4>3 DEF two
    <3> QED BY <3>1, <3>3
  <2> QED BY <2>3, <2>4, <2>5
<1>4. CASE part \in Listings
  <2>1. name \notin {"check", "call", "read"}
    BY <1>4 DEF Consists, Name, Listings
  <2>2. todo = ListingSteps(name, part, s, caps)
    BY <1>4 DEF Steps, Listings
  <2>3. CASE servers[s].remote
    <3>1. todo = <<"remote">>
      BY <2>2, <2>3 DEF ListingSteps
    <3>2. Ok(<<"remote">>)
      BY <1>4, <2>1, <2>3 DEF StepsFit, MayHave, Step, Listings
    <3> QED BY <3>1, <3>2
  <2>4. CASE ~servers[s].remote /\ name = "discover" /\ part \notin caps
    <3>1. todo = <<"skip">>
      BY <2>2, <2>4 DEF ListingSteps
    <3>2. Ok(<<"skip">>)
      BY <1>4, <2>1, <2>4 DEF StepsFit, MayHave, Step, Listings, Opening
    <3> QED BY <3>1, <3>2
  <2>5. CASE ~servers[s].remote /\ ~(name = "discover" /\ part \notin caps)
    <3>1. todo = <<"ready", "capable">> \o Asking(s)
      BY <2>2, <2>5 DEF ListingSteps
    <3>2. /\ <<"ready", "capable">> \in Seq(Step) /\ <<"ready", "capable">> /= <<>>
          /\ StepsFit(name, part, FALSE, <<"ready", "capable">>)
          /\ \A i \in 1 .. Len(<<"ready", "capable">>) :
                <<"ready", "capable">>[i] \notin {"ask", "remote", "skip"}
          /\ Head(<<"ready", "capable">>) \in Opening
      BY <1>4, <2>1, <2>5 DEF StepsFit, MayHave, Step, Opening, Listings
    <3>3. Ok(<<"ready", "capable">> \o Asking(s))
      <4> DEFINE two == <<"ready", "capable">>
      <4>1. servers[s].remote = FALSE /\ name /= "check"
        BY <2>1, <2>5
      <4>2. /\ two \in Seq(Step) /\ two /= <<>>
            /\ StepsFit(name, part, FALSE, two)
            /\ \A i \in 1 .. Len(two) : two[i] \notin {"ask", "remote", "skip"}
            /\ Head(two) \in Opening
        BY <3>2
      <4> HIDE DEF two
      <4>3. Ok(two \o Asking(s))
        BY <4>1, <4>2, BeforeAsking
      <4> QED BY <4>3 DEF two
    <3> QED BY <3>1, <3>3
  <2> QED BY <2>3, <2>4, <2>5
<1>5. Ok(todo)
  BY <1>1, <1>2, <1>3, <1>4 DEF Part, Listings
<1> QED BY <1>5

Done(o, n) == [o EXCEPT !.todo = Tail(o.todo), !.waiting = FALSE, !.tries = 0, !.sent = n]

(* The step is done: what is left fits a server whose handshake is done    *)
(* unless the server is remote, or the listing of the part skipped.        *)
LEMMA DoneFits ==
    ASSUME NEW o, NEW v, NEW w, CallFits(o, v), o.todo /= <<>>, w.remote = v.remote,
           v.remote \in BOOLEAN, ~w.remote /\ Head(o.todo) /= "skip" => w.initialized, NEW n \in 0 .. 1,
           o.name /= "call" => n = 0, n = 1 => Tail(o.todo) = <<>>
    PROVE  /\ CallFits(Done(o, n), w) /\ Done(o, n).server = o.server
           /\ Done(o, n).name = o.name /\ Done(o, n).part = o.part
           /\ Done(o, n).todo = Tail(o.todo)
<1> DEFINE d == Done(o, n)
<1>1. o \in Operation /\ o.todo \in Seq(Step)
  BY DEF CallFits, Operation
<1> DEFINE t == Tail(o.todo)
<1>2. /\ t \in Seq(Step) /\ StepsFit(o.name, o.part, v.remote, t)
      /\ MayHave(o.name, o.part, v.remote, Head(o.todo))
      /\ Head(o.todo) \in {"ask", "remote", "skip"} => t = <<>>
  BY <1>1, TailFits DEF CallFits
<1>3. n = 1 => t = <<>>
  OBVIOUS
<1> HIDE DEF t
<1>4. d = [o EXCEPT !.todo = t, !.waiting = FALSE, !.tries = 0, !.sent = n]
  BY DEF t, Done
<1>5. /\ d.name = o.name /\ d.server = o.server /\ d.part = o.part /\ d.todo = t
      /\ d.waiting = FALSE /\ d.sent = n
  BY <1>1, <1>4 DEF Operation
<1>6. d \in Operation
  <2> DEFINE a == [o EXCEPT !.todo = t]
             b == [a EXCEPT !.waiting = FALSE]
             c == [b EXCEPT !.tries = 0]
             e == [c EXCEPT !.sent = n]
  <2>1. a \in Operation
    BY <1>1, <1>2 DEF Operation
  <2>2. d = e
    BY <1>1, <1>4 DEF Operation
  <2> HIDE DEF a
  <2>3. b \in Operation
    BY <2>1 DEF Operation
  <2> HIDE DEF b
  <2>4. c \in Operation
    BY <2>3 DEF Operation
  <2> HIDE DEF c
  <2>5. e \in Operation
    BY <2>4 DEF Operation
  <2> QED BY <2>2, <2>5
<1>7. ~w.remote /\ Relies(d) => w.initialized
  <2> SUFFICES ASSUME ~w.remote, Relies(d), Head(o.todo) = "skip" PROVE FALSE
    OBVIOUS
  <2>1. t = <<>> /\ o.name = "discover"
    BY <1>2 DEF MayHave
  <2> QED BY <1>5, <2>1 DEF Relies
<1>8. /\ Consists(d.name, d.part)
      /\ d.name = "discover" /\ w.remote => d.part = "open"
      /\ StepsFit(d.name, d.part, w.remote, d.todo)
  BY <1>2, <1>5 DEF CallFits
<1>9. /\ d.name /= "call" => d.sent = 0
      /\ d.sent <= 1 /\ (d.sent = 1 => d.todo = <<>>)
  BY <1>3, <1>5
<1>10. CallFits(d, w)
  BY <1>5, <1>6, <1>7, <1>8, <1>9 DEF CallFits
<1> QED BY <1>5, <1>10 DEF t

Retried(o, part, caps, tried, started) ==
    [AtPart(o, part, caps) EXCEPT !.attempts = tried, !.outer = started]

(* A part begins with what it relies on.                                   *)
LEMMA PartFits ==
    ASSUME NEW o \in Operation, NEW part \in Part, NEW caps \in SUBSET Capability, NEW w,
           Consists(o.name, part), o.server \in Server, o.sent = 0,
           servers[o.server].remote \in BOOLEAN, w.remote = servers[o.server].remote,
           o.name = "discover" /\ w.remote => part = "open",
           o.name = "get" /\ part = "request" /\ ~w.remote => w.initialized,
           NEW tried \in 0 .. 1, NEW started \in 0 .. 1, NEW d,
           d = Retried(o, part, caps, tried, started)
    PROVE  /\ CallFits(d, w) /\ d.server = o.server /\ d.name = o.name
           /\ part = "open" \/ d.todo /= <<>>
<1> DEFINE t == Steps(o.name, part, o.server, caps)
<1>1. o.name \in Name
  BY DEF Operation
<1>2. /\ t \in Seq(Step) /\ StepsFit(o.name, part, w.remote, t)
      /\ part = "open" \/ t /= <<>>
      /\ ~w.remote /\ ~(o.name = "get" /\ part = "request") =>
            t /= <<>> /\ Head(t) \in Opening
  BY <1>1, StepsOfPart
<1>3. d = [[o EXCEPT !.part = part, !.todo = t, !.waiting = FALSE, !.tries = 0,
                     !.attempts = 0, !.pages = 0, !.caps = caps]
             EXCEPT !.attempts = tried, !.outer = started]
  BY DEF AtPart, Retried
<1> HIDE DEF t
<1> DEFINE a == [o EXCEPT !.part = part]
           b == [a EXCEPT !.todo = t]
           c == [b EXCEPT !.waiting = FALSE]
           e == [c EXCEPT !.tries = 0]
           f == [e EXCEPT !.attempts = tried]
           g == [f EXCEPT !.pages = 0]
           h == [g EXCEPT !.caps = caps]
           k == [h EXCEPT !.outer = started]
<1>4. d = k
  BY <1>3 DEF Operation
<1>5. /\ d.name = o.name /\ d.server = o.server /\ d.part = part /\ d.todo = t
      /\ d.waiting = FALSE /\ d.sent = 0
  BY <1>3 DEF Operation
<1>6. d \in Operation
  <2>1. a \in Operation
    BY DEF Operation
  <2> HIDE DEF a
  <2>2. b \in Operation
    BY <1>2, <2>1 DEF Operation
  <2> HIDE DEF b
  <2>3. c \in Operation
    BY <2>2 DEF Operation
  <2> HIDE DEF c
  <2>4. e \in Operation
    BY <2>3 DEF Operation
  <2> HIDE DEF e
  <2>5. f \in Operation
    BY <2>4 DEF Operation
  <2> HIDE DEF f
  <2>6. g \in Operation
    <3>1. 0 \in 0 .. MaxPages
      BY ManagerAssumption
    <3> QED BY <2>5, <3>1 DEF Operation
  <2> HIDE DEF g
  <2>7. h \in Operation
    BY <2>6 DEF Operation
  <2> HIDE DEF h
  <2>8. k \in Operation
    BY <2>7 DEF Operation
  <2> QED BY <1>4, <2>8
<1> HIDE DEF a, b, c, e, f, g, h, k
<1>7. ~w.remote /\ Relies(d) => w.initialized
  BY <1>2, <1>5 DEF Relies
<1>8. CallFits(d, w)
  BY <1>2, <1>5, <1>6, <1>7 DEF CallFits
<1> QED BY <1>2, <1>5, <1>8

-----------------------------------------------------------------------------
(* A step of the call changes its own server, routes and counts only.      *)
OnlyHere(r, f) ==
    /\ r \in [Server -> SUBSET Tool] /\ f \in [Server -> 0 .. 3]
    /\ \A s \in Server \ {Here} : r[s] = routes[s] /\ f[s] = failing[s]

LEMMA WorkedOn ==
    ASSUME McpInv, op /= Nothing
    PROVE  /\ op \in Operation /\ Here \in Server /\ CallFits(op, Now)
           /\ ServerFits(Now) /\ Now \in ManagedServer /\ Now.remote \in BOOLEAN
           /\ CountFits(Now, failing[Here]) /\ failing[Here] \in 0 .. 3
           /\ routes[Here] \in SUBSET Tool /\ OnlyHere(routes, failing)
           /\ ~Rebuilds(op) => routes[Here] \subseteq Now.tools
<1>1. op \in Operation
  BY DEF McpInv, McpTypeOK
<1>2. Here \in Server
  BY <1>1 DEF Operation, Here
<1>3. /\ CallFits(op, Now) /\ ServerFits(Now) /\ CountFits(Now, failing[Here])
      /\ ~Rebuilds(op) => routes[Here] \subseteq Now.tools
  BY <1>2 DEF McpInv, Here, Now
<1>4. Now \in ManagedServer
  BY <1>3 DEF ServerFits
<1>5. Now.remote \in BOOLEAN
  BY <1>4 DEF ManagedServer
<1>6. routes \in [Server -> SUBSET Tool] /\ failing \in [Server -> 0 .. 3]
  BY DEF McpInv, McpTypeOK
<1> QED BY <1>1, <1>2, <1>3, <1>4, <1>5, <1>6 DEF OnlyHere

LEMMA StepHere ==
    ASSUME McpInv, op /= Nothing, NEW v, Set(v), ServerFits(v), v.remote = Now.remote,
           OnlyHere(routes', failing'), CountFits(v, failing'[Here]),
           op' /= Nothing => op'.server = Here /\ CallFits(op', v),
           Rebuilds(op)' \/ routes'[Here] \subseteq v.tools
    PROVE  McpInv'
<1>1. Here \in Server /\ v \in ManagedServer
  BY WorkedOn DEF ServerFits
<1>2. /\ servers' \in [Server -> ManagedServer]
      /\ servers'[Here] = v
      /\ \A s \in Server \ {Here} : servers'[s] = servers[s]
  BY <1>1 DEF McpInv, McpTypeOK, Set
<1>3. /\ routes' \in [Server -> SUBSET Tool] /\ failing' \in [Server -> 0 .. 3]
      /\ \A s \in Server \ {Here} : routes'[s] = routes[s] /\ failing'[s] = failing[s]
  BY DEF OnlyHere
<1>4. op' \in Operation \cup {Nothing}
  BY DEF CallFits
<1>5. McpTypeOK'
  BY <1>2, <1>3, <1>4 DEF McpTypeOK, McpInv
<1>6. \A s \in Server : ServerFits(servers[s])'
  <2> SUFFICES ASSUME NEW s \in Server PROVE ServerFits(servers'[s])
    OBVIOUS
  <2>1. CASE s = Here
    BY <1>2, <2>1
  <2>2. CASE s /= Here
    BY <1>2, <2>2 DEF McpInv
  <2> QED BY <2>1, <2>2
<1>7. \A s \in Server : CountFits(servers[s], failing[s])'
  <2> SUFFICES ASSUME NEW s \in Server PROVE CountFits(servers'[s], failing'[s])
    OBVIOUS
  <2>1. CASE s = Here
    BY <1>2, <2>1
  <2>2. CASE s /= Here
    BY <1>2, <1>3, <2>2 DEF McpInv
  <2> QED BY <2>1, <2>2
<1>8. (op /= Nothing => CallFits(op, servers[op.server]))'
  <2> SUFFICES ASSUME op' /= Nothing PROVE CallFits(op', servers'[op'.server])
    OBVIOUS
  <2> QED BY <1>2
<1>9. (\A s \in Server : (Rebuilds(op) /\ op.server = s) \/ routes[s] \subseteq servers[s].tools)'
  <2> SUFFICES ASSUME NEW s \in Server
               PROVE  (Rebuilds(op') /\ op'.server = s) \/ routes'[s] \subseteq servers'[s].tools
    BY DEF Rebuilds
  <2>1. CASE s = Here
    BY <1>2, <2>1 DEF Rebuilds
  <2>2. CASE s /= Here
    <3>1. ~(Rebuilds(op) /\ op.server = s)
      BY <2>2 DEF Here
    <3>2. routes[s] \subseteq servers[s].tools
      BY <3>1 DEF McpInv
    <3> QED BY <1>2, <1>3, <2>2, <3>2
  <2> QED BY <2>1, <2>2
<1> QED BY <1>5, <1>6, <1>7, <1>8, <1>9 DEF McpInv

(* What is left when a step has failed, with v, r and f as the step left   *)
(* the server, its routes and the count.                                   *)
LEMMA FailedKeeps ==
    ASSUME McpInv, op /= Nothing, op.todo /= <<>>,
           NEW v, NEW r, NEW f, NEW sent, NEW e \in Error, Failed(v, r, f, sent, e),
           op.name /= "call" => sent = op.sent,
           ServerFits(v), v.remote = Now.remote, OnlyHere(r, f),
           op.name /= "discover" => r[Here] \subseteq v.tools,
           e \in Retryable => CountFits(v, f[Here]),
           Counted(f, e) => OnlyHere(r, failing') /\ CountFits(v, failing'[Here])
    PROVE  McpInv'
<1>1. /\ op \in Operation /\ Here \in Server /\ CallFits(op, Now) /\ Now.remote \in BOOLEAN
      /\ op.server = Here
  BY WorkedOn DEF Here
<1>2. /\ ServerFits(Reset(v)) /\ Reset(v).remote = v.remote /\ Reset(v).tools = v.tools
      /\ \A n : CountFits(v, n) => CountFits(Reset(v), n)
  BY ResetKeeps
<1> DEFINE left == IF (IsRetried \/ op.name = "get") /\ ShouldReset(e) THEN Reset(v) ELSE v
<1>3. /\ ServerFits(left) /\ left.remote = v.remote /\ left.tools = v.tools
      /\ \A n : CountFits(v, n) => CountFits(left, n)
  BY <1>2
<1>4. op.name /= "call" => op.sent = 0
  BY <1>1 DEF CallFits
<1>5. /\ Consists(op.name, op.part) /\ op.part \in Part /\ op.caps \in SUBSET Capability
      /\ op.attempts \in 0 .. 1 /\ op.outer \in 0 .. 1
      /\ op.name = "discover" /\ Now.remote => op.part = "open"
      /\ op.name \in Name
  BY <1>1 DEF CallFits, Operation
<1>6. CASE AnotherTry(e) /\ Set(Reset(v)) /\ routes' = r /\ failing' = f
           /\ op' = [AtPart(op, op.part, op.caps) EXCEPT !.attempts = 1, !.sent = sent]
  <2>1. e \in Retryable /\ IsRetried
    BY <1>6 DEF AnotherTry
  <2>2. /\ op.name /= "call" /\ op.part /= "open"
        /\ ~(op.name = "get" /\ op.part = "request")
    BY <1>5, <2>1 DEF IsRetried, Consists, Listings
  <2>3. op' = Retried(op, op.part, op.caps, 1, op.outer)
    BY <1>1, <1>6, <2>2 DEF AtPart, Operation, Retried
  <2>4. /\ CallFits(op', Reset(v)) /\ op'.server = op.server /\ op'.name = op.name
        /\ op'.todo /= <<>>
    <3>1. Reset(v).remote = servers[op.server].remote /\ op.server \in Server
          /\ servers[op.server].remote \in BOOLEAN
      BY <1>1, <1>2 DEF Now, Here
    <3>2. op.name = "discover" /\ Reset(v).remote => op.part = "open"
      BY <1>2, <1>5
    <3> QED BY <1>1, <1>4, <1>5, <2>2, <2>3, <3>1, <3>2, PartFits
  <2>5. op' /= Nothing
    BY <2>4, NothingAssumption DEF CallFits
  <2>6. Rebuilds(op)' \/ routes'[Here] \subseteq Reset(v).tools
    BY <1>2, <1>6, <2>4, <2>5 DEF Rebuilds
  <2>7. CountFits(Reset(v), failing'[Here]) /\ OnlyHere(routes', failing')
    BY <1>2, <1>6, <2>1
  <2> QED BY <1>1, <1>2, <1>6, <2>4, <2>6, <2>7, StepHere
<1>7. CASE AnotherStart(e) /\ Set(Reset(v)) /\ routes' = r /\ failing' = f
           /\ op' = [AtPart(op, "open", {}) EXCEPT !.outer = 1]
  <2>1. e \in Retryable /\ op.name = "get"
    BY <1>7 DEF AnotherStart
  <2>2. op' = Retried(op, "open", {}, 0, 1)
    BY <1>1, <1>7 DEF AtPart, Operation, Retried
  <2>3. CallFits(op', Reset(v)) /\ op'.server = op.server /\ op'.name = op.name
    <3>1. Reset(v).remote = servers[op.server].remote /\ op.server \in Server
          /\ servers[op.server].remote \in BOOLEAN
      BY <1>1, <1>2 DEF Now, Here
    <3>2. Consists(op.name, "open") /\ "open" \in Part /\ {} \in SUBSET Capability
          /\ op.sent = 0
      BY <1>4, <2>1 DEF Consists, Part
    <3> QED BY <1>1, <2>1, <2>2, <3>1, <3>2, PartFits
  <2>4. Rebuilds(op)' \/ routes'[Here] \subseteq Reset(v).tools
    BY <1>2, <1>7, <2>1
  <2>5. CountFits(Reset(v), failing'[Here]) /\ OnlyHere(routes', failing')
    BY <1>2, <1>7, <2>1
  <2> QED BY <1>1, <1>2, <1>7, <2>3, <2>4, <2>5, StepHere
<1>8. CASE Degrades /\ Set(WithoutListing(left)) /\ routes' = r /\ Counted(f, e)
           /\ op' = [op EXCEPT !.todo = <<>>, !.waiting = FALSE]
  <2> DEFINE w == WithoutListing(left)
  <2>1. op.name = "discover"
    BY <1>8 DEF Degrades
  <2>2. /\ ServerFits(w) /\ w.remote = Now.remote /\ w.tools = v.tools
        /\ \A n : CountFits(v, n) => CountFits(w, n)
    <3> HIDE DEF left
    <3>1. CASE w = left
      BY <1>3, <3>1
    <3>2. CASE w = [left EXCEPT !.prompts = {}, !.prompts_complete = FALSE]
      <4>1. left \in ManagedServer
        BY <1>3 DEF ServerFits
      <4>2. w \in ManagedServer
        BY <3>2, <4>1 DEF ManagedServer
      <4>3. /\ w.remote = left.remote /\ w.process = left.process
            /\ w.initialized = left.initialized /\ w.tools = left.tools
            /\ w.failures = left.failures /\ w.status = left.status
        BY <3>2, <4>1 DEF ManagedServer
      <4> QED BY <1>3, <4>2, <4>3 DEF ServerFits, CountFits
    <3> QED BY <3>1, <3>2 DEF WithoutListing
  <2>3. /\ op' \in Operation /\ op'.name = op.name /\ op'.part = op.part
        /\ op'.server = op.server /\ op'.sent = op.sent /\ op'.todo = <<>>
        /\ op'.waiting = FALSE
    BY <1>1, <1>8, EmptySeq DEF Operation
  <2>4. CallFits(op', w)
    <3>1. /\ StepsFit(op'.name, op'.part, w.remote, op'.todo)
          /\ ~Relies(op')
      BY <2>1, <2>3 DEF StepsFit, Relies
    <3>2. op'.name = "discover" /\ w.remote => op'.part = "open"
      BY <1>5, <2>2, <2>3
    <3> QED BY <1>4, <1>5, <2>1, <2>3, <3>1, <3>2 DEF CallFits
  <2>5. op' /= Nothing
    BY <2>3, NothingAssumption
  <2>6. Rebuilds(op)'
    BY <2>1, <2>3, <2>5 DEF Rebuilds
  <2>7. CountFits(w, failing'[Here]) /\ OnlyHere(routes', failing')
    BY <1>8, <2>2
  <2> QED BY <1>1, <1>8, <2>2, <2>3, <2>4, <2>6, <2>7, StepHere
<1>9. CASE /\ Set(left) /\ Counted(f, e) /\ op' = Nothing
           /\ routes' = Unrouted(r) \/ (op.name /= "discover" /\ routes' = r)
  <2>1. Unrouted(r)[Here] = {} /\ OnlyHere(Unrouted(r), failing')
    BY <1>1, <1>9 DEF Unrouted, OnlyHere
  <2>2. OnlyHere(routes', failing') /\ routes'[Here] \subseteq left.tools
    BY <1>3, <1>9, <2>1
  <2>3. CountFits(left, failing'[Here])
    BY <1>3, <1>9
  <2> HIDE DEF left
  <2> QED BY <1>3, <1>9, <2>2, <2>3, StepHere
<1> QED BY <1>6, <1>7, <1>8, <1>9 DEF Failed

(* A step of a server that is not remote has failed.                       *)
LEMMA RaiseKeeps ==
    ASSUME McpInv, op /= Nothing, op.todo /= <<>>, Doing /= "remote",
           NEW v, NEW f, NEW e \in Error, Raise(v, f, e), ServerFits(v),
           v.remote = Now.remote, v.tools = Now.tools,
           f \in [Server -> 0 .. 3], \A s \in Server \ {Here} : f[s] = failing[s],
           CountFits(v, f[Here])
    PROVE  McpInv'
<1>1. /\ op \in Operation /\ Here \in Server /\ CallFits(op, Now)
      /\ routes[Here] \in SUBSET Tool /\ OnlyHere(routes, failing)
      /\ ~Rebuilds(op) => routes[Here] \subseteq Now.tools
  BY WorkedOn
<1>2. /\ MayHave(op.name, op.part, Now.remote, Doing) /\ Doing \in Step
  BY <1>1, TailFits DEF CallFits, Operation, Doing
<1>3. OnlyHere(routes, f)
  BY <1>1 DEF OnlyHere
<1>4. op.name /= "discover" => routes[Here] \subseteq v.tools
  BY <1>1 DEF Rebuilds
<1> DEFINE n == f[Here]
           more == IF n = 3 THEN 3 ELSE n + 1
<1>5. n \in 0 .. 3 /\ more \in 0 .. 3
  BY <1>1
<1> DEFINE recorded == CASE Doing \in {"ping_ready", "ping"} -> MarkFailure(v)
                         [] Doing = "ask" -> Recorded(v, e)
                         [] OTHER -> v
           resets == /\ ShouldReset(e)
                     /\ \/ Doing \in {"ping_ready", "ping"}
                        \/ Doing = "ask" /\ op.name = "call"
           w == IF resets THEN Reset(recorded) ELSE recorded
<1>6. Failed(w, routes, f, op.sent, e)
  BY DEF Raise
<1> DEFINE up == [f EXCEPT ![Here] = more]
<1>7. ASSUME Counted(f, e)
      PROVE  /\ \/ Doing \in {"ping_ready", "ping"} \/ op.name = "check"
                \/ Doing = "ask" /\ TransportFailure(e)
                => failing' = up
             /\ /\ Doing \notin {"ping_ready", "ping"} /\ op.name /= "check"
                /\ Doing = "ask" /\ ~TransportFailure(e)
                => failing' = Cleared
             /\ /\ Doing \notin {"ping_ready", "ping", "ask"} /\ op.name /= "check"
                => failing' = f
  <2> DEFINE raised == [f EXCEPT ![Here] = IF @ = 3 THEN 3 ELSE @ + 1]
  <2>1. failing' = CASE Doing \in {"ping_ready", "ping"} \/ op.name = "check"
                        \/ (Doing \in {"ask", "remote"} /\ TransportFailure(e)) -> raised
                     [] Doing \in {"ask", "remote"} /\ ~TransportFailure(e)
                        /\ op.name /= "check" -> Cleared
                     [] OTHER -> f
    BY <1>7 DEF Counted
  <2>2. raised = up
    OBVIOUS
  <2> HIDE DEF raised, up
  <2> QED BY <2>1, <2>2
<1>8. /\ ServerFits(recorded) /\ Alike(v, recorded)
      /\ e \in Retryable => CountFits(recorded, n)
      /\ Counted(f, e) => OnlyHere(routes, failing') /\ CountFits(recorded, failing'[Here])
  <2>1. /\ ServerFits(MarkFailure(v)) /\ Alike(v, MarkFailure(v))
        /\ CountFits(MarkFailure(v), n) /\ CountFits(MarkFailure(v), more)
    BY <1>5, FailureKeeps
  <2>2. /\ ServerFits(MarkSuccess(v)) /\ Alike(v, MarkSuccess(v))
        /\ CountFits(MarkSuccess(v), 0)
    BY SuccessKeeps
  <2>3. /\ OnlyHere(routes, up) /\ up[Here] = more
        /\ OnlyHere(routes, Cleared) /\ Cleared[Here] = 0
    BY <1>1, <1>3, <1>5 DEF OnlyHere, Cleared
  <2> HIDE DEF more, n, up
  <2>4. CASE Doing \in {"ping_ready", "ping"}
    <3>1. recorded = MarkFailure(v)
      BY <2>4
    <3>2. Counted(f, e) => failing' = up
      BY <1>7, <2>4
    <3> HIDE DEF recorded
    <3> QED BY <2>1, <2>3, <3>1, <3>2
  <2>5. CASE Doing = "ask" /\ TransportFailure(e)
    <3>1. recorded = MarkFailure(v)
      BY <2>5 DEF Recorded
    <3>2. Counted(f, e) => failing' = up
      BY <1>7, <2>5
    <3> HIDE DEF recorded
    <3> QED BY <2>1, <2>3, <3>1, <3>2
  <2>6. CASE Doing = "ask" /\ ~TransportFailure(e)
    <3>1. recorded = MarkSuccess(v)
      BY <2>6 DEF Recorded
    <3>2. op.name /= "check"
      BY <1>2, <2>6 DEF MayHave
    <3>3. Counted(f, e) => failing' = Cleared
      BY <1>7, <2>6, <3>2
    <3>4. e \notin Retryable
      BY <2>6 DEF TransportFailure, Retryable
    <3> HIDE DEF recorded
    <3> QED BY <2>2, <2>3, <3>1, <3>3, <3>4
  <2>7. CASE Doing \notin {"ping_ready", "ping", "ask"}
    <3>1. recorded = v
      BY <2>7
    <3>2. op.name /= "check"
      BY <1>2, <2>7 DEF MayHave
    <3>3. Counted(f, e) => failing' = f
      BY <1>7, <2>7, <3>2
    <3>4. Alike(v, v)
      BY DEF Alike
    <3> HIDE DEF recorded
    <3> QED BY <1>3, <3>1, <3>3, <3>4 DEF n
  <2> QED BY <2>4, <2>5, <2>6, <2>7
<1> HIDE DEF recorded, resets, n
<1>9. /\ ServerFits(w) /\ w.remote = v.remote /\ w.tools = v.tools
      /\ \A k : CountFits(recorded, k) => CountFits(w, k)
  BY <1>8, ResetKeeps DEF Alike
<1> HIDE DEF w
<1>10. /\ e \in Retryable => CountFits(w, f[Here])
       /\ Counted(f, e) => OnlyHere(routes, failing') /\ CountFits(w, failing'[Here])
  BY <1>8, <1>9 DEF n
<1>11. op.name /= "discover" => routes[Here] \subseteq w.tools
  BY <1>4, <1>9
<1> QED BY <1>3, <1>6, <1>9, <1>10, <1>11, FailedKeeps

(* A step that is done leaves its server as v.                             *)
LEMMA DoneKeeps ==
    ASSUME McpInv, op /= Nothing, op.todo /= <<>>, NEW v, Set(v), ServerFits(v),
           v.remote = Now.remote, NEW n \in 0 .. 1,
           ~v.remote /\ Doing /= "skip" => v.initialized,
           op.name /= "call" => n = 0, n = 1 => Tail(op.todo) = <<>>,
           op' = Done(op, n),
           OnlyHere(routes', failing'), CountFits(v, failing'[Here]),
           \/ op.name = "discover"
           \/ op.name = "list_tools" /\ Tail(op.todo) = <<>>
           \/ routes'[Here] \subseteq v.tools
    PROVE  McpInv'
<1>1. CallFits(op, Now) /\ Now.remote \in BOOLEAN
  BY WorkedOn
<1>2. /\ CallFits(op', v) /\ op'.server = op.server /\ op'.name = op.name
      /\ op'.todo = Tail(op.todo)
  <2>1. ~v.remote /\ Head(op.todo) /= "skip" => v.initialized
    BY DEF Doing
  <2>2. CallFits(op, Now) /\ v.remote = Now.remote /\ Now.remote \in BOOLEAN
    BY <1>1
  <2>3. /\ CallFits(Done(op, n), v) /\ Done(op, n).server = op.server
        /\ Done(op, n).name = op.name /\ Done(op, n).todo = Tail(op.todo)
    BY <2>1, <2>2, DoneFits
  <2> QED BY <2>3
<1>3. op' /= Nothing
  BY <1>2, NothingAssumption DEF CallFits
<1>4. Rebuilds(op)' \/ routes'[Here] \subseteq v.tools
  BY <1>2, <1>3 DEF Rebuilds
<1> QED BY <1>2, <1>4, StepHere DEF Here

-----------------------------------------------------------------------------
(* The steps of a call.                                                    *)

(* What is known at a step that waits for nothing to happen.               *)
LEMMA AtStep ==
    ASSUME McpInv, op /= Nothing, op.todo /= <<>>
    PROVE  /\ op \in Operation /\ Here \in Server /\ CallFits(op, Now)
           /\ ServerFits(Now) /\ Now \in ManagedServer /\ Now.remote \in BOOLEAN
           /\ CountFits(Now, failing[Here]) /\ failing[Here] \in 0 .. 3
           /\ OnlyHere(routes, failing) /\ OnlyHere(routes, Cleared) /\ Cleared[Here] = 0
           /\ failing \in [Server -> 0 .. 3] /\ Cleared \in [Server -> 0 .. 3]
           /\ \A s \in Server \ {Here} : Cleared[s] = failing[s]
           /\ op.name /= "discover" => routes[Here] \subseteq Now.tools
           /\ MayHave(op.name, op.part, Now.remote, Doing) /\ Doing \in Step
           /\ Doing \in {"ask", "remote", "skip"} => Tail(op.todo) = <<>>
           /\ Now.remote => Doing \in {"remote", "known"}
           /\ ~Now.remote => Doing /= "remote"
           /\ ~Now.remote /\ Doing \notin Opening => Now.initialized
           /\ op.sent \in 0 .. 1 /\ (op.name /= "call" => op.sent = 0)
           /\ op.sent = 1 => op.waiting /\ Doing = "ask"
           /\ op.waiting => Doing \in {"ready", "ping_ready", "ping", "ask"} /\ Now.process /= Nothing
           /\ servers = [servers EXCEPT ![Here] = Now]
           /\ op = [op EXCEPT !.sent = op.sent]
<1>1. /\ op \in Operation /\ Here \in Server /\ CallFits(op, Now)
      /\ ServerFits(Now) /\ Now \in ManagedServer /\ Now.remote \in BOOLEAN
      /\ CountFits(Now, failing[Here]) /\ failing[Here] \in 0 .. 3
      /\ OnlyHere(routes, failing)
      /\ ~Rebuilds(op) => routes[Here] \subseteq Now.tools
  BY WorkedOn
<1>2. /\ Cleared \in [Server -> 0 .. 3] /\ Cleared[Here] = 0 /\ failing \in [Server -> 0 .. 3]
      /\ OnlyHere(routes, Cleared) /\ \A s \in Server \ {Here} : Cleared[s] = failing[s]
  BY <1>1 DEF Cleared, OnlyHere
<1>3. op.name /= "discover" => routes[Here] \subseteq Now.tools
  BY <1>1 DEF Rebuilds
<1>4. /\ MayHave(op.name, op.part, Now.remote, Doing) /\ Doing \in Step
      /\ Doing \in {"ask", "remote", "skip"} => Tail(op.todo) = <<>>
  BY <1>1, TailFits DEF CallFits, Operation, Doing
<1>5. /\ Now.remote => Doing \in {"remote", "known"}
      /\ ~Now.remote => Doing /= "remote"
  BY <1>4 DEF MayHave
<1>6. ~Now.remote /\ Doing \notin Opening => Now.initialized
  BY <1>1 DEF CallFits, Relies, Doing
<1>7. /\ op.name /= "call" => op.sent = 0
      /\ op.sent <= 1 /\ (op.sent = 1 => op.waiting /\ Doing = "ask")
      /\ op.waiting => Doing \in {"ready", "ping_ready", "ping", "ask"} /\ Now.process /= Nothing
  BY <1>1 DEF CallFits, Doing
<1>8. op.sent \in 0 .. 1
  <2>1. op.sent \in 0 .. 2
    BY <1>1 DEF Operation
  <2> QED BY <1>7, <2>1
<1>9. servers = [servers EXCEPT ![Here] = Now]
  BY <1>1 DEF Here, Now, McpInv, McpTypeOK
<1>10. op = [op EXCEPT !.sent = op.sent]
  BY <1>1 DEF Operation
<1> QED BY <1>1, <1>2, <1>3, <1>4, <1>5, <1>6, <1>7, <1>8, <1>9, <1>10

LEMMA PoppedIsDone ==
    ASSUME op \in Operation
    PROVE  /\ Popped = Done(op, op.sent)
           /\ \A n : [Popped EXCEPT !.sent = n] = Done(op, n)
BY DEF Popped, Done, Operation

(* A step that is done at a server that is not remote.                     *)
LEMMA PoppedKeeps ==
    ASSUME McpInv, op /= Nothing, op.todo /= <<>>, Doing \notin {"remote", "skip"},
           NEW v, Set(v), ServerFits(v), v.remote = Now.remote,
           ~v.remote => v.initialized, op' = Popped, OnlyHere(routes', failing'),
           CountFits(v, failing'[Here]),
           \/ op.name = "discover"
           \/ op.name = "list_tools" /\ Tail(op.todo) = <<>>
           \/ routes'[Here] \subseteq v.tools
    PROVE  McpInv'
<1>1. /\ op \in Operation /\ op.sent \in 0 .. 1
      /\ op.name /= "call" => op.sent = 0
      /\ op.sent = 1 => Tail(op.todo) = <<>>
  BY AtStep
<1>2. op' = Done(op, op.sent)
  BY <1>1, PoppedIsDone
<1> QED BY <1>1, <1>2, DoneKeeps

LEMMA FreshFits ==
    ASSUME McpInv, op /= Nothing, op.todo /= <<>>
    PROVE  /\ ServerFits(Fresh) /\ Fresh.remote = Now.remote /\ Fresh.tools = Now.tools
           /\ CountFits(Fresh, failing[Here])
           /\ Fresh.process /= Nothing => Fresh = Now
BY AtStep, ResetKeeps DEF Fresh

LEMMA AlreadyReadyKeeps == McpInv /\ AlreadyReady => McpInv'
<1> SUFFICES ASSUME McpInv, AlreadyReady PROVE McpInv'
  OBVIOUS
<1>1. /\ op /= Nothing /\ op.todo /= <<>> /\ Doing \in Readies
      /\ op' = Popped /\ UNCHANGED <<servers, routes, failing>>
      /\ Fresh.process /= Nothing /\ Fresh.initialized
  BY DEF AlreadyReady, At
<1>2. Now.initialized
  BY <1>1, FreshFits
<1>3. Set(Now) /\ OnlyHere(routes', failing') /\ CountFits(Now, failing'[Here])
  BY <1>1, AtStep DEF Set
<1>4. op.name = "discover" \/ routes'[Here] \subseteq Now.tools
  BY <1>1, AtStep
<1>5. Doing \notin {"remote", "skip"} /\ ServerFits(Now)
  BY <1>1, AtStep DEF Readies
<1> QED BY <1>1, <1>2, <1>3, <1>4, <1>5, PoppedKeeps

LEMMA SpawnFailsKeeps == McpInv /\ SpawnFails => McpInv'
<1> SUFFICES ASSUME McpInv, SpawnFails PROVE McpInv'
  OBVIOUS
<1>1. /\ op /= Nothing /\ op.todo /= <<>> /\ Doing \in Readies
      /\ Raise(Fresh, failing, "Io")
  BY DEF SpawnFails, At
<1>2. "Io" \in Error /\ Doing /= "remote"
  BY <1>1 DEF Error, Readies
<1> QED BY <1>1, <1>2, FreshFits, AtStep, RaiseKeeps

(* The call waits for an answer to what was sent.                          *)
LEMMA SentKeeps ==
    ASSUME NEW v, ServerFits(v), v.process /= Nothing
    PROVE  /\ ServerFits(Sent(v)) /\ Sent(v).process /= Nothing
           /\ Sent(v).remote = v.remote /\ Sent(v).tools = v.tools
           /\ Sent(v).initialized = v.initialized
           /\ \A n : CountFits(v, n) => CountFits(Sent(v), n)
<1>1. CASE v.process.up
  <2>1. v.process \in Process /\ v \in ManagedServer
    BY DEF ServerFits, ManagedServer
  <2> DEFINE asked == v.process.asked \cup {"own"}
  <2>2. asked \in SUBSET Message /\ v.process.said \in Seq(Message)
    BY <2>1 DEF Process, Message
  <2> DEFINE said == v.process.said
  <2>3. Sent(v) = Piped(v, asked, said)
    BY <1>1, <2>1 DEF Sent, Piped, ManagedServer, Process
  <2>4. said \in Seq(Message)
    BY <2>2
  <2> HIDE DEF asked, said
  <2> QED BY <2>2, <2>3, <2>4, PipeKeeps
<1>2. CASE ~v.process.up
  BY <1>2 DEF Sent
<1> QED BY <1>1, <1>2

LEMMA WaitingKeeps ==
    ASSUME McpInv, op /= Nothing, op.todo /= <<>>, NEW v, Set(v), ServerFits(v),
           v.remote = Now.remote, v.tools = Now.tools, v.process /= Nothing,
           CountFits(v, failing[Here]), NEW n \in 0 .. 1, NEW m \in 0 .. MaxPages,
           Doing \in Readies \/ (Doing \in {"ping", "ask"} /\ v.initialized),
           op.name /= "call" => n = 0, n = 1 => Doing = "ask",
           op' = [op EXCEPT !.waiting = TRUE, !.sent = n, !.pages = m],
           UNCHANGED <<routes, failing>>
    PROVE  McpInv'
<1>1. op \in Operation /\ CallFits(op, Now) /\ OnlyHere(routes', failing')
  BY AtStep
<1>2. /\ op'.name = op.name /\ op'.part = op.part /\ op'.server = op.server
      /\ op'.todo = op.todo /\ op'.waiting = TRUE /\ op'.sent = n
  BY <1>1 DEF Operation
<1>3. op' \in Operation
  <2> DEFINE a == [op EXCEPT !.waiting = TRUE]
             b == [a EXCEPT !.sent = n]
             c == [b EXCEPT !.pages = m]
  <2>1. a \in Operation
    BY <1>1 DEF Operation
  <2>2. op' = c
    BY <1>1 DEF Operation
  <2> HIDE DEF a
  <2>3. b \in Operation
    BY <2>1 DEF Operation
  <2> HIDE DEF b
  <2>4. c \in Operation
    BY <2>3 DEF Operation
  <2> QED BY <2>2, <2>4
<1>4. /\ Consists(op'.name, op'.part)
      /\ op'.name = "discover" /\ v.remote => op'.part = "open"
      /\ StepsFit(op'.name, op'.part, v.remote, op'.todo)
  BY <1>1, <1>2 DEF CallFits
<1>5. ~v.remote /\ Relies(op') => v.initialized
  BY <1>2 DEF Relies, Doing, Readies, Opening
<1>6. CallFits(op', v)
  BY <1>2, <1>3, <1>4, <1>5 DEF CallFits, Doing, Readies
<1>7. Rebuilds(op)' \/ routes'[Here] \subseteq v.tools
  <2>1. op.name = "discover" => Rebuilds(op)'
    BY <1>2, <1>3, NothingAssumption DEF Rebuilds
  <2> QED BY <2>1, AtStep
<1> QED BY <1>1, <1>2, <1>6, <1>7, StepHere DEF Here

LEMMA InitializeKeeps == McpInv /\ Initialize => McpInv'
<1> SUFFICES ASSUME McpInv, Initialize PROVE McpInv'
  OBVIOUS
<1> DEFINE started == IF Fresh.process = Nothing
                      THEN [Fresh EXCEPT !.process = NewProcess, !.initialized = FALSE]
                      ELSE Fresh
<1>1. /\ op /= Nothing /\ op.todo /= <<>> /\ Doing \in Readies /\ ~op.waiting
      /\ Set(Sent(started)) /\ op' = [op EXCEPT !.waiting = TRUE]
      /\ UNCHANGED <<routes, failing>>
  BY DEF Initialize, At
<1>2. /\ ServerFits(started) /\ started.process /= Nothing
      /\ started.remote = Now.remote /\ started.tools = Now.tools
      /\ CountFits(started, failing[Here])
  <2>1. CASE Fresh.process /= Nothing
    BY <1>1, <2>1, FreshFits
  <2>2. CASE Fresh.process = Nothing
    <3>1. NewProcess \in Process /\ NewProcess /= Nothing
      <4>1. NewProcess \in Process
        BY EmptySeq DEF NewProcess, Process, Message
      <4> QED BY <4>1, NothingAssumption
    <3>2. started = [Fresh EXCEPT !.process = NewProcess, !.initialized = FALSE]
      BY <2>2
    <3>3. Fresh \in ManagedServer
      BY <1>1, FreshFits DEF ServerFits
    <3> HIDE DEF started
    <3>4. started \in ManagedServer
      BY <3>1, <3>2, <3>3 DEF ManagedServer
    <3>5. /\ started.remote = Fresh.remote /\ started.process = NewProcess
          /\ started.initialized = FALSE /\ started.tools = Fresh.tools
          /\ started.failures = Fresh.failures /\ started.status = Fresh.status
      BY <3>2, <3>3 DEF ManagedServer
    <3>6. ~Now.remote
      BY <1>1, AtStep DEF Readies
    <3> QED BY <1>1, <3>1, <3>4, <3>5, <3>6, FreshFits DEF ServerFits, CountFits
  <2> QED BY <2>1, <2>2
<1> HIDE DEF started
<1>3. /\ ServerFits(Sent(started)) /\ Sent(started).process /= Nothing
      /\ Sent(started).remote = Now.remote /\ Sent(started).tools = Now.tools
      /\ CountFits(Sent(started), failing[Here])
  BY <1>2, SentKeeps
<1>4. /\ op.sent \in 0 .. 1 /\ (op.name /= "call" => op.sent = 0)
      /\ op.sent = 1 => Doing = "ask"
      /\ op \in Operation
  BY <1>1, AtStep
<1>5. op' = [op EXCEPT !.waiting = TRUE, !.sent = op.sent, !.pages = op.pages]
      /\ op.pages \in 0 .. MaxPages
  BY <1>1, <1>4 DEF Operation
<1> QED BY <1>1, <1>3, <1>4, <1>5, WaitingKeeps

(* An answer that fits is taken from the pipe.                             *)
LEMMA ReadKeeps ==
    ASSUME McpInv, Arrived, op.todo /= <<>>
    PROVE  /\ ServerFits(Read) /\ Read.process /= Nothing
           /\ Read.remote = Now.remote /\ Read.tools = Now.tools
           /\ Read.initialized = Now.initialized
           /\ \A n : CountFits(Now, n) => CountFits(Read, n)
           /\ Head(Now.process.said) \in Message
<1>1. /\ op /= Nothing /\ op.waiting /\ Now.process.said /= <<>>
  BY DEF Arrived, Waiting
<1>2. ServerFits(Now) /\ Now \in ManagedServer /\ Now.process /= Nothing
  BY <1>1, AtStep
<1>3. Now.process \in Process
  BY <1>2 DEF ManagedServer
<1> DEFINE asked == Now.process.asked
           said == Tail(Now.process.said)
<1>4. asked \in SUBSET Message /\ said \in Seq(Message) /\ Head(Now.process.said) \in Message
  <2>1. Now.process.asked \in SUBSET Message /\ Now.process.said \in Seq(Message)
    BY <1>3 DEF Process
  <2> QED BY <1>1, <2>1
<1>5. Read = Piped(Now, asked, said)
  <2>1. [Now.process EXCEPT !.asked = Now.process.asked] = Now.process
    BY <1>3 DEF Process
  <2> HIDE DEF said
  <2>2. [Now.process EXCEPT !.said = said] = [Now.process EXCEPT !.asked = asked, !.said = said]
    BY <1>3 DEF Process
  <2>3. Read = [Now EXCEPT !.process = [Now.process EXCEPT !.said = said]]
    BY <1>2 DEF Read, ManagedServer, said
  <2> QED BY <2>2, <2>3 DEF Piped
<1> HIDE DEF asked, said
<1> QED BY <1>2, <1>4, <1>5, PipeKeeps

LEMMA AbandonedKeeps ==
    ASSUME NEW v, ServerFits(v), v.process /= Nothing
    PROVE  /\ ServerFits(Abandoned(v)) /\ Abandoned(v).remote = v.remote
           /\ Abandoned(v).tools = v.tools
           /\ \A n : CountFits(v, n) => CountFits(Abandoned(v), n)
<1>1. v.process \in Process /\ v \in ManagedServer
  BY DEF ServerFits, ManagedServer
<1> DEFINE asked == IF v.process.asked = {} THEN {} ELSE {"late"}
           said == [i \in DOMAIN v.process.said |-> "late"]
<1>2. asked \in SUBSET Message
  BY DEF Message
<1>3. said \in Seq(Message)
  <2>1. v.process.said \in Seq(Message)
    BY <1>1 DEF Process
  <2>2. Len(v.process.said) \in Nat /\ DOMAIN v.process.said = 1 .. Len(v.process.said)
    BY <2>1
  <2>3. said \in [1 .. Len(v.process.said) -> Message]
    BY <2>2 DEF Message
  <2> HIDE DEF said
  <2> QED BY <2>2, <2>3, SeqDef
<1>4. Abandoned(v) = Piped(v, asked, said)
  <2>1. Abandoned(v) = [v EXCEPT !.process = [v.process EXCEPT !.asked = asked, !.said = said]]
    BY <1>1 DEF Abandoned, ManagedServer, Process
  <2> QED BY <2>1 DEF Piped
<1> HIDE DEF asked, said
<1> QED BY <1>2, <1>3, <1>4, PipeKeeps

LEMMA FittingArrived ==
    ASSUME TakesFitting
    PROVE  Arrived /\ op /= Nothing
BY DEF TakesFitting, Arrived, Waiting

(* The server was told that the handshake is over.                         *)
Told(v, caps) == [v EXCEPT !.process.met = TRUE, !.initialized = TRUE, !.caps = caps]

LEMMA ToldFits ==
    ASSUME NEW v, ServerFits(v), v.process /= Nothing, NEW caps \in SUBSET Capability
    PROVE  /\ ServerFits(Told(v, caps)) /\ Told(v, caps).initialized
           /\ Told(v, caps).remote = v.remote /\ Told(v, caps).tools = v.tools
           /\ \A n : CountFits(v, n) => CountFits(Told(v, caps), n)
<1>1. v.process \in Process /\ v \in ManagedServer
  BY DEF ServerFits, ManagedServer
<1> DEFINE p == [v.process EXCEPT !.met = TRUE]
           w == Told(v, caps)
           a == [v EXCEPT !.process = p]
           b == [a EXCEPT !.initialized = TRUE]
           c == [b EXCEPT !.caps = caps]
<1>2. p \in Process /\ p.met = TRUE
  BY <1>1 DEF Process
<1>3. p /= Nothing
  BY <1>2, NothingAssumption
<1>4. w = c
  BY <1>1 DEF Told, ManagedServer
<1> HIDE DEF p
<1>5. a \in ManagedServer
  BY <1>1, <1>2 DEF ManagedServer
<1>6. /\ c.remote = v.remote /\ c.process = p /\ c.initialized = TRUE /\ c.tools = v.tools
      /\ c.failures = v.failures /\ c.status = v.status
  BY <1>1 DEF ManagedServer
<1> HIDE DEF a
<1>7. b \in ManagedServer
  BY <1>5 DEF ManagedServer
<1> HIDE DEF b
<1>8. c \in ManagedServer
  BY <1>7 DEF ManagedServer
<1> HIDE DEF c, w
<1>9. ServerFits(c)
  BY <1>2, <1>3, <1>6, <1>8, ServerFits(v) DEF ServerFits
<1>10. \A n : CountFits(v, n) => CountFits(c, n)
  BY <1>6 DEF CountFits
<1> QED BY <1>4, <1>6, <1>9, <1>10 DEF w

LEMMA InitializeAnsweredKeeps == McpInv /\ InitializeAnswered => McpInv'
<1> SUFFICES ASSUME McpInv, InitializeAnswered PROVE McpInv'
  OBVIOUS
<1>1. op /= Nothing /\ op.todo /= <<>> /\ Doing \in Readies /\ TakesFitting
  BY DEF InitializeAnswered, At
<1>2. Arrived
  BY <1>1, FittingArrived
<1>3. /\ ServerFits(Read) /\ Read.process /= Nothing
      /\ Read.remote = Now.remote /\ Read.tools = Now.tools
      /\ CountFits(Read, failing[Here])
  BY <1>1, <1>2, ReadKeeps, AtStep
<1>4. /\ failing \in [Server -> 0 .. 3] /\ Cleared \in [Server -> 0 .. 3] /\ Cleared[Here] = 0
      /\ \A s \in Server \ {Here} : Cleared[s] = failing[s]
      /\ \A s \in Server \ {Here} : failing[s] = failing[s]
      /\ OnlyHere(routes, Cleared)
      /\ op.name /= "discover" => routes[Here] \subseteq Now.tools
      /\ failing[Here] \in 0 .. 3
  BY <1>1, AtStep
<1> DEFINE met == MarkSuccess(Read)
<1>5. /\ ServerFits(met) /\ met.process /= Nothing /\ met.remote = Now.remote
      /\ met.tools = Now.tools /\ CountFits(met, 0)
  BY <1>3, SuccessKeeps DEF Alike
<1> HIDE DEF met
<1>6. Doing \notin {"remote", "skip"}
  BY <1>1 DEF Readies
<1>7. ASSUME NEW caps \in SUBSET Capability, Notified(met, caps) PROVE McpInv'
  <2>1. CASE Set(Told(met, caps)) /\ op' = Popped /\ failing' = Cleared /\ UNCHANGED routes
    <3>1. /\ ServerFits(Told(met, caps)) /\ Told(met, caps).initialized
          /\ Told(met, caps).remote = Now.remote /\ Told(met, caps).tools = Now.tools
          /\ CountFits(Told(met, caps), 0)
      BY <1>5, ToldFits
    <3>2. OnlyHere(routes', failing') /\ CountFits(Told(met, caps), failing'[Here])
      BY <1>4, <2>1, <3>1
    <3>3. op.name = "discover" \/ routes'[Here] \subseteq Told(met, caps).tools
      BY <1>4, <2>1, <3>1
    <3> QED BY <1>1, <1>2, <1>6, <2>1, <3>1, <3>2, <3>3, PoppedKeeps
  <2>2. CASE \E e \in Retryable : Raise(met, Cleared, e)
    <3>1. PICK e \in Retryable : Raise(met, Cleared, e)
      BY <2>2
    <3>2. e \in Error /\ CountFits(met, Cleared[Here])
      BY <1>4, <1>5 DEF Retryable, Error
    <3> QED BY <1>1, <1>2, <1>4, <1>5, <1>6, <3>1, <3>2, RaiseKeeps
  <2> QED BY <1>7, <2>1, <2>2 DEF Notified, Told
<1>8. ASSUME Raise(Reset(MarkFailure(Read)), failing, "JsonRpc") PROVE McpInv'
  <2> DEFINE w == Reset(MarkFailure(Read))
  <2>1. /\ ServerFits(MarkFailure(Read)) /\ Alike(Read, MarkFailure(Read))
        /\ CountFits(MarkFailure(Read), failing[Here])
    BY <1>3, <1>4, FailureKeeps
  <2>2. ServerFits(w) /\ w.remote = Now.remote /\ w.tools = Now.tools
        /\ CountFits(w, failing[Here])
    BY <1>3, <2>1, ResetKeeps DEF Alike
  <2> HIDE DEF w
  <2>3. Raise(w, failing, "JsonRpc") /\ "JsonRpc" \in Error
    BY <1>8 DEF w, Error
  <2> QED BY <1>1, <1>2, <1>4, <1>6, <2>2, <2>3, RaiseKeeps
<1>9. ASSUME Raise(Reset(met), Cleared, "InvalidResponse") PROVE McpInv'
  <2> DEFINE w == Reset(met)
  <2>1. ServerFits(w) /\ w.remote = Now.remote /\ w.tools = Now.tools
        /\ CountFits(w, Cleared[Here])
    BY <1>4, <1>5, ResetKeeps
  <2> HIDE DEF w
  <2>2. Raise(w, Cleared, "InvalidResponse") /\ "InvalidResponse" \in Error
    BY <1>9 DEF w, Error
  <2> QED BY <1>1, <1>2, <1>4, <1>6, <2>1, <2>2, RaiseKeeps
<1> QED BY <1>7, <1>8, <1>9 DEF InitializeAnswered, met

LEMMA PingAnsweredKeeps == McpInv /\ PingAnswered => McpInv'
<1> SUFFICES ASSUME McpInv, PingAnswered PROVE McpInv'
  OBVIOUS
<1>1. op /= Nothing /\ op.todo /= <<>> /\ Doing = "ping" /\ TakesFitting
  BY DEF PingAnswered, At
<1>2. Arrived
  BY <1>1, FittingArrived
<1>3. /\ ServerFits(Read) /\ Read.remote = Now.remote /\ Read.tools = Now.tools
      /\ Read.initialized = Now.initialized
      /\ CountFits(Read, failing[Here])
  BY <1>1, <1>2, ReadKeeps, AtStep
<1>4. /\ failing \in [Server -> 0 .. 3] /\ Cleared[Here] = 0
      /\ \A s \in Server \ {Here} : failing[s] = failing[s]
      /\ OnlyHere(routes, Cleared) /\ OnlyHere(routes, failing)
      /\ op.name /= "discover" => routes[Here] \subseteq Now.tools
      /\ ~Now.remote => Now.initialized
      /\ failing[Here] \in 0 .. 3
  BY <1>1, AtStep DEF Opening
<1>5. Doing \notin {"remote", "skip"}
  BY <1>1
<1>6. CASE /\ Set(IF op.name = "check" THEN MarkSuccess(Read) ELSE Preflight(Read))
           /\ op' = Popped
           /\ failing' = IF op.name = "check" THEN Cleared ELSE failing
           /\ UNCHANGED routes
  <2> DEFINE w == IF op.name = "check" THEN MarkSuccess(Read) ELSE Preflight(Read)
  <2>1. ServerFits(w) /\ Alike(Read, w) /\ CountFits(w, failing'[Here])
    <3>1. CASE op.name = "check"
      BY <1>3, <1>4, <1>6, <3>1, SuccessKeeps
    <3>2. CASE op.name /= "check"
      BY <1>3, <1>4, <1>6, <3>2, PreflightKeeps
    <3> QED BY <3>1, <3>2
  <2>2. OnlyHere(routes', failing')
    BY <1>4, <1>6
  <2>3. Set(w)
    BY <1>6
  <2> HIDE DEF w
  <2>4. /\ w.remote = Now.remote /\ (~w.remote => w.initialized)
        /\ op.name = "discover" \/ routes'[Here] \subseteq w.tools
    BY <1>3, <1>4, <1>6, <2>1 DEF Alike
  <2> QED BY <1>1, <1>2, <1>5, <1>6, <2>1, <2>2, <2>3, <2>4, PoppedKeeps
<1>7. CASE Raise(Read, failing, "JsonRpc")
  <2>1. "JsonRpc" \in Error
    BY DEF Error
  <2> QED BY <1>1, <1>2, <1>3, <1>4, <1>5, <1>7, <2>1, RaiseKeeps
<1> QED BY <1>6, <1>7 DEF PingAnswered

LEMMA ListedFits ==
    ASSUME NEW v, ServerFits(v), NEW w \in Listed(v)
    PROVE  /\ ServerFits(w) /\ w.remote = v.remote /\ w.initialized = v.initialized
           /\ op.part /= "tools" => w.tools = v.tools
           /\ \A n : CountFits(v, n) => CountFits(w, n)
<1>1. v \in ManagedServer
  BY DEF ServerFits
<1>2. CASE op.part = "tools"
  <2>1. PICK ts \in SUBSET Tool : w = [v EXCEPT !.tools = ts]
    BY <1>2 DEF Listed
  <2>2. w \in ManagedServer
    BY <1>1, <2>1 DEF ManagedServer
  <2>3. /\ w.remote = v.remote /\ w.process = v.process /\ w.initialized = v.initialized
        /\ w.failures = v.failures /\ w.status = v.status
    BY <1>1, <2>1 DEF ManagedServer
  <2> QED BY <1>2, <2>2, <2>3 DEF ServerFits, CountFits
<1>3. CASE op.part = "prompts"
  <2>1. PICK ps \in SUBSET PromptName :
           w = [v EXCEPT !.prompts = ps, !.prompts_complete = TRUE]
    BY <1>3 DEF Listed
  <2>2. w \in ManagedServer
    BY <1>1, <2>1 DEF ManagedServer
  <2>3. /\ w.remote = v.remote /\ w.process = v.process /\ w.initialized = v.initialized
        /\ w.failures = v.failures /\ w.status = v.status /\ w.tools = v.tools
    BY <1>1, <2>1 DEF ManagedServer
  <2> QED BY <2>2, <2>3 DEF ServerFits, CountFits
<1>4. CASE op.part \notin {"tools", "prompts"}
  <2>1. w = v
    BY <1>4 DEF Listed
  <2> QED BY <2>1
<1> QED BY <1>2, <1>3, <1>4

(* Only a listing of tools lists tools.                                    *)
LEMMA ListsTools ==
    ASSUME McpInv, op /= Nothing
    PROVE  op.part = "tools" => op.name \in {"list_tools", "discover"}
<1>1. Consists(op.name, op.part) /\ op.name \in Name
  BY WorkedOn DEF CallFits, Operation
<1> QED BY <1>1 DEF Consists, Name, Listings

LEMMA AskAnsweredKeeps == McpInv /\ AskAnswered => McpInv'
<1> SUFFICES ASSUME McpInv, AskAnswered PROVE McpInv'
  OBVIOUS
<1>1. op /= Nothing /\ op.todo /= <<>> /\ Doing = "ask" /\ TakesFitting
  BY DEF AskAnswered, At
<1>2. Arrived /\ op.waiting
  BY <1>1, FittingArrived DEF Arrived, Waiting
<1>3. /\ ServerFits(Read) /\ Read.remote = Now.remote /\ Read.tools = Now.tools
      /\ Read.initialized = Now.initialized /\ Read.process /= Nothing
      /\ CountFits(Read, failing[Here])
  BY <1>1, <1>2, ReadKeeps, AtStep
<1>4. /\ failing \in [Server -> 0 .. 3] /\ Cleared[Here] = 0
      /\ \A s \in Server \ {Here} : failing[s] = failing[s]
      /\ OnlyHere(routes, Cleared)
      /\ op.name /= "discover" => routes[Here] \subseteq Now.tools
      /\ ~Now.remote /\ Now.initialized
      /\ Tail(op.todo) = <<>>
      /\ op.sent \in 0 .. 1 /\ (op.name /= "call" => op.sent = 0)
      /\ op \in Operation
  BY <1>1, AtStep DEF Opening
<1>5. Doing \notin {"remote", "skip"}
  BY <1>1
<1>6. CASE /\ \E v \in Listed(MarkSuccess(Read)) : Set(v)
           /\ op' = Popped /\ failing' = Cleared /\ UNCHANGED routes
  <2>1. PICK v \in Listed(MarkSuccess(Read)) : Set(v)
    BY <1>6
  <2>2. /\ ServerFits(MarkSuccess(Read)) /\ Alike(Read, MarkSuccess(Read))
        /\ CountFits(MarkSuccess(Read), 0)
    BY <1>3, SuccessKeeps
  <2>3. /\ ServerFits(v) /\ v.remote = MarkSuccess(Read).remote
        /\ v.initialized = MarkSuccess(Read).initialized
        /\ op.part /= "tools" => v.tools = MarkSuccess(Read).tools
        /\ CountFits(v, 0)
    BY <2>2, ListedFits
  <2>4. /\ v.remote = Now.remote /\ (~v.remote => v.initialized)
        /\ op.part /= "tools" => v.tools = Now.tools
    BY <1>3, <1>4, <2>2, <2>3 DEF Alike
  <2>5. \/ op.name = "discover"
        \/ op.name = "list_tools" /\ Tail(op.todo) = <<>>
        \/ routes'[Here] \subseteq v.tools
    BY <1>1, <1>4, <1>6, <2>4, ListsTools
  <2>6. OnlyHere(routes', failing') /\ CountFits(v, failing'[Here])
    BY <1>4, <1>6, <2>3
  <2> QED BY <1>1, <1>2, <1>5, <1>6, <2>1, <2>3, <2>4, <2>5, <2>6, PoppedKeeps
<1>7. CASE /\ op.part \in Listings /\ op.pages + 1 < MaxPages
           /\ Set(Sent(Read))
           /\ op' = [op EXCEPT !.pages = @ + 1]
           /\ UNCHANGED <<routes, failing>>
  <2> DEFINE m == op.pages + 1
             n == op.sent
             w == Sent(Read)
  <2>1. /\ ServerFits(w) /\ w.process /= Nothing
        /\ w.remote = Now.remote /\ w.tools = Now.tools /\ w.initialized
        /\ CountFits(w, failing[Here])
    BY <1>3, <1>4, SentKeeps
  <2>2. m \in 0 .. MaxPages
    <3>1. op.pages \in 0 .. MaxPages
      BY <1>4 DEF Operation
    <3> QED BY <1>7, <3>1, ManagerAssumption
  <2>3. op' = [op EXCEPT !.waiting = TRUE, !.sent = n, !.pages = m]
    <3>1. op.waiting = TRUE
      BY <1>2, <1>4 DEF Operation
    <3> QED BY <1>4, <1>7, <3>1 DEF Operation
  <2>4. n \in 0 .. 1 /\ (op.name /= "call" => n = 0) /\ Set(w)
        /\ UNCHANGED <<routes, failing>>
    BY <1>2, <1>4, <1>7
  <2> HIDE DEF m, n, w
  <2> QED BY <1>1, <2>1, <2>2, <2>3, <2>4, WaitingKeeps
<1>8. CASE \E e \in {"JsonRpc", "InvalidResponse", "LimitExceeded"} : Raise(Read, failing, e)
  <2>1. PICK e \in {"JsonRpc", "InvalidResponse", "LimitExceeded"} : Raise(Read, failing, e)
    BY <1>8
  <2>2. e \in Error
    BY DEF Error
  <2> QED BY <1>1, <1>2, <1>3, <1>4, <1>5, <2>1, <2>2, RaiseKeeps
<1> QED BY <1>6, <1>7, <1>8 DEF AskAnswered

(* There will be no answer.                                                *)
LEMMA NoAnswerKeeps ==
    ASSUME McpInv, Waiting, NEW v, NEW e \in Error, NoAnswerIn(v, e), ServerFits(v),
           v.remote = Now.remote, v.tools = Now.tools, CountFits(v, failing[Here])
    PROVE  McpInv'
<1>1. op /= Nothing /\ op.waiting
  BY DEF Waiting
<1>2. op.todo /= <<>>
  BY <1>1, WorkedOn DEF CallFits
<1>3. /\ failing \in [Server -> 0 .. 3] /\ failing[Here] \in 0 .. 3
      /\ \A s \in Server \ {Here} : failing[s] = failing[s]
      /\ op \in Operation /\ CallFits(op, Now) /\ OnlyHere(routes, failing)
      /\ op.name /= "discover" => routes[Here] \subseteq Now.tools
      /\ Doing \in {"ready", "ping_ready", "ping", "ask"}
      /\ op.sent = 1 => Doing = "ask"
      /\ op.sent \in 0 .. 1
  BY <1>1, <1>2, AtStep
<1>4. CASE Raise(v, failing, e)
  BY <1>1, <1>2, <1>3, <1>4, RaiseKeeps
<1>5. CASE At(Readies) /\ InitializeFails(v, e)
  <2> DEFINE w == Reset(MarkFailure(v))
  <2>1. /\ ServerFits(MarkFailure(v)) /\ Alike(v, MarkFailure(v))
        /\ CountFits(MarkFailure(v), failing[Here])
    BY <1>3, FailureKeeps
  <2>2. ServerFits(w) /\ w.remote = Now.remote /\ w.tools = Now.tools
        /\ CountFits(w, failing[Here])
    BY <2>1, ResetKeeps DEF Alike
  <2>3. CASE /\ Set(w) /\ op' = [op EXCEPT !.waiting = FALSE, !.tries = 1]
             /\ UNCHANGED <<routes, failing>>
    <3> HIDE DEF w
    <3>1. /\ op'.name = op.name /\ op'.part = op.part /\ op'.server = op.server
          /\ op'.todo = op.todo /\ op'.waiting = FALSE /\ op'.sent = op.sent
          /\ op' \in Operation
      <4> DEFINE a == [op EXCEPT !.waiting = FALSE]
                 b == [a EXCEPT !.tries = 1]
      <4>1. a \in Operation
        BY <1>3 DEF Operation
      <4>2. op' = b
        BY <1>3, <2>3 DEF Operation
      <4>3. /\ b.name = op.name /\ b.part = op.part /\ b.server = op.server
            /\ b.todo = op.todo /\ b.waiting = FALSE /\ b.sent = op.sent
        BY <1>3 DEF Operation
      <4> HIDE DEF a
      <4>4. b \in Operation
        BY <4>1 DEF Operation
      <4> QED BY <4>2, <4>3, <4>4
    <3>2. Doing \in Opening /\ Doing /= "ask"
      BY <1>5 DEF At, Readies, Opening
    <3>3. ~Relies(op') /\ op.sent /= 1
      BY <1>2, <1>3, <3>1, <3>2 DEF Relies, Doing
    <3>4. /\ Consists(op'.name, op'.part)
          /\ op'.name = "discover" /\ w.remote => op'.part = "open"
          /\ StepsFit(op'.name, op'.part, w.remote, op'.todo)
          /\ op'.name /= "call" => op'.sent = 0
          /\ op'.sent <= 1
      BY <1>3, <2>2, <3>1 DEF CallFits
    <3>5. CallFits(op', w)
      BY <3>1, <3>3, <3>4 DEF CallFits
    <3>6. Rebuilds(op)' \/ routes'[Here] \subseteq w.tools
      <4>1. op.name = "discover" => Rebuilds(op)'
        BY <3>1, NothingAssumption DEF Rebuilds
      <4> QED BY <1>3, <2>2, <2>3, <4>1
    <3>7. OnlyHere(routes', failing') /\ CountFits(w, failing'[Here])
      BY <1>3, <2>2, <2>3
    <3> QED BY <1>1, <2>2, <2>3, <3>1, <3>5, <3>6, <3>7, StepHere DEF Here
  <2>4. CASE Raise(w, failing, e)
    <3> HIDE DEF w
    <3> QED BY <1>1, <1>2, <1>3, <2>2, <2>4, RaiseKeeps
  <2> QED BY <1>5, <2>3, <2>4 DEF InitializeFails
<1> QED BY <1>4, <1>5 DEF NoAnswerIn

LEMMA NoAnswersKeep == McpInv /\ (AnswerIsInvalid \/ Disconnected \/ TimesOut) => McpInv'
<1> SUFFICES ASSUME McpInv, AnswerIsInvalid \/ Disconnected \/ TimesOut PROVE McpInv'
  OBVIOUS
<1>1. Waiting /\ op /= Nothing /\ op.waiting
  BY DEF AnswerIsInvalid, Disconnected, TimesOut, Arrived, Waiting
<1>2. op.todo /= <<>>
  BY <1>1, WorkedOn DEF CallFits
<1>3. /\ ServerFits(Now) /\ Now.process /= Nothing
      /\ CountFits(Now, failing[Here])
  BY <1>1, <1>2, AtStep
<1>4. CASE AnswerIsInvalid
  <2>1. NoAnswerIn(Abandoned(Read), "InvalidResponse") /\ Arrived
    BY <1>4 DEF AnswerIsInvalid
  <2>2. /\ ServerFits(Read) /\ Read.process /= Nothing
        /\ Read.remote = Now.remote /\ Read.tools = Now.tools
        /\ CountFits(Read, failing[Here])
    BY <1>2, <1>3, <2>1, ReadKeeps
  <2>3. /\ ServerFits(Abandoned(Read)) /\ Abandoned(Read).remote = Now.remote
        /\ Abandoned(Read).tools = Now.tools
        /\ CountFits(Abandoned(Read), failing[Here])
    BY <2>2, AbandonedKeeps
  <2>4. "InvalidResponse" \in Error
    BY DEF Error
  <2> QED BY <1>1, <2>1, <2>3, <2>4, NoAnswerKeeps
<1>5. CASE Disconnected \/ TimesOut
  <2>1. PICK e \in {"Transport", "Timeout"} : NoAnswerIn(Abandoned(Now), e)
    BY <1>5 DEF Disconnected, TimesOut
  <2>2. /\ ServerFits(Abandoned(Now)) /\ Abandoned(Now).remote = Now.remote
        /\ Abandoned(Now).tools = Now.tools
        /\ CountFits(Abandoned(Now), failing[Here])
    BY <1>3, AbandonedKeeps
  <2>3. e \in Error
    BY DEF Error
  <2> QED BY <1>1, <2>1, <2>2, <2>3, NoAnswerKeeps
<1> QED BY <1>4, <1>5

LEMMA CheckKeeps == McpInv /\ Check => McpInv'
<1> SUFFICES ASSUME McpInv, Check PROVE McpInv'
  OBVIOUS
<1>1. op /= Nothing /\ op.todo /= <<>> /\ Doing \in {"capable", "known"}
  BY DEF Check, At
<1>2. /\ ServerFits(Now) /\ CountFits(Now, failing[Here]) /\ OnlyHere(routes, failing)
      /\ failing \in [Server -> 0 .. 3]
      /\ \A s \in Server \ {Here} : failing[s] = failing[s]
      /\ op.name /= "discover" => routes[Here] \subseteq Now.tools
      /\ ~Now.remote => Now.initialized
      /\ servers = [servers EXCEPT ![Here] = Now]
  BY <1>1, AtStep DEF Opening
<1>3. Doing \notin {"remote", "skip"}
  BY <1>1
<1>4. CASE op' = Popped /\ UNCHANGED <<servers, routes, failing>>
  <2>1. /\ Set(Now) /\ OnlyHere(routes', failing') /\ CountFits(Now, failing'[Here])
        /\ op.name = "discover" \/ routes'[Here] \subseteq Now.tools
    BY <1>2, <1>4 DEF Set
  <2> QED BY <1>1, <1>2, <1>3, <1>4, <2>1, PoppedKeeps
<1>5. CASE Raise(Now, failing, "Unsupported")
  <2>1. "Unsupported" \in Error
    BY DEF Error
  <2> QED BY <1>1, <1>2, <1>3, <1>5, <2>1, RaiseKeeps
<1> QED BY <1>4, <1>5 DEF Check

LEMMA SendKeeps == McpInv /\ Send => McpInv'
<1> SUFFICES ASSUME McpInv, Send PROVE McpInv'
  OBVIOUS
<1>1. /\ op /= Nothing /\ op.todo /= <<>> /\ Doing \in {"ping", "ask"} /\ ~op.waiting
      /\ Set(Sent(Now)) /\ op' = [op EXCEPT !.waiting = TRUE, !.sent = OneMore]
      /\ UNCHANGED <<routes, failing>>
  BY DEF Send, At
<1>2. /\ ServerFits(Now) /\ CountFits(Now, failing[Here])
      /\ ~Now.remote /\ Now.initialized
      /\ op.sent \in 0 .. 1 /\ (op.name /= "call" => op.sent = 0)
      /\ op.sent /= 1
      /\ op \in Operation
  BY <1>1, AtStep DEF Opening
<1>3. Now.process /= Nothing
  BY <1>2 DEF ServerFits
<1> DEFINE n == OneMore
           m == op.pages
           w == Sent(Now)
<1>4. /\ ServerFits(w) /\ w.process /= Nothing /\ w.initialized
      /\ w.remote = Now.remote /\ w.tools = Now.tools
      /\ CountFits(w, failing[Here])
  BY <1>2, <1>3, SentKeeps
<1>5. n \in 0 .. 1 /\ (op.name /= "call" => n = 0) /\ (n = 1 => Doing = "ask")
  BY <1>1, <1>2 DEF OneMore
<1>6. op' = [op EXCEPT !.waiting = TRUE, !.sent = n, !.pages = m] /\ m \in 0 .. MaxPages
  BY <1>1, <1>2 DEF Operation
<1>7. Set(w)
  BY <1>1
<1> HIDE DEF n, m, w
<1> QED BY <1>1, <1>4, <1>5, <1>6, <1>7, WaitingKeeps

LEMMA SkipKeeps == McpInv /\ Skip => McpInv'
<1> SUFFICES ASSUME McpInv, Skip PROVE McpInv'
  OBVIOUS
<1>1. op /= Nothing /\ op.todo /= <<>> /\ Doing = "skip"
  BY DEF Skip, At
<1>2. /\ ServerFits(Now) /\ Now \in ManagedServer /\ CountFits(Now, failing[Here])
      /\ OnlyHere(routes, failing) /\ Here \in Server
      /\ ~Now.remote
      /\ op.sent \in 0 .. 1 /\ (op.name /= "call" => op.sent = 0)
      /\ op.sent = 1 => Tail(op.todo) = <<>>
      /\ servers = [servers EXCEPT ![Here] = Now]
      /\ op \in Operation /\ op.name = "discover"
  BY <1>1, AtStep DEF MayHave
<1>3. /\ op' = Popped /\ UNCHANGED failing
      /\ \/ Set([Now EXCEPT !.tools = {}]) /\ routes' = Unrouted(routes)
         \/ Set([Now EXCEPT !.prompts = {}, !.prompts_complete = TRUE]) /\ UNCHANGED routes
         \/ UNCHANGED <<servers, routes>>
  BY DEF Skip
<1>4. op' = Done(op, op.sent)
  BY <1>2, <1>3, PoppedIsDone
<1>5. PICK v : /\ Set(v) /\ v \in {[Now EXCEPT !.tools = {}],
                                   [Now EXCEPT !.prompts = {}, !.prompts_complete = TRUE], Now}
               /\ routes' \in {Unrouted(routes), routes}
  BY <1>2, <1>3 DEF Set
<1>6. /\ v \in ManagedServer /\ v.remote = Now.remote /\ v.process = Now.process
      /\ v.initialized = Now.initialized /\ v.failures = Now.failures /\ v.status = Now.status
  <2>1. CASE v = [Now EXCEPT !.tools = {}]
    BY <1>2, <2>1 DEF ManagedServer
  <2>2. CASE v = [Now EXCEPT !.prompts = {}, !.prompts_complete = TRUE]
    <3>1. v \in ManagedServer
      BY <1>2, <2>2 DEF ManagedServer
    <3> QED BY <1>2, <2>2, <3>1 DEF ManagedServer
  <2>3. CASE v = Now
    BY <1>2, <2>3
  <2> QED BY <1>5, <2>1, <2>2, <2>3
<1>7. ServerFits(v) /\ CountFits(v, failing'[Here])
  BY <1>2, <1>3, <1>6 DEF ServerFits, CountFits
<1>8. OnlyHere(routes', failing')
  BY <1>2, <1>3, <1>5 DEF OnlyHere, Unrouted
<1> QED BY <1>1, <1>2, <1>3, <1>4, <1>5, <1>6, <1>7, <1>8, DoneKeeps

LEMMA RemoteDoneKeeps == McpInv /\ RemoteDone => McpInv'
<1> SUFFICES ASSUME McpInv, RemoteDone PROVE McpInv'
  OBVIOUS
<1>1. /\ op /= Nothing /\ op.todo /= <<>> /\ Doing = "remote"
      /\ op' = [Popped EXCEPT !.sent = OneMore]
      /\ failing' = Cleared /\ UNCHANGED routes
  BY DEF RemoteDone, At
<1>2. /\ ServerFits(Now) /\ Now.remote
      /\ op.name /= "discover" => routes[Here] \subseteq Now.tools
      /\ op.sent \in 0 .. 1 /\ (op.name /= "call" => op.sent = 0)
      /\ op.sent /= 1
      /\ op \in Operation
      /\ Tail(op.todo) = <<>>
      /\ OnlyHere(routes, Cleared) /\ Cleared[Here] = 0
      /\ MayHave(op.name, op.part, Now.remote, Doing)
  BY <1>1, AtStep
<1>3. OneMore \in 0 .. 1 /\ (op.name /= "call" => OneMore = 0)
  BY <1>1, <1>2 DEF OneMore
<1>4. op' = Done(op, OneMore)
  BY <1>1, <1>2, PoppedIsDone
<1> DEFINE n == OneMore
           met == MarkSuccess(Now)
<1>5. ServerFits(met) /\ Alike(Now, met) /\ CountFits(met, 0) /\ met \in ManagedServer
  BY <1>2, SuccessKeeps DEF ServerFits
<1> HIDE DEF met, n
<1>6. PICK v : /\ Set(v) /\ ServerFits(v) /\ v.remote /\ CountFits(v, 0)
               /\ \/ op.name = "discover" \/ op.name = "list_tools"
                  \/ v.tools = Now.tools
  <2>1. PICK caps \in SUBSET Capability :
           LET connected == [met EXCEPT !.caps = caps, !.initialized = TRUE]
           IN  IF op.name \in {"call", "check"} THEN Set(met)
               ELSE IF op.part = "open"
               THEN \E ts \in SUBSET Tool, ps \in SUBSET PromptName, complete \in BOOLEAN :
                        Set([connected EXCEPT !.tools = ts, !.prompts = ps,
                                              !.prompts_complete = complete])
               ELSE \E v \in Listed(connected) : Set(v)
    BY DEF RemoteDone, met
  <2> DEFINE connected == [met EXCEPT !.caps = caps, !.initialized = TRUE]
  <2>2. /\ connected \in ManagedServer
        /\ connected.remote = met.remote /\ connected.process = met.process
        /\ connected.tools = met.tools /\ connected.failures = met.failures
        /\ connected.status = met.status
    <3> DEFINE a == [met EXCEPT !.caps = caps]
    <3>1. a \in ManagedServer
      BY <1>5 DEF ManagedServer
    <3>2. connected = [a EXCEPT !.initialized = TRUE]
      OBVIOUS
    <3>3. /\ connected.remote = met.remote /\ connected.process = met.process
          /\ connected.tools = met.tools /\ connected.failures = met.failures
          /\ connected.status = met.status
      BY <1>5 DEF ManagedServer
    <3> HIDE DEF a, connected
    <3>4. connected \in ManagedServer
      BY <3>1, <3>2 DEF ManagedServer
    <3> QED BY <3>3, <3>4
  <2> HIDE DEF connected
  <2>3. met.remote
    BY <1>2, <1>5 DEF Alike
  <2>4. ServerFits(connected) /\ CountFits(connected, 0) /\ connected.remote
    BY <1>5, <2>2, <2>3 DEF ServerFits, CountFits
  <2>5. CASE op.name \in {"call", "check"}
    <3>1. Set(met) /\ met.tools = Now.tools
      BY <1>5, <2>1, <2>5 DEF Alike
    <3> QED BY <1>5, <2>3, <3>1
  <2>6. CASE op.name \notin {"call", "check"} /\ op.part = "open"
    <3>1. PICK ts \in SUBSET Tool, ps \in SUBSET PromptName, complete \in BOOLEAN :
             Set([connected EXCEPT !.tools = ts, !.prompts = ps,
                                   !.prompts_complete = complete])
      BY <2>1, <2>6 DEF connected
    <3> DEFINE a == [connected EXCEPT !.tools = ts]
               b == [a EXCEPT !.prompts = ps]
               c == [b EXCEPT !.prompts_complete = complete]
    <3>2. Set(c)
      BY <3>1
    <3>3. a \in ManagedServer
      BY <2>2 DEF ManagedServer
    <3>4. /\ c.remote = connected.remote /\ c.process = connected.process
          /\ c.failures = connected.failures /\ c.status = connected.status
      BY <2>2 DEF ManagedServer
    <3> HIDE DEF a
    <3>5. b \in ManagedServer
      BY <3>3 DEF ManagedServer
    <3> HIDE DEF b
    <3>6. c \in ManagedServer
      BY <3>5 DEF ManagedServer
    <3> HIDE DEF c
    <3>7. ServerFits(c) /\ c.remote /\ CountFits(c, 0)
      BY <2>4, <3>4, <3>6 DEF ServerFits, CountFits
    <3>8. op.name = "discover"
      BY <1>1, <1>2, <2>6 DEF MayHave
    <3> QED BY <3>2, <3>7, <3>8
  <2>7. CASE op.name \notin {"call", "check"} /\ op.part /= "open"
    <3>1. PICK v \in Listed(connected) : Set(v)
      BY <2>1, <2>7 DEF connected
    <3>2. /\ ServerFits(v) /\ v.remote = connected.remote /\ CountFits(v, 0)
          /\ op.part /= "tools" => v.tools = connected.tools
      BY <2>4, <3>1, ListedFits
    <3>3. op.part = "tools" => op.name \in {"list_tools", "discover"}
      BY <1>1, ListsTools
    <3>4. connected.tools = Now.tools
      BY <1>5, <2>2 DEF Alike
    <3> QED BY <2>4, <3>1, <3>2, <3>3, <3>4
  <2> QED BY <2>5, <2>6, <2>7
<1>7. /\ n \in 0 .. 1 /\ (op.name /= "call" => n = 0) /\ op' = Done(op, n)
  BY <1>3, <1>4 DEF n
<1>8. /\ OnlyHere(routes', failing') /\ CountFits(v, failing'[Here])
      /\ \/ op.name = "discover"
         \/ op.name = "list_tools" /\ Tail(op.todo) = <<>>
         \/ routes'[Here] \subseteq v.tools
  BY <1>1, <1>2, <1>6
<1>9. v.remote = Now.remote /\ ~(~v.remote)
  <2>1. v.remote \in BOOLEAN /\ Now.remote \in BOOLEAN
    BY <1>2, <1>6 DEF ServerFits, ManagedServer
  <2> QED BY <1>2, <1>6, <2>1
<1> QED BY <1>1, <1>2, <1>6, <1>7, <1>8, <1>9, DoneKeeps

(* What a failed request to a remote server adds to the count.             *)
LEMMA CountedRemote ==
    ASSUME McpInv, op /= Nothing, op.todo /= <<>>, Doing = "remote", NEW e \in Error,
           Counted(failing, e), NEW v, ServerFits(v),
           CountFits(v, failing[Here]), NEW w,
           w = IF op.name = "check" THEN MarkFailure(v) ELSE Recorded(v, e)
    PROVE  OnlyHere(routes, failing') /\ CountFits(w, failing'[Here])
<1> DEFINE n == failing[Here]
           more == IF n = 3 THEN 3 ELSE n + 1
           up == [failing EXCEPT ![Here] = more]
<1>1. /\ n \in 0 .. 3 /\ more \in 0 .. 3 /\ Here \in Server
      /\ OnlyHere(routes, failing) /\ OnlyHere(routes, Cleared) /\ Cleared[Here] = 0
  BY AtStep
<1>2. OnlyHere(routes, up) /\ up[Here] = more
  BY <1>1 DEF OnlyHere
<1>3. /\ CountFits(MarkFailure(v), more) /\ CountFits(MarkSuccess(v), 0)
  BY <1>1, FailureKeeps, SuccessKeeps
<1> DEFINE raised == [failing EXCEPT ![Here] = IF @ = 3 THEN 3 ELSE @ + 1]
<1>4. failing' = CASE Doing \in {"ping_ready", "ping"} \/ op.name = "check"
                      \/ (Doing \in {"ask", "remote"} /\ TransportFailure(e)) -> raised
                   [] Doing \in {"ask", "remote"} /\ ~TransportFailure(e)
                      /\ op.name /= "check" -> Cleared
                   [] OTHER -> failing
  BY DEF Counted
<1>5. raised = up
  OBVIOUS
<1> HIDE DEF raised, up, more
<1>6. CASE op.name = "check" \/ TransportFailure(e)
  <2>1. failing' = up
    BY <1>4, <1>5, <1>6
  <2>2. w = MarkFailure(v)
    BY <1>6 DEF Recorded
  <2> QED BY <1>2, <1>3, <2>1, <2>2
<1>7. CASE op.name /= "check" /\ ~TransportFailure(e)
  <2>1. failing' = Cleared
    BY <1>4, <1>7
  <2>2. w = MarkSuccess(v)
    BY <1>7 DEF Recorded
  <2> QED BY <1>1, <1>3, <2>1, <2>2
<1> QED BY <1>6, <1>7

LEMMA RemoteUnconnectedKeeps ==
    ASSUME McpInv, NEW e \in {"Transport", "Timeout", "InvalidResponse", "JsonRpc"},
           RemoteUnconnected(e)
    PROVE  McpInv'
<1> DEFINE v == [MarkFailure(Now) EXCEPT !.initialized = FALSE, !.caps = Nothing,
                     !.tools = {}, !.prompts = {}, !.prompts_complete = FALSE]
<1>1. /\ op /= Nothing /\ op.todo /= <<>> /\ Doing = "remote" /\ op.name /= "check"
      /\ Failed(v, Unrouted(routes), failing, op.sent, e)
      /\ e \in Error
  BY DEF RemoteUnconnected, At, Error
<1>2. /\ ServerFits(Now) /\ Now.remote /\ OnlyHere(routes, failing) /\ Here \in Server
      /\ CountFits(Now, failing[Here]) /\ failing[Here] \in 0 .. 3
  BY <1>1, AtStep
<1>3. /\ ServerFits(MarkFailure(Now)) /\ Alike(Now, MarkFailure(Now))
      /\ CountFits(MarkFailure(Now), failing[Here])
  BY <1>2, FailureKeeps
<1>4. /\ v \in ManagedServer /\ v.remote = Now.remote /\ v.process = Now.process
      /\ v.failures = MarkFailure(Now).failures /\ v.status = MarkFailure(Now).status
  <2> DEFINE m == MarkFailure(Now)
             a == [m EXCEPT !.initialized = FALSE]
             b == [a EXCEPT !.caps = Nothing]
             c == [b EXCEPT !.tools = {}]
             d == [c EXCEPT !.prompts = {}]
             f == [d EXCEPT !.prompts_complete = FALSE]
  <2>1. m \in ManagedServer /\ m.remote = Now.remote /\ m.process = Now.process
    BY <1>3 DEF ServerFits, Alike
  <2> HIDE DEF m
  <2>2. /\ f.remote = m.remote /\ f.process = m.process /\ f.failures = m.failures
        /\ f.status = m.status
    BY <2>1 DEF ManagedServer
  <2>3. v = f
    BY DEF m
  <2>4. a \in ManagedServer
    BY <2>1 DEF ManagedServer
  <2> HIDE DEF a, v
  <2>5. b \in ManagedServer
    BY <2>4 DEF ManagedServer
  <2> HIDE DEF b
  <2>6. c \in ManagedServer
    BY <2>5 DEF ManagedServer
  <2> HIDE DEF c
  <2>7. d \in ManagedServer
    BY <2>6 DEF ManagedServer
  <2> HIDE DEF d
  <2>8. f \in ManagedServer
    BY <2>7 DEF ManagedServer
  <2> QED BY <2>1, <2>2, <2>3, <2>8 DEF m
<1> HIDE DEF v
<1>5. ServerFits(v) /\ (\A n : CountFits(MarkFailure(Now), n) => CountFits(v, n))
  BY <1>2, <1>4 DEF ServerFits, CountFits
<1>6. ASSUME Counted(failing, e)
      PROVE  OnlyHere(routes, failing') /\ CountFits(v, failing'[Here])
  <2> DEFINE w == IF op.name = "check" THEN MarkFailure(Now) ELSE Recorded(Now, e)
  <2>1. OnlyHere(routes, failing') /\ CountFits(w, failing'[Here])
    BY <1>1, <1>2, <1>6, CountedRemote
  <2>2. CASE TransportFailure(e)
    BY <1>1, <1>5, <2>1, <2>2 DEF Recorded
  <2>3. CASE ~TransportFailure(e)
    <3>1. w = MarkSuccess(Now) /\ MarkSuccess(Now).failures = 0
      BY <1>1, <1>2, <2>3 DEF Recorded, MarkSuccess, ServerFits, ManagedServer
    <3>2. failing'[Here] = 0
      BY <2>1, <3>1 DEF CountFits
    <3>3. CountFits(MarkFailure(Now), 0)
      BY <1>2, FailureKeeps
    <3> QED BY <1>5, <2>1, <3>2, <3>3
  <2> QED BY <2>2, <2>3
<1>7. OnlyHere(Unrouted(routes), failing) /\ Unrouted(routes)[Here] = {}
  BY <1>2 DEF OnlyHere, Unrouted
<1>8. Counted(failing, e) => OnlyHere(Unrouted(routes), failing') /\ CountFits(v, failing'[Here])
  BY <1>6, <1>7 DEF OnlyHere
<1> QED BY <1>1, <1>3, <1>4, <1>5, <1>7, <1>8, FailedKeeps

LEMMA RemoteFailsKeeps ==
    ASSUME McpInv, NEW e \in Error \ {"Io"}, RemoteFails(e)
    PROVE  McpInv'
<1> DEFINE v == IF op.name = "check" THEN MarkFailure(Now) ELSE Recorded(Now, e)
           w == IF op.name = "check" /\ ShouldReset(e) THEN Reset(v) ELSE v
<1>1. /\ op /= Nothing /\ op.todo /= <<>> /\ Doing = "remote"
      /\ Failed(w, routes, failing, OneMore, e)
  BY DEF RemoteFails, At
<1>2. /\ ServerFits(Now) /\ OnlyHere(routes, failing)
      /\ CountFits(Now, failing[Here]) /\ failing[Here] \in 0 .. 3
      /\ op.name /= "discover" => routes[Here] \subseteq Now.tools
  BY <1>1, AtStep
<1>3. /\ ServerFits(v) /\ Alike(Now, v)
      /\ e \in Retryable => CountFits(v, failing[Here])
  <2>1. CASE v = MarkFailure(Now)
    BY <1>2, <2>1, FailureKeeps
  <2>2. CASE v = MarkSuccess(Now) /\ ~TransportFailure(e)
    BY <1>2, <2>2, SuccessKeeps DEF TransportFailure, Retryable
  <2> QED BY <2>1, <2>2 DEF Recorded
<1>4. Counted(failing, e) => OnlyHere(routes, failing') /\ CountFits(v, failing'[Here])
  BY <1>1, <1>2, CountedRemote
<1> HIDE DEF v
<1>5. /\ ServerFits(w) /\ w.remote = Now.remote /\ w.tools = Now.tools
      /\ \A n : CountFits(v, n) => CountFits(w, n)
  BY <1>3, ResetKeeps DEF Alike
<1> HIDE DEF w
<1>6. /\ e \in Retryable => CountFits(w, failing[Here])
      /\ Counted(failing, e) => OnlyHere(routes, failing') /\ CountFits(w, failing'[Here])
      /\ op.name /= "discover" => routes[Here] \subseteq w.tools
  BY <1>2, <1>3, <1>4, <1>5
<1>7. op.name /= "call" => OneMore = op.sent
  BY DEF OneMore
<1> QED BY <1>1, <1>2, <1>5, <1>6, <1>7, FailedKeeps

LEMMA PartDoneKeeps == McpInv /\ PartDone => McpInv'
<1> SUFFICES ASSUME McpInv, PartDone PROVE McpInv'
  OBVIOUS
<1>1. op /= Nothing /\ op.todo = <<>> /\ UNCHANGED <<servers, failing>>
  BY DEF PartDone
<1>2. /\ op \in Operation /\ Here \in Server /\ CallFits(op, Now)
      /\ ServerFits(Now) /\ Now \in ManagedServer /\ Now.remote \in BOOLEAN
      /\ CountFits(Now, failing[Here]) /\ OnlyHere(routes, failing)
      /\ ~Rebuilds(op) => routes[Here] \subseteq Now.tools
  BY <1>1, WorkedOn
<1>3. Set(Now)
  BY <1>1, <1>2 DEF Set, Here, Now, McpInv, McpTypeOK
<1>4. /\ Consists(op.name, op.part) /\ op.caps \in SUBSET Capability /\ op.outer \in 0 .. 1
      /\ op.name /= "call" => op.sent = 0
      /\ ~Now.remote /\ op.name /= "discover" => Now.initialized
  BY <1>1, <1>2 DEF CallFits, Operation, Relies
<1>5. /\ Now.remote = servers[op.server].remote /\ op.server \in Server /\ op.server = Here
      /\ servers[op.server].remote \in BOOLEAN
  BY <1>2 DEF Now, Here
<1>6. ASSUME NEW part, NEW caps
      PROVE  AtPart(op, part, caps) = Retried(op, part, caps, 0, op.outer)
  <2> DEFINE todo == Steps(op.name, part, op.server, caps)
  <2>1. AtPart(op, part, caps) =
            [op EXCEPT !.part = part, !.todo = todo, !.waiting = FALSE, !.tries = 0,
                       !.attempts = 0, !.pages = 0, !.caps = caps]
    BY DEF AtPart
  <2> HIDE DEF todo
  <2> QED BY <1>2, <2>1 DEF Retried, Operation
<1>7. Now.caps \in SUBSET Capability \/ Now.caps = Nothing
  BY <1>2 DEF ManagedServer
<1>8. CASE /\ op.name = "discover" /\ op.part /= "prompts" /\ ~Now.remote
           /\ op' = CASE op.part = "open" ->
                           AtPart(op, "tools", IF Now.caps = Nothing THEN {} ELSE Now.caps)
                      [] op.part = "tools" -> AtPart(op, "resources", op.caps)
                      [] op.part = "resources" -> AtPart(op, "prompts", op.caps)
           /\ UNCHANGED routes
  <2>1. PICK part \in Listings, caps \in SUBSET Capability : op' = AtPart(op, part, caps)
    <3>1. op.part \in {"open", "tools", "resources"}
      BY <1>4, <1>8 DEF Consists, Listings
    <3>2. CASE op.part = "open"
      <4> DEFINE caps == IF Now.caps = Nothing THEN {} ELSE Now.caps
      <4>1. op' = AtPart(op, "tools", caps)
        BY <1>8, <3>2
      <4>2. caps \in SUBSET Capability
        BY <1>7
      <4> HIDE DEF caps
      <4> QED BY <4>1, <4>2 DEF Listings
    <3>3. CASE op.part = "tools"
      <4>1. op' = AtPart(op, "resources", op.caps)
        BY <1>8, <3>3
      <4> QED BY <1>4, <4>1 DEF Listings
    <3>4. CASE op.part = "resources"
      <4>1. op' = AtPart(op, "prompts", op.caps)
        BY <1>8, <3>4
      <4> QED BY <1>4, <4>1 DEF Listings
    <3> QED BY <3>1, <3>2, <3>3, <3>4
  <2>2. op' = Retried(op, part, caps, 0, op.outer)
    BY <1>6, <2>1
  <2>3. /\ part \in Part /\ Consists(op.name, part) /\ op.sent = 0
        /\ ~(op.name = "discover" /\ Now.remote) /\ op.name /= "get"
    BY <1>4, <1>8 DEF Part, Consists, Listings
  <2>4. CallFits(op', Now) /\ op'.server = op.server /\ op'.name = op.name
    BY <1>2, <1>4, <1>5, <2>2, <2>3, PartFits
  <2>5. Rebuilds(op)'
    BY <1>8, <2>4, NothingAssumption DEF Rebuilds, CallFits
  <2> QED BY <1>1, <1>2, <1>3, <1>5, <1>8, <2>4, <2>5, StepHere
<1>9. CASE /\ op.name = "get" /\ op.part /= "request"
           /\ op' = AtPart(op, IF op.part = "open" /\ ~Now.prompts_complete
                           THEN "prompts" ELSE "request", {})
           /\ UNCHANGED routes
  <2> DEFINE part == IF op.part = "open" /\ ~Now.prompts_complete THEN "prompts" ELSE "request"
  <2>1. op' = Retried(op, part, {}, 0, op.outer)
    BY <1>6, <1>9
  <2>2. part \in Part /\ Consists(op.name, part) /\ op.sent = 0 /\ {} \in SUBSET Capability
    BY <1>4, <1>9 DEF Part, Consists
  <2> HIDE DEF part
  <2>3. CallFits(op', Now) /\ op'.server = op.server /\ op'.name = op.name
    BY <1>2, <1>4, <1>5, <1>9, <2>1, <2>2, PartFits
  <2>4. routes'[Here] \subseteq Now.tools
    BY <1>2, <1>9 DEF Rebuilds
  <2> QED BY <1>1, <1>2, <1>3, <1>5, <1>9, <2>3, <2>4, StepHere
<1>10. CASE routes' = [routes EXCEPT ![Here] = Now.tools] /\ op' = Nothing
  <2>1. OnlyHere(routes', failing') /\ routes'[Here] = Now.tools
    BY <1>1, <1>2, <1>10 DEF OnlyHere, ManagedServer
  <2> QED BY <1>1, <1>2, <1>3, <1>10, <2>1, StepHere
<1>11. CASE /\ op.name \notin {"list_tools", "discover", "get"} \/ op.part = "request"
            /\ op' = Nothing /\ UNCHANGED routes
  <2>1. op.name \notin {"list_tools", "discover"}
    BY <1>2, <1>4, <1>11 DEF Consists, Listings, Operation, Name
  <2>2. routes'[Here] \subseteq Now.tools
    BY <1>2, <1>11, <2>1 DEF Rebuilds
  <2> QED BY <1>1, <1>2, <1>3, <1>11, <2>2, StepHere
<1> QED BY <1>8, <1>9, <1>10, <1>11 DEF PartDone

-----------------------------------------------------------------------------
(* Calls begin, and the world goes on.                                     *)

LEMMA StartKeeps ==
    ASSUME McpInv, NEW name \in Name, NEW s \in Server,
           NEW prompt \in PromptName \cup {Nothing}, Start(name, s, prompt)
    PROVE  McpInv'
<1>1. op = Nothing /\ UNCHANGED <<servers, routes, failing>> /\ op' = Begun(name, s, prompt)
  BY DEF Start
<1> DEFINE o == [name |-> name, server |-> s, part |-> "open", todo |-> <<>>,
                 waiting |-> FALSE, tries |-> 0, attempts |-> 0, outer |-> 0, pages |-> 0,
                 sent |-> 0, caps |-> {}, prompt |-> prompt]
<1>2. o \in Operation
  <2>1. 0 \in 0 .. MaxPages /\ <<>> \in Seq(Step)
    BY ManagerAssumption, EmptySeq
  <2> QED BY <2>1 DEF Operation, Part
<1>3. op' = AtPart(o, FirstPart(name), {})
  BY <1>1 DEF Begun
<1>4. o.name = name /\ o.server = s /\ o.sent = 0 /\ o.attempts = 0 /\ o.outer = 0
  OBVIOUS
<1> HIDE DEF o
<1>5. op' = Retried(o, FirstPart(name), {}, 0, 0)
  BY <1>2, <1>3, <1>4 DEF Retried, AtPart, Operation
<1>6. /\ FirstPart(name) \in Part /\ Consists(name, FirstPart(name))
      /\ name = "discover" => FirstPart(name) = "open"
      /\ name = "get" => FirstPart(name) = "open"
  BY DEF FirstPart, Name, Part, Consists, Listings
<1>7. servers[s].remote \in BOOLEAN
  BY DEF McpInv, McpTypeOK, ManagedServer
<1>8. CallFits(op', servers[s]) /\ op'.server = s
  BY <1>2, <1>4, <1>5, <1>6, <1>7, PartFits
<1>9. op' \in Operation /\ servers' = servers /\ routes' = routes
  BY <1>1, <1>8 DEF CallFits
<1>10. \A t \in Server : routes[t] \subseteq servers[t].tools
  BY <1>1 DEF McpInv, Rebuilds
<1> QED BY <1>1, <1>8, <1>9, <1>10 DEF McpInv, McpTypeOK

(* What happens to a server, its process or its heartbeat.                 *)
LEMMA WorldKeeps ==
    ASSUME McpInv, NEW s \in Server, NEW v, servers' = [servers EXCEPT ![s] = v],
           ServerFits(v), v.remote = servers[s].remote, v.tools = servers[s].tools,
           op /= Nothing => /\ v.initialized = servers[s].initialized
                            /\ servers[s].process /= Nothing => v.process /= Nothing,
           failing' \in [Server -> 0 .. 3],
           \A t \in Server \ {s} : failing'[t] = failing[t], CountFits(v, failing'[s]),
           UNCHANGED <<routes, op>>
    PROVE  McpInv'
<1>1. servers \in [Server -> ManagedServer] /\ v \in ManagedServer
  BY DEF McpInv, McpTypeOK, ServerFits
<1>2. /\ servers' \in [Server -> ManagedServer] /\ servers'[s] = v
      /\ \A t \in Server \ {s} : servers'[t] = servers[t]
  BY <1>1
<1>3. McpTypeOK'
  BY <1>2 DEF McpInv, McpTypeOK
<1>4. ASSUME NEW t \in Server
      PROVE  /\ ServerFits(servers'[t]) /\ CountFits(servers'[t], failing'[t])
             /\ servers'[t].tools = servers[t].tools
  <2>1. CASE t = s
    BY <1>2, <2>1
  <2>2. CASE t /= s
    BY <1>2, <2>2 DEF McpInv
  <2> QED BY <2>1, <2>2
<1>5. ASSUME op /= Nothing PROVE CallFits(op, servers'[op.server])
  <2>1. CallFits(op, servers[op.server]) /\ op.server \in Server
    BY <1>5, WorkedOn DEF McpInv, Here
  <2>2. CASE op.server /= s
    BY <1>2, <2>1, <2>2
  <2>3. CASE op.server = s
    BY <1>2, <1>5, <2>1, <2>3 DEF CallFits
  <2> QED BY <2>2, <2>3
<1>6. \A t \in Server : (Rebuilds(op) /\ op.server = t) \/ routes[t] \subseteq servers'[t].tools
  BY <1>4 DEF McpInv
<1> QED BY <1>3, <1>4, <1>5, <1>6 DEF McpInv, Rebuilds

LEMMA ShutdownKeeps ==
    ASSUME McpInv, NEW s \in Server, Shutdown(s)
    PROVE  McpInv'
<1> DEFINE v == [Reset(servers[s]) EXCEPT !.status = "Unknown"]
<1>1. /\ op = Nothing /\ servers' = [servers EXCEPT ![s] = v]
      /\ failing' = [failing EXCEPT ![s] = 0]
      /\ UNCHANGED <<routes, op>>
  BY DEF Shutdown, McpInv, McpTypeOK
<1>2. ServerFits(Reset(servers[s])) /\ Reset(servers[s]).remote = servers[s].remote
      /\ Reset(servers[s]).tools = servers[s].tools
  BY ResetKeeps DEF McpInv
<1>3. /\ v \in ManagedServer /\ v.remote = Reset(servers[s]).remote
      /\ v.process = Reset(servers[s]).process /\ v.initialized = Reset(servers[s]).initialized
      /\ v.tools = Reset(servers[s]).tools /\ v.failures \in 0 .. 3
  BY <1>2 DEF ServerFits, ManagedServer, Status
<1> HIDE DEF v
<1>4. ServerFits(v) /\ CountFits(v, 0)
  BY <1>2, <1>3 DEF ServerFits, CountFits
<1>5. /\ failing' \in [Server -> 0 .. 3] /\ failing'[s] = 0
      /\ \A t \in Server \ {s} : failing'[t] = failing[t]
  BY <1>1 DEF McpInv, McpTypeOK
<1> QED BY <1>1, <1>2, <1>3, <1>4, <1>5, WorldKeeps

LEMMA AnswersKeep ==
    ASSUME McpInv, NEW s \in Server, NEW message \in Message, Answers(s, message)
    PROVE  McpInv'
<1> DEFINE p == servers[s].process
<1>1. p /= Nothing /\ ServerFits(servers[s]) /\ servers[s] \in ManagedServer
  BY DEF Answers, McpInv, McpTypeOK
<1>2. p \in Process
  BY <1>1 DEF ManagedServer
<1>3. PICK asked \in SUBSET Message :
         servers' = [servers EXCEPT ![s].process =
                        [p EXCEPT !.asked = asked, !.said = Append(@, message)]]
  BY <1>2 DEF Answers, Process
<1> DEFINE said == Append(p.said, message)
<1>4. said \in Seq(Message)
  BY <1>2 DEF Process
<1>5. servers' = [servers EXCEPT ![s] = Piped(servers[s], asked, said)]
  BY <1>1, <1>2, <1>3 DEF Piped, McpInv, McpTypeOK, ManagedServer, Process
<1> HIDE DEF said
<1> DEFINE v == Piped(servers[s], asked, said)
<1>6. /\ ServerFits(v) /\ v.process /= Nothing /\ v.remote = servers[s].remote
      /\ v.tools = servers[s].tools /\ v.initialized = servers[s].initialized
      /\ CountFits(v, failing[s])
  BY <1>1, <1>4, PipeKeeps DEF McpInv
<1>7. UNCHANGED <<routes, op, failing>> /\ failing \in [Server -> 0 .. 3]
  BY DEF Answers, McpInv, McpTypeOK
<1> HIDE DEF v
<1> QED BY <1>5, <1>6, <1>7, WorldKeeps DEF v

LEMMA ExitsKeep ==
    ASSUME McpInv, NEW s \in Server, Exits(s)
    PROVE  McpInv'
<1> DEFINE p == servers[s].process
           q == [p EXCEPT !.up = FALSE, !.asked = {}]
           v == [servers[s] EXCEPT !.process = q]
<1>1. /\ p /= Nothing /\ ServerFits(servers[s]) /\ servers[s] \in ManagedServer
      /\ CountFits(servers[s], failing[s]) /\ servers \in [Server -> ManagedServer]
  BY DEF Exits, McpInv, McpTypeOK
<1>2. p \in Process
  BY <1>1 DEF ManagedServer
<1>3. q \in Process /\ q.met = p.met
  BY <1>2 DEF Process
<1>4. q /= Nothing
  BY <1>3, NothingAssumption
<1>5. servers' = [servers EXCEPT ![s] = v]
  BY <1>1, <1>2 DEF Exits, ManagedServer, Process
<1> HIDE DEF q
<1>6. /\ v \in ManagedServer /\ v.remote = servers[s].remote /\ v.process = q
      /\ v.tools = servers[s].tools /\ v.initialized = servers[s].initialized
      /\ v.failures = servers[s].failures /\ v.status = servers[s].status
  BY <1>1, <1>3 DEF ManagedServer
<1> HIDE DEF v
<1>7. ServerFits(v) /\ CountFits(v, failing[s])
  BY <1>1, <1>3, <1>4, <1>6 DEF ServerFits, CountFits
<1>8. UNCHANGED <<routes, op, failing>> /\ failing \in [Server -> 0 .. 3]
  BY DEF Exits, McpInv, McpTypeOK
<1> QED BY <1>4, <1>5, <1>6, <1>7, <1>8, WorldKeeps

LEMMA HeartbeatKeeps ==
    ASSUME McpInv, NEW s \in Server, HeartbeatFallsDue(s)
    PROVE  McpInv'
<1> DEFINE v == [servers[s] EXCEPT !.overdue = TRUE]
<1>1. /\ ServerFits(servers[s]) /\ servers[s] \in ManagedServer
      /\ CountFits(servers[s], failing[s])
  BY DEF McpInv, McpTypeOK
<1>2. servers' = [servers EXCEPT ![s] = v] /\ UNCHANGED <<routes, op, failing>>
      /\ failing \in [Server -> 0 .. 3]
  BY DEF HeartbeatFallsDue, McpInv, McpTypeOK
<1>3. v \in ManagedServer /\ Alike(servers[s], v) /\ v.failures = servers[s].failures
      /\ v.status = servers[s].status
  BY <1>1 DEF ManagedServer, Alike
<1> HIDE DEF v
<1>4. ServerFits(v) /\ CountFits(v, failing[s])
  BY <1>1, <1>3, AlikeFits DEF CountFits
<1> QED BY <1>2, <1>3, <1>4, WorldKeeps DEF Alike

LEMMA McpInitially == McpInit => McpInv
<1> SUFFICES ASSUME McpInit PROVE McpInv
  OBVIOUS
<1>1. PICK remote \in [Server -> BOOLEAN], monitored \in [Server -> BOOLEAN] :
         servers = [s \in Server |-> NewServer(remote[s], monitored[s])]
  BY DEF McpInit
<1>2. ASSUME NEW s \in Server
      PROVE  ServerFits(servers[s]) /\ CountFits(servers[s], 0)
  <2>1. servers[s] = NewServer(remote[s], monitored[s])
    BY <1>1
  <2>2. NewServer(remote[s], monitored[s]) \in ManagedServer
    BY DEF NewServer, ManagedServer, Status
  <2> QED BY <2>1, <2>2 DEF NewServer, ServerFits, CountFits
<1>3. McpTypeOK
  <2>1. servers \in [Server -> ManagedServer]
    BY <1>1, <1>2 DEF ServerFits
  <2> QED BY <2>1 DEF McpInit, McpTypeOK, Message
<1> QED BY <1>2, <1>3 DEF McpInit, McpInv, Rebuilds

LEMMA McpStep == McpInv /\ [McpNext]_mcpVars => McpInv'
<1> SUFFICES ASSUME McpInv, [McpNext]_mcpVars PROVE McpInv'
  OBVIOUS
<1>1. CASE Work
  <2>1. CASE AlreadyReady
    BY <2>1, AlreadyReadyKeeps
  <2>2. CASE SpawnFails
    BY <2>2, SpawnFailsKeeps
  <2>3. CASE Initialize
    BY <2>3, InitializeKeeps
  <2>4. CASE InitializeAnswered
    BY <2>4, InitializeAnsweredKeeps
  <2>5. CASE PingAnswered
    BY <2>5, PingAnsweredKeeps
  <2>6. CASE AskAnswered
    BY <2>6, AskAnsweredKeeps
  <2>7. CASE AnswerIsInvalid \/ Disconnected \/ TimesOut
    BY <2>7, NoAnswersKeep
  <2>8. CASE Check
    BY <2>8, CheckKeeps
  <2>9. CASE Send
    BY <2>9, SendKeeps
  <2>10. CASE Skip
    BY <2>10, SkipKeeps
  <2>11. CASE RemoteDone
    BY <2>11, RemoteDoneKeeps
  <2>12. ASSUME NEW e \in {"Transport", "Timeout", "InvalidResponse", "JsonRpc"},
                RemoteUnconnected(e)
         PROVE  McpInv'
    BY <2>12, RemoteUnconnectedKeeps
  <2>13. ASSUME NEW e \in Error \ {"Io"}, RemoteFails(e)
         PROVE  McpInv'
    BY <2>13, RemoteFailsKeeps
  <2>14. CASE PartDone
    BY <2>14, PartDoneKeeps
  <2> QED BY <1>1, <2>1, <2>2, <2>3, <2>4, <2>5, <2>6, <2>7, <2>8, <2>9, <2>10, <2>11,
             <2>12, <2>13, <2>14 DEF Work
<1>2. ASSUME NEW s \in Server, CallTool(s)
      PROVE  McpInv'
  BY <1>2, StartKeeps DEF CallTool, Name
<1>3. ASSUME NEW s \in Server, NEW name \in Name \ {"call", "get", "check"}, Call(name, s)
      PROVE  McpInv'
  BY <1>3, StartKeeps DEF Call
<1>4. ASSUME NEW s \in Server, NEW p \in PromptName, GetPrompt(s, p)
      PROVE  McpInv'
  BY <1>4, StartKeeps DEF GetPrompt, Name
<1>5. ASSUME NEW s \in Server, RefreshHeartbeat(s)
      PROVE  McpInv'
  BY <1>5, StartKeeps DEF RefreshHeartbeat, Name
<1>6. ASSUME NEW s \in Server, Shutdown(s)
      PROVE  McpInv'
  BY <1>6, ShutdownKeeps
<1>7. ASSUME NEW s \in Server, NEW message \in Message, Answers(s, message)
      PROVE  McpInv'
  BY <1>7, AnswersKeep
<1>8. ASSUME NEW s \in Server, Exits(s)
      PROVE  McpInv'
  BY <1>8, ExitsKeep
<1>9. ASSUME NEW s \in Server, HeartbeatFallsDue(s)
      PROVE  McpInv'
  BY <1>9, HeartbeatKeeps
<1>10. CASE UNCHANGED mcpVars
  BY <1>10 DEF mcpVars, McpInv, McpTypeOK, Rebuilds
<1> QED BY <1>1, <1>2, <1>3, <1>4, <1>5, <1>6, <1>7, <1>8, <1>9, <1>10 DEF McpNext

LEMMA McpInvariant == McpSpec => []McpInv
BY McpInitially, McpStep, PTL DEF McpSpec

(* The state of the manager and of the processes keeps its types: the      *)
(* bounds on tries and pages hold although every await may be the last.    *)
THEOREM McpKeepsTypes == McpSpec => []McpTypeOK
<1>1. McpInv => McpTypeOK
  BY DEF McpInv
<1> QED BY <1>1, McpInvariant, PTL

(* A process is sent requests only when it was told that the handshake is  *)
(* over (ensure_server_ready, mcp_stdio.rs:3951).                          *)
THEOREM McpNothingBeforeHandshake == McpSpec => []NothingBeforeHandshake
<1>1. McpInv => NothingBeforeHandshake
  <2> SUFFICES ASSUME McpInv, op /= Nothing, op.waiting, Doing \in {"ping", "ask"}
               PROVE  Now.initialized /\ Now.process.met
    BY DEF NothingBeforeHandshake
  <2>1. op.todo /= <<>>
    BY WorkedOn DEF CallFits
  <2>2. ~Now.remote /\ Now.initialized /\ ServerFits(Now)
    BY <2>1, AtStep DEF Opening
  <2> QED BY <2>2 DEF ServerFits
<1> QED BY <1>1, McpInvariant, PTL

(* However it fails, a tool call is sent at most once (call_tool,          *)
(* mcp_stdio.rs:1784).                                                     *)
THEOREM McpCallsAreNotRepeated == McpSpec => []CallsAreNotRepeated
<1>1. McpInv => CallsAreNotRepeated
  BY DEF McpInv, CallsAreNotRepeated, CallFits
<1> QED BY <1>1, McpInvariant, PTL

(* Between calls, the tools that can be called are those of the catalog    *)
(* (replace_routes_for_catalog, mcp_stdio.rs:2032).                        *)
THEOREM McpRoutesAreListed == McpSpec => []RoutesAreListed
<1>1. McpInv => RoutesAreListed
  BY DEF McpInv, RoutesAreListed, Rebuilds
<1> QED BY <1>1, McpInvariant, PTL

(* The failures of requests add up over the pings in between               *)
(* (record_heartbeat_preflight_success, mcp_stdio.rs:2225).                *)
THEOREM McpFailuresAddUp == McpSpec => []FailuresAddUp
<1>1. McpInv => FailuresAddUp
  BY DEF McpInv, FailuresAddUp, CountFits
<1> QED BY <1>1, McpInvariant, PTL
=============================================================================
