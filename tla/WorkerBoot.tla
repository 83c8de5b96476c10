----------------------------- MODULE WorkerBoot -----------------------------
(***************************************************************************)
(* The life of one worker in rust/crates/runtime/src/worker_boot.rs: the   *)
(* control plane feeds it what the terminal shows, resolves its gates,     *)
(* sends it prompts and restarts it, in any order; each call runs under    *)
(* the registry's lock.  It keeps its state in a file that other processes *)
(* poll, and that another worker of the same directory overwrites; the     *)
(* write is taken to succeed.                                              *)
(*                                                                         *)
(* Of what the terminal shows, the model keeps which cues are on it.  Of   *)
(* the event log it keeps the last event: a gate's status is only ever set *)
(* together with the gate's event, so the log's "any event of this kind"   *)
(* conditions add nothing to it.                                           *)
(***************************************************************************)
EXTENDS Naturals

CONSTANTS
    Prompt, Receipt,    \* prompts and task receipts the caller sends
    None,
    MaxAttempts         \* bound: deliveries between two restarts

VARIABLES
    worker,     \* the registry's entry, with the state file of its directory
    accepted    \* observation: the last prompt's delivery was seen accepted

vars == <<worker, accepted>>

WorkerStatus ==
    {"Spawning", "TrustRequired", "ToolPermissionRequired", "ReadyForPrompt",
     "Running", "Finished", "Failed"}

WorkerFailureKind ==
    {"TrustGate", "ToolPermissionGate", "PromptDelivery", "Provider", "StartupNoEvidence"}

StartupFailureClassification ==
    {"TrustRequired", "ToolPermissionRequired", "PromptMisdelivery",
     "PromptAcceptanceTimeout", "TransportDead", "WorkerCrashed", "Unknown"}

ASSUME WorkerAssumption ==
    /\ None \notin Prompt \cup Receipt \cup WorkerFailureKind \cup StartupFailureClassification
    /\ MaxAttempts \in Nat

WorkerEventKind ==
    {"Spawning", "StartupPreflightWarning", "TrustRequired", "ToolPermissionRequired",
     "TrustResolved", "ReadyForPrompt", "PromptMisdelivery", "PromptReplayArmed",
     "Running", "Restarted", "Finished", "Failed", "StartupNoEvidence"}

Event == [kind: WorkerEventKind, classification: StartupFailureClassification \cup {None}]

StateSnapshot ==
    [status: WorkerStatus, trust_gate_cleared: BOOLEAN, prompt_in_flight: BOOLEAN,
     last_event: Event]

Worker ==
    [status: WorkerStatus,
     trust_auto_resolve: BOOLEAN,
     trust_gate_cleared: BOOLEAN,
     auto_recover: BOOLEAN,
     attempts: 0 .. MaxAttempts,
     prompt_in_flight: BOOLEAN,
     prompt_sent: BOOLEAN,
     last_prompt: Prompt \cup {None},
     expected_receipt: Receipt \cup {None},
     replay_prompt: Prompt \cup {None},
     last_error: WorkerFailureKind \cup {None},
     last_event: Event,
     file: StateSnapshot \cup {None}]    \* None: it names another worker

(* What a screen shows: the two gates, a prompt's text, a task receipt, a  *)
(* shell error or foreign directory, and the running and ready cues.       *)
Screen ==
    [toolGate: BOOLEAN, trustGate: BOOLEAN,
     prompt: Prompt \cup {None}, receipt: Receipt \cup {None}, astray: BOOLEAN,
     running: BOOLEAN, ready: BOOLEAN]

-----------------------------------------------------------------------------
Snapshot(w) ==
    [status |-> w.status, trust_gate_cleared |-> w.trust_gate_cleared,
     prompt_in_flight |-> w.prompt_in_flight, last_event |-> w.last_event]

(* push_event: w with an event, its status, and the state file written.    *)
Pushed(w, kind, status, classification) ==
    LET n == [w EXCEPT !.status = status,
                       !.last_event = [kind |-> kind, classification |-> classification]]
    IN  [n EXCEPT !.file = Snapshot(n)]

(* create                                                                  *)
NewWorker(trusted, recovers) ==
    Pushed([status |-> "Spawning", trust_auto_resolve |-> trusted,
            trust_gate_cleared |-> FALSE, auto_recover |-> recovers, attempts |-> 0,
            prompt_in_flight |-> FALSE, prompt_sent |-> FALSE, last_prompt |-> None,
            expected_receipt |-> None, replay_prompt |-> None, last_error |-> None,
            last_event |-> None, file |-> None],
           "Spawning", "Spawning", None)

Init ==
    /\ \E trusted, recovers \in BOOLEAN : worker = NewWorker(trusted, recovers)
    /\ accepted = FALSE

-----------------------------------------------------------------------------
(* observe, in the order of its checks: each cue that settles what the     *)
(* screen means ends the call, except a trust prompt that is resolved at   *)
(* once because the directory is on the allowlist.                         *)

ToolGateSeen(s) == s.toolGate

TrustGateSeen(s) == ~worker.trust_gate_cleared /\ s.trustGate

(* The worker as the checks after the trust prompt find it.                *)
PastTrust(s) ==
    IF TrustGateSeen(s)
    THEN Pushed([worker EXCEPT !.trust_gate_cleared = TRUE, !.last_error = None],
                "TrustResolved", "Spawning", None)
    ELSE worker

StoppedByGate(s) == ToolGateSeen(s) \/ (TrustGateSeen(s) /\ ~worker.trust_auto_resolve)

(* Mutant of Misdelivered: a delivery is looked into after it was settled. *)
MisdeliveredLate(w, s) ==
    /\ w.last_prompt /= None
    /\ \/ w.expected_receipt /= None /\ s.prompt /= None /\ s.receipt /= w.expected_receipt
       \/ s.prompt = w.last_prompt /\ s.astray

(* A prompt text that is not the last prompt's is the echo of another.     *)
Misdelivered(w, s) ==
    /\ w.prompt_in_flight
    /\ w.last_prompt /= None
    /\ \/ w.expected_receipt /= None /\ s.prompt /= None /\ s.receipt /= w.expected_receipt
       \/ s.prompt = w.last_prompt /\ s.astray

AfterMisdelivery(w) ==
    LET lost == Pushed([w EXCEPT !.last_error = "PromptDelivery", !.prompt_in_flight = FALSE],
                       "PromptMisdelivery", "Failed", None)
    IN  IF w.auto_recover
        THEN Pushed([lost EXCEPT !.replay_prompt = w.last_prompt],
                    "PromptReplayArmed", "ReadyForPrompt", None)
        ELSE lost

Accepts(w, s) == s.running /\ w.prompt_in_flight

(* No event is pushed here, so the state file is left as it was.           *)
AfterAcceptance(w) ==
    [w EXCEPT !.prompt_in_flight = FALSE, !.status = "Running", !.last_error = None]

(* Mutant of AfterReady: the ready cue is taken over without an event.     *)
AfterReadyQuietly(w) ==
    [w EXCEPT !.prompt_in_flight = FALSE, !.status = "ReadyForPrompt",
              !.last_error = IF @ = "TrustGate" THEN None ELSE @]

AfterReady(w) ==
    Pushed([w EXCEPT !.prompt_in_flight = FALSE,
                     !.last_error = IF @ = "TrustGate" THEN None ELSE @],
           "ReadyForPrompt", "ReadyForPrompt", None)

ObserveToolGate(s) ==
    /\ ToolGateSeen(s)
    /\ worker' = Pushed([worker EXCEPT !.last_error = "ToolPermissionGate"],
                        "ToolPermissionRequired", "ToolPermissionRequired", None)
    /\ UNCHANGED accepted

ObserveTrustGate(s) ==
    /\ ~ToolGateSeen(s)
    /\ TrustGateSeen(s)
    /\ ~worker.trust_auto_resolve
    /\ worker' = Pushed([worker EXCEPT !.last_error = "TrustGate"],
                        "TrustRequired", "TrustRequired", None)
    /\ UNCHANGED accepted

ObserveMisdelivery(s) ==
    /\ ~StoppedByGate(s)
    /\ Misdelivered(PastTrust(s), s)
    /\ worker' = AfterMisdelivery(PastTrust(s))
    /\ UNCHANGED accepted

ObserveProgress(s) ==
    /\ ~StoppedByGate(s)
    /\ ~Misdelivered(PastTrust(s), s)
    /\ LET w == PastTrust(s)
           a == IF Accepts(w, s) THEN AfterAcceptance(w) ELSE w
       IN  worker' = IF s.ready /\ a.status /= "ReadyForPrompt" THEN AfterReady(a) ELSE a
    /\ accepted' = (accepted \/ Accepts(PastTrust(s), s))

Observe(s) ==
    \/ ObserveToolGate(s)
    \/ ObserveTrustGate(s)
    \/ ObserveMisdelivery(s)
    \/ ObserveProgress(s)

-----------------------------------------------------------------------------
(* Mutant of TrustGranted: the error of the gate is left behind.           *)
TrustGrantedWithError(w) ==
    Pushed([w EXCEPT !.trust_gate_cleared = TRUE], "TrustResolved", "Spawning", None)

TrustGranted(w) ==
    Pushed([w EXCEPT !.trust_gate_cleared = TRUE, !.last_error = None],
           "TrustResolved", "Spawning", None)

ResolveTrust ==
    /\ worker.status = "TrustRequired"
    /\ worker' = TrustGranted(worker)
    /\ UNCHANGED accepted

Attempted(w) == w.attempts + 1

(* given is None when the caller asks for the armed prompt to be replayed; *)
(* the receipt is the caller's either way.                                 *)
SendPrompt(given, receipt) ==
    LET next == IF given /= None THEN given ELSE worker.replay_prompt
    IN  /\ worker.status = "ReadyForPrompt"
        /\ next /= None
        /\ worker.attempts < MaxAttempts
        /\ worker' =
               Pushed([worker EXCEPT !.attempts = Attempted(worker),
                                     !.prompt_in_flight = TRUE,
                                     !.prompt_sent = TRUE,
                                     !.last_prompt = next,
                                     !.expected_receipt = receipt,
                                     !.replay_prompt = None,
                                     !.last_error = None],
                      "Running", "Running", None)
        /\ accepted' = FALSE

Restart ==
    /\ worker' =
           Pushed([worker EXCEPT !.trust_gate_cleared = FALSE, !.last_prompt = None,
                                 !.replay_prompt = None, !.last_error = None,
                                 !.attempts = 0, !.prompt_in_flight = FALSE,
                                 !.prompt_sent = FALSE],
                  "Restarted", "Spawning", None)
    /\ accepted' = FALSE

(* Mutant of Stopped: the worker ends with its delivery still open.        *)
StoppedInFlight(w) == Pushed(w, "Finished", "Finished", None)

Stopped(w) ==
    Pushed([w EXCEPT !.prompt_in_flight = FALSE], "Finished", "Finished", None)

Terminate == worker' = Stopped(worker) /\ UNCHANGED accepted

ObserveCompletion(providerFailure) ==
    /\ worker' =
           IF providerFailure
           THEN Pushed([worker EXCEPT !.last_error = "Provider", !.prompt_in_flight = FALSE],
                       "Failed", "Failed", None)
           ELSE Stopped([worker EXCEPT !.last_error = None])
    /\ UNCHANGED accepted

(* startup_preflight_warnings found at least one thing to warn about.      *)
ObserveStartupPreflight ==
    /\ worker' = Pushed(worker, "StartupPreflightWarning", worker.status, None)
    /\ UNCHANGED accepted

(* late: more than 30 seconds after the worker was created.                *)
PromptUnaccepted(w) ==
    w.prompt_sent /\ ~(w.status = "Running" /\ ~w.prompt_in_flight)

Classification(w, transport, mcp, late) ==
    IF ~transport THEN "TransportDead"
    ELSE IF w.status \in {"TrustRequired", "ToolPermissionRequired"} THEN w.status
    ELSE IF PromptUnaccepted(w) /\ w.status = "Running" THEN "PromptAcceptanceTimeout"
    ELSE IF PromptUnaccepted(w) /\ late THEN "PromptMisdelivery"
    ELSE IF mcp THEN "Unknown" ELSE "WorkerCrashed"

ObserveStartupTimeout(transport, mcp, late) ==
    /\ worker' =
           Pushed([worker EXCEPT !.last_error = "StartupNoEvidence",
                                 !.prompt_in_flight = FALSE],
                  "StartupNoEvidence", "Failed",
                  Classification(worker, transport, mcp, late))
    /\ UNCHANGED accepted

(* Another worker of the directory has an event.                            *)
StateFileTaken ==
    /\ worker' = [worker EXCEPT !.file = None]
    /\ UNCHANGED accepted

Next ==
    \/ \E s \in Screen : Observe(s)
    \/ ResolveTrust
    \/ \E given \in Prompt \cup {None}, receipt \in Receipt \cup {None} :
           SendPrompt(given, receipt)
    \/ Restart
    \/ Terminate
    \/ \E providerFailure \in BOOLEAN : ObserveCompletion(providerFailure)
    \/ ObserveStartupPreflight
    \/ \E transport, mcp, late \in BOOLEAN : ObserveStartupTimeout(transport, mcp, late)
    \/ StateFileTaken

Spec == Init /\ [][Next]_vars

-----------------------------------------------------------------------------
(* The worker's fields and its state file keep their shapes, and at most   *)
(* MaxAttempts deliveries are counted.                                     *)
TypeOK == worker \in Worker /\ accepted \in BOOLEAN

(* A delivery is open only while its worker can still take it: the prompt  *)
(* is on record, nothing is armed for replay, and the worker is neither    *)
(* ready for another prompt nor done.  The gates may come up in between.   *)
DeliveryIsLive ==
    worker.prompt_in_flight =>
        /\ worker.last_prompt /= None
        /\ worker.prompt_sent
        /\ worker.attempts > 0
        /\ worker.replay_prompt = None
        /\ worker.status \notin {"ReadyForPrompt", "Finished", "Failed"}

(* A worker that await_ready reports as blocked says why, and one that is  *)
(* spawning or running carries no error from before, in whatever order     *)
(* gates, misdeliveries, completions and timeouts were observed.  A        *)
(* startup that is said to have timed out waiting for its prompt to be     *)
(* accepted had a prompt, and it was not.                                  *)
BlockedSaysWhy ==
    /\ worker.last_event.classification = "PromptAcceptanceTimeout" =>
           worker.last_prompt /= None /\ ~accepted
    /\ CASE worker.status = "TrustRequired" -> worker.last_error = "TrustGate"
         [] worker.status = "ToolPermissionRequired" ->
                worker.last_error = "ToolPermissionGate"
         [] worker.status = "Failed" ->
                worker.last_error \in {"PromptDelivery", "Provider", "StartupNoEvidence"}
         [] worker.status \in {"Spawning", "Running"} -> worker.last_error = None
         [] OTHER -> TRUE

(* What a poller of worker-state.json acts on is true, provided the file   *)
(* names the worker: it says ready exactly when the worker is, never       *)
(* misses an open delivery, and is behind the worker's status only while a *)
(* prompt is being worked on.                                              *)
StateFileCanBeActedOn ==
    worker.file /= None =>
        /\ worker.file.status = "ReadyForPrompt" <=> worker.status = "ReadyForPrompt"
        /\ worker.prompt_in_flight => worker.file.prompt_in_flight
        /\ worker.file.status = worker.status \/ (accepted /\ worker.status = "Running")

(* The worker keeps the promises of PromptDelivery about its prompts.      *)
Delivery ==
    INSTANCE PromptDelivery
    WITH prompt <- worker.last_prompt,
         outcome <- IF worker.prompt_in_flight THEN "open"
                    ELSE IF worker.replay_prompt /= None THEN "lost"
                    ELSE IF worker.last_prompt = None THEN "none"
                    ELSE IF accepted THEN "accepted" ELSE "closed"

DeliversAsPromised == Delivery!Spec

=============================================================================
