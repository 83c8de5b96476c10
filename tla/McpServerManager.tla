-------------------------- MODULE McpServerManager --------------------------
(***************************************************************************)
(* McpServerManager of rust/crates/runtime/src/mcp_stdio.rs: the client    *)
(* side of the MCP servers, with the processes it talks to.                *)
(*                                                                         *)
(* The manager works on one call of its caller at a time, and awaits one   *)
(* answer at a time.  What it cannot rule is the servers: a process may    *)
(* exit at any moment, answer late, in another order, wrongly or never,    *)
(* and every new process may declare other capabilities and list other     *)
(* tools.  A request is the "own" one of whoever waits, or a "late" one    *)
(* whose time ran out: request ids are never used twice, so no more of     *)
(* them matters.                                                           *)
(*                                                                         *)
(* A call is worked off in parts (one listing, one request), a part in     *)
(* steps.  Resource templates, which go the way of resources, and the      *)
(* contents of lists nothing here depends on are left out.  A remote (SSE) *)
(* server is connected to anew for each request: one step, with every      *)
(* outcome it may have.  Discoveries and shutdowns of all servers are      *)
(* taken server by server: servers share nothing but the manager, and      *)
(* other calls in between only add to what may happen.                     *)
(***************************************************************************)
EXTENDS Naturals, Sequences

CONSTANTS
    Server,     \* the configured stdio and SSE servers
    Tool, PromptName,
    Capability, \* McpCapabilityKind
    MaxPages,   \* MCP_MAX_PAGINATION_PAGES
    MaxSaid,    \* bound: answers waiting in a pipe
    Nothing

ASSUME ManagerAssumption ==
    /\ Capability \subseteq {"tools", "resources", "prompts"}
    /\ MaxPages \in Nat \ {0} /\ MaxSaid \in Nat \ {0}

VARIABLES
    servers,    \* servers, heartbeat and heartbeat_schedule, with the processes
    routes,     \* tool_index: the tools that can be called, by server
    op,         \* the call being worked on, or Nothing
    failing     \* observation: exchanges that failed since one did not

mcpVars == <<servers, routes, op, failing>>

Status == {"Unknown", "Healthy", "Degraded", "Failed"}

Message == {"own", "late"}

(* met: this process was sent notifications/initialized.                   *)
Process ==
    [up: BOOLEAN, met: BOOLEAN, asked: SUBSET Message, said: Seq(Message)]

(* remote: the SSE transport; monitored: a heartbeat is configured.        *)
ManagedServer ==
    [remote: BOOLEAN, monitored: BOOLEAN,
     process: Process \cup {Nothing}, initialized: BOOLEAN,
     caps: {Nothing} \cup SUBSET Capability, tools: SUBSET Tool,
     prompts: SUBSET PromptName, prompts_complete: BOOLEAN,
     status: Status, failures: 0 .. 3, overdue: BOOLEAN]

Name == {"call", "list_tools", "list_resources", "list_prompts", "read", "get",
         "discover", "check"}

Part == {"open", "tools", "resources", "prompts", "request", "check"}

Step == {"ready", "capable", "known", "ping_ready", "ping", "ask", "remote", "skip"}

Operation ==
    [name: Name, server: Server, part: Part, todo: Seq(Step),
     waiting: BOOLEAN, tries: 0 .. 1, attempts: 0 .. 1, outer: 0 .. 1,
     pages: 0 .. MaxPages, sent: 0 .. 2, caps: SUBSET Capability,
     prompt: PromptName \cup {Nothing}]

ASSUME NothingAssumption == Nothing \notin Operation \cup Process

Error == {"Transport", "Timeout", "InvalidResponse", "JsonRpc", "Io",
          "LimitExceeded", "Unsupported"}

Retryable == {"Transport", "Timeout"}

ShouldReset(e) == e \in {"Transport", "Timeout", "InvalidResponse"}

TransportFailure(e) == e \notin {"JsonRpc", "Unsupported"}

-----------------------------------------------------------------------------
(* What is done with one server.                                           *)

NewServer(remote, monitored) ==
    [remote |-> remote, monitored |-> monitored,
     process |-> Nothing, initialized |-> FALSE, caps |-> Nothing, tools |-> {},
     prompts |-> {}, prompts_complete |-> FALSE,
     status |-> "Unknown", failures |-> 0, overdue |-> TRUE]

NewProcess == [up |-> TRUE, met |-> FALSE, asked |-> {}, said |-> <<>>]

(* reset_server: the process is killed, the catalog kept.                  *)
Reset(v) == [v EXCEPT !.process = Nothing, !.initialized = FALSE]

MarkSuccess(v) ==
    [v EXCEPT !.status = "Healthy", !.failures = 0, !.overdue = FALSE]

MarkFailure(v) ==
    LET n == IF v.failures = 3 THEN 3 ELSE v.failures + 1
    IN  [v EXCEPT !.failures = n, !.overdue = FALSE,
                  !.status = IF n >= 3 THEN "Failed" ELSE "Degraded"]

(* Mutant of Preflight: a ping that came back is a success like others.    *)
PreflightClears(v) == MarkSuccess(v)

(* A ping before a request does not clear the failures of requests.        *)
Preflight(v) ==
    IF v.status \in {"Degraded", "Failed"} THEN [v EXCEPT !.overdue = FALSE]
    ELSE MarkSuccess(v)

Recorded(v, e) == IF TransportFailure(e) THEN MarkFailure(v) ELSE MarkSuccess(v)

Gone(v) == v.process /= Nothing /\ ~v.process.up

(* What is sent to a process that has exited is lost.                      *)
Sent(v) ==
    IF v.process.up THEN [v EXCEPT !.process.asked = @ \cup {"own"}] ELSE v

(* Nobody waits for the answer any more.                                   *)
Abandoned(v) ==
    [v EXCEPT !.process.asked = IF @ = {} THEN {} ELSE {"late"},
              !.process.said = [i \in DOMAIN @ |-> "late"]]

-----------------------------------------------------------------------------
(* What is done of a call.                                                 *)

KindOf(name) == CASE name = "call" -> "tools" [] name = "read" -> "resources"
                  [] name = "get" -> "prompts"

(* The request itself, after a ping if a heartbeat is configured.          *)
Asking(s) ==
    IF servers[s].monitored THEN <<"ping_ready", "ping", "ask">> ELSE <<"ask">>

Listings == {"tools", "resources", "prompts"}

OpenSteps(name, s) ==
    CASE servers[s].remote /\ name = "get"  -> <<>>
      [] servers[s].remote /\ name /= "get" -> <<"remote">>
      [] ~servers[s].remote /\ name = "get" -> <<"ready", "capable">>
      [] OTHER                              -> <<"ready">>

(* Before a request for a prompt the prompts have to be known.             *)
RequestSteps(name, s) ==
    IF servers[s].remote
    THEN IF name = "get" THEN <<"known", "remote">> ELSE <<"remote">>
    ELSE (IF name = "get" THEN <<"known">> ELSE <<"ready", "capable">>) \o Asking(s)

(* A discovery leaves out what the server did not declare.                 *)
ListingSteps(name, part, s, caps) ==
    IF servers[s].remote THEN <<"remote">>
    ELSE IF name = "discover" /\ part \notin caps THEN <<"skip">>
    ELSE <<"ready", "capable">> \o Asking(s)

CheckSteps(s) == IF servers[s].remote THEN <<"remote">> ELSE <<"ping_ready", "ping">>

(* The steps of a part.                                                    *)
Steps(name, part, s, caps) ==
    CASE part = "check"   -> CheckSteps(s)
      [] part = "open"    -> OpenSteps(name, s)
      [] part = "request" -> RequestSteps(name, s)
      [] OTHER            -> ListingSteps(name, part, s, caps)

FirstPart(name) ==
    CASE name \in {"get", "discover"} -> "open"
      [] name = "list_tools" -> "tools"
      [] name = "list_resources" -> "resources"
      [] name = "list_prompts" -> "prompts"
      [] name \in {"call", "read"} -> "request"
      [] name = "check" -> "check"

AtPart(o, part, caps) ==
    [o EXCEPT !.part = part, !.todo = Steps(o.name, part, o.server, caps),
              !.waiting = FALSE, !.tries = 0, !.attempts = 0, !.pages = 0, !.caps = caps]

Begun(name, s, prompt) ==
    AtPart([name |-> name, server |-> s, part |-> "open", todo |-> <<>>,
            waiting |-> FALSE, tries |-> 0, attempts |-> 0, outer |-> 0, pages |-> 0,
            sent |-> 0, caps |-> {}, prompt |-> prompt],
           FirstPart(name), {})

Here == op.server
Now == servers[Here]
Doing == Head(op.todo)
At(steps) == op /= Nothing /\ op.todo /= <<>> /\ Doing \in steps

Set(v) == servers' = [servers EXCEPT ![Here] = v]

Popped == [op EXCEPT !.todo = Tail(@), !.waiting = FALSE, !.tries = 0]

-----------------------------------------------------------------------------
(* What becomes of the call when a step of it fails.                       *)

(* Mutant of IsRetried: a tool call is tried once more like a read.        *)
IsRetriedToo ==
    \/ op.part \in Listings /\ ~(op.name = "discover" /\ op.part = "tools")
    \/ op.name \in {"read", "call"}

(* The listings and the reads are tried once more; the listing of tools is *)
(* not when it is part of a discovery.                                     *)
IsRetried ==
    \/ op.part \in Listings /\ ~(op.name = "discover" /\ op.part = "tools")
    \/ op.name = "read"

(* Mutant of AnotherTry: every failure is worth another try.               *)
AnotherTryAlways(e) == IsRetried /\ e \in Retryable

AnotherTry(e) == IsRetried /\ op.attempts = 0 /\ e \in Retryable

(* A prompt is asked for anew from the start, its listing tried already.   *)
AnotherStart(e) == op.name = "get" /\ op.outer = 0 /\ e \in Retryable

Degrades == op.name = "discover" /\ op.part \in {"resources", "prompts"}

WithoutListing(v) ==
    IF op.part = "prompts" THEN [v EXCEPT !.prompts = {}, !.prompts_complete = FALSE] ELSE v

Cleared == [failing EXCEPT ![Here] = 0]

(* An exchange on a connection that was there has failed for good; an      *)
(* answer that says no is no failure of the exchange.                      *)
Counted(f, e) ==
    failing' = CASE Doing \in {"ping_ready", "ping"} \/ op.name = "check"
                    \/ (Doing \in {"ask", "remote"} /\ TransportFailure(e)) ->
                       [f EXCEPT ![Here] = IF @ = 3 THEN 3 ELSE @ + 1]
                 [] Doing \in {"ask", "remote"} /\ ~TransportFailure(e)
                    /\ op.name /= "check" -> Cleared
                 [] OTHER -> f

(* Mutant of Unrouted: the tools stay callable.                            *)
StillRouted(r) == r

(* clear_routes_for_server                                                 *)
Unrouted(r) == [r EXCEPT ![Here] = {}]

(* v, r and f are what the step itself has left of the server, its routes  *)
(* and the observation; the tool call may have reached the server n times. *)
(* Of the discoveries of tools only one clears the routes when it fails.   *)
Failed(v, r, f, n, e) ==
    LET again == Reset(v)
        left  == IF (IsRetried \/ op.name = "get") /\ ShouldReset(e) THEN Reset(v) ELSE v
    IN  \/ /\ AnotherTry(e)
           /\ Set(again)
           /\ routes' = r
           /\ op' = [AtPart(op, op.part, op.caps) EXCEPT !.attempts = 1, !.sent = n]
           /\ failing' = f
        \/ /\ ~AnotherTry(e) /\ AnotherStart(e)
           /\ Set(again)
           /\ routes' = r
           /\ op' = [AtPart(op, "open", {}) EXCEPT !.outer = 1]
           /\ failing' = f
        \/ /\ ~AnotherTry(e) /\ ~AnotherStart(e) /\ Degrades
           /\ Set(WithoutListing(left))
           /\ routes' = r
           /\ op' = [op EXCEPT !.todo = <<>>, !.waiting = FALSE]
           /\ Counted(f, e)
        \/ /\ ~AnotherTry(e) /\ ~AnotherStart(e) /\ ~Degrades
           /\ Set(left)
           /\ Counted(f, e)
           /\ \/ op.name /= "discover" /\ routes' = r
              \/ op.name \in {"discover", "list_tools"} /\ routes' = Unrouted(r)
           /\ op' = Nothing

(* A ping's failure is recorded by who asked for the ping, with that of    *)
(* getting ready for it; a request's once it was sent.                     *)
Raise(v, f, e) ==
    LET recorded == CASE Doing \in {"ping_ready", "ping"} -> MarkFailure(v)
                      [] Doing = "ask" -> Recorded(v, e)
                      [] OTHER -> v
        resets == /\ ShouldReset(e)
                  /\ Doing \in {"ping_ready", "ping"} \/ (Doing = "ask" /\ op.name = "call")
    IN  Failed(IF resets THEN Reset(recorded) ELSE recorded, routes, f, op.sent, e)

-----------------------------------------------------------------------------
(* ensure_server_ready                                                     *)

Readies == {"ready", "ping_ready"}

Fresh == IF Gone(Now) THEN Reset(Now) ELSE Now

AlreadyReady ==
    /\ At(Readies) /\ ~op.waiting
    /\ Fresh.process /= Nothing /\ Fresh.initialized
    /\ op' = Popped
    /\ UNCHANGED <<servers, routes, failing>>

SpawnFails ==
    /\ At(Readies) /\ ~op.waiting
    /\ Fresh.process = Nothing
    /\ Raise(Fresh, failing, "Io")

(* A process is started unless one is there, and asked to initialize.      *)
Initialize ==
    /\ At(Readies) /\ ~op.waiting
    /\ ~(Fresh.process /= Nothing /\ Fresh.initialized)
    /\ LET started == IF Fresh.process = Nothing
                      THEN [Fresh EXCEPT !.process = NewProcess, !.initialized = FALSE]
                      ELSE Fresh
       IN  Set(Sent(started))
    /\ op' = [op EXCEPT !.waiting = TRUE]
    /\ UNCHANGED <<routes, failing>>

(* Mutant of Notified: the server counts as ready when it has answered.    *)
NotifiedAnyway(v, caps) ==
    \/ /\ Set([v EXCEPT !.process.met = TRUE, !.initialized = TRUE, !.caps = caps])
       /\ op' = Popped
       /\ failing' = Cleared
       /\ UNCHANGED routes
    \/ \E e \in Retryable :
          Raise([v EXCEPT !.initialized = TRUE, !.caps = caps], Cleared, e)

(* notifications/initialized; only then is the server ready.               *)
Notified(v, caps) ==
    \/ /\ Set([v EXCEPT !.process.met = TRUE, !.initialized = TRUE, !.caps = caps])
       /\ op' = Popped
       /\ failing' = Cleared
       /\ UNCHANGED routes
    \/ \E e \in Retryable : Raise(v, Cleared, e)

(* No process for this try: there is one more, of getting ready.           *)
InitializeFails(v, e) ==
    IF op.tries = 0 /\ e \in Retryable
    THEN /\ Set(Reset(MarkFailure(v)))
         /\ op' = [op EXCEPT !.waiting = FALSE, !.tries = 1]
         /\ UNCHANGED <<routes, failing>>
    ELSE Raise(Reset(MarkFailure(v)), failing, e)

-----------------------------------------------------------------------------
(* Answers, and the lack of them.                                          *)

Waiting == op /= Nothing /\ op.waiting

Fits(message) == message = "own"

(* What is left of the server when the next answer is taken from the pipe. *)
Read == [Now EXCEPT !.process.said = Tail(@)]

Arrived == Waiting /\ Now.process.said /= <<>>

(* An answer that fits and can be parsed.                                  *)
TakesFitting == Arrived /\ Fits(Head(Now.process.said))

InitializeAnswered ==
    /\ At(Readies) /\ TakesFitting
    /\ \/ \E caps \in SUBSET Capability : Notified(MarkSuccess(Read), caps)
       \/ Raise(Reset(MarkFailure(Read)), failing, "JsonRpc")
       \/ Raise(Reset(MarkSuccess(Read)), Cleared, "InvalidResponse")

PingAnswered ==
    /\ At({"ping"}) /\ TakesFitting
    /\ \/ /\ Set(IF op.name = "check" THEN MarkSuccess(Read) ELSE Preflight(Read))
          /\ op' = Popped
          /\ failing' = IF op.name = "check" THEN Cleared ELSE failing
          /\ UNCHANGED routes
       \/ Raise(Read, failing, "JsonRpc")

(* The tools or prompts a server lists are its own affair.                 *)
Listed(v) ==
    CASE op.part = "tools"   -> {[v EXCEPT !.tools = ts] : ts \in SUBSET Tool}
      [] op.part = "prompts" -> {[v EXCEPT !.prompts = ps, !.prompts_complete = TRUE] :
                                     ps \in SUBSET PromptName}
      [] OTHER               -> {v}

(* A tool's JSON-RPC error is an answer like others; a listing goes on     *)
(* while there are pages, up to a limit.                                   *)
AskAnswered ==
    /\ At({"ask"}) /\ TakesFitting
    /\ \/ /\ \E v \in Listed(MarkSuccess(Read)) : Set(v)
          /\ op' = Popped
          /\ failing' = Cleared
          /\ UNCHANGED routes
       \/ /\ op.part \in Listings /\ op.pages + 1 < MaxPages
          /\ Set(Sent(Read))
          /\ op' = [op EXCEPT !.pages = @ + 1]
          /\ UNCHANGED <<routes, failing>>
       \/ /\ op.name /= "call"
          /\ \E e \in {"JsonRpc", "InvalidResponse", "LimitExceeded"} : Raise(Read, failing, e)

NoAnswerIn(v, e) == IF At(Readies) THEN InitializeFails(v, e) ELSE Raise(v, failing, e)

(* A late answer, or one that cannot be parsed.                            *)
AnswerIsInvalid ==
    /\ Arrived
    /\ NoAnswerIn(Abandoned(Read), "InvalidResponse")

(* The process has exited, and nothing is left in the pipe.                *)
Disconnected ==
    /\ Waiting
    /\ ~Now.process.up /\ Now.process.said = <<>>
    /\ NoAnswerIn(Abandoned(Now), "Transport")

TimesOut ==
    /\ Waiting
    /\ NoAnswerIn(Abandoned(Now), "Timeout")

-----------------------------------------------------------------------------
(* The other steps.                                                        *)

(* ensure_capability, ensure_prompt_known                                  *)
Allowed ==
    CASE Doing = "capable" -> (IF op.part \in Listings THEN op.part ELSE KindOf(op.name)) \in Now.caps
      [] Doing = "known"   -> op.prompt \in Now.prompts

Check ==
    /\ At({"capable", "known"})
    /\ IF Allowed THEN op' = Popped /\ UNCHANGED <<servers, routes, failing>>
       ELSE Raise(Now, failing, "Unsupported")

(* The requests with the tool call that were sent, whatever came of them.  *)
OneMore == IF op.name = "call" /\ Doing \in {"ask", "remote"} THEN op.sent + 1 ELSE op.sent

(* Sending the ping or the request; a process that is gone is not noticed. *)
Send ==
    /\ At({"ping", "ask"}) /\ ~op.waiting
    /\ Set(Sent(Now))
    /\ op' = [op EXCEPT !.waiting = TRUE, !.sent = OneMore]
    /\ UNCHANGED <<routes, failing>>

(* What the server does not offer is not listed, and nothing of it kept.   *)
Skip ==
    /\ At({"skip"})
    /\ CASE op.part = "tools" ->
              Set([Now EXCEPT !.tools = {}]) /\ routes' = Unrouted(routes)
         [] op.part = "prompts" ->
              Set([Now EXCEPT !.prompts = {}, !.prompts_complete = TRUE]) /\ UNCHANGED routes
         [] OTHER -> UNCHANGED <<servers, routes>>
    /\ op' = Popped
    /\ UNCHANGED failing

(* One request to a remote server, the connection for it included.  A      *)
(* failure to connect takes the catalog and the routes with it, except     *)
(* when the request was a ping.                                            *)
RemoteDone ==
    /\ At({"remote"})
    /\ \E caps \in SUBSET Capability :
           LET connected == [MarkSuccess(Now) EXCEPT !.caps = caps, !.initialized = TRUE]
           IN  IF op.name \in {"call", "check"} THEN Set(MarkSuccess(Now))
               ELSE IF op.part = "open"
               THEN \E ts \in SUBSET Tool, ps \in SUBSET PromptName, complete \in BOOLEAN :
                        Set([connected EXCEPT !.tools = ts, !.prompts = ps,
                                              !.prompts_complete = complete])
               ELSE \E v \in Listed(connected) : Set(v)
    /\ op' = [Popped EXCEPT !.sent = OneMore]
    /\ failing' = Cleared
    /\ UNCHANGED routes

RemoteUnconnected(e) ==
    /\ At({"remote"}) /\ op.name /= "check"
    /\ Failed([MarkFailure(Now) EXCEPT !.initialized = FALSE, !.caps = Nothing,
                   !.tools = {}, !.prompts = {}, !.prompts_complete = FALSE],
              Unrouted(routes), failing, op.sent, e)

RemoteFails(e) ==
    /\ At({"remote"})
    /\ op.name = "call" => e /= "JsonRpc"
    /\ LET v == IF op.name = "check" THEN MarkFailure(Now) ELSE Recorded(Now, e)
       IN  Failed(IF op.name = "check" /\ ShouldReset(e) THEN Reset(v) ELSE v,
                  routes, failing, OneMore, e)

(* The part is done; the discovery of a server ends with its routes.       *)
PartDone ==
    /\ op /= Nothing /\ op.todo = <<>>
    /\ \/ /\ op.name = "discover" /\ op.part /= "prompts" /\ ~Now.remote
          /\ op' = CASE op.part = "open" ->
                          AtPart(op, "tools", IF Now.caps = Nothing THEN {} ELSE Now.caps)
                     [] op.part = "tools" -> AtPart(op, "resources", op.caps)
                     [] op.part = "resources" -> AtPart(op, "prompts", op.caps)
          /\ UNCHANGED routes
       \/ /\ op.name = "get" /\ op.part /= "request"
          /\ op' = AtPart(op, IF op.part = "open" /\ ~Now.prompts_complete
                          THEN "prompts" ELSE "request", {})
          /\ UNCHANGED routes
       \/ /\ \/ op.name = "list_tools"
             \/ op.name = "discover" /\ (op.part = "prompts" \/ Now.remote)
          /\ routes' = [routes EXCEPT ![Here] = Now.tools]
          /\ op' = Nothing
       \/ /\ op.name \notin {"list_tools", "discover", "get"} \/ op.part = "request"
          /\ op' = Nothing
          /\ UNCHANGED routes
    /\ UNCHANGED <<servers, failing>>

-----------------------------------------------------------------------------
McpInit ==
    /\ \E remote, monitored \in [Server -> BOOLEAN] :
           servers = [s \in Server |-> NewServer(remote[s], monitored[s])]
    /\ routes = [s \in Server |-> {}]
    /\ op = Nothing
    /\ failing = [s \in Server |-> 0]

Start(name, s, prompt) ==
    /\ op = Nothing
    /\ op' = Begun(name, s, prompt)
    /\ UNCHANGED <<servers, routes, failing>>

CallTool(s) == routes[s] /= {} /\ Start("call", s, Nothing)

(* The listings, a read of a resource, and both discoveries.               *)
Call(name, s) == Start(name, s, Nothing)

GetPrompt(s, p) == Start("get", s, p)

(* refresh_due_heartbeat_for_server                                        *)
RefreshHeartbeat(s) ==
    servers[s].monitored /\ servers[s].overdue /\ Start("check", s, Nothing)

Shutdown(s) ==
    /\ op = Nothing
    /\ servers' = [servers EXCEPT ![s] = [Reset(@) EXCEPT !.status = "Unknown"]]
    /\ failing' = [failing EXCEPT ![s] = 0]
    /\ UNCHANGED <<routes, op>>

(* The processes, and time.                                                *)
Answers(s, message) ==
    LET p == servers[s].process
    IN  /\ p /= Nothing
        /\ p.up /\ message \in p.asked /\ Len(p.said) < MaxSaid
        /\ \E asked \in {p.asked \ {message}} \cup (IF message = "late" THEN {p.asked} ELSE {}) :
               servers' = [servers EXCEPT ![s].process =
                   [p EXCEPT !.asked = asked, !.said = Append(@, message)]]
        /\ UNCHANGED <<routes, op, failing>>

Exits(s) ==
    /\ servers[s].process /= Nothing
    /\ servers[s].process.up
    /\ servers' = [servers EXCEPT ![s].process.up = FALSE, ![s].process.asked = {}]
    /\ UNCHANGED <<routes, op, failing>>

HeartbeatFallsDue(s) ==
    /\ servers[s].monitored /\ ~servers[s].overdue
    /\ servers' = [servers EXCEPT ![s].overdue = TRUE]
    /\ UNCHANGED <<routes, op, failing>>

Work ==
    \/ AlreadyReady \/ SpawnFails \/ Initialize
    \/ InitializeAnswered \/ PingAnswered \/ AskAnswered
    \/ AnswerIsInvalid \/ Disconnected \/ TimesOut
    \/ Check \/ Send \/ Skip \/ RemoteDone
    \/ \E e \in {"Transport", "Timeout", "InvalidResponse", "JsonRpc"} : RemoteUnconnected(e)
    \/ \E e \in Error \ {"Io"} : RemoteFails(e)
    \/ PartDone

McpNext ==
    \/ Work
    \/ \E s \in Server :
          \/ CallTool(s)
          \/ \E name \in Name \ {"call", "get", "check"} : Call(name, s)
          \/ \E p \in PromptName : GetPrompt(s, p)
          \/ RefreshHeartbeat(s)
          \/ Shutdown(s)
          \/ \E message \in Message : Answers(s, message)
          \/ Exits(s)
          \/ HeartbeatFallsDue(s)

(* An answer is awaited under a timeout, and a process is killed before it *)
(* is waited for (reset_server): the manager can always go on.             *)
McpSpec == McpInit /\ [][McpNext]_mcpVars /\ WF_mcpVars(Work)

-----------------------------------------------------------------------------
McpTypeOK ==
    /\ servers \in [Server -> ManagedServer]
    /\ routes \in [Server -> SUBSET Tool]
    /\ op \in Operation \cup {Nothing}
    /\ failing \in [Server -> 0 .. 3]

(* A process is sent nothing but `initialize` before it was told that the  *)
(* handshake is over, through exits, restarts and half done handshakes     *)
(* between any two steps (ensure_server_ready, :3951).                     *)
NothingBeforeHandshake ==
    op /= Nothing /\ op.waiting /\ Doing \in {"ping", "ask"} =>
        Now.initialized /\ Now.process.met

(* However a tool call fails, it reaches a server at most once: only       *)
(* listings and reads are sent again (call_tool, :1784).                   *)
CallsAreNotRepeated ==
    op /= Nothing /\ op.name = "call" => op.sent <= 1

(* Between calls, a tool can be called only if it is in the catalog: no    *)
(* failure, in whatever step, takes away one and leaves the other          *)
(* (replace_routes_for_catalog, :2032, clear_routes_for_server, :2027).    *)
RoutesAreListed ==
    op = Nothing => \A s \in Server : routes[s] \subseteq servers[s].tools

(* Failures add up over calls until a request or a new connection works:   *)
(* the pings that precede requests neither hide a failure nor start the    *)
(* count anew (record_heartbeat_preflight_success, :2225).                 *)
FailuresAddUp ==
    \A s \in Server :
        /\ failing[s] <= servers[s].failures
        /\ failing[s] > 0 => servers[s].status \in {"Degraded", "Failed"}
        /\ failing[s] = 3 => servers[s].status = "Failed"

(* Every call of the manager ends, whatever the servers do: the retries of *)
(* a call, of a listing within it and of the handshakes within those are   *)
(* all bounded (:1881, :1974, :3951).                                      *)
CallsEnd == op /= Nothing ~> op = Nothing
=============================================================================
