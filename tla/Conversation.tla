---------------------------- MODULE Conversation ----------------------------
(***************************************************************************)
(* One conversation of the interactive client: ConversationRuntime::       *)
(* run_turn (rust/crates/runtime/src/conversation.rs) over the session     *)
(* file of session.rs, driven as LiveCli does (rusty-claude-cli/src/       *)
(* main.rs).  A turn works on a copy of the session in memory.  Each of    *)
(* its messages is appended to the file as it is said; when the turn is    *)
(* complete its copy becomes the session and the file is rewritten.        *)
(*                                                                         *)
(* An append is a writeln!: the record, and then its newline, in a write   *)
(* of its own.  One that is cut off leaves a part of a line, with which    *)
(* the file cannot be loaded any more, or a whole record without its       *)
(* newline, which loads but spoils the next record appended.  When a       *)
(* message is cut off the client ends, by the error if not by the crash;   *)
(* when an entry of the prompt history is, it only warns and goes on.      *)
(*                                                                         *)
(* The retry of a turn refused for its size (main.rs, Trident) is not in   *)
(* the model.  What is written of a message is taken to be the message:    *)
(* the truncation and redaction of long or secret fields are left out.     *)
(***************************************************************************)
EXTENDS Compaction

CONSTANTS
    None,
    Preserve,       \* preserve_recent_messages
    MaxUses,        \* bound: tool uses in one reply
    MaxIterations,  \* max_iterations
    MaxSaid         \* bound: messages said

ASSUME ConversationAssumption ==
    /\ Preserve \in Nat \ {0}
    /\ MaxUses \in Nat
    /\ MaxIterations \in Nat
    /\ MaxSaid \in Nat

VARIABLES
    phase,      \* what the client is doing; prompted: the input is recorded
    memory,     \* the session of the client, None when it is down
    turn,       \* the turn in progress, None between turns
    main,       \* the session file, None when there is none
    rotated,    \* the newest rotated session file, None when there is none
    said,       \* observation: messages said so far
    resumedAt   \* observation: messages said when the client last started

vars == <<phase, memory, turn, main, rotated, said, resumedAt>>

Phase == {"down", "idle", "prompted", "asking", "tools", "saving", "writing"}

(* Where the session in memory is the one in use.                          *)
Resting == {"idle", "prompted", "saving", "writing"}

Session == [messages: Seq(Message), compacted: BOOLEAN]

Turn ==
    [session: Session, owed: 0 .. MaxUses, asker: 0 .. MaxSaid,
     iterations: 0 .. MaxIterations, over: BOOLEAN]

(* The records of a file; ended: the last one has its newline; torn: there *)
(* is a line that does not parse, and with it the file does not load.      *)
File ==
    [messages: Seq(Message), compacted: BOOLEAN, ended: BOOLEAN, torn: BOOLEAN]

ASSUME NoneAssumption == None \notin File \cup Session \cup Turn

-----------------------------------------------------------------------------
(* Sessions and their file.                                                *)
NewSession == [messages |-> <<>>, compacted |-> FALSE]

Said(role, uses, of) ==
    [past |-> 0, first |-> said + 1, last |-> said + 1,
     role |-> role, uses |-> uses, of |-> of]

Pushed(session, m) == [session EXCEPT !.messages = Append(@, m)]

(* Mutant of Snapshot: the compaction record is not written.               *)
SnapshotUnmarked(session) ==
    [messages |-> session.messages, compacted |-> FALSE, ended |-> TRUE, torn |-> FALSE]

(* render_jsonl_snapshot                                                   *)
Snapshot(session) ==
    [messages |-> session.messages, compacted |-> session.compacted,
     ended |-> TRUE, torn |-> FALSE]

(* The first write of writeln!: a record behind one that has no newline    *)
(* makes one line of the two.  The second: its newline.                    *)
Line(file) == [file EXCEPT !.ended = FALSE, !.torn = @ \/ ~file.ended]

Recorded(file, m) == [Line(file) EXCEPT !.messages = Append(@, m)]

Ended(file) == [file EXCEPT !.ended = TRUE]

(* The first write cut off.                                                *)
Torn(file) == [file EXCEPT !.ended = FALSE, !.torn = TRUE]

(* append_persisted_message: the whole session when there is no file yet.  *)
Appended(session, m) ==
    IF main = None THEN Snapshot(Pushed(session, m)) ELSE Ended(Recorded(main, m))

Compacted(session) ==
    [messages |-> CompactMessages(session.messages, Preserve), compacted |-> TRUE]

-----------------------------------------------------------------------------
Init ==
    /\ phase = "idle"
    /\ memory = NewSession
    /\ turn = None
    /\ main = None
    /\ rotated = None
    /\ said = 0
    /\ resumedAt = 0

(* record_prompt_history, before a turn of typed input: the first file is  *)
(* written whole, or is not; to an existing one a line is appended.        *)
RecordPrompt ==
    /\ phase = "idle"
    /\ main' \in IF main = None THEN {None, Snapshot(memory)}
                 ELSE {main, Torn(main), Line(main), Ended(Line(main))}
    /\ phase' = "prompted"
    /\ UNCHANGED <<memory, turn, rotated, said, resumedAt>>

(* The user's message; the probe of a compacted session succeeds.          *)
StartTurn ==
    /\ phase \in {"idle", "prompted"}
    /\ said < MaxSaid
    /\ LET m == Said("user", 0, 0)
       IN  /\ turn' = [session |-> Pushed(memory, m), owed |-> 0, asker |-> 0,
                       iterations |-> 0, over |-> FALSE]
           /\ main' = Appended(memory, m)
    /\ said' = said + 1
    /\ phase' = "asking"
    /\ UNCHANGED <<memory, rotated, resumedAt>>

MayAsk(t) == t.iterations < MaxIterations

(* maybe_auto_compact, with the token threshold of the configuration       *)
(* reached or not, and max_estimated_tokens 0.                             *)
AutoCompacted(session, over) ==
    IF /\ ShouldCompact(session.messages, Preserve, over)
       /\ RemovedCount(session.messages, Preserve) > 0
    THEN Compacted(session)
    ELSE session

(* One answer of the model with its tool uses.  The cumulative usage only  *)
(* grows within a turn, so a threshold once reached stays so.              *)
Reply(uses, over) ==
    /\ phase = "asking"
    /\ MayAsk(turn)
    /\ said < MaxSaid
    /\ turn.over => over
    /\ LET m == Said("assistant", uses, 0)
           session == AutoCompacted(Pushed(turn.session, m), over)
       IN  /\ main' = Appended(turn.session, m)
           /\ IF uses = 0
              THEN /\ memory' = session
                   /\ turn' = None
                   /\ phase' = "saving"
              ELSE /\ turn' = [session |-> session, owed |-> uses, asker |-> said + 1,
                               iterations |-> turn.iterations + 1, over |-> over]
                   /\ phase' = "tools"
                   /\ UNCHANGED memory
    /\ said' = said + 1
    /\ UNCHANGED <<rotated, resumedAt>>

(* Mutant of StillOwed: the first result ends the round.                   *)
StillOwedNone(t) == 0

StillOwed(t) == t.owed - 1

(* The next pending tool use: run, failed or refused, it has one result.   *)
ToolResult ==
    /\ phase = "tools"
    /\ said < MaxSaid
    /\ LET m == Said("tool", 0, turn.asker)
       IN  /\ turn' = [turn EXCEPT !.session = Pushed(@, m), !.owed = StillOwed(turn)]
           /\ main' = Appended(turn.session, m)
    /\ phase' = IF StillOwed(turn) = 0 THEN "asking" ELSE "tools"
    /\ said' = said + 1
    /\ UNCHANGED <<memory, rotated, resumedAt>>

(* save_to_path: a large file is first moved aside, then the session is    *)
(* written to a temporary file that is renamed into place.                 *)
Rotate ==
    /\ phase = "saving"
    /\ main /= None
    /\ rotated' = main
    /\ main' = None
    /\ phase' = "writing"
    /\ UNCHANGED <<memory, turn, said, resumedAt>>

Write ==
    /\ phase \in {"saving", "writing"}
    /\ main' = Snapshot(memory)
    /\ phase' = "idle"
    /\ UNCHANGED <<memory, turn, rotated, said, resumedAt>>

(* The /compact command, with the session large enough or not.             *)
CompactCommand(large) ==
    /\ phase = "idle"
    /\ said > 0
    /\ memory' = IF ShouldCompact(memory.messages, Preserve, large)
                 THEN Compacted(memory) ELSE memory
    /\ phase' = "saving"
    /\ UNCHANGED <<turn, main, rotated, said, resumedAt>>

(* The client ends without writing: a crash, or an error it does not       *)
(* survive - the health probe, the request, too many iterations, a save.   *)
Stop ==
    /\ phase /= "down"
    /\ phase' = "down"
    /\ memory' = None
    /\ turn' = None
    /\ UNCHANGED <<main, rotated, said, resumedAt>>

(* The message that the client appends next.                               *)
NextMessages ==
    CASE phase \in {"idle", "prompted"} -> {Said("user", 0, 0)}
      [] phase = "asking" /\ MayAsk(turn) ->
             {Said("assistant", uses, 0) : uses \in 0 .. MaxUses}
      [] phase = "tools" -> {Said("tool", 0, turn.asker)}
      [] OTHER -> {}

(* The same in the middle of appending a message, by a crash or an error   *)
(* of either write: a record that is whole has been said.                  *)
StopMidAppend ==
    /\ main /= None
    /\ said < MaxSaid
    /\ \E m \in NextMessages :
           \/ main' = Torn(main) /\ UNCHANGED said
           \/ main' = Recorded(main, m) /\ said' = said + 1
    /\ phase' = "down"
    /\ memory' = None
    /\ turn' = None
    /\ UNCHANGED <<rotated, resumedAt>>

(* A file that is missing or has a torn line cannot be loaded.             *)
Resume ==
    /\ phase = "down"
    /\ main /= None
    /\ ~main.torn
    /\ memory' = [messages |-> main.messages, compacted |-> main.compacted]
    /\ phase' = "idle"
    /\ resumedAt' = said
    /\ UNCHANGED <<turn, main, rotated, said>>

Next ==
    \/ RecordPrompt
    \/ StartTurn
    \/ \E uses \in 0 .. MaxUses, over \in BOOLEAN : Reply(uses, over)
    \/ ToolResult
    \/ Rotate
    \/ Write
    \/ \E large \in BOOLEAN : CompactCommand(large)
    \/ Stop
    \/ StopMidAppend
    \/ Resume

Spec == Init /\ [][Next]_vars

-----------------------------------------------------------------------------
(* A turn is in progress exactly while the client asks or runs tools, and  *)
(* a turn never counts more than its iterations.                           *)
TypeOK ==
    /\ phase \in Phase
    /\ memory \in Session \cup {None} /\ (memory = None <=> phase = "down")
    /\ turn \in Turn \cup {None} /\ (turn /= None <=> phase \in {"asking", "tools"})
    /\ main \in File \cup {None}
    /\ rotated \in File \cup {None}
    /\ said \in 0 .. MaxSaid
    /\ resumedAt \in 0 .. said

(* The session in use and the newest file on disk that can be loaded       *)
(* account for the whole conversation, in order and each message once: in  *)
(* full, on the timeline of the summary, or in the highlights it took over *)
(* from the summary before.  Through compactions in the middle of a turn,  *)
(* rotations, appends cut off at either write, failed turns and prompt     *)
(* history, crashes and resumptions.                                       *)
HistoryIsWhole ==
    /\ phase \in {"asking", "tools"} => TellsAll(turn.session.messages, said)
    /\ phase \in Resting => TellsAll(memory.messages, said)
    /\ main /= None /\ ~main.torn => TellsAll(main.messages, said)
    /\ main = None /\ rotated /= None /\ ~rotated.torn =>
           TellsAll(rotated.messages, said)

(* When the client is ready for input the file can be loaded, and is the   *)
(* session, its compaction record included: a turn whose lines were glued  *)
(* or torn has been rewritten by then, or the client is gone.              *)
IdleIsSaved ==
    phase = "idle" /\ said > 0 =>
        /\ main /= None
        /\ ~main.torn
        /\ main.messages = memory.messages
        /\ main.compacted = memory.compacted

(* No request carries a tool result whose tool use was compacted away.     *)
NoOrphanResults == turn /= None => ResultsHaveUses(turn.session.messages)

(* A request leaves no tool use unanswered, but for those of a turn that   *)
(* was cut off before the client was started.                              *)
RequestsAreAnswered ==
    phase = "asking" => UsesAnsweredSince(turn.session.messages, resumedAt)
=============================================================================
