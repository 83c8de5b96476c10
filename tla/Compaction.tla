----------------------------- MODULE Compaction -----------------------------
(***************************************************************************)
(* compact_session of rust/crates/runtime/src/compact.rs: the older        *)
(* messages of a session become one summary, the recent ones stay.         *)
(*                                                                         *)
(* Messages are numbered as they are said.  A message tells the messages   *)
(* first .. last: itself, or, for a summary, those on its key timeline.    *)
(* A summary made of an older one keeps that one's highlights (how many    *)
(* messages, their tools, files and last requests) and drops its timeline: *)
(* of the messages up to past it has the highlights only.  Texts are left  *)
(* out; how many tokens a session has is the caller's choice.              *)
(***************************************************************************)
EXTENDS Naturals, Sequences

Role == {"system", "user", "assistant", "tool"}

(* uses: tool uses of an assistant message; of: the assistant message that *)
(* a tool result answers; past: 0 but in a summary made of another.        *)
Message == [past: Nat, first: Nat, last: Nat, role: Role, uses: Nat, of: Nat]

(* compacted_prefix_len: 1 when the session starts with a summary.         *)
PrefixLen(s) == IF s /= <<>> /\ s[1].role = "system" THEN 1 ELSE 0

ShouldCompact(s, preserve, large) == large /\ Len(s) - PrefixLen(s) > preserve

(* Mutant of Boundaries: any boundary will do.                             *)
BoundariesAnywhere(s, preserve) == 0 .. (Len(s) - preserve)

(* Where the walk back from the last preserve messages may stop: never in  *)
(* front of a tool result, unless nothing is left to walk over.            *)
Boundaries(s, preserve) ==
    {k \in 0 .. (Len(s) - preserve) :
        k <= PrefixLen(s) \/ k = Len(s) \/ s[k + 1].role /= "tool"}

KeepFrom(s, preserve) ==
    CHOOSE k \in Boundaries(s, preserve) : \A j \in Boundaries(s, preserve) : j <= k

RemovedCount(s, preserve) == KeepFrom(s, preserve) - PrefixLen(s)

TimelineEnd(s, keep) == IF keep = 0 THEN 0 ELSE s[keep].last

(* Mutant of Summary: the highlights there were are not merged into it.    *)
SummaryUnmerged(s, keep) ==
    [past |-> 0, first |-> IF PrefixLen(s) = 1 THEN s[1].last + 1 ELSE 1,
     last |-> TimelineEnd(s, keep), role |-> "system", uses |-> 0, of |-> 0]

(* The highlights of the old summary, those of the messages removed, up to *)
(* keep, and their timeline: empty when none is removed.                   *)
Summary(s, keep) ==
    LET past == IF PrefixLen(s) = 1 THEN s[1].last ELSE 0
    IN  [past |-> past, first |-> past + 1, last |-> TimelineEnd(s, keep),
         role |-> "system", uses |-> 0, of |-> 0]

CompactMessages(s, preserve) ==
    LET keep == KeepFrom(s, preserve)
    IN  <<Summary(s, keep)>> \o SubSeq(s, keep + 1, Len(s))

-----------------------------------------------------------------------------
(* s accounts for all of the first n messages in order, each once: in the  *)
(* highlights of its summary, on the summary's timeline, or in full.       *)
TellsAll(s, n) ==
    IF s = <<>> THEN n = 0
    ELSE /\ s[1].past = 0 \/ s[1].role = "system"
         /\ s[1].first = s[1].past + 1
         /\ \A i \in 1 .. Len(s) - 1 : s[i + 1].first = s[i].last + 1
         /\ s[Len(s)].last = n

(* A tool result is preceded, with only results in between, by the message *)
(* whose tool use it answers; providers refuse it otherwise.               *)
ResultsHaveUses(s) ==
    \A i \in 1 .. Len(s) :
        s[i].role = "tool" =>
            \E j \in 1 .. i - 1 :
                /\ s[j].role = "assistant" /\ s[j].first = s[i].of
                /\ \A k \in j + 1 .. i - 1 : s[k].role = "tool"

(* Every tool use of a message said after the first n is answered.         *)
UsesAnsweredSince(s, n) ==
    \A i \in 1 .. Len(s) :
        s[i].role = "assistant" /\ s[i].first > n =>
            \A k \in 1 .. s[i].uses :
                i + k <= Len(s) /\ s[i + k].role = "tool" /\ s[i + k].of = s[i].first
=============================================================================
