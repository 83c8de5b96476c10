------------------------- MODULE ConversationProofs -------------------------
(***************************************************************************)
(* Proofs about the conversation: in every reachable state the session,    *)
(* and the newest file that loads, account for everything said.            *)
(***************************************************************************)
EXTENDS Conversation, SequenceTheorems, WellFoundedInduction, TLAPS

-----------------------------------------------------------------------------
(* A nonempty set of naturals that has an upper bound has a largest one.   *)
LEMMA LargestExists ==
    ASSUME NEW top \in Nat, NEW B \in SUBSET (0 .. top), B /= {}
    PROVE  \E k \in B : \A j \in B : j <= k
<1> DEFINE D == {d \in Nat : top - d \in B}
<1>1. D \subseteq Nat /\ D /= {}
  <2>1. PICK k \in B : TRUE
    OBVIOUS
  <2>2. top - k \in Nat /\ top - (top - k) = k
    OBVIOUS
  <2> QED  BY <2>1, <2>2
<1>2. PICK d \in D : \A e \in D : ~(<<e, d>> \in OpToRel(<, Nat))
  <2> HIDE DEF D
  <2> QED  BY <1>1, NatLessThanWellFounded, WFMin
<1>3. \A e \in D : d <= e
  <2> SUFFICES ASSUME NEW e \in D  PROVE d <= e
    OBVIOUS
  <2>1. ~(<<e, d>> \in OpToRel(<, Nat))
    BY <1>2
  <2>2. d \in Nat /\ e \in Nat
    OBVIOUS
  <2>3. ~(e < d)
    BY <2>1, <2>2 DEF OpToRel
  <2> QED  BY <2>2, <2>3
<1>4. \A j \in B : j <= top - d
  <2> SUFFICES ASSUME NEW j \in B  PROVE j <= top - d
    OBVIOUS
  <2>1. top - j \in D
    OBVIOUS
  <2> QED  BY <2>1, <1>3
<1> QED  BY <1>4

(* The boundary the walk finds is the last one it may stop at.             *)
LEMMA KeepFromBoundary ==
    ASSUME NEW s \in Seq(Message), NEW preserve \in Nat, preserve <= Len(s)
    PROVE  /\ KeepFrom(s, preserve) \in Boundaries(s, preserve)
           /\ \A j \in Boundaries(s, preserve) : j <= KeepFrom(s, preserve)
<1>1. Boundaries(s, preserve) \in SUBSET (0 .. (Len(s) - preserve))
  BY DEF Boundaries
<1>2. 0 \in Boundaries(s, preserve)
  BY DEF Boundaries, PrefixLen
<1>3. Len(s) - preserve \in Nat
  OBVIOUS
<1>4. \E k \in Boundaries(s, preserve) : \A j \in Boundaries(s, preserve) : j <= k
  BY <1>1, <1>2, <1>3, LargestExists
<1> QED  BY <1>4 DEF KeepFrom

(* Saying one more message tells one more.                                 *)
LEMMA TellsOneMore ==
    ASSUME NEW s \in Seq(Message), NEW n \in Nat, TellsAll(s, n),
           NEW m \in Message, m.past = 0, m.first = n + 1, m.last = n + 1
    PROVE  Append(s, m) \in Seq(Message) /\ TellsAll(Append(s, m), n + 1)
<1> DEFINE t == Append(s, m)
<1>1. /\ t \in Seq(Message)
      /\ Len(t) = Len(s) + 1
      /\ t[Len(t)] = m
      /\ \A i \in 1 .. Len(s) : t[i] = s[i]
  BY AppendProperties
<1>2. t /= <<>>
  BY <1>1
<1> HIDE DEF t
<1>3. CASE s = <<>>
  <2>1. n = 0 /\ Len(t) = 1 /\ t[1] = m
    BY <1>1, <1>3 DEF TellsAll
  <2>2. t[1].past = 0 /\ t[1].first = t[1].past + 1 /\ t[Len(t)].last = n + 1
    BY <2>1
  <2>3. \A i \in 1 .. Len(t) - 1 : t[i + 1].first = t[i].last + 1
    BY <2>1
  <2> QED  BY <1>1, <1>2, <2>2, <2>3 DEF TellsAll
<1>4. CASE s /= <<>>
  <2>1. Len(s) \in Nat \ {0}
    BY <1>4
  <2>2. (t[1].past = 0 \/ t[1].role = "system") /\ t[1].first = t[1].past + 1
    <3>1. t[1] = s[1]
      BY <1>1, <2>1
    <3> QED  BY <1>4, <3>1 DEF TellsAll
  <2>3. ASSUME NEW i \in 1 .. Len(t) - 1  PROVE t[i + 1].first = t[i].last + 1
    <3>1. /\ s[Len(s)].last = n
          /\ \A k \in 1 .. Len(s) - 1 : s[k + 1].first = s[k].last + 1
      BY <1>4 DEF TellsAll
    <3>2. CASE i = Len(s)
      <4>1. t[i] = s[Len(s)] /\ t[i + 1] = m
        BY <1>1, <2>1, <3>2
      <4> QED  BY <3>1, <4>1
    <3>3. CASE i /= Len(s)
      <4>1. i \in 1 .. Len(s) - 1 /\ t[i] = s[i] /\ t[i + 1] = s[i + 1]
        BY <1>1, <2>1, <3>3
      <4> QED  BY <3>1, <4>1
    <3> QED  BY <3>2, <3>3
  <2>4. t[Len(t)].last = n + 1
    BY <1>1
  <2> QED  BY <1>1, <1>2, <2>2, <2>3, <2>4 DEF TellsAll
<1> QED  BY <1>1, <1>3, <1>4 DEF t

(* A summary is a message of the session.                                  *)
LEMMA SummaryIsMessage ==
    ASSUME NEW s \in Seq(Message), s /= <<>>, NEW keep \in 0 .. Len(s)
    PROVE  Summary(s, keep) \in Message /\ Summary(s, keep).role = "system"
<1>1. s[1] \in Message /\ (keep /= 0 => s[keep] \in Message)
  OBVIOUS
<1>2. s[1].last \in Nat /\ TimelineEnd(s, keep) \in Nat
  BY <1>1 DEF Message, TimelineEnd
<1> DEFINE past == IF PrefixLen(s) = 1 THEN s[1].last ELSE 0
<1>3. past \in Nat /\ past + 1 \in Nat
  BY <1>2
<1>4. Summary(s, keep) =
          [past |-> past, first |-> past + 1, last |-> TimelineEnd(s, keep),
           role |-> "system", uses |-> 0, of |-> 0]
  BY DEF Summary
<1> HIDE DEF past
<1> QED  BY <1>2, <1>3, <1>4 DEF Message, Role

(* Compaction leaves nothing of what a session tells out of account: the   *)
(* summary takes over the highlights of the one there was, its timeline    *)
(* begins where that one's ended and ends right before the first message   *)
(* that stays.                                                             *)
LEMMA TellsAllCompacted ==
    ASSUME NEW s \in Seq(Message), NEW n \in Nat, TellsAll(s, n),
           NEW preserve \in Nat \ {0}, preserve < Len(s) - PrefixLen(s)
    PROVE  /\ CompactMessages(s, preserve) \in Seq(Message)
           /\ TellsAll(CompactMessages(s, preserve), n)
<1> DEFINE keep == KeepFrom(s, preserve)
           t == CompactMessages(s, preserve)
           rest == SubSeq(s, keep + 1, Len(s))
<1>0. PrefixLen(s) \in {0, 1} /\ Len(s) \in Nat /\ preserve <= Len(s)
  <2>1. PrefixLen(s) \in {0, 1}
    BY DEF PrefixLen
  <2> QED  BY <2>1
<1>1. keep \in PrefixLen(s) .. (Len(s) - preserve)
  <2>1. /\ keep \in Boundaries(s, preserve)
        /\ \A j \in Boundaries(s, preserve) : j <= keep
    BY <1>0, KeepFromBoundary
  <2>2. keep \in 0 .. (Len(s) - preserve)
    BY <2>1 DEF Boundaries
  <2> HIDE DEF keep
  <2>3. PrefixLen(s) \in 0 .. (Len(s) - preserve)
    BY <1>0
  <2>4. PrefixLen(s) \in Boundaries(s, preserve)
    BY <1>0, <2>3 DEF Boundaries
  <2> QED  BY <1>0, <2>1, <2>2, <2>4
<1>2. /\ Len(s) \in Nat /\ keep \in Nat /\ keep < Len(s) /\ s /= <<>>
      /\ keep >= PrefixLen(s)
  <2> HIDE DEF keep
  <2> QED  BY <1>0, <1>1
<1>3. /\ rest \in Seq(Message)
      /\ Len(rest) = Len(s) - keep
      /\ \A i \in 1 .. Len(s) - keep : rest[i] = s[keep + i]
  <2> HIDE DEF keep
  <2> QED  BY <1>2
<1>4. Summary(s, keep) \in Message /\ Summary(s, keep).role = "system"
  <2> HIDE DEF keep
  <2> QED  BY <1>2, SummaryIsMessage
<1>5. /\ Summary(s, keep).first = Summary(s, keep).past + 1
      /\ Summary(s, keep).last + 1 = s[keep + 1].first
  <2> HIDE DEF keep
  <2>1. Summary(s, keep).first = Summary(s, keep).past + 1
    BY DEF Summary
  <2>2. Summary(s, keep).last = TimelineEnd(s, keep)
    BY DEF Summary
  <2>3. CASE keep = 0
    <3>1. PrefixLen(s) = 0
      BY <1>0, <1>2, <2>3
    <3>2. s[1].role /= "system" /\ s[1] \in Message
      BY <1>2, <3>1 DEF PrefixLen
    <3>3. s[1].past = 0 /\ s[1].first = s[1].past + 1
      BY <1>2, <3>2 DEF TellsAll
    <3> QED  BY <2>1, <2>2, <2>3, <3>2, <3>3 DEF TimelineEnd
  <2>4. CASE keep /= 0
    <3>1. keep \in 1 .. Len(s) - 1
      BY <1>2, <2>4
    <3> QED  BY <1>2, <2>1, <2>2, <2>4, <3>1 DEF TimelineEnd, TellsAll
  <2> QED  BY <2>3, <2>4
<1>6. t = <<Summary(s, keep)>> \o rest
  BY DEF CompactMessages
<1> HIDE DEF keep, t, rest
<1>7. /\ t \in Seq(Message)
      /\ Len(t) = Len(s) - keep + 1
      /\ t[1] = Summary(s, keep)
      /\ \A i \in 1 .. Len(s) - keep : t[i + 1] = s[keep + i]
  <2>1. <<Summary(s, keep)>> \in Seq(Message) /\ Len(<<Summary(s, keep)>>) = 1
    BY <1>4
  <2>2. t \in Seq(Message) /\ Len(t) = 1 + Len(rest)
    BY <1>3, <1>6, <2>1, ConcatProperties
  <2>3. t[1] = Summary(s, keep)
    BY <1>2, <1>3, <1>6, <2>1, ConcatProperties
  <2>4. ASSUME NEW i \in 1 .. Len(s) - keep  PROVE t[i + 1] = s[keep + i]
    <3>1. t[i + 1] = rest[i]
      BY <1>2, <1>3, <1>6, <2>1, ConcatProperties
    <3> QED  BY <3>1, <1>3
  <2> QED  BY <1>2, <1>3, <2>2, <2>3, <2>4
<1>8. t /= <<>>
  BY <1>2, <1>7
<1>9. t[1].role = "system" /\ t[1].first = t[1].past + 1
  BY <1>4, <1>5, <1>7
<1>10. ASSUME NEW i \in 1 .. Len(t) - 1  PROVE t[i + 1].first = t[i].last + 1
  <2>1. CASE i = 1
    BY <1>2, <1>5, <1>7, <2>1
  <2>2. CASE i /= 1
    <3>1. i - 1 \in 1 .. Len(s) - keep /\ i \in 1 .. Len(s) - keep /\ i - 1 + 1 = i
      BY <1>2, <1>7, <2>2
    <3>2. t[i] = s[keep + (i - 1)] /\ t[i + 1] = s[keep + i]
      BY <1>7, <3>1
    <3>3. keep + (i - 1) \in 1 .. Len(s) - 1 /\ keep + (i - 1) + 1 = keep + i
      BY <1>2, <3>1
    <3>4. s[keep + (i - 1) + 1].first = s[keep + (i - 1)].last + 1
      BY <1>2, <3>3 DEF TellsAll
    <3> QED  BY <3>2, <3>3, <3>4
  <2> QED  BY <2>1, <2>2
<1>11. t[Len(t)].last = n
  <2>1. t[Len(t)] = s[Len(s)]
    <3>1. Len(s) - keep \in 1 .. Len(s) - keep /\ keep + (Len(s) - keep) = Len(s)
      BY <1>2
    <3> QED  BY <1>2, <1>7, <3>1
  <2> QED  BY <1>2, <2>1 DEF TellsAll
<1>12. TellsAll(t, n)
  BY <1>8, <1>9, <1>10, <1>11 DEF TellsAll
<1> QED  BY <1>7, <1>12 DEF t

-----------------------------------------------------------------------------
(* The invariant behind HistoryIsWhole: the shapes of sessions and files,  *)
(* and that a message is never appended while the file is moved aside.     *)
TurnShape ==
    [session: Session, owed: Int, asker: Nat, iterations: Nat, over: BOOLEAN]

Shapes ==
    /\ said \in Nat
    /\ phase \in Phase
    /\ phase /= "down" => memory \in Session
    /\ phase \in {"asking", "tools"} => turn \in TurnShape
    /\ main /= None => main \in File
    /\ rotated /= None => rotated \in File

MovedAsideWhileWriting ==
    main = None /\ rotated /= None => phase \in {"writing", "down"}

HistoryInv == Shapes /\ MovedAsideWhileWriting /\ HistoryIsWhole

(* A message said next: a user's, an assistant's, a tool's.                *)
LEMMA SaidIsMessage ==
    ASSUME said \in Nat, NEW role \in Role, NEW uses \in Nat, NEW of \in Nat
    PROVE  /\ Said(role, uses, of) \in Message
           /\ Said(role, uses, of).past = 0
           /\ Said(role, uses, of).first = said + 1
           /\ Said(role, uses, of).last = said + 1
  BY DEF Said, Message

(* Pushing the next message to a whole session leaves it whole.            *)
LEMMA PushedIsWhole ==
    ASSUME said \in Nat, NEW session \in Session, TellsAll(session.messages, said),
           NEW m \in Message, m.past = 0, m.first = said + 1, m.last = said + 1
    PROVE  /\ Pushed(session, m) \in Session
           /\ TellsAll(Pushed(session, m).messages, said + 1)
<1>1. session.messages \in Seq(Message) /\ session.compacted \in BOOLEAN
  BY DEF Session
<1>2. /\ Append(session.messages, m) \in Seq(Message)
      /\ TellsAll(Append(session.messages, m), said + 1)
  BY <1>1, TellsOneMore
<1>3. /\ Pushed(session, m) \in Session
      /\ Pushed(session, m).messages = Append(session.messages, m)
  BY <1>1, <1>2 DEF Pushed, Session
<1> QED  BY <1>2, <1>3

(* What the writes of an append make of a file.                            *)
LEMMA LinesAreFiles ==
    ASSUME NEW file \in File, NEW m \in Message
    PROVE  /\ {Torn(file), Line(file), Ended(Line(file)), Recorded(file, m),
                Ended(Recorded(file, m))} \subseteq File
           /\ Torn(file).torn
           /\ Torn(file).messages = file.messages
           /\ Line(file).messages = file.messages
           /\ ~Line(file).torn => ~file.torn
           /\ Ended(Line(file)).messages = file.messages
           /\ ~Ended(Line(file)).torn => ~file.torn
           /\ Recorded(file, m).messages = Append(file.messages, m)
           /\ ~Recorded(file, m).torn => ~file.torn
           /\ Ended(Recorded(file, m)).messages = Append(file.messages, m)
           /\ ~Ended(Recorded(file, m)).torn => ~file.torn
<1>1. /\ file.messages \in Seq(Message) /\ file.compacted \in BOOLEAN
      /\ file.ended \in BOOLEAN /\ file.torn \in BOOLEAN
      /\ Append(file.messages, m) \in Seq(Message)
  BY DEF File
<1>2. /\ Torn(file) \in File /\ Torn(file).torn
      /\ Torn(file).messages = file.messages
  BY <1>1 DEF Torn, File
<1>3. /\ Line(file) \in File /\ Line(file).messages = file.messages
      /\ Line(file).torn = (file.torn \/ ~file.ended)
  BY <1>1 DEF Line, File
<1>4. /\ Recorded(file, m) \in File
      /\ Recorded(file, m).messages = Append(file.messages, m)
      /\ Recorded(file, m).torn = Line(file).torn
  BY <1>1, <1>3 DEF Recorded, File
<1>5. ASSUME NEW f \in File
      PROVE  Ended(f) \in File /\ Ended(f).messages = f.messages /\ Ended(f).torn = f.torn
  BY DEF Ended, File
<1> QED  BY <1>2, <1>3, <1>4, <1>5

(* A file that loads is whole when the session and the file are.           *)
FileIsWhole(file, n) == ~file.torn => TellsAll(file.messages, n)

LEMMA RecordedIsWhole ==
    ASSUME said \in Nat, NEW file \in File, FileIsWhole(file, said),
           NEW m \in Message, m.past = 0, m.first = said + 1, m.last = said + 1
    PROVE  /\ FileIsWhole(Recorded(file, m), said + 1)
           /\ FileIsWhole(Ended(Recorded(file, m)), said + 1)
<1>1. file.messages \in Seq(Message)
  BY DEF File
<1>2. ~file.torn => TellsAll(Append(file.messages, m), said + 1)
  BY <1>1, TellsOneMore DEF FileIsWhole
<1>3. /\ Recorded(file, m).messages = Append(file.messages, m)
      /\ ~Recorded(file, m).torn => ~file.torn
      /\ Ended(Recorded(file, m)).messages = Append(file.messages, m)
      /\ ~Ended(Recorded(file, m)).torn => ~file.torn
  BY LinesAreFiles
<1>4. FileIsWhole(Recorded(file, m), said + 1)
  BY <1>2, <1>3 DEF FileIsWhole
<1>5. FileIsWhole(Ended(Recorded(file, m)), said + 1)
  BY <1>2, <1>3 DEF FileIsWhole
<1> QED  BY <1>4, <1>5

LEMMA AppendedIsWhole ==
    ASSUME said \in Nat, NEW session \in Session, TellsAll(session.messages, said),
           main /= None => main \in File /\ FileIsWhole(main, said),
           NEW m \in Message, m.past = 0, m.first = said + 1, m.last = said + 1
    PROVE  /\ Appended(session, m) \in File
           /\ FileIsWhole(Appended(session, m), said + 1)
<1>1. CASE main = None
  <2>1. /\ Pushed(session, m) \in Session
        /\ TellsAll(Pushed(session, m).messages, said + 1)
    BY PushedIsWhole
  <2>2. /\ Snapshot(Pushed(session, m)) \in File
        /\ Snapshot(Pushed(session, m)).messages = Pushed(session, m).messages
    BY <2>1 DEF Snapshot, Session, File
  <2> QED  BY <1>1, <2>1, <2>2 DEF Appended, FileIsWhole
<1>2. CASE main /= None
  <2>1. Appended(session, m) = Ended(Recorded(main, m))
    BY <1>2 DEF Appended
  <2>2. Ended(Recorded(main, m)) \in File
    BY <1>2, LinesAreFiles
  <2>3. FileIsWhole(Ended(Recorded(main, m)), said + 1)
    BY <1>2, RecordedIsWhole
  <2> QED  BY <2>1, <2>2, <2>3
<1> QED  BY <1>1, <1>2

(* Every message that may be appended next is one, and says what comes.    *)
LEMMA NextMessageIsNext ==
    ASSUME Shapes, NEW m \in NextMessages
    PROVE  /\ m \in Message
           /\ m.past = 0 /\ m.first = said + 1 /\ m.last = said + 1
           /\ m.role = "tool" => phase = "tools" /\ m.of = turn.asker
<1>1. said \in Nat /\ MaxUses \in Nat
  BY ConversationAssumption DEF Shapes
<1>2. CASE phase \in {"idle", "prompted"}
  <2>1. m = Said("user", 0, 0)
    BY <1>2 DEF NextMessages
  <2> QED  BY <1>1, <2>1, SaidIsMessage DEF Role, Said
<1>3. CASE phase = "asking"
  <2>1. PICK uses \in 0 .. MaxUses : m = Said("assistant", uses, 0)
    <3>1. CASE MayAsk(turn)
      BY <1>3, <3>1 DEF NextMessages
    <3>2. CASE ~MayAsk(turn)
      BY <1>3, <3>2 DEF NextMessages
    <3> QED  BY <3>1, <3>2
  <2>2. uses \in Nat
    BY <1>1
  <2> QED  BY <1>1, <2>1, <2>2, SaidIsMessage DEF Role, Said
<1>4. CASE phase = "tools"
  <2>1. m = Said("tool", 0, turn.asker) /\ turn.asker \in Nat
    BY <1>4 DEF NextMessages, Shapes, TurnShape
  <2> QED  BY <1>1, <1>4, <2>1, SaidIsMessage DEF Role, Said
<1>5. CASE phase \notin {"idle", "prompted", "asking", "tools"}
  BY <1>5 DEF NextMessages
<1> QED  BY <1>2, <1>3, <1>4, <1>5

(* A compacted session tells what it told.                                 *)
LEMMA CompactedIsWhole ==
    ASSUME NEW n \in Nat, NEW session \in Session, TellsAll(session.messages, n),
           NEW large, ShouldCompact(session.messages, Preserve, large)
    PROVE  /\ Compacted(session) \in Session
           /\ TellsAll(Compacted(session).messages, n)
<1>1. session.messages \in Seq(Message)
  BY DEF Session
<1>2. /\ Preserve \in Nat \ {0}
      /\ Preserve < Len(session.messages) - PrefixLen(session.messages)
  <2>1. PrefixLen(session.messages) \in {0, 1}
    BY DEF PrefixLen
  <2>2. Len(session.messages) - PrefixLen(session.messages) > Preserve
    BY DEF ShouldCompact
  <2>3. Len(session.messages) \in Nat
    BY <1>1
  <2> QED  BY <2>1, <2>2, <2>3, ConversationAssumption
<1>3. /\ CompactMessages(session.messages, Preserve) \in Seq(Message)
      /\ TellsAll(CompactMessages(session.messages, Preserve), n)
  BY <1>1, <1>2, TellsAllCompacted
<1> QED  BY <1>3 DEF Compacted, Session

(* So does a session that compacts itself once the threshold is reached.   *)
LEMMA AutoCompactedIsWhole ==
    ASSUME NEW n \in Nat, NEW session \in Session, TellsAll(session.messages, n),
           NEW over \in BOOLEAN
    PROVE  /\ AutoCompacted(session, over) \in Session
           /\ TellsAll(AutoCompacted(session, over).messages, n)
<1>1. CASE ShouldCompact(session.messages, Preserve, over)
  BY <1>1, CompactedIsWhole DEF AutoCompacted
<1>2. CASE ~ShouldCompact(session.messages, Preserve, over)
  BY <1>2 DEF AutoCompacted
<1> QED  BY <1>1, <1>2

(* The new conversation.                                                   *)
LEMMA HistoryInit == Init => HistoryInv
  <1> SUFFICES ASSUME Init  PROVE HistoryInv
    OBVIOUS
  <1>1. NewSession \in Session /\ TellsAll(NewSession.messages, 0)
    BY DEF NewSession, Session, TellsAll
  <1> QED
    BY <1>1 DEF Init, HistoryInv, Shapes, Phase, MovedAsideWhileWriting, HistoryIsWhole

(* Every step keeps the history whole.                                     *)
LEMMA HistoryStep == HistoryInv /\ [Next]_vars => HistoryInv'
<1> SUFFICES ASSUME HistoryInv, [Next]_vars  PROVE HistoryInv'
  OBVIOUS
<1> USE DEF HistoryInv, Shapes, MovedAsideWhileWriting
<1>1. CASE StartTurn
  <2> DEFINE m == Said("user", 0, 0)
  <2>1. m \in Message /\ m.past = 0 /\ m.first = said + 1 /\ m.last = said + 1
    BY SaidIsMessage DEF Role
  <2>2. memory \in Session /\ TellsAll(memory.messages, said)
    BY <1>1 DEF StartTurn, HistoryIsWhole, Resting
  <2> HIDE DEF m
  <2>3. Pushed(memory, m) \in Session /\ TellsAll(Pushed(memory, m).messages, said + 1)
    BY <2>1, <2>2, PushedIsWhole
  <2>4. Appended(memory, m) \in File /\ FileIsWhole(Appended(memory, m), said + 1)
    BY <2>1, <2>2, AppendedIsWhole DEF HistoryIsWhole, FileIsWhole
  <2>5. /\ turn' = [session |-> Pushed(memory, m), owed |-> 0, asker |-> 0,
                    iterations |-> 0, over |-> FALSE]
        /\ main' = Appended(memory, m)
        /\ said' = said + 1 /\ phase' = "asking"
        /\ UNCHANGED <<memory, rotated, resumedAt>>
    BY <1>1 DEF StartTurn, m
  <2>6. turn' \in TurnShape /\ turn'.session = Pushed(memory, m)
    BY <2>3, <2>5 DEF TurnShape
  <2>7. Shapes'
    <3>1. said' \in Nat /\ phase' \in Phase /\ memory' \in Session
      BY <2>2, <2>5 DEF Phase
    <3> QED  BY <2>4, <2>5, <2>6, <3>1
  <2>8. main' /= None
    BY <2>4, <2>5, NoneAssumption
  <2>9. MovedAsideWhileWriting'
    BY <2>8
  <2>10. HistoryIsWhole'
    BY <2>3, <2>4, <2>5, <2>6, <2>8 DEF HistoryIsWhole, Resting, FileIsWhole
  <2> QED  BY <2>7, <2>9, <2>10
<1>2. ASSUME NEW uses \in 0 .. MaxUses, NEW over \in BOOLEAN, Reply(uses, over)
      PROVE  HistoryInv'
  <2> DEFINE m == Said("assistant", uses, 0)
             session == AutoCompacted(Pushed(turn.session, m), over)
  <2>1. m \in Message /\ m.past = 0 /\ m.first = said + 1 /\ m.last = said + 1
    BY SaidIsMessage, ConversationAssumption DEF Role
  <2>2. turn \in TurnShape /\ phase = "asking"
    BY <1>2 DEF Reply
  <2>3. turn.session \in Session /\ TellsAll(turn.session.messages, said)
    BY <2>2 DEF HistoryIsWhole, TurnShape
  <2>4. turn.iterations \in Nat
    BY <2>2 DEF TurnShape
  <2>5. /\ main' = Appended(turn.session, m)
        /\ IF uses = 0
           THEN memory' = session /\ turn' = None /\ phase' = "saving"
           ELSE /\ turn' = [session |-> session, owed |-> uses, asker |-> said + 1,
                            iterations |-> turn.iterations + 1, over |-> over]
                /\ phase' = "tools"
                /\ UNCHANGED memory
        /\ said' = said + 1
        /\ UNCHANGED <<rotated, resumedAt>>
    BY <1>2 DEF Reply
  <2> HIDE DEF m
  <2>6. /\ Pushed(turn.session, m) \in Session
        /\ TellsAll(Pushed(turn.session, m).messages, said + 1)
    BY <2>1, <2>3, PushedIsWhole
  <2>7. session \in Session /\ TellsAll(session.messages, said + 1)
    BY <2>6, AutoCompactedIsWhole
  <2>8. /\ Appended(turn.session, m) \in File
        /\ FileIsWhole(Appended(turn.session, m), said + 1)
    BY <2>1, <2>3, AppendedIsWhole DEF HistoryIsWhole, FileIsWhole
  <2> HIDE DEF session
  <2>9. main' /= None
    BY <2>5, <2>8, NoneAssumption
  <2>10. CASE uses = 0
    <3>1. memory' = session /\ phase' = "saving"
      BY <2>5, <2>10
    <3>2. Shapes'
      BY <2>5, <2>7, <2>8, <3>1 DEF Phase
    <3>3. MovedAsideWhileWriting' /\ HistoryIsWhole'
      BY <2>5, <2>7, <2>8, <2>9, <3>1 DEF HistoryIsWhole, FileIsWhole
    <3> QED  BY <3>2, <3>3
  <2>11. CASE uses /= 0
    <3>1. /\ turn' = [session |-> session, owed |-> uses, asker |-> said + 1,
                      iterations |-> turn.iterations + 1, over |-> over]
          /\ phase' = "tools" /\ memory' = memory
      BY <2>5, <2>11
    <3>2. turn' \in TurnShape /\ turn'.session = session
      BY <2>4, <2>7, <3>1 DEF TurnShape
    <3>3. Shapes'
      BY <2>2, <2>5, <2>8, <3>1, <3>2 DEF Phase
    <3>4. MovedAsideWhileWriting' /\ HistoryIsWhole'
      BY <2>5, <2>7, <2>8, <2>9, <3>1, <3>2 DEF HistoryIsWhole, Resting, FileIsWhole
    <3> QED  BY <3>3, <3>4
  <2> QED  BY <2>10, <2>11
<1>3. CASE ToolResult
  <2> DEFINE m == Said("tool", 0, turn.asker)
             t == [turn EXCEPT !.session = Pushed(@, m), !.owed = StillOwed(turn)]
  <2>1. turn \in TurnShape /\ phase = "tools"
    BY <1>3 DEF ToolResult
  <2>2. turn.session \in Session /\ TellsAll(turn.session.messages, said)
    BY <2>1 DEF HistoryIsWhole, TurnShape
  <2>3. turn.asker \in Nat /\ StillOwed(turn) \in Int
    BY <2>1 DEF TurnShape, StillOwed
  <2>4. m \in Message /\ m.past = 0 /\ m.first = said + 1 /\ m.last = said + 1
    BY <2>3, SaidIsMessage DEF Role
  <2>5. /\ turn' = t /\ main' = Appended(turn.session, m)
        /\ phase' \in {"asking", "tools"}
        /\ said' = said + 1
        /\ UNCHANGED <<memory, rotated, resumedAt>>
    BY <1>3 DEF ToolResult
  <2> HIDE DEF m
  <2>6. /\ Pushed(turn.session, m) \in Session
        /\ TellsAll(Pushed(turn.session, m).messages, said + 1)
    BY <2>2, <2>4, PushedIsWhole
  <2>7. /\ Appended(turn.session, m) \in File
        /\ FileIsWhole(Appended(turn.session, m), said + 1)
    BY <2>2, <2>4, AppendedIsWhole DEF HistoryIsWhole, FileIsWhole
  <2>8. t \in TurnShape /\ t.session = Pushed(turn.session, m)
    BY <2>1, <2>3, <2>6 DEF TurnShape
  <2> HIDE DEF t
  <2>9. main' /= None
    BY <2>5, <2>7, NoneAssumption
  <2>10. Shapes'
    BY <2>1, <2>5, <2>7, <2>8 DEF Phase
  <2>11. MovedAsideWhileWriting' /\ HistoryIsWhole'
    BY <2>5, <2>6, <2>7, <2>8, <2>9 DEF HistoryIsWhole, Resting, FileIsWhole
  <2> QED  BY <2>10, <2>11
<1>4. CASE Rotate
  BY <1>4 DEF Rotate, HistoryIsWhole, Phase, Resting
<1>5. CASE Write
  <2>1. memory \in Session /\ TellsAll(memory.messages, said)
    BY <1>5 DEF Write, HistoryIsWhole, Resting
  <2>2. Snapshot(memory) \in File /\ Snapshot(memory).messages = memory.messages
    BY <2>1 DEF Snapshot, Session, File
  <2>3. /\ main' = Snapshot(memory) /\ phase' = "idle"
        /\ UNCHANGED <<memory, turn, rotated, said, resumedAt>>
    BY <1>5 DEF Write
  <2>4. main' /= None
    BY <2>2, <2>3, NoneAssumption
  <2> QED  BY <2>1, <2>2, <2>3, <2>4 DEF HistoryIsWhole, Phase, Resting
<1>6. ASSUME NEW large \in BOOLEAN, CompactCommand(large)  PROVE HistoryInv'
  <2>1. memory \in Session /\ TellsAll(memory.messages, said)
    BY <1>6 DEF CompactCommand, HistoryIsWhole, Resting
  <2>2. memory' \in Session /\ TellsAll(memory'.messages, said)
    BY <1>6, <2>1, CompactedIsWhole DEF CompactCommand
  <2>3. /\ phase = "idle" /\ phase' = "saving"
        /\ UNCHANGED <<turn, main, rotated, said, resumedAt>>
    BY <1>6 DEF CompactCommand
  <2> QED  BY <2>2, <2>3 DEF HistoryIsWhole, Phase, Resting
<1>7. CASE Stop
  BY <1>7 DEF Stop, HistoryIsWhole, Phase, Resting
<1>8. CASE StopMidAppend
  <2>1. PICK m \in NextMessages : \/ main' = Torn(main) /\ said' = said
                                  \/ main' = Recorded(main, m) /\ said' = said + 1
    BY <1>8 DEF StopMidAppend
  <2>2. /\ main /= None /\ phase' = "down" /\ UNCHANGED <<rotated, resumedAt>>
        /\ main \in File /\ FileIsWhole(main, said)
    BY <1>8 DEF StopMidAppend, HistoryIsWhole, FileIsWhole
  <2>3. m \in Message /\ m.past = 0 /\ m.first = said + 1 /\ m.last = said + 1
    BY NextMessageIsNext
  <2>4. main' \in File /\ FileIsWhole(main', said') /\ said' \in Nat
    <3>1. CASE main' = Torn(main) /\ said' = said
      BY <2>2, <2>3, <3>1, LinesAreFiles DEF FileIsWhole
    <3>2. CASE main' = Recorded(main, m) /\ said' = said + 1
      <4>1. Recorded(main, m) \in File
        BY <2>2, <2>3, LinesAreFiles
      <4>2. FileIsWhole(Recorded(main, m), said + 1)
        BY <2>2, <2>3, RecordedIsWhole
      <4> QED  BY <3>2, <4>1, <4>2
    <3> QED  BY <2>1, <3>1, <3>2
  <2>5. main' /= None
    BY <2>4, NoneAssumption
  <2> QED  BY <2>2, <2>4, <2>5 DEF HistoryIsWhole, Phase, Resting, FileIsWhole
<1>9. CASE Resume
  <2>1. main \in File /\ TellsAll(main.messages, said)
    BY <1>9 DEF Resume, HistoryIsWhole
  <2>2. memory' \in Session /\ memory'.messages = main.messages
    BY <1>9, <2>1 DEF Resume, Session, File
  <2>3. /\ main /= None /\ phase' = "idle"
        /\ UNCHANGED <<turn, main, rotated, said>>
    BY <1>9 DEF Resume
  <2> QED  BY <2>1, <2>2, <2>3 DEF HistoryIsWhole, Phase, Resting
<1>10. CASE RecordPrompt
  <2>1. /\ phase = "idle" /\ phase' = "prompted"
        /\ UNCHANGED <<memory, turn, rotated, said, resumedAt>>
        /\ main' \in IF main = None THEN {None, Snapshot(memory)}
                      ELSE {main, Torn(main), Line(main), Ended(Line(main))}
    BY <1>10 DEF RecordPrompt
  <2>2. memory \in Session /\ TellsAll(memory.messages, said)
    BY <2>1 DEF HistoryIsWhole, Resting
  <2>3. main' /= None => main' \in File /\ FileIsWhole(main', said)
    <3>1. CASE main = None
      <4>1. /\ Snapshot(memory) \in File
            /\ Snapshot(memory).messages = memory.messages
        BY <2>2 DEF Snapshot, Session, File
      <4> QED  BY <2>1, <2>2, <3>1, <4>1 DEF FileIsWhole
    <3>2. CASE main /= None
      <4>1. main \in File /\ FileIsWhole(main, said)
        BY <3>2 DEF HistoryIsWhole, FileIsWhole
      <4>2. {Torn(main), Line(main), Ended(Line(main))} \subseteq File
        BY <2>2, <4>1, LinesAreFiles, SaidIsMessage DEF Role
      <4>3. Said("user", 0, 0) \in Message
        BY SaidIsMessage DEF Role
      <4>4. /\ Torn(main).torn
            /\ Line(main).messages = main.messages /\ (~Line(main).torn => ~main.torn)
            /\ Ended(Line(main)).messages = main.messages
            /\ ~Ended(Line(main)).torn => ~main.torn
        BY <4>1, <4>3, LinesAreFiles
      <4>5. /\ FileIsWhole(Torn(main), said)
            /\ FileIsWhole(Line(main), said)
            /\ FileIsWhole(Ended(Line(main)), said)
        <5>1. FileIsWhole(Torn(main), said)
          BY <4>4 DEF FileIsWhole
        <5>2. FileIsWhole(Line(main), said)
          BY <4>1, <4>4 DEF FileIsWhole
        <5>3. FileIsWhole(Ended(Line(main)), said)
          BY <4>1, <4>4 DEF FileIsWhole
        <5> QED  BY <5>1, <5>2, <5>3
      <4> QED  BY <2>1, <3>2, <4>1, <4>2, <4>5
    <3> QED  BY <3>1, <3>2
  <2>4. main' = None /\ rotated' /= None => FALSE
    <3>1. main' = None => main = None
      <4> SUFFICES ASSUME main /= None, main' = None  PROVE FALSE
        OBVIOUS
      <4>1. {main, Torn(main), Line(main), Ended(Line(main))} \subseteq File
        BY LinesAreFiles, SaidIsMessage DEF Role
      <4> QED  BY <2>1, <4>1, NoneAssumption
    <3> QED  BY <2>1, <3>1
  <2> QED  BY <2>1, <2>2, <2>3, <2>4 DEF HistoryIsWhole, Phase, Resting, FileIsWhole
<1>11. CASE UNCHANGED vars
  BY <1>11 DEF vars, HistoryIsWhole
<1> QED
  BY <1>1, <1>2, <1>3, <1>4, <1>5, <1>6, <1>7, <1>8, <1>9, <1>10, <1>11 DEF Next

(* In every reachable state, for any bounds on compaction, tool uses,      *)
(* iterations and length, the session and its newest file that loads       *)
(* account for every message said, wherever an append was cut off.         *)
THEOREM ConversationHistoryIsWhole == Spec => []HistoryIsWhole
<1>1. HistoryInv => HistoryIsWhole
  BY DEF HistoryInv
<1> QED  BY <1>1, HistoryInit, HistoryStep, PTL DEF Spec

-----------------------------------------------------------------------------
(* Compaction replaces the front of a session by one system message and    *)
(* keeps the rest as it is; what it keeps starts with a tool result only   *)
(* when nothing but a summary goes.                                        *)
LEMMA CompactedKeepsEnd ==
    ASSUME NEW s \in Seq(Message), NEW preserve \in Nat \ {0}, preserve < Len(s)
    PROVE  LET t == CompactMessages(s, preserve)
           IN  \E keep \in 0 .. Len(s) - 1 :
                   /\ t \in Seq(Message)
                   /\ Len(t) = (Len(s) - keep) + 1
                   /\ t[1].role = "system"
                   /\ \A i \in 1 .. Len(s) - keep : t[i + 1] = s[keep + i]
                   /\ s[keep + 1].role = "tool" => keep <= PrefixLen(s)
<1> DEFINE keep == KeepFrom(s, preserve)
           t == CompactMessages(s, preserve)
           rest == SubSeq(s, keep + 1, Len(s))
<1>1. keep \in 0 .. (Len(s) - preserve)
  BY KeepFromBoundary DEF Boundaries
<1>2. keep <= PrefixLen(s) \/ keep = Len(s) \/ s[keep + 1].role /= "tool"
  BY KeepFromBoundary DEF Boundaries
<1>3. Len(s) \in Nat /\ keep \in Nat /\ keep < Len(s) /\ s /= <<>>
  BY <1>1
<1>4. /\ rest \in Seq(Message)
      /\ Len(rest) = Len(s) - keep
      /\ \A i \in 1 .. Len(s) - keep : rest[i] = s[keep + i]
  <2> HIDE DEF keep
  <2> QED  BY <1>3
<1>5. Summary(s, keep) \in Message /\ Summary(s, keep).role = "system"
  <2> HIDE DEF keep
  <2> QED  BY <1>3, SummaryIsMessage
<1>6. t = <<Summary(s, keep)>> \o rest
  BY DEF CompactMessages
<1> HIDE DEF keep, t, rest
<1>7. <<Summary(s, keep)>> \in Seq(Message) /\ Len(<<Summary(s, keep)>>) = 1
  BY <1>5
<1>8. t \in Seq(Message) /\ Len(t) = 1 + Len(rest)
  BY <1>4, <1>6, <1>7, ConcatProperties
<1>9. t[1] = Summary(s, keep)
  BY <1>3, <1>4, <1>6, <1>7, ConcatProperties
<1>10. ASSUME NEW i \in 1 .. Len(s) - keep  PROVE t[i + 1] = s[keep + i]
  <2>1. t[i + 1] = rest[i]
    BY <1>3, <1>4, <1>6, <1>7, ConcatProperties
  <2> QED  BY <2>1, <1>4
<1>11. keep \in 0 .. Len(s) - 1 /\ Len(t) = (Len(s) - keep) + 1
  BY <1>3, <1>4, <1>8
<1>12. s[keep + 1].role = "tool" => keep <= PrefixLen(s)
  BY <1>2, <1>3
<1>13. t[1].role = "system"
  BY <1>5, <1>9
<1> QED  BY <1>8, <1>10, <1>11, <1>12, <1>13 DEF t

(* The round of the assistant message asker is open: only tool results     *)
(* follow it.                                                              *)
OpenRound(s, asker) ==
    \E j \in 1 .. Len(s) :
        /\ s[j].role = "assistant" /\ s[j].first = asker
        /\ \A k \in j + 1 .. Len(s) : s[k].role = "tool"

LEMMA RoundOpens ==
    ASSUME NEW s \in Seq(Message), NEW m \in Message,
           m.role = "assistant"
    PROVE  OpenRound(Append(s, m), m.first)
<1> DEFINE t == Append(s, m)
<1>1. t \in Seq(Message) /\ Len(t) = Len(s) + 1 /\ t[Len(t)] = m
  BY AppendProperties
<1> HIDE DEF t
<1>2. Len(t) \in 1 .. Len(t) /\ \A k \in Len(t) + 1 .. Len(t) : FALSE
  BY <1>1
<1>3. OpenRound(t, m.first)
  BY <1>1, <1>2 DEF OpenRound
<1> QED  BY <1>3 DEF t

LEMMA RoundStaysOpen ==
    ASSUME NEW s \in Seq(Message), NEW m \in Message, NEW asker,
           m.role = "tool", OpenRound(s, asker)
    PROVE  OpenRound(Append(s, m), asker)
<1> DEFINE t == Append(s, m)
<1>1. /\ t \in Seq(Message)
      /\ Len(t) = Len(s) + 1
      /\ t[Len(t)] = m
      /\ \A i \in 1 .. Len(s) : t[i] = s[i]
  BY AppendProperties
<1> HIDE DEF t
<1>2. PICK j \in 1 .. Len(s) : /\ s[j].role = "assistant" /\ s[j].first = asker
                               /\ \A k \in j + 1 .. Len(s) : s[k].role = "tool"
  BY DEF OpenRound
<1>3. j \in 1 .. Len(t) /\ t[j].role = "assistant" /\ t[j].first = asker
  BY <1>1, <1>2
<1>4. ASSUME NEW k \in j + 1 .. Len(t)  PROVE t[k].role = "tool"
  <2>1. CASE k = Len(t)
    BY <1>1, <2>1
  <2>2. CASE k /= Len(t)
    <3>1. k \in j + 1 .. Len(s) /\ k \in 1 .. Len(s)
      BY <1>1, <2>2
    <3> QED  BY <1>1, <1>2, <3>1
  <2> QED  BY <2>1, <2>2
<1>5. OpenRound(t, asker)
  BY <1>3, <1>4 DEF OpenRound
<1> QED  BY <1>5 DEF t

(* A round that the last message has opened is open after a compaction,    *)
(* which keeps at least one message.                                       *)
LEMMA RoundOpenCompacted ==
    ASSUME NEW s \in Seq(Message), NEW preserve \in Nat \ {0}, preserve < Len(s),
           s[Len(s)].role = "assistant"
    PROVE  LET t == CompactMessages(s, preserve)
           IN  OpenRound(t, s[Len(s)].first) /\ t[Len(t)] = s[Len(s)]
<1> DEFINE t == CompactMessages(s, preserve)
<1>1. PICK keep \in 0 .. Len(s) - 1 :
          /\ t \in Seq(Message)
          /\ Len(t) = (Len(s) - keep) + 1
          /\ \A i \in 1 .. Len(s) - keep : t[i + 1] = s[keep + i]
  BY CompactedKeepsEnd
<1> HIDE DEF t
<1>2. Len(s) - keep \in 1 .. Len(s) - keep /\ keep + (Len(s) - keep) = Len(s)
  OBVIOUS
<1>3. t[Len(t)] = s[Len(s)]
  BY <1>1, <1>2
<1>4. Len(t) \in 1 .. Len(t) /\ \A k \in Len(t) + 1 .. Len(t) : FALSE
  BY <1>1
<1>5. OpenRound(t, s[Len(s)].first)
  BY <1>3, <1>4 DEF OpenRound
<1> QED  BY <1>3, <1>5 DEF t

-----------------------------------------------------------------------------
(* A message said next, a tool result only to an open round, leaves every  *)
(* tool result with its use.                                               *)
LEMMA ResultsAppended ==
    ASSUME NEW s \in Seq(Message), NEW m \in Message, ResultsHaveUses(s),
           m.role = "tool" => OpenRound(s, m.of)
    PROVE  ResultsHaveUses(Append(s, m))
<1> DEFINE t == Append(s, m)
<1>1. /\ t \in Seq(Message)
      /\ Len(t) = Len(s) + 1
      /\ t[Len(t)] = m
      /\ \A i \in 1 .. Len(s) : t[i] = s[i]
  BY AppendProperties
<1> HIDE DEF t
<1>2. ASSUME NEW i \in 1 .. Len(t), t[i].role = "tool"
      PROVE  \E j \in 1 .. i - 1 : /\ t[j].role = "assistant" /\ t[j].first = t[i].of
                                   /\ \A k \in j + 1 .. i - 1 : t[k].role = "tool"
  <2>1. CASE i = Len(t)
    <3>1. OpenRound(s, m.of)
      BY <1>1, <1>2, <2>1
    <3>2. PICK j \in 1 .. Len(s) : /\ s[j].role = "assistant" /\ s[j].first = m.of
                                   /\ \A k \in j + 1 .. Len(s) : s[k].role = "tool"
      BY <3>1 DEF OpenRound
    <3>3. i - 1 = Len(s) /\ j \in 1 .. i - 1
      BY <1>1, <2>1
    <3>4. \A k \in j + 1 .. i - 1 : t[k].role = "tool"
      BY <1>1, <3>2, <3>3
    <3> QED  BY <1>1, <2>1, <3>2, <3>3, <3>4
  <2>2. CASE i /= Len(t)
    <3>1. i \in 1 .. Len(s) /\ t[i] = s[i]
      BY <1>1, <2>2
    <3>2. PICK j \in 1 .. i - 1 : /\ s[j].role = "assistant" /\ s[j].first = s[i].of
                                  /\ \A k \in j + 1 .. i - 1 : s[k].role = "tool"
      BY <1>2, <3>1 DEF ResultsHaveUses
    <3>3. j \in 1 .. Len(s) /\ \A k \in j + 1 .. i - 1 : k \in 1 .. Len(s)
      BY <3>1
    <3> QED  BY <1>1, <3>1, <3>2, <3>3
  <2> QED  BY <2>1, <2>2
<1>3. ResultsHaveUses(t)
  BY <1>2 DEF ResultsHaveUses
<1> QED  BY <1>3 DEF t

(* Compaction never parts a tool result from its use.                      *)
LEMMA ResultsCompacted ==
    ASSUME NEW s \in Seq(Message), NEW preserve \in Nat \ {0}, preserve < Len(s),
           ResultsHaveUses(s)
    PROVE  ResultsHaveUses(CompactMessages(s, preserve))
<1> DEFINE t == CompactMessages(s, preserve)
<1>1. PICK keep \in 0 .. Len(s) - 1 :
          /\ t \in Seq(Message)
          /\ Len(t) = (Len(s) - keep) + 1
          /\ t[1].role = "system"
          /\ \A i \in 1 .. Len(s) - keep : t[i + 1] = s[keep + i]
          /\ s[keep + 1].role = "tool" => keep <= PrefixLen(s)
  BY CompactedKeepsEnd
<1> HIDE DEF t
<1>2. ASSUME NEW i \in 1 .. Len(t), t[i].role = "tool"
      PROVE  \E j \in 1 .. i - 1 : /\ t[j].role = "assistant" /\ t[j].first = t[i].of
                                   /\ \A k \in j + 1 .. i - 1 : t[k].role = "tool"
  <2> DEFINE p == keep + (i - 1)
  <2>1. i /= 1
    BY <1>1, <1>2
  <2>2. i - 1 \in 1 .. Len(s) - keep /\ p \in keep + 1 .. Len(s) /\ (i - 1) + 1 = i
    BY <1>1, <2>1
  <2>3. p \in 1 .. Len(s)
    BY <2>2
  <2>4. t[i] = s[p]
    BY <1>1, <2>2
  <2> HIDE DEF p
  <2>5. PICK q \in 1 .. p - 1 : /\ s[q].role = "assistant" /\ s[q].first = s[p].of
                                /\ \A k \in q + 1 .. p - 1 : s[k].role = "tool"
    BY <1>2, <2>3, <2>4 DEF ResultsHaveUses
  <2>6. q > keep
    <3> SUFFICES ASSUME q <= keep  PROVE FALSE
      BY <2>2, <2>5
    <3>1. s[keep + 1].role = "tool"
      <4>1. CASE p = keep + 1
        BY <1>2, <2>4, <4>1
      <4>2. CASE p /= keep + 1
        <5>1. keep + 1 \in q + 1 .. p - 1
          BY <2>2, <4>2
        <5> QED  BY <2>5, <5>1
      <4> QED  BY <4>1, <4>2
    <3>2. keep <= PrefixLen(s)
      BY <1>1, <3>1
    <3>3. q = 1 /\ PrefixLen(s) = 1
      <4>1. PrefixLen(s) \in {0, 1}
        BY DEF PrefixLen
      <4> QED  BY <3>2, <4>1, <2>2
    <3>4. s[1].role = "system"
      BY <3>3 DEF PrefixLen
    <3> QED  BY <2>5, <3>3, <3>4
  <2> DEFINE j == (q - keep) + 1
  <2>7. q - keep \in 1 .. Len(s) - keep /\ keep + (q - keep) = q
    BY <2>2, <2>6
  <2>8. j \in 1 .. i - 1 /\ t[j] = s[q]
    <3>1. t[j] = s[q]
      BY <1>1, <2>7
    <3>2. p = keep + (i - 1) /\ q <= p - 1
      BY <2>3 DEF p
    <3> QED  BY <2>7, <3>1, <3>2
  <2>9. ASSUME NEW k \in j + 1 .. i - 1  PROVE t[k].role = "tool"
    <3>1. k - 1 \in 1 .. Len(s) - keep /\ (k - 1) + 1 = k
      BY <1>1, <2>7
    <3>2. p = keep + (i - 1)
      BY DEF p
    <3>3. keep + (k - 1) \in q + 1 .. p - 1
      BY <2>7, <3>2
    <3>4. t[k] = s[keep + (k - 1)]
      BY <1>1, <3>1
    <3> QED  BY <2>5, <3>3, <3>4
  <2> HIDE DEF j
  <2> QED  BY <2>4, <2>5, <2>8, <2>9
<1>3. ResultsHaveUses(t)
  BY <1>2 DEF ResultsHaveUses
<1> QED  BY <1>3 DEF t

-----------------------------------------------------------------------------
(* What the operations on sessions and files do to their messages.         *)
LEMMA PushedMessages ==
    ASSUME NEW session \in Session, NEW m \in Message
    PROVE  /\ Pushed(session, m).messages = Append(session.messages, m)
           /\ session.messages \in Seq(Message)
           /\ Append(session.messages, m) \in Seq(Message)
  BY DEF Pushed, Session

LEMMA AppendedMessages ==
    ASSUME NEW session \in Session, NEW m \in Message,
           main /= None => main \in File
    PROVE  Appended(session, m).messages =
               IF main = None THEN Append(session.messages, m)
               ELSE Append(main.messages, m)
<1>1. CASE main = None
  BY <1>1, PushedMessages DEF Appended, Snapshot
<1>2. CASE main /= None
  <2>1. Appended(session, m) = Ended(Recorded(main, m))
    BY <1>2 DEF Appended
  <2> QED  BY <1>2, <2>1, LinesAreFiles
<1> QED  BY <1>1, <1>2

(* The prompt history changes no message of a file.                        *)
LEMMA PromptedMessages ==
    ASSUME Shapes, RecordPrompt
    PROVE  /\ phase = "idle" /\ phase' = "prompted"
           /\ UNCHANGED <<memory, turn, said, resumedAt>>
           /\ main' /= None =>
                  main'.messages = IF main = None THEN memory.messages ELSE main.messages
<1>1. /\ phase = "idle" /\ phase' = "prompted"
      /\ UNCHANGED <<memory, turn, said, resumedAt>>
      /\ main' \in IF main = None THEN {None, Snapshot(memory)}
                    ELSE {main, Torn(main), Line(main), Ended(Line(main))}
  BY DEF RecordPrompt
<1>2. CASE main = None
  <2>1. Snapshot(memory).messages = memory.messages
    BY DEF Snapshot
  <2> QED  BY <1>1, <1>2, <2>1
<1>3. CASE main /= None
  <2>1. main \in File /\ Said("user", 0, 0) \in Message
    BY <1>3, SaidIsMessage DEF Shapes, Role
  <2>2. /\ Torn(main).messages = main.messages
        /\ Line(main).messages = main.messages
        /\ Ended(Line(main)).messages = main.messages
    BY <2>1, LinesAreFiles
  <2> QED  BY <1>1, <1>3, <2>2
<1> QED  BY <1>1, <1>2, <1>3

(* An append cut off leaves the messages as they are, or appends the next. *)
LEMMA MidAppendMessages ==
    ASSUME Shapes, StopMidAppend
    PROVE  /\ main /= None /\ main \in File
           /\ phase' = "down" /\ memory' = None /\ turn' = None
           /\ UNCHANGED resumedAt
           /\ \/ main'.messages = main.messages /\ said' = said
              \/ \E m \in NextMessages :
                     main'.messages = Append(main.messages, m) /\ said' = said + 1
<1>1. /\ main /= None /\ main \in File
      /\ phase' = "down" /\ memory' = None /\ turn' = None
      /\ UNCHANGED resumedAt
  BY DEF StopMidAppend, Shapes
<1>2. PICK m \in NextMessages : \/ main' = Torn(main) /\ said' = said
                                \/ main' = Recorded(main, m) /\ said' = said + 1
  BY DEF StopMidAppend
<1>3. m \in Message
  BY NextMessageIsNext
<1>4. /\ Torn(main).messages = main.messages
      /\ Recorded(main, m).messages = Append(main.messages, m)
  BY <1>1, <1>3, LinesAreFiles
<1> QED  BY <1>1, <1>2, <1>4

LEMMA CompactionHasRoom ==
    ASSUME NEW session \in Session, NEW large,
           ShouldCompact(session.messages, Preserve, large)
    PROVE  /\ Preserve \in Nat \ {0} /\ Preserve < Len(session.messages)
           /\ session.messages \in Seq(Message)
           /\ Compacted(session).messages = CompactMessages(session.messages, Preserve)
<1>1. session.messages \in Seq(Message)
  BY DEF Session
<1>2. PrefixLen(session.messages) \in {0, 1}
  BY DEF PrefixLen
<1>3. Len(session.messages) - PrefixLen(session.messages) > Preserve
  BY DEF ShouldCompact
<1>4. Len(session.messages) \in Nat
  BY <1>1
<1>5. Preserve \in Nat \ {0}
  BY ConversationAssumption
<1>6. Preserve < Len(session.messages)
  BY <1>2, <1>3, <1>4, <1>5
<1>7. Compacted(session).messages = CompactMessages(session.messages, Preserve)
  BY DEF Compacted
<1> QED  BY <1>1, <1>5, <1>6, <1>7

LEMMA AutoCompactedEither ==
    ASSUME NEW session \in Session, NEW over \in BOOLEAN
    PROVE  \/ AutoCompacted(session, over) = session
           \/ /\ ShouldCompact(session.messages, Preserve, over)
              /\ AutoCompacted(session, over) = Compacted(session)
  BY DEF AutoCompacted

-----------------------------------------------------------------------------
(* Between turns the file is the session: every way into idle writes the   *)
(* file or reads it, and every way to change either leaves idle.           *)
LEMMA IdleStep == HistoryInv /\ IdleIsSaved /\ [Next]_vars => IdleIsSaved'
<1> SUFFICES ASSUME HistoryInv, IdleIsSaved, [Next]_vars  PROVE IdleIsSaved'
  OBVIOUS
<1>1. CASE StartTurn
  BY <1>1 DEF StartTurn, IdleIsSaved
<1>2. ASSUME NEW uses \in 0 .. MaxUses, NEW over \in BOOLEAN, Reply(uses, over)
      PROVE  IdleIsSaved'
  <2>1. phase' \in {"saving", "tools"}
    BY <1>2 DEF Reply
  <2> QED  BY <2>1 DEF IdleIsSaved
<1>3. CASE ToolResult
  BY <1>3 DEF ToolResult, IdleIsSaved
<1>4. CASE Rotate
  BY <1>4 DEF Rotate, IdleIsSaved
<1>5. CASE Write
  <2>1. memory \in Session
    BY <1>5 DEF Write, HistoryInv, Shapes
  <2>2. /\ Snapshot(memory) \in File
        /\ Snapshot(memory).messages = memory.messages
        /\ Snapshot(memory).compacted = memory.compacted
        /\ ~Snapshot(memory).torn
    BY <2>1 DEF Snapshot, Session, File
  <2>3. main' = Snapshot(memory) /\ memory' = memory
    BY <1>5 DEF Write
  <2>4. main' /= None
    BY <2>2, <2>3, NoneAssumption
  <2> QED  BY <2>2, <2>3, <2>4 DEF IdleIsSaved
<1>6. ASSUME NEW large \in BOOLEAN, CompactCommand(large)  PROVE IdleIsSaved'
  BY <1>6 DEF CompactCommand, IdleIsSaved
<1>7. CASE Stop
  BY <1>7 DEF Stop, IdleIsSaved
<1>8. CASE StopMidAppend
  BY <1>8 DEF StopMidAppend, IdleIsSaved
<1>9. CASE Resume
  <2>1. main /= None /\ ~main.torn /\ main' = main
        /\ memory' = [messages |-> main.messages, compacted |-> main.compacted]
    BY <1>9 DEF Resume
  <2> QED  BY <2>1 DEF IdleIsSaved
<1>10. CASE RecordPrompt
  BY <1>10 DEF RecordPrompt, IdleIsSaved
<1>11. CASE UNCHANGED vars
  BY <1>11 DEF vars, IdleIsSaved
<1> QED
  BY <1>1, <1>2, <1>3, <1>4, <1>5, <1>6, <1>7, <1>8, <1>9, <1>10, <1>11 DEF Next

(* Whenever no turn is in progress and no save is due, the session file    *)
(* loads and holds the session and its compaction record: after a save, a  *)
(* /compact, an append cut off, a crash and a resumption alike.            *)
THEOREM ConversationIdleIsSaved == Spec => []IdleIsSaved
<1>1. Init => IdleIsSaved
  BY DEF Init, IdleIsSaved
<1> QED  BY <1>1, HistoryInit, HistoryStep, IdleStep, PTL DEF Spec

-----------------------------------------------------------------------------
(* The invariant behind NoOrphanResults: the session in use and the file   *)
(* hold each result with its use, and while tools run both end in the open *)
(* round of the message that asked.                                        *)
ResultsInv ==
    /\ turn /= None => phase \in {"asking", "tools"}
    /\ phase \in Resting => ResultsHaveUses(memory.messages)
    /\ phase \in {"asking", "tools"} => ResultsHaveUses(turn.session.messages)
    /\ main /= None => ResultsHaveUses(main.messages)
    /\ phase = "tools" =>
           /\ OpenRound(turn.session.messages, turn.asker)
           /\ main /= None => OpenRound(main.messages, turn.asker)

LEMMA ResultsInit == Init => ResultsInv
  BY DEF Init, ResultsInv, ResultsHaveUses, NewSession, Resting

LEMMA ResultsStep == HistoryInv /\ ResultsInv /\ [Next]_vars => ResultsInv'
<1> SUFFICES ASSUME HistoryInv, ResultsInv, [Next]_vars  PROVE ResultsInv'
  OBVIOUS
<1>0. Shapes
  BY DEF HistoryInv
<1>1. CASE StartTurn
  <2> DEFINE m == Said("user", 0, 0)
  <2>1. m \in Message /\ m.role = "user"
    BY <1>0, SaidIsMessage DEF Role, Shapes, Said
  <2>2. memory \in Session /\ (main /= None => main \in File)
    BY <1>0, <1>1 DEF Shapes, StartTurn
  <2>3. /\ turn' = [session |-> Pushed(memory, m), owed |-> 0, asker |-> 0,
                    iterations |-> 0, over |-> FALSE]
        /\ main' = Appended(memory, m)
        /\ phase \in {"idle", "prompted"} /\ phase' = "asking"
    BY <1>1 DEF StartTurn, m
  <2> HIDE DEF m
  <2>4. ResultsHaveUses(Append(memory.messages, m))
    BY <2>1, <2>2, <2>3, PushedMessages, ResultsAppended DEF ResultsInv, Resting
  <2>5. main /= None => ResultsHaveUses(Append(main.messages, m))
    BY <2>1, <2>2, ResultsAppended DEF ResultsInv, Resting, File
  <2>6. turn'.session.messages = Append(memory.messages, m)
    BY <2>1, <2>2, <2>3, PushedMessages
  <2>7. ResultsHaveUses(main'.messages)
    BY <2>1, <2>2, <2>3, <2>4, <2>5, AppendedMessages
  <2> QED  BY <2>3, <2>4, <2>6, <2>7 DEF ResultsInv, Resting
<1>2. ASSUME NEW uses \in 0 .. MaxUses, NEW over \in BOOLEAN, Reply(uses, over)
      PROVE  ResultsInv'
  <2> DEFINE m == Said("assistant", uses, 0)
             pushed == Pushed(turn.session, m)
             session == AutoCompacted(pushed, over)
  <2>1. m \in Message /\ m.role = "assistant" /\ m.first = said + 1
    <3>1. uses \in Nat
      BY ConversationAssumption
    <3> QED  BY <1>0, <3>1, SaidIsMessage DEF Role, Shapes, Said
  <2>2. /\ turn.session \in Session /\ (main /= None => main \in File)
        /\ phase = "asking"
    BY <1>0, <1>2 DEF Shapes, Reply, TurnShape
  <2>3. /\ main' = Appended(turn.session, m)
        /\ IF uses = 0
           THEN memory' = session /\ turn' = None /\ phase' = "saving"
           ELSE /\ turn' = [session |-> session, owed |-> uses, asker |-> said + 1,
                            iterations |-> turn.iterations + 1, over |-> over]
                /\ phase' = "tools"
    BY <1>2 DEF Reply
  <2> HIDE DEF m
  <2>4. /\ pushed.messages = Append(turn.session.messages, m)
        /\ turn.session.messages \in Seq(Message)
        /\ Append(turn.session.messages, m) \in Seq(Message)
    BY <2>1, <2>2, PushedMessages
  <2>5. ResultsHaveUses(pushed.messages) /\ OpenRound(pushed.messages, said + 1)
    BY <2>1, <2>2, <2>4, ResultsAppended, RoundOpens DEF ResultsInv, Resting
  <2>6. pushed \in Session
    BY <2>1, <2>2, <2>4 DEF Session, Pushed
  <2>7. pushed.messages[Len(pushed.messages)] = m
    BY <2>1, <2>4, AppendProperties
  <2> HIDE DEF pushed
  <2>8. ResultsHaveUses(session.messages) /\ OpenRound(session.messages, said + 1)
    <3>1. CASE session = pushed
      BY <2>5, <3>1
    <3>2. CASE session /= pushed
      <4>1. ShouldCompact(pushed.messages, Preserve, over) /\ session = Compacted(pushed)
        BY <2>6, <3>2, AutoCompactedEither
      <4>2. /\ Preserve \in Nat \ {0} /\ Preserve < Len(pushed.messages)
            /\ pushed.messages \in Seq(Message)
            /\ session.messages = CompactMessages(pushed.messages, Preserve)
        BY <2>6, <4>1, CompactionHasRoom
      <4>3. ResultsHaveUses(session.messages)
        BY <2>5, <4>2, ResultsCompacted
      <4>4. OpenRound(session.messages, said + 1)
        BY <2>1, <2>7, <4>2, RoundOpenCompacted
      <4> QED  BY <4>3, <4>4
    <3> QED  BY <3>1, <3>2
  <2> HIDE DEF session
  <2>9. main /= None => /\ ResultsHaveUses(Append(main.messages, m))
                        /\ OpenRound(Append(main.messages, m), said + 1)
    BY <2>1, <2>2, ResultsAppended, RoundOpens DEF ResultsInv, Resting, File
  <2>10. ResultsHaveUses(main'.messages) /\ OpenRound(main'.messages, said + 1)
    <3>1. main'.messages = IF main = None THEN Append(turn.session.messages, m)
                           ELSE Append(main.messages, m)
      BY <2>1, <2>2, <2>3, AppendedMessages
    <3> QED  BY <2>4, <2>5, <2>9, <3>1
  <2>11. CASE uses = 0
    BY <2>3, <2>8, <2>10, <2>11 DEF ResultsInv, Resting
  <2>12. CASE uses /= 0
    <3>1. turn'.session = session /\ turn'.asker = said + 1 /\ phase' = "tools"
      BY <2>3, <2>12
    <3> QED  BY <2>8, <2>10, <3>1 DEF ResultsInv, Resting
  <2> QED  BY <2>11, <2>12
<1>3. CASE ToolResult
  <2> DEFINE m == Said("tool", 0, turn.asker)
             t == [turn EXCEPT !.session = Pushed(@, m), !.owed = StillOwed(turn)]
  <2>1. turn \in TurnShape /\ phase = "tools" /\ (main /= None => main \in File)
    BY <1>0, <1>3 DEF ToolResult, Shapes
  <2>2. turn.session \in Session /\ turn.asker \in Nat
    BY <2>1 DEF TurnShape
  <2>3. m \in Message /\ m.role = "tool" /\ m.of = turn.asker
    BY <1>0, <2>2, SaidIsMessage DEF Role, Shapes, Said
  <2>4. turn' = t /\ main' = Appended(turn.session, m) /\ phase' \in {"asking", "tools"}
    BY <1>3 DEF ToolResult
  <2> HIDE DEF m
  <2>5. /\ Pushed(turn.session, m).messages = Append(turn.session.messages, m)
        /\ turn.session.messages \in Seq(Message)
    BY <2>2, <2>3, PushedMessages
  <2>6. turn'.session = Pushed(turn.session, m) /\ turn'.asker = turn.asker
    BY <2>1, <2>4 DEF TurnShape
  <2>7. /\ ResultsHaveUses(turn.session.messages)
        /\ OpenRound(turn.session.messages, turn.asker)
        /\ main /= None => /\ ResultsHaveUses(main.messages)
                           /\ OpenRound(main.messages, turn.asker)
    BY <2>1 DEF ResultsInv, Resting
  <2>8. /\ ResultsHaveUses(turn'.session.messages)
        /\ OpenRound(turn'.session.messages, turn.asker)
    BY <2>3, <2>5, <2>6, <2>7, ResultsAppended, RoundStaysOpen
  <2>9. main /= None => /\ ResultsHaveUses(Append(main.messages, m))
                        /\ OpenRound(Append(main.messages, m), turn.asker)
    BY <2>1, <2>3, <2>7, ResultsAppended, RoundStaysOpen DEF File
  <2>10. ResultsHaveUses(main'.messages) /\ OpenRound(main'.messages, turn.asker)
    <3>1. main'.messages = IF main = None THEN Append(turn.session.messages, m)
                           ELSE Append(main.messages, m)
      BY <2>1, <2>2, <2>3, <2>4, AppendedMessages
    <3> QED  BY <2>5, <2>6, <2>8, <2>9, <3>1
  <2> HIDE DEF t
  <2> QED  BY <2>4, <2>6, <2>8, <2>10 DEF ResultsInv, Resting
<1>4. CASE Rotate
  BY <1>4 DEF Rotate, ResultsInv, Resting
<1>5. CASE Write
  <2>1. main' = Snapshot(memory) /\ phase \in {"saving", "writing"}
        /\ phase' = "idle" /\ UNCHANGED <<memory, turn>>
    BY <1>5 DEF Write
  <2>2. Snapshot(memory).messages = memory.messages
    BY DEF Snapshot
  <2> QED  BY <2>1, <2>2 DEF ResultsInv, Resting
<1>6. ASSUME NEW large \in BOOLEAN, CompactCommand(large)  PROVE ResultsInv'
  <2>1. /\ memory \in Session /\ phase = "idle" /\ phase' = "saving"
        /\ UNCHANGED <<turn, main>>
    BY <1>0, <1>6 DEF CompactCommand, Shapes
  <2>2. ResultsHaveUses(memory'.messages)
    <3>1. CASE ShouldCompact(memory.messages, Preserve, large)
      <4>1. memory' = Compacted(memory)
        BY <1>6, <3>1 DEF CompactCommand
      <4> QED  BY <2>1, <3>1, <4>1, CompactionHasRoom, ResultsCompacted DEF ResultsInv, Resting
    <3>2. CASE ~ShouldCompact(memory.messages, Preserve, large)
      BY <1>6, <2>1, <3>2 DEF CompactCommand, ResultsInv, Resting
    <3> QED  BY <3>1, <3>2
  <2> QED  BY <2>1, <2>2 DEF ResultsInv, Resting
<1>7. CASE Stop
  BY <1>7 DEF Stop, ResultsInv, Resting
<1>8. CASE StopMidAppend
  <2>1. /\ main \in File /\ main /= None /\ phase' = "down" /\ turn' = None
        /\ \/ main'.messages = main.messages
           \/ \E m \in NextMessages : main'.messages = Append(main.messages, m)
    BY <1>0, <1>8, MidAppendMessages
  <2>2. ASSUME NEW m \in NextMessages, main'.messages = Append(main.messages, m)
        PROVE  ResultsHaveUses(main'.messages)
    <3>1. m \in Message /\ (m.role = "tool" => phase = "tools" /\ m.of = turn.asker)
      BY <1>0, NextMessageIsNext
    <3> QED  BY <2>1, <2>2, <3>1, ResultsAppended DEF ResultsInv, File
  <2>3. ResultsHaveUses(main'.messages)
    BY <2>1, <2>2 DEF ResultsInv
  <2> QED  BY <2>1, <2>3 DEF ResultsInv, Resting
<1>9. CASE Resume
  BY <1>9 DEF Resume, ResultsInv, Resting
<1>10. CASE RecordPrompt
  BY <1>0, <1>10, PromptedMessages DEF ResultsInv, Resting
<1>11. CASE UNCHANGED vars
  BY <1>11 DEF vars, ResultsInv, Resting
<1> QED
  BY <1>1, <1>2, <1>3, <1>4, <1>5, <1>6, <1>7, <1>8, <1>9, <1>10, <1>11 DEF Next

(* No request ever carries a tool result whose use was compacted away: the *)
(* boundary of a compaction never falls between the two, whatever is       *)
(* preserved, in the middle of a turn or after a resumption.               *)
THEOREM ConversationNoOrphanResults == Spec => []NoOrphanResults
<1>1. ResultsInv => NoOrphanResults
  BY DEF ResultsInv, Resting, NoOrphanResults
<1> QED
  BY <1>1, HistoryInit, HistoryStep, ResultsInit, ResultsStep, PTL DEF Spec

-----------------------------------------------------------------------------
(* The uses of the i-th message are answered right behind it.              *)
AnsweredAt(s, i) ==
    \A k \in 1 .. s[i].uses :
        i + k <= Len(s) /\ s[i + k].role = "tool" /\ s[i + k].of = s[i].first

(* The messages before the p-th, those said after the first n, are.        *)
AnsweredBefore(s, p, n) ==
    \A i \in 1 .. p - 1 :
        s[i].role = "assistant" /\ s[i].first > n => AnsweredAt(s, i)

(* The assistant messages are among the first n said.                      *)
AskersKnown(s, n) ==
    \A i \in 1 .. Len(s) : s[i].role = "assistant" => s[i].first <= n

(* All is answered but for the last owed uses of asker, whose results so   *)
(* far end the session.                                                    *)
RoundPending(s, asker, owed, n) ==
    \E j \in 1 .. Len(s) :
        /\ s[j].role = "assistant" /\ s[j].first = asker
        /\ s[j].uses = (Len(s) - j) + owed
        /\ \A k \in j + 1 .. Len(s) : s[k].role = "tool" /\ s[k].of = asker
        /\ AnsweredBefore(s, j, n)

LEMMA MessageHas ==
    ASSUME NEW s \in Seq(Message), NEW i \in 1 .. Len(s)
    PROVE  s[i].first \in Nat /\ s[i].uses \in Nat
<1>1. s[i] \in Message
  OBVIOUS
<1> QED  BY <1>1 DEF Message

LEMMA AnsweredSince ==
    ASSUME NEW s \in Seq(Message), NEW n \in Nat
    PROVE  UsesAnsweredSince(s, n) <=> AnsweredBefore(s, Len(s) + 1, n)
<1>1. \A i : i \in 1 .. (Len(s) + 1) - 1 <=> i \in 1 .. Len(s)
  OBVIOUS
<1> QED  BY <1>1 DEF UsesAnsweredSince, AnsweredBefore, AnsweredAt

(* Nobody said anything after n: all is answered.                          *)
LEMMA NothingSince ==
    ASSUME NEW s \in Seq(Message), NEW n \in Nat, AskersKnown(s, n)
    PROVE  UsesAnsweredSince(s, n)
<1> SUFFICES ASSUME NEW i \in 1 .. Len(s), s[i].role = "assistant", s[i].first > n
             PROVE  FALSE
  BY DEF UsesAnsweredSince
<1>1. s[i].first \in Nat /\ s[i].first <= n
  BY MessageHas DEF AskersKnown
<1> QED  BY <1>1

(* Saying one more keeps answers where they are.                           *)
LEMMA AnsweredAppended ==
    ASSUME NEW s \in Seq(Message), NEW m \in Message, NEW n \in Nat,
           NEW p \in 1 .. Len(s) + 1, AnsweredBefore(s, p, n)
    PROVE  AnsweredBefore(Append(s, m), p, n)
<1> DEFINE t == Append(s, m)
<1>1. /\ t \in Seq(Message)
      /\ Len(t) = Len(s) + 1
      /\ \A i \in 1 .. Len(s) : t[i] = s[i]
  BY AppendProperties
<1> HIDE DEF t
<1>2. ASSUME NEW i \in 1 .. p - 1, t[i].role = "assistant", t[i].first > n
      PROVE  AnsweredAt(t, i)
  <2>1. i \in 1 .. Len(s) /\ t[i] = s[i]
    BY <1>1
  <2>2. AnsweredAt(s, i)
    BY <1>2, <2>1 DEF AnsweredBefore
  <2>3. ASSUME NEW k \in 1 .. t[i].uses
        PROVE  i + k <= Len(t) /\ t[i + k].role = "tool" /\ t[i + k].of = t[i].first
    <3>1. s[i].uses \in Nat
      BY <2>1, MessageHas
    <3>2. i + k <= Len(s) /\ s[i + k].role = "tool" /\ s[i + k].of = s[i].first
      BY <2>1, <2>2 DEF AnsweredAt
    <3>3. i + k \in 1 .. Len(s)
      BY <2>1, <3>1, <3>2
    <3> QED  BY <1>1, <2>1, <3>2, <3>3
  <2> QED  BY <2>3 DEF AnsweredAt
<1>3. AnsweredBefore(t, p, n)
  BY <1>2 DEF AnsweredBefore
<1> QED  BY <1>3 DEF t

LEMMA AskersAppended ==
    ASSUME NEW s \in Seq(Message), NEW m \in Message, NEW n \in Nat,
           AskersKnown(s, n), m.first = n + 1
    PROVE  AskersKnown(Append(s, m), n + 1)
<1> DEFINE t == Append(s, m)
<1>1. /\ t \in Seq(Message)
      /\ Len(t) = Len(s) + 1
      /\ t[Len(t)] = m
      /\ \A i \in 1 .. Len(s) : t[i] = s[i]
  BY AppendProperties
<1> HIDE DEF t
<1>2. ASSUME NEW i \in 1 .. Len(t), t[i].role = "assistant"  PROVE t[i].first <= n + 1
  <2>1. CASE i = Len(t)
    BY <1>1, <2>1
  <2>2. CASE i /= Len(t)
    <3>1. i \in 1 .. Len(s) /\ t[i] = s[i]
      BY <1>1, <2>2
    <3>2. s[i].first \in Nat /\ s[i].first <= n
      BY <1>2, <3>1, MessageHas DEF AskersKnown
    <3> QED  BY <3>1, <3>2
  <2> QED  BY <2>1, <2>2
<1>3. AskersKnown(t, n + 1)
  BY <1>2 DEF AskersKnown
<1> QED  BY <1>3 DEF t

(* Compaction keeps the answers of what it keeps.                          *)
LEMMA AnsweredCompacted ==
    ASSUME NEW s \in Seq(Message), NEW preserve \in Nat \ {0}, preserve < Len(s),
           NEW n \in Nat, NEW known \in Nat, NEW short \in {0, 1},
           AnsweredBefore(s, (Len(s) - short) + 1, n), AskersKnown(s, known)
    PROVE  LET t == CompactMessages(s, preserve)
           IN  /\ t \in Seq(Message)
               /\ Len(t) \in Nat \ {0}
               /\ AnsweredBefore(t, (Len(t) - short) + 1, n)
               /\ AskersKnown(t, known)
<1> DEFINE t == CompactMessages(s, preserve)
<1>1. PICK keep \in 0 .. Len(s) - 1 :
          /\ t \in Seq(Message)
          /\ Len(t) = (Len(s) - keep) + 1
          /\ t[1].role = "system"
          /\ \A i \in 1 .. Len(s) - keep : t[i + 1] = s[keep + i]
  BY CompactedKeepsEnd
<1> HIDE DEF t
<1>2. ASSUME NEW i \in 1 .. Len(t), t[i].role = "assistant"
      PROVE  /\ i - 1 \in 1 .. Len(s) - keep
             /\ keep + (i - 1) \in 1 .. Len(s)
             /\ t[i] = s[keep + (i - 1)]
  <2>1. i /= 1
    BY <1>1, <1>2
  <2>2. i - 1 \in 1 .. Len(s) - keep /\ (i - 1) + 1 = i
    BY <1>1, <2>1
  <2>3. t[i] = s[keep + (i - 1)]
    BY <1>1, <2>2
  <2> QED  BY <2>2, <2>3
<1>3. ASSUME NEW i \in 1 .. ((Len(t) - short) + 1) - 1,
             t[i].role = "assistant", t[i].first > n
      PROVE  AnsweredAt(t, i)
  <2> DEFINE p == keep + (i - 1)
  <2>1. i \in 1 .. Len(t) /\ i <= Len(t) - short
    BY <1>1
  <2>2. i - 1 \in 1 .. Len(s) - keep /\ p \in 1 .. Len(s) /\ t[i] = s[p]
    BY <1>2, <1>3, <2>1
  <2>3. p \in 1 .. ((Len(s) - short) + 1) - 1
    <3>1. p <= Len(s) - short
      BY <1>1, <2>1
    <3>2. short \in Int /\ Len(s) \in Nat
      OBVIOUS
    <3> HIDE DEF p
    <3> QED  BY <2>2, <3>1, <3>2
  <2>4. AnsweredAt(s, p)
    <3> HIDE DEF p
    <3> QED  BY <1>3, <2>2, <2>3 DEF AnsweredBefore
  <2>5. ASSUME NEW k \in 1 .. t[i].uses
        PROVE  i + k <= Len(t) /\ t[i + k].role = "tool" /\ t[i + k].of = t[i].first
    <3>1. s[p].uses \in Nat
      <4> HIDE DEF p
      <4> QED  BY <2>2, MessageHas
    <3>2. p + k <= Len(s) /\ s[p + k].role = "tool" /\ s[p + k].of = s[p].first
      <4> HIDE DEF p
      <4> QED  BY <2>2, <2>4 DEF AnsweredAt
    <3>3. k \in Nat
      BY <2>2, <3>1
    <3> DEFINE r == i + (k - 1)
    <3>4. r \in 1 .. Len(s) - keep /\ r + 1 = i + k /\ keep + r = p + k
      BY <2>2, <3>2, <3>3
    <3>5. t[i + k] = s[p + k]
      <4> HIDE DEF r, p
      <4>1. t[r + 1] = s[keep + r]
        BY <1>1, <3>4
      <4> QED  BY <3>4, <4>1
    <3>6. i + k <= Len(t)
      BY <1>1, <3>4
    <3> HIDE DEF p, r
    <3> QED  BY <2>2, <3>2, <3>5, <3>6
  <2> QED  BY <2>5 DEF AnsweredAt
<1>4. AnsweredBefore(t, (Len(t) - short) + 1, n)
  BY <1>3 DEF AnsweredBefore
<1>5. AskersKnown(t, known)
  BY <1>2 DEF AskersKnown
<1>6. Len(t) \in Nat \ {0}
  BY <1>1
<1> QED  BY <1>1, <1>4, <1>5, <1>6 DEF t

(* An answer with uses, whether the session is compacted or not, leaves    *)
(* its own round pending.                                                  *)
LEMMA RoundBegins ==
    ASSUME NEW t \in Seq(Message), Len(t) \in Nat \ {0}, NEW n \in Nat,
           NEW m \in Message, m.role = "assistant", t[Len(t)] = m,
           AnsweredBefore(t, (Len(t) - 1) + 1, n)
    PROVE  RoundPending(t, m.first, m.uses, n)
<1>1. Len(t) \in 1 .. Len(t) /\ (Len(t) - Len(t)) + m.uses = m.uses
  BY DEF Message
<1>2. \A k \in Len(t) + 1 .. Len(t) : FALSE
  OBVIOUS
<1>3. (Len(t) - 1) + 1 = Len(t)
  OBVIOUS
<1> QED  BY <1>1, <1>2, <1>3 DEF RoundPending

(* A result answers one use; the last one ends the round.                  *)
LEMMA RoundGoesOn ==
    ASSUME NEW s \in Seq(Message), NEW m \in Message, NEW n \in Nat, NEW asker,
           NEW owed \in Nat \ {0}, RoundPending(s, asker, owed, n),
           m.role = "tool", m.of = asker
    PROVE  LET t == Append(s, m)
           IN  /\ owed - 1 /= 0 => RoundPending(t, asker, owed - 1, n)
               /\ owed - 1 = 0 => UsesAnsweredSince(t, n)
<1> DEFINE t == Append(s, m)
<1>1. /\ t \in Seq(Message)
      /\ Len(t) = Len(s) + 1
      /\ t[Len(t)] = m
      /\ \A i \in 1 .. Len(s) : t[i] = s[i]
  BY AppendProperties
<1>2. PICK j \in 1 .. Len(s) :
          /\ s[j].role = "assistant" /\ s[j].first = asker
          /\ s[j].uses = (Len(s) - j) + owed
          /\ \A k \in j + 1 .. Len(s) : s[k].role = "tool" /\ s[k].of = asker
          /\ AnsweredBefore(s, j, n)
  BY DEF RoundPending
<1>3. j \in 1 .. Len(s) + 1 /\ j \in 1 .. Len(t)
  BY <1>1
<1>4. AnsweredBefore(t, j, n)
  BY <1>2, <1>3, AnsweredAppended
<1> HIDE DEF t
<1>5. ASSUME NEW k \in j + 1 .. Len(t)  PROVE t[k].role = "tool" /\ t[k].of = asker
  <2>1. CASE k = Len(t)
    BY <1>1, <2>1
  <2>2. CASE k /= Len(t)
    <3>1. k \in j + 1 .. Len(s) /\ k \in 1 .. Len(s)
      BY <1>1, <2>2
    <3> QED  BY <1>1, <1>2, <3>1
  <2> QED  BY <2>1, <2>2
<1>6. /\ t[j].role = "assistant" /\ t[j].first = asker
      /\ t[j].uses = (Len(t) - j) + (owed - 1)
  <2>1. t[j] = s[j]
    BY <1>1
  <2>2. (Len(s) - j) + owed = (Len(t) - j) + (owed - 1)
    BY <1>1
  <2> QED  BY <1>2, <2>1, <2>2
<1>7. RoundPending(t, asker, owed - 1, n)
  BY <1>3, <1>4, <1>5, <1>6 DEF RoundPending
<1>8. ASSUME owed - 1 = 0  PROVE UsesAnsweredSince(t, n)
  <2>1. ASSUME NEW i \in 1 .. Len(t), t[i].role = "assistant", t[i].first > n
        PROVE  AnsweredAt(t, i)
    <3>1. CASE i < j
      BY <1>1, <1>4, <2>1, <3>1 DEF AnsweredBefore
    <3>2. CASE i = j
      <4>1. ASSUME NEW k \in 1 .. t[i].uses
            PROVE  i + k <= Len(t) /\ t[i + k].role = "tool" /\ t[i + k].of = t[i].first
        <5>1. t[i].uses = Len(t) - j
          BY <1>1, <1>6, <1>8, <3>2
        <5>2. i + k \in j + 1 .. Len(t)
          BY <1>1, <3>2, <5>1
        <5> QED  BY <1>5, <1>6, <3>2, <5>2
      <4> QED  BY <4>1 DEF AnsweredAt
    <3>3. CASE i > j
      <4>1. i \in j + 1 .. Len(t)
        BY <3>3
      <4> QED  BY <1>5, <2>1, <4>1
    <3> QED  BY <3>1, <3>2, <3>3
  <2> QED  BY <2>1 DEF UsesAnsweredSince, AnsweredAt
<1> QED  BY <1>7, <1>8 DEF t

(* The invariant behind RequestsAreAnswered: what was said since the       *)
(* client last started is answered, but for the pending round; and what    *)
(* the file holds was said before, so that a resumption starts afresh.     *)
AnswersInv ==
    /\ resumedAt \in Nat
    /\ main /= None => AskersKnown(main.messages, said)
    /\ phase \in Resting =>
           /\ AskersKnown(memory.messages, said)
           /\ UsesAnsweredSince(memory.messages, resumedAt)
    /\ phase \in {"asking", "tools"} => AskersKnown(turn.session.messages, said)
    /\ phase = "asking" => UsesAnsweredSince(turn.session.messages, resumedAt)
    /\ phase = "tools" =>
           /\ turn.owed > 0
           /\ RoundPending(turn.session.messages, turn.asker, turn.owed, resumedAt)

(* An answer without uses, or a user's message, leaves all answered.       *)
LEMMA NoUsesAppended ==
    ASSUME NEW s \in Seq(Message), NEW m \in Message, NEW n \in Nat,
           UsesAnsweredSince(s, n), m.role /= "assistant" \/ m.uses = 0
    PROVE  UsesAnsweredSince(Append(s, m), n)
<1> DEFINE t == Append(s, m)
<1>1. t \in Seq(Message) /\ Len(t) = Len(s) + 1 /\ t[Len(t)] = m
  BY AppendProperties
<1>2. AnsweredBefore(t, Len(s) + 1, n)
  BY AnsweredSince, AnsweredAppended
<1> HIDE DEF t
<1>3. ASSUME NEW i \in 1 .. Len(t), t[i].role = "assistant", t[i].first > n
      PROVE  AnsweredAt(t, i)
  <2>1. CASE i = Len(t)
    <3>1. t[i].uses = 0
      BY <1>1, <1>3, <2>1
    <3> QED  BY <3>1 DEF AnsweredAt
  <2>2. CASE i /= Len(t)
    <3>1. i \in 1 .. (Len(s) + 1) - 1
      BY <1>1, <2>2
    <3> QED  BY <1>2, <1>3, <3>1 DEF AnsweredBefore
  <2> QED  BY <2>1, <2>2
<1>4. UsesAnsweredSince(t, n)
  BY <1>3 DEF UsesAnsweredSince, AnsweredAt
<1> QED  BY <1>4 DEF t

LEMMA AnswersInit == Init => AnswersInv
  BY DEF Init, AnswersInv, Resting, UsesAnsweredSince, AskersKnown, NewSession, Resting

LEMMA AnswersStep == HistoryInv /\ AnswersInv /\ [Next]_vars => AnswersInv'
<1> SUFFICES ASSUME HistoryInv, AnswersInv, [Next]_vars  PROVE AnswersInv'
  OBVIOUS
<1>0. Shapes /\ said \in Nat /\ resumedAt \in Nat
  BY DEF HistoryInv, Shapes, AnswersInv, Resting
<1>1. CASE StartTurn
  <2> DEFINE m == Said("user", 0, 0)
  <2>1. m \in Message /\ m.role = "user" /\ m.first = said + 1
    BY <1>0, SaidIsMessage DEF Role, Said
  <2>2. memory \in Session /\ (main /= None => main \in File)
    BY <1>0, <1>1 DEF Shapes, StartTurn
  <2>3. /\ turn' = [session |-> Pushed(memory, m), owed |-> 0, asker |-> 0,
                    iterations |-> 0, over |-> FALSE]
        /\ main' = Appended(memory, m)
        /\ phase \in {"idle", "prompted"} /\ phase' = "asking"
        /\ said' = said + 1 /\ resumedAt' = resumedAt
    BY <1>1 DEF StartTurn, m
  <2> HIDE DEF m
  <2>4. /\ Pushed(memory, m).messages = Append(memory.messages, m)
        /\ memory.messages \in Seq(Message)
    BY <2>1, <2>2, PushedMessages
  <2>5. /\ AskersKnown(memory.messages, said)
        /\ UsesAnsweredSince(memory.messages, resumedAt)
        /\ main /= None => AskersKnown(main.messages, said)
    BY <2>3 DEF AnswersInv, Resting
  <2>6. /\ AskersKnown(Append(memory.messages, m), said + 1)
        /\ UsesAnsweredSince(Append(memory.messages, m), resumedAt)
    BY <1>0, <2>1, <2>4, <2>5, AskersAppended, NoUsesAppended
  <2>7. main /= None => AskersKnown(Append(main.messages, m), said + 1)
    BY <1>0, <2>1, <2>2, <2>5, AskersAppended DEF File
  <2>8. turn'.session.messages = Append(memory.messages, m)
    BY <2>3, <2>4
  <2>9. AskersKnown(main'.messages, said + 1)
    BY <2>1, <2>2, <2>3, <2>6, <2>7, AppendedMessages
  <2> QED  BY <1>0, <2>3, <2>6, <2>8, <2>9 DEF AnswersInv, Resting
<1>2. ASSUME NEW uses \in 0 .. MaxUses, NEW over \in BOOLEAN, Reply(uses, over)
      PROVE  AnswersInv'
  <2> DEFINE m == Said("assistant", uses, 0)
             pushed == Pushed(turn.session, m)
             session == AutoCompacted(pushed, over)
  <2>1. /\ m \in Message /\ m.role = "assistant" /\ m.first = said + 1
        /\ m.uses = uses /\ uses \in Nat
    <3>1. uses \in Nat
      BY ConversationAssumption
    <3> QED  BY <1>0, <3>1, SaidIsMessage DEF Role, Said
  <2>2. /\ turn.session \in Session /\ (main /= None => main \in File)
        /\ phase = "asking"
    BY <1>0, <1>2 DEF Shapes, Reply, TurnShape
  <2>3. /\ main' = Appended(turn.session, m)
        /\ IF uses = 0
           THEN memory' = session /\ turn' = None /\ phase' = "saving"
           ELSE /\ turn' = [session |-> session, owed |-> uses, asker |-> said + 1,
                            iterations |-> turn.iterations + 1, over |-> over]
                /\ phase' = "tools"
        /\ said' = said + 1 /\ resumedAt' = resumedAt
    BY <1>2 DEF Reply
  <2> HIDE DEF m
  <2>4. /\ pushed.messages = Append(turn.session.messages, m)
        /\ turn.session.messages \in Seq(Message)
        /\ Append(turn.session.messages, m) \in Seq(Message)
    BY <2>1, <2>2, PushedMessages
  <2>5. /\ AskersKnown(turn.session.messages, said)
        /\ UsesAnsweredSince(turn.session.messages, resumedAt)
        /\ main /= None => AskersKnown(main.messages, said)
    BY <2>2 DEF AnswersInv, Resting
  <2>6. pushed \in Session
    BY <2>1, <2>2, <2>4 DEF Session, Pushed
  <2>7. /\ pushed.messages[Len(pushed.messages)] = m
        /\ Len(pushed.messages) = Len(turn.session.messages) + 1
        /\ Len(turn.session.messages) \in Nat
    BY <2>1, <2>4, AppendProperties
  <2>8. /\ AskersKnown(pushed.messages, said + 1)
        /\ AnsweredBefore(pushed.messages, (Len(pushed.messages) - 1) + 1, resumedAt)
    <3>1. AskersKnown(pushed.messages, said + 1)
      BY <1>0, <2>1, <2>4, <2>5, AskersAppended
    <3>2. AnsweredBefore(turn.session.messages,
                         Len(turn.session.messages) + 1, resumedAt)
      BY <1>0, <2>4, <2>5, AnsweredSince
    <3>3. Len(turn.session.messages) + 1 \in 1 .. Len(turn.session.messages) + 1
      BY <2>7
    <3>4. AnsweredBefore(pushed.messages, Len(turn.session.messages) + 1, resumedAt)
      BY <1>0, <2>1, <2>4, <3>2, <3>3, AnsweredAppended
    <3>5. (Len(pushed.messages) - 1) + 1 = Len(turn.session.messages) + 1
      BY <2>7
    <3> QED  BY <3>1, <3>4, <3>5
  <2>9. uses = 0 => UsesAnsweredSince(pushed.messages, resumedAt)
    BY <1>0, <2>1, <2>4, <2>5, NoUsesAppended
  <2> HIDE DEF pushed
  <2> DEFINE k == session.messages
  <2>10. /\ AskersKnown(k, said + 1)
         /\ uses = 0 => UsesAnsweredSince(k, resumedAt)
         /\ uses /= 0 => RoundPending(k, said + 1, uses, resumedAt)
    <3>1. CASE session = pushed
      <4>1. k \in Seq(Message) /\ Len(k) \in Nat \ {0} /\ k[Len(k)] = m
        BY <2>7, <3>1, <2>6 DEF Session
      <4>2. RoundPending(k, said + 1, uses, resumedAt)
        <5>1. AnsweredBefore(k, (Len(k) - 1) + 1, resumedAt)
          BY <2>8, <3>1
        <5> HIDE DEF k
        <5> QED  BY <1>0, <2>1, <4>1, <5>1, RoundBegins
      <4> QED  BY <2>8, <2>9, <3>1, <4>2
    <3>2. CASE session /= pushed
      <4>1. ShouldCompact(pushed.messages, Preserve, over) /\ session = Compacted(pushed)
        BY <2>6, <3>2, AutoCompactedEither
      <4>2. /\ Preserve \in Nat \ {0} /\ Preserve < Len(pushed.messages)
            /\ pushed.messages \in Seq(Message)
            /\ k = CompactMessages(pushed.messages, Preserve)
        BY <2>6, <4>1, CompactionHasRoom
      <4> HIDE DEF k
      <4>3. said + 1 \in Nat /\ 0 \in {0, 1} /\ 1 \in {0, 1}
        BY <1>0
      <4>4. /\ k \in Seq(Message) /\ Len(k) \in Nat \ {0}
            /\ AskersKnown(k, said + 1)
            /\ AnsweredBefore(k, (Len(k) - 1) + 1, resumedAt)
        BY <1>0, <2>8, <4>2, <4>3, AnsweredCompacted
      <4>5. k[Len(k)] = m
        BY <2>1, <2>7, <4>2, RoundOpenCompacted
      <4>6. RoundPending(k, said + 1, uses, resumedAt)
        BY <1>0, <2>1, <4>4, <4>5, RoundBegins
      <4>7. ASSUME uses = 0  PROVE UsesAnsweredSince(k, resumedAt)
        <5>1. AnsweredBefore(pushed.messages, Len(pushed.messages) + 1, resumedAt)
          BY <1>0, <2>9, <4>2, <4>7, AnsweredSince
        <5>2. Len(pushed.messages) + 1 = (Len(pushed.messages) - 0) + 1
          BY <2>7
        <5>3. AnsweredBefore(k, (Len(k) - 0) + 1, resumedAt)
          BY <1>0, <2>8, <4>2, <4>3, <5>1, <5>2, AnsweredCompacted
        <5>4. (Len(k) - 0) + 1 = Len(k) + 1
          BY <4>4
        <5> QED  BY <1>0, <4>4, <5>3, <5>4, AnsweredSince
      <4> QED  BY <4>4, <4>6, <4>7
    <3> QED  BY <3>1, <3>2
  <2>11. AskersKnown(main'.messages, said + 1)
    <3>1. main'.messages = IF main = None THEN Append(turn.session.messages, m)
                           ELSE Append(main.messages, m)
      BY <2>1, <2>2, <2>3, AppendedMessages
    <3>2. main /= None => AskersKnown(Append(main.messages, m), said + 1)
      BY <1>0, <2>1, <2>2, <2>5, AskersAppended DEF File
    <3>3. main = None => AskersKnown(main'.messages, said + 1)
      BY <2>4, <2>8, <3>1 DEF pushed
    <3> QED  BY <3>1, <3>2, <3>3
  <2> HIDE DEF session
  <2>12. CASE uses = 0
    BY <1>0, <2>3, <2>10, <2>11, <2>12 DEF AnswersInv, Resting
  <2>13. CASE uses /= 0
    <3>1. /\ turn'.session = session /\ turn'.asker = said + 1 /\ turn'.owed = uses
          /\ phase' = "tools"
      BY <2>3, <2>13
    <3>2. uses > 0
      BY <2>1, <2>13
    <3> QED  BY <1>0, <2>3, <2>10, <2>11, <2>13, <3>1, <3>2 DEF AnswersInv, Resting
  <2> QED  BY <2>12, <2>13
<1>3. CASE ToolResult
  <2> DEFINE m == Said("tool", 0, turn.asker)
             t == [turn EXCEPT !.session = Pushed(@, m), !.owed = StillOwed(turn)]
  <2>1. turn \in TurnShape /\ phase = "tools" /\ (main /= None => main \in File)
    BY <1>0, <1>3 DEF ToolResult, Shapes
  <2>2. turn.session \in Session /\ turn.asker \in Nat /\ turn.owed \in Int
    BY <2>1 DEF TurnShape
  <2>3. m \in Message /\ m.role = "tool" /\ m.of = turn.asker /\ m.first = said + 1
    BY <1>0, <2>2, SaidIsMessage DEF Role, Said
  <2>4. /\ turn' = t /\ main' = Appended(turn.session, m)
        /\ phase' = IF StillOwed(turn) = 0 THEN "asking" ELSE "tools"
        /\ said' = said + 1 /\ resumedAt' = resumedAt
    BY <1>3 DEF ToolResult
  <2> HIDE DEF m
  <2>5. /\ Pushed(turn.session, m).messages = Append(turn.session.messages, m)
        /\ turn.session.messages \in Seq(Message)
    BY <2>2, <2>3, PushedMessages
  <2>6. /\ turn'.session = Pushed(turn.session, m) /\ turn'.asker = turn.asker
        /\ turn'.owed = turn.owed - 1
    BY <2>1, <2>4 DEF TurnShape, StillOwed
  <2>7. /\ AskersKnown(turn.session.messages, said)
        /\ turn.owed > 0
        /\ RoundPending(turn.session.messages, turn.asker, turn.owed, resumedAt)
        /\ main /= None => AskersKnown(main.messages, said)
    BY <2>1 DEF AnswersInv, Resting
  <2>8. turn.owed \in Nat \ {0}
    BY <2>2, <2>7
  <2>9. AskersKnown(turn'.session.messages, said + 1)
    BY <1>0, <2>3, <2>5, <2>6, <2>7, AskersAppended
  <2>10. /\ turn.owed - 1 /= 0 => RoundPending(turn'.session.messages, turn.asker,
                                               turn.owed - 1, resumedAt)
         /\ turn.owed - 1 = 0 => UsesAnsweredSince(turn'.session.messages, resumedAt)
    BY <1>0, <2>3, <2>5, <2>6, <2>7, <2>8, RoundGoesOn
  <2>11. AskersKnown(main'.messages, said + 1)
    <3>1. main'.messages = IF main = None THEN Append(turn.session.messages, m)
                           ELSE Append(main.messages, m)
      BY <2>1, <2>2, <2>3, <2>4, AppendedMessages
    <3>2. main /= None => AskersKnown(Append(main.messages, m), said + 1)
      BY <1>0, <2>1, <2>3, <2>7, AskersAppended DEF File
    <3> QED  BY <2>5, <2>6, <2>9, <3>1, <3>2
  <2> HIDE DEF t
  <2>12. CASE turn.owed - 1 = 0
    <3>1. phase' = "asking"
      BY <2>4, <2>12 DEF StillOwed
    <3> QED  BY <1>0, <2>4, <2>9, <2>10, <2>11, <2>12, <3>1 DEF AnswersInv, Resting
  <2>13. CASE turn.owed - 1 /= 0
    <3>1. phase' = "tools"
      BY <2>4, <2>13 DEF StillOwed
    <3>2. turn'.owed > 0
      BY <2>6, <2>8, <2>13
    <3> QED  BY <1>0, <2>4, <2>6, <2>9, <2>10, <2>11, <2>13, <3>1, <3>2 DEF AnswersInv, Resting
  <2> QED  BY <2>12, <2>13
<1>4. CASE Rotate
  BY <1>4 DEF Rotate, AnswersInv, Resting
<1>5. CASE Write
  <2>1. main' = Snapshot(memory) /\ phase \in {"saving", "writing"}
        /\ phase' = "idle" /\ UNCHANGED <<memory, turn, said, resumedAt>>
    BY <1>5 DEF Write
  <2>2. Snapshot(memory).messages = memory.messages
    BY DEF Snapshot
  <2> QED  BY <2>1, <2>2 DEF AnswersInv, Resting
<1>6. ASSUME NEW large \in BOOLEAN, CompactCommand(large)  PROVE AnswersInv'
  <2>1. /\ memory \in Session /\ phase = "idle" /\ phase' = "saving"
        /\ UNCHANGED <<turn, main, said, resumedAt>>
    BY <1>0, <1>6 DEF CompactCommand, Shapes
  <2>2. /\ AskersKnown(memory.messages, said)
        /\ UsesAnsweredSince(memory.messages, resumedAt)
    BY <2>1 DEF AnswersInv, Resting
  <2>3. /\ AskersKnown(memory'.messages, said)
        /\ UsesAnsweredSince(memory'.messages, resumedAt)
    <3>1. CASE ShouldCompact(memory.messages, Preserve, large)
      <4> DEFINE s == memory.messages
                 t == memory'.messages
      <4>1. memory' = Compacted(memory)
        BY <1>6, <3>1 DEF CompactCommand
      <4>2. /\ Preserve \in Nat \ {0} /\ Preserve < Len(s)
            /\ s \in Seq(Message) /\ t = CompactMessages(s, Preserve)
        BY <2>1, <3>1, <4>1, CompactionHasRoom
      <4> HIDE DEF s, t
      <4>3. AnsweredBefore(s, Len(s) + 1, resumedAt) /\ AskersKnown(s, said)
        BY <1>0, <2>2, <4>2, AnsweredSince DEF s
      <4>4. Len(s) + 1 = (Len(s) - 0) + 1 /\ 0 \in {0, 1}
        BY <4>2
      <4>5. /\ t \in Seq(Message) /\ Len(t) \in Nat \ {0}
            /\ AnsweredBefore(t, (Len(t) - 0) + 1, resumedAt)
            /\ AskersKnown(t, said)
        BY <1>0, <4>2, <4>3, <4>4, AnsweredCompacted
      <4>6. (Len(t) - 0) + 1 = Len(t) + 1
        BY <4>5
      <4> QED  BY <1>0, <4>5, <4>6, AnsweredSince DEF t
    <3>2. CASE ~ShouldCompact(memory.messages, Preserve, large)
      BY <1>6, <2>2, <3>2 DEF CompactCommand
    <3> QED  BY <3>1, <3>2
  <2> QED  BY <2>1, <2>3 DEF AnswersInv, Resting
<1>7. CASE Stop
  BY <1>7 DEF Stop, AnswersInv, Resting
<1>8. CASE StopMidAppend
  <2>1. /\ main \in File /\ main /= None /\ phase' = "down" /\ resumedAt' = resumedAt
        /\ \/ main'.messages = main.messages /\ said' = said
           \/ \E m \in NextMessages :
                  main'.messages = Append(main.messages, m) /\ said' = said + 1
    BY <1>0, <1>8, MidAppendMessages
  <2>2. AskersKnown(main'.messages, said')
    <3>1. ASSUME NEW m \in NextMessages, main'.messages = Append(main.messages, m),
                 said' = said + 1
          PROVE  AskersKnown(main'.messages, said')
      <4>1. m \in Message /\ m.first = said + 1
        BY <1>0, NextMessageIsNext
      <4> QED  BY <1>0, <2>1, <3>1, <4>1, AskersAppended DEF AnswersInv, File
    <3> QED  BY <2>1, <3>1 DEF AnswersInv
  <2> QED  BY <1>0, <2>1, <2>2 DEF AnswersInv, Resting
<1>9. CASE Resume
  <2>1. /\ main \in File /\ main /= None /\ phase' = "idle" /\ resumedAt' = said
        /\ memory' = [messages |-> main.messages, compacted |-> main.compacted]
        /\ UNCHANGED <<main, said>>
    BY <1>0, <1>9 DEF Resume, Shapes
  <2>2. main.messages \in Seq(Message) /\ AskersKnown(main.messages, said)
    BY <2>1 DEF AnswersInv, Resting, File
  <2>3. memory'.messages = main.messages
    BY <2>1
  <2>4. UsesAnsweredSince(main.messages, said)
    BY <1>0, <2>2, NothingSince
  <2> QED  BY <1>0, <2>1, <2>2, <2>3, <2>4 DEF AnswersInv, Resting
<1>10. CASE RecordPrompt
  BY <1>0, <1>10, PromptedMessages DEF AnswersInv, Resting
<1>11. CASE UNCHANGED vars
  BY <1>11 DEF vars, AnswersInv, Resting
<1> QED
  BY <1>1, <1>2, <1>3, <1>4, <1>5, <1>6, <1>7, <1>8, <1>9, <1>10, <1>11 DEF Next

(* A request leaves no tool use unanswered that was said since the client  *)
(* started: every round is answered in full before the next request, and   *)
(* no compaction takes one of its answers away.                            *)
THEOREM ConversationRequestsAreAnswered == Spec => []RequestsAreAnswered
<1>1. AnswersInv => RequestsAreAnswered
  BY DEF AnswersInv, Resting, RequestsAreAnswered
<1> QED
  BY <1>1, HistoryInit, HistoryStep, AnswersInit, AnswersStep, PTL DEF Spec

-----------------------------------------------------------------------------
(* Types, within the bounds: a round never owes less than nothing because  *)
(* it ends when it owes nothing, which AnswersInv tells.                   *)
LEMMA TypeStep ==
    HistoryInv /\ ResultsInv /\ AnswersInv /\ TypeOK /\ [Next]_vars => TypeOK'
<1> SUFFICES ASSUME HistoryInv, ResultsInv, AnswersInv, TypeOK, [Next]_vars,
                    HistoryInv', ResultsInv'
             PROVE  TypeOK'
  BY HistoryStep, ResultsStep
<1>0. Shapes' /\ Shapes
  BY DEF HistoryInv
<1>1. MaxSaid \in Nat /\ MaxIterations \in Nat /\ MaxUses \in Nat
  BY ConversationAssumption
<1>2. /\ phase' \in Phase
      /\ main' \in File \cup {None} /\ rotated' \in File \cup {None}
      /\ phase' /= "down" => memory' \in Session
      /\ phase' \in {"asking", "tools"} => turn' \in TurnShape
  BY <1>0 DEF Shapes
<1>3. turn' /= None => phase' \in {"asking", "tools"}
  BY DEF ResultsInv, Resting
<1>4. /\ said' \in 0 .. MaxSaid /\ resumedAt' \in 0 .. said'
      /\ phase' = "down" => memory' = None
      /\ turn' \in Turn \cup {None}
      /\ phase' \in {"asking", "tools"} => turn' /= None
  <2>1. said \in 0 .. MaxSaid /\ resumedAt \in 0 .. said
    BY DEF TypeOK
  <2>2. CASE StartTurn
    <3>1. /\ turn' = [session |-> Pushed(memory, Said("user", 0, 0)), owed |-> 0,
                      asker |-> 0, iterations |-> 0, over |-> FALSE]
          /\ phase' = "asking" /\ said' = said + 1 /\ said < MaxSaid
          /\ resumedAt' = resumedAt
      BY <2>2 DEF StartTurn
    <3>2. turn'.session \in Session
      BY <1>2, <3>1 DEF TurnShape
    <3>3. turn' \in Turn
      BY <1>1, <3>1, <3>2 DEF Turn
    <3>4. turn' /= None
      BY <3>3, NoneAssumption
    <3> QED  BY <1>1, <2>1, <3>1, <3>3, <3>4
  <2>3. ASSUME NEW uses \in 0 .. MaxUses, NEW over \in BOOLEAN, Reply(uses, over)
        PROVE  /\ said' \in 0 .. MaxSaid /\ resumedAt' \in 0 .. said'
               /\ phase' = "down" => memory' = None
               /\ turn' \in Turn \cup {None}
               /\ phase' \in {"asking", "tools"} => turn' /= None
    <3> DEFINE session == AutoCompacted(Pushed(turn.session,
                                               Said("assistant", uses, 0)), over)
    <3>1. /\ phase = "asking" /\ turn.iterations < MaxIterations
          /\ said' = said + 1 /\ said < MaxSaid /\ resumedAt' = resumedAt
          /\ IF uses = 0
             THEN turn' = None /\ phase' = "saving"
             ELSE /\ turn' = [session |-> session, owed |-> uses, asker |-> said + 1,
                              iterations |-> turn.iterations + 1, over |-> over]
                  /\ phase' = "tools"
      BY <2>3 DEF Reply, MayAsk
    <3>2. turn \in Turn
      BY <3>1 DEF TypeOK
    <3>3. turn.iterations \in 0 .. MaxIterations
      BY <3>2 DEF Turn
    <3> HIDE DEF session
    <3>4. CASE uses = 0
      BY <1>1, <2>1, <3>1, <3>4
    <3>5. CASE uses /= 0
      <4>1. session \in Session
        <5>1. turn' \in TurnShape /\ turn'.session = session
          BY <1>2, <3>1, <3>5
        <5> QED  BY <5>1 DEF TurnShape
      <4>2. said + 1 \in 0 .. MaxSaid /\ turn.iterations + 1 \in 0 .. MaxIterations
        BY <1>1, <2>1, <3>1, <3>3
      <4>3. turn' \in Turn
        BY <3>1, <3>5, <4>1, <4>2 DEF Turn
      <4>4. turn' /= None
        BY <4>3, NoneAssumption
      <4> QED  BY <1>1, <2>1, <3>1, <3>5, <4>3, <4>4
    <3> QED  BY <3>4, <3>5
  <2>4. CASE ToolResult
    <3> DEFINE t == [turn EXCEPT !.session = Pushed(@, Said("tool", 0, turn.asker)),
                                 !.owed = StillOwed(turn)]
    <3>1. /\ phase = "tools" /\ turn' = t /\ phase' \in {"asking", "tools"}
          /\ said' = said + 1 /\ said < MaxSaid /\ resumedAt' = resumedAt
      BY <2>4 DEF ToolResult
    <3>2. turn \in Turn /\ turn.owed > 0
      BY <3>1 DEF TypeOK, AnswersInv, Resting
    <3>3. turn.owed \in 0 .. MaxUses
      BY <3>2 DEF Turn
    <3>4. turn' \in TurnShape
      BY <1>2, <3>1
    <3>5. turn'.session \in Session
      BY <3>4 DEF TurnShape
    <3>6. turn.owed - 1 \in 0 .. MaxUses
      BY <1>1, <3>2, <3>3
    <3>7. turn' = [turn EXCEPT !.session = turn'.session, !.owed = turn.owed - 1]
      BY <3>1, <3>2 DEF Turn, StillOwed
    <3>8. turn' \in Turn
      BY <3>2, <3>5, <3>6, <3>7 DEF Turn
    <3>9. turn' /= None
      BY <3>8, NoneAssumption
    <3> QED  BY <1>1, <2>1, <3>1, <3>8, <3>9
  <2>5. CASE Rotate
    BY <2>1, <2>5 DEF Rotate, TypeOK
  <2>6. CASE Write
    BY <2>1, <2>6 DEF Write, TypeOK
  <2>7. ASSUME NEW large \in BOOLEAN, CompactCommand(large)
        PROVE  /\ said' \in 0 .. MaxSaid /\ resumedAt' \in 0 .. said'
               /\ phase' = "down" => memory' = None
               /\ turn' \in Turn \cup {None}
               /\ phase' \in {"asking", "tools"} => turn' /= None
    BY <2>1, <2>7 DEF CompactCommand, TypeOK
  <2>8. CASE Stop
    BY <2>1, <2>8 DEF Stop
  <2>9. CASE StopMidAppend
    <3>1. said' \in {said, said + 1} /\ said < MaxSaid /\ resumedAt' = resumedAt
          /\ phase' = "down" /\ memory' = None /\ turn' = None
      BY <2>9 DEF StopMidAppend
    <3> QED  BY <1>1, <2>1, <3>1
  <2>10. CASE Resume
    BY <1>1, <2>1, <2>10 DEF Resume, TypeOK
  <2>11. CASE RecordPrompt
    BY <2>1, <2>11 DEF RecordPrompt, TypeOK
  <2>12. CASE UNCHANGED vars
    BY <2>1, <2>12 DEF vars, TypeOK
  <2> QED
    BY <2>2, <2>3, <2>4, <2>5, <2>6, <2>7, <2>8, <2>9, <2>10, <2>11, <2>12 DEF Next
<1>5. memory' = None <=> phase' = "down"
  BY <1>2, <1>4, NoneAssumption
<1>6. memory' \in Session \cup {None}
  BY <1>2, <1>4
<1> QED  BY <1>2, <1>3, <1>4, <1>5, <1>6 DEF TypeOK

(* Every variable stays within its type, a turn within its iterations and  *)
(* uses, and a turn is in progress exactly while the client asks or runs   *)
(* tools.                                                                  *)
THEOREM ConversationTypeOK == Spec => []TypeOK
<1>1. Init => TypeOK
  <2> SUFFICES ASSUME Init  PROVE TypeOK
    OBVIOUS
  <2>1. NewSession \in Session
    BY DEF NewSession, Session
  <2>2. NewSession /= None
    BY <2>1, NoneAssumption
  <2>3. 0 \in 0 .. MaxSaid
    BY ConversationAssumption
  <2> QED  BY <2>1, <2>2, <2>3 DEF Init, TypeOK, Phase
<1> QED
  BY <1>1, HistoryInit, HistoryStep, ResultsInit, ResultsStep,
     AnswersInit, AnswersStep, TypeStep, PTL DEF Spec
=============================================================================
