---------------------------- MODULE MetricHistory ----------------------------
(***************************************************************************)
(* query_history_range of rust/crates/os-sense/src/storage.rs: the metrics *)
(* history of a window, thinned out when it has too many rows.             *)
(*                                                                         *)
(* The rows of one query come in the order of their time and are read one  *)
(* by one.  The first and the last readable row are always returned; of    *)
(* those in between, when there are too many, the first of every bucket of *)
(* time.  A row is known by its place in the window.                       *)
(***************************************************************************)
EXTENDS Integers, Sequences

CONSTANTS
    NoRow,
    MaxPoints,      \* MAX_HISTORY_POINTS
    MaxRows,        \* bound: rows in a window
    MaxAt           \* bound: the last time a row may have

ASSUME HistoryAssumption ==
    /\ MaxPoints \in Nat /\ MaxPoints > 2
    /\ MaxRows \in Nat /\ MaxAt \in Nat /\ NoRow \notin Int

VARIABLES
    rows,       \* the rows of the window
    next,       \* the next one to read
    first,      \* first_sample
    middle,     \* middle_samples
    last,       \* last_sample
    selected    \* selected_bucket

queryVars == <<rows, next, first, middle, last, selected>>

HistoryRow == [at: 0 .. MaxAt, readable: BOOLEAN]

InOrder(times) == \A i, j \in DOMAIN times : i <= j => times[i] <= times[j]

-----------------------------------------------------------------------------
Downsampled == Len(rows) > MaxPoints

Span == rows[Len(rows)].at - rows[1].at + 1

(* Mutant of BucketWidth: rounded down.                                    *)
BucketWidthDown == IF Span < MaxPoints - 2 THEN 1 ELSE Span \div (MaxPoints - 2)

BucketWidth ==
    Span \div (MaxPoints - 2) + (IF Span % (MaxPoints - 2) = 0 THEN 0 ELSE 1)

(* Corrupt rows count when the buckets are laid out.                       *)
Bucket(i) == (rows[i].at - rows[1].at) \div BucketWidth

QueryInit ==
    /\ \E n \in 0 .. MaxRows :
           \E times \in [1 .. n -> 0 .. MaxAt], readable \in [1 .. n -> BOOLEAN] :
               /\ InOrder(times)
               /\ rows = [i \in 1 .. n |-> [at |-> times[i], readable |-> readable[i]]]
    /\ next = 1
    /\ first = NoRow
    /\ middle = <<>>
    /\ last = NoRow
    /\ selected = NoRow

Corrupt ==
    /\ next <= Len(rows)
    /\ ~rows[next].readable
    /\ next' = next + 1
    /\ UNCHANGED <<rows, first, middle, last, selected>>

First ==
    /\ next <= Len(rows)
    /\ rows[next].readable
    /\ first = NoRow
    /\ first' = next
    /\ next' = next + 1
    /\ UNCHANGED <<rows, middle, last, selected>>

(* The row that was last so far is in between now: is it taken?            *)
Takes(i) == ~Downsampled \/ selected = NoRow \/ Bucket(i) /= selected

(* Mutant of Later: the row held back is dropped for the next one.         *)
LaterForgets ==
    /\ next <= Len(rows)
    /\ rows[next].readable
    /\ first /= NoRow
    /\ IF last /= NoRow /\ Takes(last)
       THEN /\ middle' = Append(middle, last)
            /\ selected' = IF Downsampled THEN Bucket(last) ELSE NoRow
            /\ UNCHANGED last
       ELSE /\ last' = next
            /\ UNCHANGED <<middle, selected>>
    /\ next' = next + 1
    /\ UNCHANGED <<rows, first>>

Later ==
    /\ next <= Len(rows)
    /\ rows[next].readable
    /\ first /= NoRow
    /\ last' = next
    /\ IF last /= NoRow /\ Takes(last)
       THEN /\ middle' = Append(middle, last)
            /\ selected' = IF Downsampled THEN Bucket(last) ELSE NoRow
       ELSE UNCHANGED <<middle, selected>>
    /\ next' = next + 1
    /\ UNCHANGED <<rows, first>>

QueryNext == Corrupt \/ First \/ Later

QuerySpec == QueryInit /\ [][QueryNext]_queryVars

One(i) == IF i = NoRow THEN <<>> ELSE <<i>>

(* The samples returned when the rows end here.                            *)
Samples == One(first) \o middle \o One(last)

-----------------------------------------------------------------------------
ReadSoFar == {i \in 1 .. next - 1 : rows[i].readable}

(* What is kept are rows read so far that could be read.                 *)
QueryTypeOK ==
    /\ rows \in Seq(HistoryRow)
    /\ next \in 1 .. Len(rows) + 1
    /\ first \in ReadSoFar \cup {NoRow}
    /\ middle \in Seq(ReadSoFar)
    /\ last \in ReadSoFar \cup {NoRow}
    /\ selected \in 0 .. MaxAt \cup {NoRow}

(* However many rows there are, however their times are spread, and        *)
(* whichever of them are corrupt, no more than the maximum is returned.    *)
WithinLimit == Len(Samples) <= MaxPoints

(* The first and the last readable row are returned, each row once and in  *)
(* order, and all of them when there are few.                              *)
EndsAreKept ==
    /\ ReadSoFar /= {} =>
        /\ \A i \in ReadSoFar : Samples[1] <= i /\ i <= Samples[Len(Samples)]
        /\ \A n \in 1 .. Len(Samples) - 1 : Samples[n] < Samples[n + 1]
    /\ ~Downsampled => \A i \in ReadSoFar : \E n \in 1 .. Len(Samples) : Samples[n] = i

(* No stretch of the window disappears: every bucket with a readable row   *)
(* in between has its first one returned.                                  *)
NoBucketIsLost ==
    Downsampled /\ last /= NoRow =>
        \A i \in ReadSoFar \ {first, last} :
            \E n \in 1 .. Len(middle) :
                /\ middle[n] <= i
                /\ Bucket(middle[n]) = Bucket(i)

(* What is returned stands for the window.                                 *)
SelectionIsFaithful == EndsAreKept /\ NoBucketIsLost
=============================================================================
