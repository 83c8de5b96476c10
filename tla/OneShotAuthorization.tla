------------------------ MODULE OneShotAuthorization ------------------------
(***************************************************************************)
(* What the confirmation gate promises, with none of its maps.  Requests   *)
(* for confirmation are numbered as they are asked.  A request is asked    *)
(* for one scope and one deadline, may be approved by one actor for one    *)
(* executor, and an approved request lets through one execution: of that   *)
(* scope, by that actor and executor, before that deadline.  A request may *)
(* be dropped at any time before it is used, and never comes back.         *)
(***************************************************************************)
EXTENDS Naturals, Sequences

CONSTANTS Scope, Actor, Time

VARIABLES
    book,       \* book[id]: where request id stands, and on which terms
    log         \* the executions let through, oldest first

vars == <<book, log>>

Asked == [phase: {"asked"}, scope: Scope, deadline: Time]

Approved ==
    [phase: {"approved"}, scope: Scope, deadline: Time, actor: Actor, executor: Actor]

Used == [phase |-> "used"]

Dropped == [phase |-> "dropped"]

Approve(entry, actor, executor) ==
    [phase |-> "approved", scope |-> entry.scope, deadline |-> entry.deadline,
     actor |-> actor, executor |-> executor]

-----------------------------------------------------------------------------
Init == book = <<>> /\ log = <<>>

(* A request that is not used yet stays as it is or is dropped.            *)
StaysOrDrops(id) ==
    \/ book'[id] = book[id]
    \/ book[id].phase \in {"asked", "approved"} /\ book'[id] = Dropped

(* New requests are asked, old ones may be dropped.                        *)
Ask ==
    /\ Len(book') >= Len(book)
    /\ \A id \in 1 .. Len(book') :
          IF id <= Len(book) THEN StaysOrDrops(id) ELSE book'[id] \in Asked
    /\ log' = log

Grant(id) ==
    /\ Len(book') = Len(book)
    /\ book[id].phase = "asked"
    /\ \E a, e \in Actor : book'[id] = Approve(book[id], a, e)
    /\ \A other \in 1 .. Len(book) \ {id} : StaysOrDrops(other)
    /\ log' = log

Execute(id) ==
    /\ Len(book') = Len(book)
    /\ book[id].phase = "approved"
    /\ \E now \in Time :
          /\ now < book[id].deadline
          /\ log' = Append(log, [id |-> id, scope |-> book[id].scope,
                                 actor |-> book[id].actor,
                                 executor |-> book[id].executor, at |-> now])
    /\ book' = [book EXCEPT ![id] = Used]

Next == Ask \/ \E id \in 1 .. Len(book) : Grant(id) \/ Execute(id)

Spec == Init /\ [][Next]_vars
=============================================================================
