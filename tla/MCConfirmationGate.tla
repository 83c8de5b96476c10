------------------------ MODULE MCConfirmationGate ------------------------
(* Four reports of one plan.  Under rule generation 0 two of its intents   *)
(* need confirmation, under generation 1 only one; other thresholds rate   *)
(* that one higher, or deny an intent that needed no confirmation before.  *)
EXTENDS ConfirmationGate, TLC

Rated(generation, risk, confirm, denied) ==
    [plan |-> "upgrade", generation |-> generation, confirm |-> confirm,
     risk |-> [o \in {0, 2} |-> risk], denied |-> denied]

MCReport == {Rated(0, 60, <<0, 2>>, FALSE), Rated(1, 60, <<2>>, FALSE),
             Rated(1, 70, <<2>>, FALSE), Rated(1, 60, <<2>>, TRUE)}

Perms == Permutations(Session) \cup Permutations(Actor)
===========================================================================
