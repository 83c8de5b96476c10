--------------------------- MODULE PromptDelivery ---------------------------
(***************************************************************************)
(* What a booting worker promises about the prompts handed to it: they are *)
(* delivered one at a time, and a prompt is only kept for another try when *)
(* its own last delivery was lost, never when it was accepted.             *)
(***************************************************************************)
CONSTANTS Prompt, None

VARIABLES
    prompt,     \* the prompt delivered last
    outcome     \* what became of that delivery

vars == <<prompt, outcome>>

Outcome == {"none", "open", "accepted", "lost", "closed"}

Init == prompt = None /\ outcome = "none"

(* A new delivery starts only when none is open.                           *)
Deliver(p) ==
    /\ outcome /= "open"
    /\ prompt' = p
    /\ outcome' = "open"

(* An open delivery is accepted, lost, or given up.                        *)
Settle ==
    /\ outcome = "open"
    /\ outcome' \in {"accepted", "lost", "closed"}
    /\ UNCHANGED prompt

Forget == prompt' = None /\ outcome' = "none"

Next ==
    \/ \E p \in Prompt : Deliver(p)
    \/ Settle
    \/ Forget

Spec == Init /\ [][Next]_vars
=============================================================================
