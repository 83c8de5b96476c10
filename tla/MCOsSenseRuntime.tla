-------------------------- MODULE MCOsSenseRuntime --------------------------
(* Two dimensions, one of them a sensor that may be absent, and an alert   *)
(* on the other.                                                           *)
EXTENDS OsSenseRuntime

MCDimension == {"cpu", "thermal"}
MCSensor == {"thermal"}
MCInterval == [d \in MCDimension |-> IF d = "cpu" THEN 2 ELSE 3]
MCAlert == {"cpu"}
MCSourceOf == [a \in MCAlert |-> "cpu"]
=============================================================================
