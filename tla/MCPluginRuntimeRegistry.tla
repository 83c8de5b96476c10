---------------------- MODULE MCPluginRuntimeRegistry ----------------------
(* Two plugins of which one needs the other.                               *)
EXTENDS PluginRuntimeRegistry

CONSTANTS base, tool, v1, v2

ToolNeedsBase == {<<tool, base>>}

(* The two versions of a plugin are interchangeable, and those of two      *)
(* plugins are never compared: a plugin that is there starts at v1.        *)
MCInit == Init /\ \A p \in Plugin : snapshot[p] # v2

MCFairSpec == MCInit /\ [][Next]_vars /\ Fairness
=============================================================================
