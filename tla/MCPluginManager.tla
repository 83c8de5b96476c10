-------------------------- MODULE MCPluginManager --------------------------
(***************************************************************************)
(* Two processes, a plugin with three versions and one that needs it in    *)
(* one of the first two.                                                   *)
(***************************************************************************)
EXTENDS PluginManager

CONSTANTS base, addon

MCReleases == (base :> 1..3) @@ (addon :> {1})
MCNeeds == {<<addon, base, 1..2>>}

=============================================================================
