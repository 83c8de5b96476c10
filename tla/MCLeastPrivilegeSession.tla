---------------------- MODULE MCLeastPrivilegeSession ----------------------
(* Two tools, grants for one operation and for the session, leases that    *)
(* run out in either order, and one request that states no reason.         *)
EXTENDS LeastPrivilegeSession, TLC

Ask(mode, once, lease, tool) ==
    [mode |-> mode, once |-> once, lease |-> lease, tool |-> tool, stated |-> TRUE]

MCRequest ==
    {Ask("workspace-write", TRUE, {}, {"edit"}),
     Ask("workspace-write", TRUE, {2}, {}),
     Ask("danger-full-access", TRUE, {1}, {"shell"}),
     Ask("danger-full-access", FALSE, {2}, {}),
     Ask("workspace-write", FALSE, {}, {}),
     Ask("prompt", FALSE, {}, {}),
     [Ask("workspace-write", FALSE, {}, {}) EXCEPT !.stated = FALSE]}

MCTemplate ==
    {[mode |-> "workspace-write", once |-> FALSE, leaseFor |-> {1}, stated |-> TRUE]}
=============================================================================
