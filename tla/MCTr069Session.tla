--------------------------- MODULE MCTr069Session ---------------------------
(* The TR-069 agent with budgets small enough to explore: a run is the union of its budgets. *)
EXTENDS Tr069Session

Some(b, l, r, u, a, o) ==
    [backup |-> b, loads |-> l, restarts |-> r, urls |-> u, alarms |-> a, resets |-> o]

\* the standard's types have spaces ("1 Firmware Upgrade Image"); a server may use one without
MCFileType == [l \in Loads |-> l]

\* each budget brings together two or three of the things that can happen to an agent
MCBudgets ==
    {Some(FALSE, {"conf", "own"}, 1, 0, 0, FALSE),   \* two downloads and a power failure
     Some(FALSE, {"firm"}, 1, 0, 1, FALSE),  \* an upgrade, an extended event, a power failure
     Some(TRUE, {}, 0, 1, 2, FALSE),         \* two servers, another address, extended events
     Some(FALSE, {}, 1, 1, 0, TRUE),         \* orders to reboot, another address, a power failure
     Some(TRUE, {}, 1, 0, 0, TRUE)}          \* the same orders with two servers
=============================================================================
