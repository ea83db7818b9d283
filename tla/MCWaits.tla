------------------------------- MODULE MCWaits -------------------------------
(***************************************************************************)
(* The two places where threads wait for each other: the rendezvous of the  *)
(* bus and the joins and replies of the connection core.  One at a time,    *)
(* each under the fairness of its own threads.                              *)
(***************************************************************************)
EXTENDS BusRendezvous, DbPool

VARIABLE part   \* the place this behaviour looks at

waitsVars == <<bus, poolVars, part>>

WaitsInit == part \in {"bus", "pool"} /\ BusInit /\ PoolInit

BusPart  == part = "bus" /\ BusNext /\ UNCHANGED <<poolVars, part>>
PoolPart == part = "pool" /\ PoolNext /\ UNCHANGED <<bus, part>>

WaitsNext == BusPart \/ PoolPart

\* The two tasks are scheduled by the runtime and the two threads by the
\* operating system; what the player and the game do next is not promised.
BusFairness ==
    /\ WF_bus(part = "bus" /\ TrackerStep) /\ WF_bus(part = "bus" /\ QuestTakes)
    /\ WF_bus(part = "bus" /\ WatcherStep) /\ WF_bus(part = "bus" /\ HotbarStep)
    /\ \A p \in Probe : WF_bus(part = "bus" /\ ProbeCloses(p))

\* The operating system runs every thread that can go on; callers owe nothing.
PoolFairness ==
    /\ \A w \in Worker : WF_poolVars(part = "pool" /\ WorkerStep(w))
    /\ WF_poolVars(part = "pool" /\ JoinNext)

WaitsSpec == WaitsInit /\ [][WaitsNext]_waitsVars /\ BusFairness /\ PoolFairness
=============================================================================
