------------------------------ MODULE MCThreads ------------------------------
(***************************************************************************)
(* The components that threads of their own run, explored one at a time:    *)
(* they meet in what they publish, not in the state modelled here.  Of the  *)
(* four consumers of the keyboard hook any two run at a time: the third and *)
(* the fourth begin when another has come to rest.                          *)
(***************************************************************************)
EXTENDS KeystrokeClaims, ChatTail, ChatClock, BusRendezvous, TLC

VARIABLE part   \* the component this behaviour looks at

threadsVars == <<claims, tailVars, clockVars, bus, part>>

SymmetricSessions == Permutations(Session)

Delays == {-1, 0, 1, 2, 5, 6, 7}
FiveZones == -2 .. 2

\* Consumers that run, are switched on, or have a thread under way.
Busy == {c \in Consumer : running[c]}
        \cup {Of(t) : t \in {u \in Thread : pc[u] # "idle"}}
        \cup {Of(f) : f \in {g \in Flags : flag[g]}}
        \cup (IF enabled \/ phase # "idle" THEN {"confirm"} ELSE {})

TwoAtATime == Cardinality(Busy) <= 2

ThreadsInit ==
    /\ part \in {"hook", "tail", "clock", "bus"}
    /\ ClaimsInit /\ TailInit /\ ClockInit /\ BusInit
    /\ part # "clock" => zone = 0

HookPart  == part = "hook" /\ ClaimsNext /\ TwoAtATime'
             /\ UNCHANGED <<tailVars, clockVars, bus, part>>
TailPart  == part = "tail" /\ TailNext /\ UNCHANGED <<claims, clockVars, bus, part>>
ClockPart == part = "clock" /\ ClockNext /\ UNCHANGED <<claims, tailVars, bus, part>>
BusPart   == part = "bus" /\ BusNext /\ UNCHANGED <<claims, tailVars, clockVars, part>>

ThreadsNext == HookPart \/ TailPart \/ ClockPart \/ BusPart

ThreadsSpec == ThreadsInit /\ [][ThreadsNext]_threadsVars
=============================================================================
