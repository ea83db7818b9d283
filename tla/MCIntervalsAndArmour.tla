------------------------ MODULE MCIntervalsAndArmour ------------------------
(***************************************************************************)
(* A small instance of the interval engine and one of the evidence that    *)
(* armour is charged by, explored one at a time: a setup is an interval    *)
(* like any other, and the engine reads nothing of its price.  Two         *)
(* sessions one after the other, two kinds so that a switch can seal       *)
(* across kinds, two subjects so that a kind can stack, and three          *)
(* intervals so that one can be closed while another stays.  Nothing tells *)
(* sessions, kinds or subjects apart, and only safety is checked, so all   *)
(* three are symmetric.                                                    *)
(***************************************************************************)
EXTENDS SessionIntervals, ProtectionEvidence, TLC

CONSTANTS vested, ghost, plate

VARIABLE part   \* the half this behaviour looks at

\* Two armours, one read and one repaired, and plates that are repaired.
Setups == {[armour |-> vested, plates |-> plate], [armour |-> ghost, plates |-> plate]}

Symmetric ==
    Permutations(Session) \cup Permutations(Kind) \cup Permutations(Subject)

EngineAndArmourInit ==
    /\ part \in {"engine", "armour"}
    /\ IntervalsInit /\ ProtectionInit
    /\ part = "engine" => \A s \in SessionId : bySegment[s]

EngineAndArmourNext ==
    \/ part = "engine" /\ IntervalsNext /\ UNCHANGED <<protectionVars, part>>
    \/ part = "armour" /\ ProtectionNext /\ UNCHANGED <<engine, part>>

EngineAndArmourSpec ==
    EngineAndArmourInit /\ [][EngineAndArmourNext]_<<engine, protectionVars, part>>
=============================================================================
