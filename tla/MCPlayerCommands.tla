--------------------------- MODULE MCPlayerCommands ---------------------------
(***************************************************************************)
(* Two books that the player's own commands write, explored one at a time:  *)
(* the declarations of a session and the route on the map.                  *)
(***************************************************************************)
EXTENDS MCTrackerSession, Navigation

VARIABLE book   \* the one this behaviour looks at

commandVars == <<tracker, navVars, book>>

SymmetricSubjects == SymmetricActivities \cup Permutations(Pin)

CommandsInit == TrackerInit /\ NavInit /\ book \in {"declarations", "route"}

DeclarationsBook == book = "declarations" /\ TrackerNext /\ UNCHANGED <<navVars, book>>
RouteBook        == book = "route" /\ NavNext /\ UNCHANGED <<tracker, book>>

CommandsNext == DeclarationsBook \/ RouteBook

CommandsSpec == CommandsInit /\ [][CommandsNext]_commandVars
=============================================================================
