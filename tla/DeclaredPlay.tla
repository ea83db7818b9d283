------------------------------ MODULE DeclaredPlay ------------------------------
(***************************************************************************)
(* What the session layer promises about attribution, with no tables, no   *)
(* identifiers and no transactions: the player plays at most one session   *)
(* at a time and redeclares what is in force at will; every event recorded *)
(* is logged with what was declared at that moment; and nothing that       *)
(* happens later changes what the log says (migration 0019).               *)
(***************************************************************************)
EXTENDS Sequences

CONSTANTS
    Session,    \* sessions the player may play
    NoSession,  \* the player is not recording
    Kind,       \* kinds of declaration
    Subject,    \* what a declaration identifies within its kind
    Unstated    \* what was in force is unknown, as opposed to "nothing"

VARIABLES
    player,   \* the session being played
    inForce,  \* the declarations in force, or Unstated
    log       \* events in the order recorded, each with its declarations

play == <<player, inForce, log>>

PlayInit ==
    /\ player = NoSession
    /\ inForce = Unstated
    /\ log = << >>

\* A session begins with nothing stated.
Begin(s) ==
    /\ player = NoSession
    /\ player' = s
    /\ inForce' = Unstated
    /\ UNCHANGED log

\* The player states, restates or withdraws what is in force.
Redeclare ==
    /\ player # NoSession
    /\ \E stated \in SUBSET [kind : Kind, subject : Subject] : inForce' = stated
    /\ UNCHANGED <<player, log>>

\* The declarations lapse as the session is closed.
Lapse ==
    /\ player # NoSession
    /\ inForce' = Unstated
    /\ UNCHANGED <<player, log>>

\* An event is recorded under what is in force, for good.
Record ==
    /\ player # NoSession
    /\ log' = Append(log, [session |-> player, declared |-> inForce])
    /\ UNCHANGED <<player, inForce>>

End ==
    /\ player # NoSession
    /\ player' = NoSession
    /\ inForce' = Unstated
    /\ UNCHANGED log

PlayNext ==
    \/ \E s \in Session : Begin(s)
    \/ Redeclare
    \/ Lapse
    \/ Record
    \/ End

PlaySpec == PlayInit /\ [][PlayNext]_play
=============================================================================
