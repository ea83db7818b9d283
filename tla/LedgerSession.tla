--------------------------- MODULE LedgerSession ---------------------------
(***************************************************************************)
(* The life of one recorded session as the tracker's three ledgers see it   *)
(* (tracker/session.rs stop_session, tracker/persistence.rs                 *)
(* recover_orphaned_sessions): it is live, it is stopped in one transaction *)
(* that may fail and leave it live, or the process dies and the next boot   *)
(* ends the orphaned row.  Time is the chat log's, in steps of the shortest *)
(* window a ledger looks at.  KillLedger, HarvestSwings and HealingLedger   *)
(* extend this module; what a stop writes is theirs.                        *)
(***************************************************************************)
EXTENDS Integers, Sequences

CONSTANTS None,     \* no tool, no entry
          MaxTime   \* bound of the clock

VARIABLES status,   \* "live", "stopped", "down" after a crash, "recovered"
          now

sessionVars == <<status, now>>

Live == status = "live"
Ended == status \in {"stopped", "recovered"}

SessionInit == status = "live" /\ now = 0

Elapse == /\ Live /\ now < MaxTime
          /\ now' = now + 1
          /\ UNCHANGED status

\* stop_session whose transaction committed.
Seal == Live /\ status' = "stopped" /\ UNCHANGED now

\* The process dies; memory is gone.
Crash == Live /\ status' = "down" /\ UNCHANGED now

\* recover_orphaned_sessions ends the row it finds active.
RecoverRow == status = "down" /\ status' = "recovered" /\ UNCHANGED now
=============================================================================
