------------------------------ MODULE ChatClock ------------------------------
(***************************************************************************)
(* The offset of the game server's clock (chatlog_time.rs).  Every tick of  *)
(* the live tail is a sample: its stamp, taken as UTC, less the instant it  *)
(* is flushed.  The first sample that looks like a zone settles the clock;  *)
(* a settled clock moves only when three samples in a row agree on another  *)
(* offset.  The server may change its zone, and a tick may come late.       *)
(* Times are in units the instance chooses.                                 *)
(***************************************************************************)
EXTENDS Integers, Sequences

CONSTANTS
    Quarter,        \* QUARTER_HOUR_SECONDS
    MaxOffset,      \* MAX_OFFSET_SECONDS
    MaxLag,         \* MAX_READ_LAG_SECONDS
    Confirmations,  \* CONFIRMATIONS_TO_MOVE
    Delay,          \* how late ticks are flushed
    ZoneQuarters,   \* the zones the server may have, in quarters
    Unset           \* no offset

ASSUME ClockAssumption ==
    /\ Quarter \in Nat \ {0} /\ MaxOffset \in Nat /\ MaxLag \in Nat
    /\ 2 * MaxLag < Quarter
    /\ Confirmations \in Nat \ {0} /\ Delay \subseteq Int /\ ZoneQuarters \subseteq Int
    /\ Unset \notin Int

VARIABLES
    zone,       \* the server's offset, a whole number of quarters
    offset,     \* offset_seconds, Unset while the clock is not settled
    candidate,  \* the offset that is proving itself: [offset, agreements]
    samples     \* history: the last accepted samples, [gap, live, zone]

clockOwn == <<zone, offset, candidate>>
clockVars == <<clockOwn, samples>>

Zones == {Quarter * n : n \in ZoneQuarters}
NoCandidate == [offset |-> Unset, agreements |-> 0]

Magnitude(n) == IF n < 0 THEN -n ELSE n

-----------------------------------------------------------------------------
\* snap_to_quarter_hour: the nearest whole quarter, halves away from zero.
Snap(gap) ==
    LET quarters == (2 * Magnitude(gap) + Quarter) \div (2 * Quarter)
    IN  IF gap < 0 THEN -(quarters * Quarter) ELSE quarters * Quarter

\* A sample that is not a zone and a small lag is no evidence.
Plausible(gap) ==
    Magnitude(Snap(gap)) <= MaxOffset /\ Magnitude(gap - Snap(gap)) <= MaxLag

\* Mutant: a sample for the offset in use leaves the rival's count standing.
ProvenKept(sample) ==
    LET agreed == IF candidate.offset = sample THEN candidate.agreements + 1 ELSE 1
    IN  IF offset = Unset \/ (sample # offset /\ agreed >= Confirmations)
        THEN offset' = sample /\ candidate' = NoCandidate
        ELSE /\ candidate' = IF sample = offset THEN candidate
                             ELSE [offset |-> sample, agreements |-> agreed]
             /\ UNCHANGED offset

\* What an accepted sample does to the clock.
Proven(sample) ==
    LET agreed == IF candidate.offset = sample THEN candidate.agreements + 1 ELSE 1
    IN  IF offset = Unset \/ (sample # offset /\ agreed >= Confirmations)
        THEN offset' = sample /\ candidate' = NoCandidate
        ELSE /\ candidate' = IF sample = offset THEN NoCandidate
                             ELSE [offset |-> sample, agreements |-> agreed]
             /\ UNCHANGED offset

\* A tick stamped by the server's clock is flushed `delay` later.
Observe(delay) ==
    LET gap == zone - delay
    IN  IF Plausible(gap)
        THEN /\ Proven(Snap(gap))
             /\ samples' = Append(IF Len(samples) < Confirmations THEN samples ELSE Tail(samples),
                                  [offset |-> Snap(gap), live |-> Magnitude(delay) <= MaxLag,
                                   zone |-> zone])
             /\ UNCHANGED zone
        ELSE UNCHANGED clockVars

\* The server changes its zone.
ServerMoves(to) ==
    /\ zone' = to
    /\ UNCHANGED <<offset, candidate, samples>>

-----------------------------------------------------------------------------
ClockInit ==
    /\ zone \in Zones
    /\ offset = Unset /\ candidate = NoCandidate /\ samples = << >>

ClockNext ==
    \/ \E delay \in Delay : Observe(delay)
    \/ \E to \in Zones : ServerMoves(to)

ClockSpec == ClockInit /\ [][ClockNext]_clockVars

-----------------------------------------------------------------------------
(* Properties.                                                             *)

Agreeing == Len(samples) = Confirmations
            /\ \A k \in DOMAIN samples : samples[k].offset = samples[1].offset

\* Whatever was sampled before, late or live, and however often the server
\* moved or the clock was misled: once the last three accepted samples agree
\* they are the offset in use, so three live ticks of one zone always bring the
\* right one, and a candidate counts the samples that agreed on it in a row.
OffsetProved ==
    /\ Agreeing => offset = samples[1].offset
    /\ (Agreeing /\ \A k \in DOMAIN samples : samples[k].live /\ samples[k].zone = zone)
           => offset = zone
    /\ candidate.agreements \in 0 .. Confirmations - 1
    /\ \A k \in 0 .. candidate.agreements - 1 :
           samples[Len(samples) - k].offset = candidate.offset
    /\ candidate.offset = offset => offset = Unset

=============================================================================
