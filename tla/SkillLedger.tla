----------------------------- MODULE SkillLedger -----------------------------
(***************************************************************************)
(* The calibration trail of one skill and the three writers that share it:  *)
(* the skill tracker (skill_tracker.rs), which reads the newest level,      *)
(* appends a point and records the gain in three steps on the watcher's     *)
(* thread; the codex (codex.rs), whose claims and their reversal price a    *)
(* reward onto the trail and hold back the gain the game logs for it; and   *)
(* the scan (scan_completion.rs), which archives its old anchor and writes  *)
(* a new one.  A gain and a reward are one level each; the curve, the other *)
(* species and the attributes of meta claims are left out.                  *)
(***************************************************************************)
EXTENDS Naturals, FiniteSets

CONSTANTS
    Claimer,      \* calls of the codex that may be under way at once
    MaxRank,      \* the rank that completes a species
    MaxInstant,   \* bound of the clock, in seconds
    MaxGains,     \* bound on the gains the game logs
    MaxCalls,     \* bound on codex calls, calibrations, scans and sessions
    MaxWriteFails, \* bound on writes that fail
    NoLevel       \* no level, no suppression

ASSUME SkillAssumption ==
    MaxRank \in Nat /\ MaxInstant \in Nat /\ MaxGains \in Nat /\ MaxCalls \in Nat

VARIABLES
    instant,     \* the clock
    trail,       \* skill_calibrations: [id, source, at, level]
    archive,     \* skill_calibrations_archive, by id
    lastRow,     \* the last row id given out
    gainRows,    \* skill_gains: [row, at, priced]
    gain,        \* the gain on_skill_gain is at: [stage, at, old, row]
    skillOn,     \* the skill tracker's active flag
    suppressed,  \* the instant a suppression expires, or NoLevel
    rank,        \* codex_progress.current_rank
    entries,     \* codex_claims: [kind, rank, at, priced]
    call,        \* each codex call: [stage, rank]
    moved,       \* history: the rank was set by hand
    spentCalls   \* (bound) gains, calls and failed writes so far

trailVars == <<trail, archive, lastRow>>
skillVars == <<instant, trailVars, gainRows, gain, skillOn, suppressed, rank, entries,
               call, moved, spentCalls>>

Suppression == 1   \* SUPPRESS_TIMEOUT_SECONDS, in seconds of this clock

NoGain == [stage |-> "idle", at |-> 0, old |-> NoLevel, row |-> 0]
NoCall == [stage |-> "idle", rank |-> 0]

Spend(kind, bound) ==
    /\ spentCalls[kind] < bound
    /\ spentCalls' = [spentCalls EXCEPT ![kind] = @ + 1]

-----------------------------------------------------------------------------
(* The trail.                                                              *)

\* ORDER BY scanned_at DESC: the rows of the newest instant.
Newest == {r \in trail : \A s \in trail : s.at <= r.at}

\* ... id DESC: the last of them.
Latest == CHOOSE r \in Newest : \A s \in Newest : s.id <= r.id

Level == IF trail = {} THEN NoLevel ELSE Latest.level

Insert(old, source, level, at) ==
    /\ trail' = old \union {[id |-> lastRow + 1, source |-> source, at |-> at, level |-> level]}
    /\ lastRow' = lastRow + 1

-----------------------------------------------------------------------------
(* Time and sessions.                                                      *)

SecondPasses ==
    /\ instant < MaxInstant /\ instant' = instant + 1
    /\ UNCHANGED <<trailVars, gainRows, gain, skillOn, suppressed, rank, entries, call, moved,
                   spentCalls>>

\* on_session_start and on_session_stop, on the tracker's thread.
SkillSession ==
    /\ Spend("calls", MaxCalls)
    /\ skillOn' = ~skillOn
    /\ suppressed' = NoLevel
    /\ UNCHANGED <<instant, trailVars, gainRows, gain, rank, entries, call, moved>>

-----------------------------------------------------------------------------
(* on_skill_gain, in its steps.                                            *)

\* Under the guard: inactive trackers ignore it; a suppression is consumed on
\* sight and swallows the gain when it has not expired.
HearSkill ==
    /\ gain = NoGain /\ Spend("gains", MaxGains)
    /\ suppressed' = IF skillOn THEN NoLevel ELSE suppressed
    /\ gain' = IF ~skillOn \/ (suppressed # NoLevel /\ instant < suppressed) THEN NoGain
               ELSE [NoGain EXCEPT !.stage = "read", !.at = instant]
    /\ UNCHANGED <<instant, trailVars, gainRows, skillOn, rank, entries, call, moved>>

\* The old level: any row of the newest instant, for the query names no tie break.
ReadOld ==
    /\ gain.stage = "read"
    /\ IF trail = {} THEN gain' = [gain EXCEPT !.stage = "record"]
       ELSE \E r \in Newest : gain' = [gain EXCEPT !.stage = "append", !.old = r.level]
    /\ UNCHANGED <<instant, trailVars, gainRows, skillOn, suppressed, rank, entries, call,
                   moved, spentCalls>>

\* Mutant: the gain is recorded although its point was not written.
AppendFailsOpen ==
    /\ gain.stage = "append" /\ Spend("failures", MaxWriteFails)
    /\ gain' = [gain EXCEPT !.stage = "record"]
    /\ UNCHANGED <<instant, trailVars, gainRows, skillOn, suppressed, rank, entries, call, moved>>

\* A point that cannot be written ends the handler.
AppendFails ==
    /\ gain.stage = "append" /\ Spend("failures", MaxWriteFails)
    /\ gain' = NoGain
    /\ UNCHANGED <<instant, trailVars, gainRows, skillOn, suppressed, rank, entries, call, moved>>

AppendPoint ==
    /\ gain.stage = "append"
    /\ Insert(trail, "chatlog", gain.old + 1, gain.at)
    /\ gain' = [gain EXCEPT !.stage = "record", !.row = lastRow + 1]
    /\ UNCHANGED <<instant, archive, gainRows, skillOn, suppressed, rank, entries, call, moved,
                   spentCalls>>

RecordGain ==
    /\ gain.stage = "record"
    /\ gainRows' = gainRows \union {[row |-> gain.row, at |-> gain.at,
                                     priced |-> gain.old # NoLevel]}
    /\ gain' = NoGain
    /\ UNCHANGED <<instant, trailVars, skillOn, suppressed, rank, entries, call, moved, spentCalls>>

RecordFails ==
    /\ gain.stage = "record" /\ Spend("failures", MaxWriteFails)
    /\ gain' = NoGain
    /\ UNCHANGED <<instant, trailVars, gainRows, skillOn, suppressed, rank, entries, call, moved>>

-----------------------------------------------------------------------------
(* The codex.                                                              *)

\* claim_rank's advisory check, before the transaction.
CheckRank(c) ==
    /\ call[c] = NoCall /\ Spend("calls", MaxCalls)
    /\ rank < MaxRank
    /\ call' = [call EXCEPT ![c] = [stage |-> "checked", rank |-> rank + 1]]
    /\ UNCHANGED <<instant, trailVars, gainRows, gain, skillOn, suppressed, rank, entries, moved>>

\* write_codex_calibration and the claim's row: a skill with no history skips
\* the trail.
Claim(kind, number) ==
    /\ entries' = entries \union {[kind |-> kind, rank |-> number, at |-> instant,
                                   priced |-> trail # {}]}
    /\ IF trail = {} THEN UNCHANGED trailVars
       ELSE Insert(trail, "codex", Level + 1, instant) /\ UNCHANGED archive

\* Mutant: the upsert is not gated on the prior rank.
AdvancesAlways(c) == TRUE

\* The conditional upsert; a species with no row counts as rank 0.
Advances(c) == rank = call[c].rank - 1

ClaimRank(c) ==
    /\ call[c].stage = "checked"
    /\ IF Advances(c)
       THEN /\ rank' = call[c].rank
            /\ Claim("rank", call[c].rank)
            /\ call' = [call EXCEPT ![c].stage = "claimed"]
       ELSE call' = [call EXCEPT ![c] = NoCall] /\ UNCHANGED <<rank, entries, trailVars>>
    /\ UNCHANGED <<instant, gainRows, gain, skillOn, suppressed, moved, spentCalls>>

Masteries == {e \in entries : e.kind = "mastery"}

MasteryClaim(c) ==
    /\ call[c] = NoCall /\ Spend("calls", MaxCalls)
    /\ rank = MaxRank
    /\ Claim("mastery", Cardinality(Masteries) + 1)
    /\ call' = [call EXCEPT ![c] = [stage |-> "claimed", rank |-> 0]]
    /\ UNCHANGED <<instant, gainRows, gain, skillOn, suppressed, rank, moved>>

\* codex_claim after its claim: the session is looked at, then the skill
\* tracker's suppression is armed.
SeesTracking(c) ==
    /\ call[c].stage = "claimed"
    /\ call' = [call EXCEPT ![c] = IF skillOn THEN [stage |-> "tracking", rank |-> 0]
                                   ELSE NoCall]
    /\ UNCHANGED <<instant, trailVars, gainRows, gain, skillOn, suppressed, rank, entries, moved,
                   spentCalls>>

SuppressNext(c) ==
    /\ call[c].stage = "tracking"
    /\ suppressed' = instant + Suppression
    /\ call' = [call EXCEPT ![c] = NoCall]
    /\ UNCHANGED <<instant, trailVars, gainRows, gain, skillOn, rank, entries, moved, spentCalls>>

\* The codex row of a claim's instant, the newest of several.
PricedBy(claim) ==
    LET tied == {r \in trail : r.source = "codex" /\ r.at = claim.at}
    IN  {r \in tied : \A s \in tied : s.id <= r.id}

Revert(claim, gone) ==
    /\ entries' = entries \ gone
    /\ trail' = trail \ PricedBy(claim)
    /\ UNCHANGED <<archive, lastRow>>

\* unclaim_rank, one transaction: a claimed top rank with no mastery above it.
UnclaimRank ==
    LET top == {e \in entries : e.kind = "rank" /\ e.rank = rank}
    IN  /\ Spend("calls", MaxCalls)
        /\ rank > 0 /\ Masteries = {}
        /\ \E claim \in top : Revert(claim, top)
        /\ rank' = rank - 1
        /\ UNCHANGED <<instant, gainRows, gain, skillOn, suppressed, call, moved>>

MasteryUnclaim ==
    /\ Spend("calls", MaxCalls)
    /\ \E claim \in Masteries :
           /\ \A other \in Masteries : other.rank <= claim.rank
           /\ Revert(claim, {claim})
    /\ UNCHANGED <<instant, gainRows, gain, skillOn, suppressed, rank, call, moved>>

\* calibrate: the rank set by hand, with no side effects.
SetRank(to) ==
    /\ Spend("calls", MaxCalls)
    /\ rank' = to /\ moved' = TRUE
    /\ UNCHANGED <<instant, trailVars, gainRows, gain, skillOn, suppressed, entries, call>>

-----------------------------------------------------------------------------
(* The scan.                                                               *)

\* archive_prior_skill_anchors.
Archived == {r \in trail : r.source = "scan"}

\* complete_skill_scan's transaction; an accepted scan may be accepted twice.
CompleteScan ==
    /\ Spend("calls", MaxCalls)
    /\ archive' = archive \union {r.id : r \in Archived}
    /\ Insert(trail \ Archived, "scan", 1, instant)
    /\ UNCHANGED <<instant, gainRows, gain, skillOn, suppressed, rank, entries, call, moved>>

-----------------------------------------------------------------------------
SkillInit ==
    /\ instant = 0 /\ trail = {} /\ archive = {} /\ lastRow = 0
    /\ gainRows = {} /\ gain = NoGain /\ skillOn = FALSE /\ suppressed = NoLevel
    /\ rank = 0 /\ entries = {} /\ call = [c \in Claimer |-> NoCall] /\ moved = FALSE
    /\ spentCalls = [gains |-> 0, calls |-> 0, failures |-> 0]

SkillNext ==
    \/ SecondPasses \/ SkillSession
    \/ HearSkill \/ ReadOld \/ AppendPoint \/ AppendFails \/ RecordGain \/ RecordFails
    \/ \E c \in Claimer : CheckRank(c) \/ ClaimRank(c) \/ MasteryClaim(c) \/ SeesTracking(c)
                           \/ SuppressNext(c)
    \/ UnclaimRank \/ MasteryUnclaim
    \/ \E to \in 0..MaxRank : SetRank(to)
    \/ CompleteScan

SkillSpec == SkillInit /\ [][SkillNext]_skillVars

-----------------------------------------------------------------------------
(* Properties.                                                             *)

Sourced(source) == {r \in trail : r.source = source}

\* However gains, scans and claims interleave and whichever write fails, a
\* skill has one live anchor, nothing archived is live, and every gain that was
\* priced has its own point on the trail: the ledger never holds value the
\* trail does not.
TrailBacksGains ==
    /\ Cardinality(Sourced("scan")) <= 1
    /\ \A r \in trail : r.id \notin archive /\ r.id <= lastRow
    /\ \A r, s \in trail : r.id = s.id => r = s
    /\ \A g \in gainRows : g.priced =>
           \E r \in Sourced("chatlog") : r.id = g.row /\ r.at = g.at

\* Of claims that race past the same advisory check one advances the rank: as
\* long as the rank was not set by hand the claims are exactly the ranks reached,
\* masteries are numbered in a row above a complete species, and each priced
\* claim has its point on the trail, through reversals, several claims in one
\* instant and claims of a skill that had no history yet.
ClaimsMatchRank ==
    LET ranks == {e \in entries : e.kind = "rank"}
    IN  /\ {e.rank : e \in Masteries} = 1 .. Cardinality(Masteries)
        /\ ~moved =>
              /\ {e.rank : e \in ranks} = 1 .. rank /\ Cardinality(ranks) = rank
              /\ Masteries # {} => rank = MaxRank
              /\ \A t \in 0 .. instant :
                     Cardinality({r \in Sourced("codex") : r.at = t})
                         = Cardinality({e \in entries : e.priced /\ e.at = t})

\* The trail, the ledger of priced gains and the codex tell one story.
SkillBooksAgree == TrailBacksGains /\ ClaimsMatchRank

\* Between full scans the newest level is the scanned one and every gain
\* appended since ("keeps the calibration current between full scans by
\* appending an incremental point per recorded gain", skill_tracker.rs:3).
LevelKeepsUp ==
    \A anchor \in Sourced("scan") :
        ( /\ gain = NoGain /\ lastRow = Cardinality(trail)
          /\ \A r \in trail \ {anchor} : r.source = "chatlog" /\ r.at > anchor.at )
        => Level = anchor.level + Cardinality(trail) - 1
=============================================================================
