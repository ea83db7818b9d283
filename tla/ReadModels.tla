----------------------------- MODULE ReadModels -----------------------------
(***************************************************************************)
(* The three derived read models over the tracking tables: session         *)
(* summaries (session_summary.rs), session cells (session_rollup.rs) and   *)
(* daily rollups with their watermark (daily_rollup.rs), every writer of   *)
(* the raw tables with the refreshes its transaction makes, the edits of   *)
(* tracking_reads.rs, and the window the Overview reads (analytics.rs).    *)
(*                                                                         *)
(* A derived row is modelled by what it was computed from: the set of raw  *)
(* rows and columns it read.  It is fresh when computing it again would    *)
(* read the same, whichever sums are taken of it.  Time is counted in half *)
(* days.                                                                   *)
(***************************************************************************)
EXTENDS Integers, FiniteSets

CONSTANTS
    Session,
    None,           \* no row, no bound
    Drops,          \* what a kill can drop: sets of item rows
    Edits,          \* which edits of a recorded session the user makes
    Ledger,         \* days a ledger entry can be booked on
    MaxTime,        \* half days
    MaxFacts,       \* kills, gains, swings and healing recorded
    MaxEdits        \* changes to what was recorded

\* The item rows of one kill: ordinary stock, ordinary Shrapnel and the
\* Shrapnel an enhancer break returned.  The last two share a name.
Item == {"stock", "shrapnel", "rebate"}
Name(i) == IF i = "stock" THEN "stock" ELSE "shrapnel"

ASSUME ReadBounds == /\ Drops \subseteq SUBSET Item
                     /\ {MaxTime, MaxFacts, MaxEdits} \subseteq Nat
                     /\ Ledger \subseteq 0..MaxTime
                     /\ None \notin Int /\ Session # {}

VARIABLES
    now,
    sess,           \* tracking_sessions: status, start, end, costs and name
    kills,          \* kills with their loot rows, by id
    gains,          \* skill_gains, by id
    swings,         \* harvest_events, by id
    rewards,        \* confirmed item rewards of quest completions
    ledger,         \* days with a ledger entry
    facts, edits,   \* rows recorded and edits made so far
    heard,          \* a gain captured and not yet inserted
    late,           \* (history) gains inserted after their session ended
    summary,        \* session_summaries
    cells,          \* the session's cells, once its marker is written
    days,           \* daily_rollups and daily_ledger_rollups
    watermark       \* daily_rollup_meta.rolled_through

raw == <<now, sess, kills, gains, swings, rewards, ledger>>
history == <<facts, edits, heard, late>>
derived == <<summary, cells, days, watermark>>
vars == <<raw, history, derived>>

-----------------------------------------------------------------------------
NoWatermark == -1
Day(t) == t \div 2
Least(S) == CHOOSE x \in S : \A y \in S : x <= y
Greatest(S) == CHOOSE x \in S : \A y \in S : x >= y

Of(rows, s) == {i \in DOMAIN rows : rows[i].session = s}
On(rows, d) == {i \in DOMAIN rows : Day(rows[i].at) = d}
WithoutRows(rows, ids) == [i \in DOMAIN rows \ ids |-> rows[i]]
WithRow(rows, i, row) == [j \in DOMAIN rows \union {i} |-> IF j = i THEN row ELSE rows[j]]

Live(s) == sess[s].status = "live"
Ended(s) == sess[s].status = "ended"
Recorded(s) == Live(s) \/ Ended(s)
Active(k) == kills[k].loot \ kills[k].off

-----------------------------------------------------------------------------
(* What each derived row is computed from.                                 *)

\* compute_session_summary: none for a session that is live, has no duration
\* or has cycled nothing.
SummaryOf(s) ==
    LET costs == sess[s].armour + sess[s].heal
    IN  IF /\ Ended(s)
           /\ sess[s].end > sess[s].start
           /\ costs > 0 \/ Of(kills, s) # {} \/ Of(swings, s) # {}
        THEN [loot |-> {<<k, kills[k].total>> : k \in Of(kills, s)},
              mobs |-> {<<k, kills[k].mob>> : k \in Of(kills, s)},
              gains |-> Of(gains, s), swings |-> Of(swings, s),
              armour |-> sess[s].armour, heal |-> sess[s].heal, name |-> sess[s].name]
        ELSE None

\* The cells of one session, settled or read raw.
RawCells(s) ==
    [kills |-> {<<k, kills[k].total>> : k \in Of(kills, s)},
     loot |-> {p \in Of(kills, s) \X Item : p[2] \in Active(p[1])},
     gains |-> Of(gains, s)]

RewardsOn(d) == {r \in DOMAIN rewards : Day(rewards[r].at) = d /\ ~rewards[r].reversed}

\* recompute_day reads every family of one UTC day, sessions by their start.
RawDay(d) ==
    [kills |-> {<<k, kills[k].total>> : k \in On(kills, d)},
     sessions |-> {<<s, sess[s].armour, sess[s].heal>> :
                      s \in {z \in Session : Recorded(z) /\ Day(sess[z].start) = d}},
     gains |-> On(gains, d), swings |-> On(swings, d), rewards |-> RewardsOn(d),
     ledger |-> d \in ledger]

\* refresh_session_days: its start and end, and the days of its events.
SessionDays(s) ==
    IF ~Recorded(s) THEN {}
    ELSE {Day(sess[s].start)} \union (IF Ended(s) THEN {Day(sess[s].end)} ELSE {})
         \union {Day(kills[k].at) : k \in Of(kills, s)}
         \union {Day(gains[g].at) : g \in Of(gains, s)}
         \union {Day(swings[h].at) : h \in Of(swings, s)}

\* delete_session_impl enumerates the days itself.
DeletedDays(s) ==
    {Day(sess[s].start), Day(sess[s].end)}
        \union {Day(kills[k].at) : k \in Of(kills, s)}
        \union {Day(gains[g].at) : g \in Of(gains, s)}

-----------------------------------------------------------------------------
(* The refreshes a writing transaction makes, on the tables as it leaves   *)
(* them.                                                                   *)

\* refresh_days: days at or below the watermark are recomputed, later ones
\* are served raw; marking a day dirty and recomputing it is one step.
RefreshDays(D) ==
    LET rolled == {d \in D : d <= watermark}
    IN  /\ days' = [d \in DOMAIN days \union rolled |->
                      IF d \in rolled THEN RawDay(d)' ELSE days[d]]
        /\ UNCHANGED watermark

\* (A plausible mistake.)
RecomputeKeepingCells(s) == UNCHANGED cells

\* recompute_session drops the cells, and settles an ended session anew.
RecomputeCells(s) ==
    cells' = [cells EXCEPT ![s] = IF sess'[s].status = "ended" THEN RawCells(s)' ELSE None]

WriteSummary(s) == summary' = [summary EXCEPT ![s] = SummaryOf(s)']
DropSummary(s) == summary' = [summary EXCEPT ![s] = None]
KeepReads == UNCHANGED derived

-----------------------------------------------------------------------------
(* Recording a live session.  Events do not touch the derived rows.        *)

StartSession(s) ==
    /\ sess[s].status = "none"
    /\ \A z \in Session : ~Live(z)
    /\ sess' = [sess EXCEPT ![s] = [status |-> "live", start |-> now, end |-> now,
                                    armour |-> 0, heal |-> 0, name |-> "a"]]
    /\ KeepReads
    /\ UNCHANGED <<now, kills, gains, swings, rewards, ledger, history>>

\* A chat line is stamped with its own time, at most a flush before now.
Stamp(s) == {t \in {now - 1, now} : t >= sess[s].start}

NewFact == facts < MaxFacts /\ facts' = facts + 1

RecordKill(s, t, drop) ==
    /\ Live(s) /\ t \in Stamp(s) /\ NewFact
    /\ kills' = WithRow(kills, facts', [session |-> s, at |-> t, loot |-> drop, off |-> {},
                    total |-> Cardinality(drop \ {"rebate"}), mob |-> "a"])
    /\ KeepReads
    /\ UNCHANGED <<now, sess, gains, swings, rewards, ledger, edits, heard, late>>

RecordSwing(s) ==
    /\ Live(s) /\ NewFact
    /\ swings' = WithRow(swings, facts', [session |-> s, at |-> now])
    /\ KeepReads
    /\ UNCHANGED <<now, sess, kills, gains, rewards, ledger, edits, heard, late>>

\* The skill tracker captures the session and inserts the row later, on
\* another thread.
HearGain(s, t) ==
    /\ Live(s) /\ t \in Stamp(s) /\ heard = None
    /\ heard' = [session |-> s, at |-> t]
    /\ KeepReads
    /\ UNCHANGED <<raw, facts, edits, late>>

InsertGain ==
    /\ heard # None /\ NewFact
    /\ gains' = WithRow(gains, facts', heard)
    /\ late' = IF Live(heard.session) THEN late ELSE late \union {facts'}
    /\ heard' = None
    /\ KeepReads
    /\ UNCHANGED <<now, sess, kills, swings, rewards, ledger, edits>>

HealCost(s) ==
    /\ Live(s) /\ sess[s].heal = 0 /\ NewFact
    /\ sess' = [sess EXCEPT ![s].heal = 1]
    /\ KeepReads
    /\ UNCHANGED <<now, kills, gains, swings, rewards, ledger, edits, heard, late>>

-----------------------------------------------------------------------------
(* The end of a session settles all three read models.                     *)

Settle(s, end) ==
    /\ sess' = [sess EXCEPT ![s].status = "ended", ![s].end = end]
    /\ UNCHANGED <<now, kills, gains, swings, rewards, ledger, facts, edits, late>>
    /\ WriteSummary(s)
    /\ RefreshDays(SessionDays(s)')
    /\ RecomputeCells(s)

StopSession(s) ==
    /\ Live(s)
    /\ Settle(s, now)
    /\ UNCHANGED heard

\* Boot after a crash: the session ends at its latest kill or healing output,
\* else where it started; a captured gain died with the process.
RecoverOrphan(s) ==
    /\ Live(s)
    /\ LET seen == {kills[k].at : k \in Of(kills, s)}
                      \union (IF sess[s].heal > 0 THEN {now} ELSE {})
       IN  Settle(s, IF seen = {} THEN sess[s].start ELSE Greatest(seen))
    /\ heard' = None

-----------------------------------------------------------------------------
(* Edits.                                                                  *)

EditOf(kind) == kind \in Edits /\ edits < MaxEdits /\ edits' = edits + 1

\* bulk_flip_loot_item: every row of that name flips, and each kill's total
\* moves by what flipped.
FlipLoot(s, name, off) ==
    /\ EditOf("flip")
    /\ LET flipped(k) == {i \in kills[k].loot : Name(i) = name /\ (i \in kills[k].off) # off}
           hit == {k \in Of(kills, s) : flipped(k) # {}}
       IN  /\ Recorded(s) /\ hit # {}
           /\ kills' = [k \in DOMAIN kills |->
                 IF k \notin hit THEN kills[k]
                 ELSE [kills[k] EXCEPT
                         !.off = IF off THEN @ \union flipped(k) ELSE @ \ flipped(k),
                         !.total = IF off THEN @ - Cardinality(flipped(k))
                                          ELSE @ + Cardinality(flipped(k))]]
    /\ UNCHANGED <<now, sess, gains, swings, rewards, ledger, facts, heard, late>>
    /\ DropSummary(s)
    /\ RefreshDays(SessionDays(s)')
    /\ RecomputeCells(s)

\* rename_session_mob_impl and its restore.
RenameMob(s, from, to) ==
    /\ EditOf("rename")
    /\ from # to
    /\ Recorded(s) /\ \E k \in Of(kills, s) : kills[k].mob = from
    /\ kills' = [k \in DOMAIN kills |->
                   IF k \in Of(kills, s) /\ kills[k].mob = from
                   THEN [kills[k] EXCEPT !.mob = to] ELSE kills[k]]
    /\ UNCHANGED <<now, sess, gains, swings, rewards, ledger, facts, heard, late,
                   cells, days, watermark>>
    /\ DropSummary(s)

\* reassign_session_definition: the summary row's own name moves with it.
Reassign(s, name) ==
    /\ EditOf("reassign")
    /\ Ended(s)
    /\ sess' = [sess EXCEPT ![s].name = name]
    /\ UNCHANGED <<now, kills, gains, swings, rewards, ledger, facts, heard, late,
                   cells, days, watermark>>
    /\ summary' = [summary EXCEPT ![s] = IF @ = None THEN None ELSE [@ EXCEPT !.name = name]]

\* set_armour_cost_impl, and a cost window that allocates to the session.
AddArmourCost(s) ==
    /\ EditOf("armour")
    /\ Recorded(s)
    /\ sess' = [sess EXCEPT ![s].armour = @ + 1]
    /\ UNCHANGED <<now, kills, gains, swings, rewards, ledger, facts, heard, late, cells>>
    /\ RefreshDays({Day(sess[s].start)})
    /\ WriteSummary(s)

\* A hand-in turns the whole drop of a kill of the live session into a reward.
ClaimLoot(k) ==
    /\ EditOf("claim")
    /\ UNCHANGED <<now, sess, gains, swings, ledger, facts, heard, late, summary>>
    /\ LET s == kills[k].session
       IN  /\ Live(s) /\ Active(k) # {}
           /\ kills' = [kills EXCEPT ![k].off = kills[k].loot, ![k].total = 0]
           /\ rewards' = WithRow(rewards, edits',
                [kill |-> k, items |-> kills[k].loot, at |-> now, reversed |-> FALSE])
           /\ RecomputeCells(s)
           /\ RefreshDays(SessionDays(s)' \union {Day(now)})

OrdinaryTotal(k) == Cardinality(Active(k) \ {"rebate"})

\* resolve_reward_review: one line of a kill becomes the reward of a
\* completion of the same moment, whenever the user gets to it.
ReviewReward(k, i) ==
    /\ EditOf("review")
    /\ i \in Active(k) \ {"rebate"}
    /\ \A r \in DOMAIN rewards : rewards[r].kill # k
    /\ UNCHANGED <<now, sess, gains, swings, ledger, facts, heard, late, summary>>
    /\ LET s == kills[k].session
       IN  /\ kills' = [kills EXCEPT ![k].off = @ \union {i},
                                     ![k].total = OrdinaryTotal(k) - 1]
           /\ rewards' = WithRow(rewards, edits',
                [kill |-> k, items |-> {i}, at |-> kills[k].at, reversed |-> FALSE])
           /\ RecomputeCells(s)
           /\ RefreshDays(SessionDays(s)' \union {Day(kills[k].at)})

\* (A plausible mistake.)
UndoRewardTodayOnly(r) ==
    /\ EditOf("undo")
    /\ ~rewards[r].reversed
    /\ rewards' = [rewards EXCEPT ![r].reversed = TRUE]
    /\ UNCHANGED <<now, sess, gains, swings, ledger, facts, heard, late, summary>>
    /\ LET k == rewards[r].kill
       IN  IF k \notin DOMAIN kills THEN /\ UNCHANGED <<kills, cells>>
                                         /\ RefreshDays({Day(now)})
           ELSE /\ kills' = [kills EXCEPT ![k].off = @ \ rewards[r].items,
                       ![k].total = Cardinality((Active(k) \union rewards[r].items)
                                                   \ {"rebate"})]
                /\ RecomputeCells(kills[k].session)
                /\ RefreshDays({Day(now)})

\* The reward is reversed and its rows come back: the reviewed one, or every
\* row of a claimed kill.
UndoReward(r) ==
    /\ EditOf("undo")
    /\ ~rewards[r].reversed
    /\ rewards' = [rewards EXCEPT ![r].reversed = TRUE]
    /\ UNCHANGED <<now, sess, gains, swings, ledger, facts, heard, late, summary>>
    /\ LET k == rewards[r].kill
           moments == {Day(rewards[r].at), Day(now)}
       IN  IF k \notin DOMAIN kills THEN UNCHANGED <<kills, cells>> /\ RefreshDays(moments)
           ELSE /\ kills' = [kills EXCEPT ![k].off = @ \ rewards[r].items,
                       ![k].total = Cardinality((Active(k) \union rewards[r].items)
                                                   \ {"rebate"})]
                /\ RecomputeCells(kills[k].session)
                /\ RefreshDays(SessionDays(kills[k].session)' \union moments)

\* A mission completed outside any session pays an item of its own.
RewardOutside ==
    /\ EditOf("mission")
    /\ \A s \in Session : ~Live(s)
    /\ rewards' = WithRow(rewards, edits',
                          [kill |-> 0, items |-> {}, at |-> now, reversed |-> FALSE])
    /\ UNCHANGED <<now, sess, kills, gains, swings, ledger, facts, heard, late,
                   summary, cells>>
    /\ RefreshDays({Day(now)})

\* create_ledger_entry, back-dated as the user likes, and its deletion.
BookLedger(d) ==
    /\ EditOf("ledger")
    /\ d <= Day(now)
    /\ ledger' = IF d \in ledger THEN ledger \ {d} ELSE ledger \union {d}
    /\ UNCHANGED <<now, sess, kills, gains, swings, rewards, facts, heard, late,
                   summary, cells>>
    /\ RefreshDays({d})

\* (A plausible mistake.)
DeleteSessionUncounted(s) ==
    /\ EditOf("delete")
    /\ Ended(s)
    /\ sess' = [sess EXCEPT ![s].status = "deleted"]
    /\ kills' = WithoutRows(kills, Of(kills, s))
    /\ gains' = WithoutRows(gains, Of(gains, s))
    /\ UNCHANGED <<now, swings, rewards, ledger, facts, heard, late, summary>>
    /\ cells' = [cells EXCEPT ![s] = None]
    /\ RefreshDays(DeletedDays(s))

\* delete_session_impl.  The swings stay.
DeleteSession(s) ==
    /\ EditOf("delete")
    /\ Ended(s)
    /\ sess' = [sess EXCEPT ![s].status = "deleted"]
    /\ kills' = WithoutRows(kills, Of(kills, s))
    /\ gains' = WithoutRows(gains, Of(gains, s))
    /\ UNCHANGED <<now, swings, rewards, ledger, facts, heard, late>>
    /\ DropSummary(s)
    /\ cells' = [cells EXCEPT ![s] = None]
    /\ RefreshDays(DeletedDays(s))

-----------------------------------------------------------------------------
(* Lazy healing, before a read.                                            *)

\* What earliest_data_day looks at: all that recompute_day counts, but for the
\* rewards.
DataDays == {Day(kills[k].at) : k \in DOMAIN kills}
            \union {Day(sess[s].start) : s \in {z \in Session : Recorded(z)}}
            \union {Day(gains[g].at) : g \in DOMAIN gains}
            \union {Day(swings[h].at) : h \in DOMAIN swings}
            \union ledger

\* The first walk starts just before the earliest data day, later ones at the
\* watermark; both end at yesterday.
WalkFrom(mark) ==
    LET yesterday == Day(now) - 1
        start == IF DataDays = {} THEN yesterday ELSE Least(DataDays) - 1
    IN  IF mark # NoWatermark THEN mark ELSE IF start < yesterday THEN start ELSE yesterday

\* heal_rollups; on the first day there is no yesterday to roll.
HealRollups ==
    /\ Day(now) > 0
    /\ watermark < Day(now) - 1 \/ watermark = NoWatermark
    /\ watermark' = Day(now) - 1
    /\ LET crossed == WalkFrom(watermark) + 1 .. Day(now) - 1
       IN  days' = [d \in DOMAIN days \union crossed |->
                      IF d \in crossed THEN RawDay(d) ELSE days[d]]
    /\ UNCHANGED <<raw, history, summary, cells>>

\* heal_summaries: only a missing row is rebuilt.
HealSummaries ==
    /\ \E s \in Session : summary[s] = None /\ SummaryOf(s) # None
    /\ summary' = [s \in Session |-> IF summary[s] = None THEN SummaryOf(s) ELSE summary[s]]
    /\ UNCHANGED <<raw, history, cells, days, watermark>>

\* session_rollup::heal settles every ended session without a marker.
HealCells ==
    /\ \E s \in Session : Ended(s) /\ cells[s] = None
    /\ cells' = [s \in Session |-> IF Ended(s) /\ cells[s] = None THEN RawCells(s) ELSE cells[s]]
    /\ UNCHANGED <<raw, history, summary, days, watermark>>

\* rebuild_and_verify drops all three and derives them anew.
RebuildAndVerify ==
    /\ Day(now) > 0
    /\ watermark' = Day(now) - 1
    /\ days' = [d \in WalkFrom(NoWatermark) + 1 .. Day(now) - 1 |-> RawDay(d)]
    /\ summary' = [s \in Session |-> SummaryOf(s)]
    /\ cells' = [s \in Session |-> IF Ended(s) THEN RawCells(s) ELSE None]
    /\ UNCHANGED <<raw, history>>

\* Half a day is longer than the insert of a captured gain.
HalfDay ==
    /\ now < MaxTime /\ heard = None
    /\ now' = now + 1
    /\ KeepReads
    /\ UNCHANGED <<sess, kills, gains, swings, rewards, ledger, history>>

-----------------------------------------------------------------------------
(* The window an aggregate reads: hybrid_window.  A bound that is absent is *)
(* None; the parts are whole rolled days and raw ranges.                    *)

FirstFullDay(start) == IF start % 2 = 0 THEN Day(start) ELSE Day(start) + 1

\* (A plausible mistake.)
LastFullDayAtCut(end, mark) ==
    LET boundary == 2 * (mark + 1)
    IN  Day(IF end # None /\ end < boundary THEN end ELSE boundary)

LastFullDay(end, mark) ==
    LET boundary == 2 * (mark + 1)
    IN  Day(IF end # None /\ end < boundary THEN end ELSE boundary) - 1

\* How many parts of the window serve what happened at time t.
Served(start, end, mark, t) ==
    LET hi == LastFullDay(end, mark)
        whole == start = None \/ FirstFullDay(start) <= hi
        within(lo, up) == (lo = None \/ lo <= t) /\ (up = None \/ t < up)
        parts == IF ~whole THEN {<<"raw", start, end>>}
                 ELSE {<<"rolled", IF start = None THEN None ELSE 2 * FirstFullDay(start),
                         2 * (hi + 1)>>}
                      \union (IF start # None /\ start < 2 * FirstFullDay(start)
                              THEN {<<"head", start, 2 * FirstFullDay(start)>>} ELSE {})
                      \union (IF end = None \/ end > 2 * (hi + 1)
                              THEN {<<"tail", 2 * (hi + 1), end>>} ELSE {})
    IN  {p \in parts : within(p[2], p[3])}

-----------------------------------------------------------------------------
\* An empty database, or one in which a session with a kill ended before the
\* read models existed; an afternoon.
Unrecorded(s) == /\ sess[s].status = "none"
                 /\ kills = << >> /\ facts = 0

Unsettled(s) ==
    /\ sess[s].status = "ended"
    /\ facts = 1
    /\ \E drop \in Drops :
          kills = WithRow(<< >>, 1, [session |-> s, at |-> 0, loot |-> drop, off |-> {},
                                    total |-> Cardinality(drop \ {"rebate"}), mob |-> "a"])

Init ==
    /\ now = 1
    /\ \E status \in [Session -> {"none", "ended"}] :
          sess = [s \in Session |->
                    [status |-> status[s], start |-> 0,
                     end |-> IF status[s] = "ended" THEN 1 ELSE 0,
                     armour |-> 0, heal |-> 0, name |-> "a"]]
    /\ \/ \A s \in Session : Unrecorded(s)
       \/ \E s \in Session : Unsettled(s) /\ \A z \in Session \ {s} : sess[z].status = "none"
    /\ gains = << >> /\ swings = << >> /\ rewards = << >>
    /\ ledger = {}
    /\ edits = 0 /\ heard = None /\ late = {}
    /\ summary = [s \in Session |-> None]
    /\ cells = [s \in Session |-> None]
    /\ days = << >>
    /\ watermark = NoWatermark

Play == \E s \in Session, t \in 0..MaxTime :
            \/ \E drop \in Drops : RecordKill(s, t, drop)
            \/ HearGain(s, t)
            \/ RecordSwing(s)
Lifecycle == \E s \in Session : StartSession(s) \/ HealCost(s) \/ StopSession(s)
                                \/ RecoverOrphan(s)
EditSession == \E s \in Session :
    \/ \E n \in {"stock", "shrapnel"}, off \in BOOLEAN : FlipLoot(s, n, off)
    \/ \E from, to \in {"a", "b"} : RenameMob(s, from, to)
    \/ Reassign(s, "b")
    \/ AddArmourCost(s)
    \/ DeleteSession(s)
EditBooks ==
    \/ \E k \in DOMAIN kills : ClaimLoot(k) \/ \E i \in Item : ReviewReward(k, i)
    \/ \E r \in DOMAIN rewards : UndoReward(r)
    \/ RewardOutside
    \/ \E d \in Ledger : BookLedger(d)
Heal == HealRollups \/ HealSummaries \/ HealCells \/ RebuildAndVerify

Next == Play \/ InsertGain \/ Lifecycle \/ EditSession \/ EditBooks \/ Heal \/ HalfDay

ReadSpec == Init /\ [][Next]_vars

-----------------------------------------------------------------------------
(* Properties.                                                             *)

NoSessionLive == \A s \in Session : ~Live(s)
Timely(ids) == ids \ late

\* Types, and what of the derived tables can exist at all: cells only of ended
\* sessions, rolled days only up to the watermark.
ReadsTypeOK ==
    /\ \A s \in Session : /\ sess[s].status \in {"none", "live", "ended", "deleted"}
                          /\ sess[s].start <= sess[s].end
                          /\ summary[s] # None \/ cells[s] # None => Ended(s)
    /\ \A k \in DOMAIN kills : kills[k].off \subseteq kills[k].loot
    /\ DOMAIN days \subseteq 0..watermark
    /\ watermark \in NoWatermark..(Day(now) - 1) \union {NoWatermark}

\* Whatever edits, reviews, claims and reversals were made and in whatever
\* order, a settled session's cells are those a reader would compute from its
\* raw rows now (a gain inserted after the stop apart: see TrackerSession).
CellsFresh ==
    \A s \in Session : cells[s] # None =>
        LET fresh == RawCells(s)
        IN  /\ cells[s].kills = fresh.kills /\ cells[s].loot = fresh.loot
            /\ Timely(cells[s].gains) = Timely(fresh.gains)

\* While no session is being recorded every rolled day is what its raw rows
\* say, also days an edit, a back-dated ledger entry or a recovery reached
\* long after they were rolled, and days a session crossed at midnight.
DaysFresh ==
    NoSessionLive => \A d \in DOMAIN days :
        LET fresh == RawDay(d)
        IN  [days[d] EXCEPT !.gains = Timely(@)] = [fresh EXCEPT !.gains = Timely(@)]

\* The days of play: of sessions, kills, swings, and gains inserted in time.
PlayDays == {Day(sess[s].start) : s \in {z \in Session : Recorded(z)}}
            \union {Day(kills[k].at) : k \in DOMAIN kills}
            \union {Day(swings[h].at) : h \in DOMAIN swings}
            \union {Day(gains[g].at) : g \in Timely(DOMAIN gains)}

\* No day from the first day of play up to the watermark is without a row,
\* where a reader would look for it in the rollups and find nothing; whatever
\* such a day holds, a reward or nothing at all.  Before the first day of play
\* only days with a ledger entry are sure of theirs: earliest_data_day does not
\* look at rewards, so a day with nothing else may be passed over, and a
\* back-dated ledger entry brings its own day alone.
DaysCovered ==
    \A d \in 0..watermark :
        d \in ledger \/ (\E e \in PlayDays : e <= d) => d \in DOMAIN days

\* The rolled days are there from the first day of play to the watermark, none
\* beyond it, and say what their raw rows say.
DaysSound == ReadsTypeOK /\ DaysFresh /\ DaysCovered

\* A stored summary carries its session's costs, mobs, name, swings and gains
\* as they are now.  Its loot is left out: a review moves loot without
\* summarising the session again.
SummaryTracksSession ==
    \A s \in Session : summary[s] # None /\ SummaryOf(s) # None =>
        LET fresh == SummaryOf(s)
        IN  /\ summary[s].armour = fresh.armour /\ summary[s].heal = fresh.heal
            /\ summary[s].mobs = fresh.mobs /\ summary[s].name = fresh.name
            /\ summary[s].swings = fresh.swings
            /\ Timely(summary[s].gains) = Timely(fresh.gains)

\* The watermarks at which every window is served once.
SoundMarks ==
    {mark \in 0..MaxTime :
        \A start, end \in (0..MaxTime + 2) \union {None} : \A t \in 0..MaxTime + 2 :
            (start = None \/ end = None \/ start <= end) =>
            Cardinality(Served(start, end, mark, t)) =
                IF (start = None \/ start <= t) /\ (end = None \/ t < end) THEN 1 ELSE 0}

\* Every window of the Overview serves each moment inside it exactly once, from
\* a rolled day or from the raw tables, wherever the watermark stands, and
\* nothing outside it.
ServedOnce == watermark # NoWatermark => watermark \in SoundMarks

\* A deleted session has no summary and no cells, and no rolled day counts its
\* costs, or a kill or a gain whose row went with it: at once and for good, no
\* heal or rebuild brings them back.  What its rows that stay still put into the
\* days is left out: its swings, which the delete forgets in harvest_events,
\* and a gain inserted after it.
DeletedLeavesReads ==
    /\ \A s \in Session : sess[s].status = "deleted" =>
          /\ summary[s] = None /\ cells[s] = None
          /\ \A d \in DOMAIN days : \A z \in days[d].sessions : z[1] # s
    /\ \A d \in DOMAIN days :
          /\ \A p \in days[d].kills : p[1] \in DOMAIN kills
          /\ days[d].gains \subseteq DOMAIN gains

\* What is stored for settled sessions follows every later edit of their rows.
SettledFresh == CellsFresh /\ SummaryTracksSession

\* Everything derived is fresh: what is stored of settled sessions, and the days.
DerivedSound == SettledFresh /\ DaysSound
=============================================================================
