------------------------- MODULE ReadModels_proofs --------------------------
(***************************************************************************)
(* The three read models over the tracking tables stay fresh, a deleted    *)
(* session stays out of them, and every window of the Overview serves each *)
(* moment once, for any number of sessions, kills, gains, swings, rewards, *)
(* edits and days.                                                         *)
(*                                                                         *)
(* A stored row is fresh when computing it again would read the same.  So  *)
(* each step owes a new derivation of whatever was computed from the rows  *)
(* it changed, and the proof follows that: what was computed from rows     *)
(* that stay the same stands, a day is derived anew when a row of it       *)
(* changed, and the days a live session has touched may be stale until it  *)
(* ends, when every one of them is derived anew.  That no day from the     *)
(* first day of play on is missing below the watermark rests on where the  *)
(* first walk starts and on sessions and swings coming no earlier than the *)
(* days already rolled.                                                    *)
(***************************************************************************)
EXTENDS ReadModels, ModelLemmas


-----------------------------------------------------------------------------
(* What the tables hold, as one inductive invariant.                       *)

IsSession(x) ==
    /\ x = [status |-> x.status, start |-> x.start, end |-> x.end, armour |-> x.armour,
            heal |-> x.heal, name |-> x.name]
    /\ x.status \in {"none", "live", "ended", "deleted"}
    /\ x.start \in Nat /\ x.end \in Nat /\ x.start <= x.end

IsKill(x) ==
    /\ x = [session |-> x.session, at |-> x.at, loot |-> x.loot, off |-> x.off,
            total |-> x.total, mob |-> x.mob]
    /\ x.session \in Session /\ x.at \in Nat /\ x.off \subseteq x.loot

IsEvent(x) == x.session \in Session /\ x.at \in Nat
IsReward(x) ==
    /\ x = [kill |-> x.kill, items |-> x.items, at |-> x.at, reversed |-> x.reversed]
    /\ x.at \in Nat

\* Kills and timely gains are of sessions that are still there, and not before
\* they started; a swing may outlive its session.
RowsTyped ==
    /\ now \in Nat /\ now <= MaxTime + 1
    /\ DOMAIN sess = Session /\ \A s \in Session : IsSession(sess[s]) /\ sess[s].start <= now
    /\ facts \in Nat /\ edits \in Nat
    /\ DOMAIN kills \subseteq 1..facts /\ DOMAIN gains \subseteq 1..facts
    /\ DOMAIN swings \subseteq 1..facts /\ late \subseteq 1..facts
    /\ DOMAIN rewards \subseteq 1..edits /\ ledger \subseteq Nat
    /\ \A k \in DOMAIN kills : /\ IsKill(kills[k]) /\ Recorded(kills[k].session)
                               /\ sess[kills[k].session].start <= kills[k].at
                               /\ kills[k].at <= now
    /\ \A g \in DOMAIN gains : /\ IsEvent(gains[g])
                               /\ g \notin late => /\ Recorded(gains[g].session)
                                                   /\ sess[gains[g].session].start <= gains[g].at
    /\ \A h \in DOMAIN swings : IsEvent(swings[h])
    /\ \A r \in DOMAIN rewards : IsReward(rewards[r])
    /\ heard # None => /\ IsEvent(heard) /\ sess[heard.session].status # "none"
                       /\ sess[heard.session].start <= heard.at

\* What is stored of a session is of an ended one and follows its rows.
StoredSummary(s, x) ==
    /\ x = [loot |-> x.loot, mobs |-> x.mobs, gains |-> x.gains, swings |-> x.swings,
            armour |-> x.armour, heal |-> x.heal, name |-> x.name]
    /\ x.armour = sess[s].armour /\ x.heal = sess[s].heal /\ x.name = sess[s].name
    /\ x.mobs = {<<k, kills[k].mob>> : k \in Of(kills, s)}
    /\ x.swings = Of(swings, s) /\ Timely(x.gains) = Timely(Of(gains, s))

StoredCells(s, x) ==
    /\ x.kills = {<<k, kills[k].total>> : k \in Of(kills, s)}
    /\ x.loot = {p \in Of(kills, s) \X Item : p[2] \in Active(p[1])}
    /\ Timely(x.gains) = Timely(Of(gains, s))

StoredSound ==
    /\ DOMAIN summary = Session /\ DOMAIN cells = Session
    /\ \A s \in Session : /\ summary[s] # None => Ended(s) /\ StoredSummary(s, summary[s])
                          /\ cells[s] # None => Ended(s) /\ StoredCells(s, cells[s])

\* A day that a live session has touched is stale until the session ends.
Busy(d) == \E s \in Session : Live(s) /\ d \in SessionDays(s)

DayAgrees(x, fresh, ids) ==
    /\ x.kills = fresh.kills /\ x.sessions = fresh.sessions /\ x.swings = fresh.swings
    /\ x.rewards = fresh.rewards /\ x.ledger = fresh.ledger
    /\ x.gains \ ids = fresh.gains \ ids

IsDay(d, x) ==
    /\ x = [kills |-> x.kills, sessions |-> x.sessions, gains |-> x.gains,
            swings |-> x.swings, rewards |-> x.rewards, ledger |-> x.ledger]
    /\ \A z \in x.sessions : z[1] \in Session /\ Recorded(z[1]) /\ Day(sess[z[1]].start) = d
    /\ \A p \in x.kills : p[1] \in DOMAIN kills /\ Day(kills[p[1]].at) = d
    /\ \A g \in x.gains : g \in DOMAIN gains /\ Day(gains[g].at) = d

RolledSound ==
    /\ watermark \in Int /\ NoWatermark <= watermark
    /\ watermark # NoWatermark => watermark < Day(now)
    /\ DOMAIN days \subseteq 0..watermark
    /\ \A d \in DOMAIN days : IsDay(d, days[d])
    /\ \A d \in DOMAIN days : Busy(d) \/ DayAgrees(days[d], RawDay(d), late)

\* Every day from the start of a session or from a swing on is rolled up to the
\* watermark; so are the days of ledger entries.
Covered(d) == d <= watermark => d \in DOMAIN days

RolledCovered ==
    /\ \A s \in Session : Recorded(s) => \A d \in 0..watermark : Day(sess[s].start) <= d => Covered(d)
    /\ \A h \in DOMAIN swings : \A d \in 0..watermark : Day(swings[h].at) <= d => Covered(d)
    /\ \A d \in ledger : Covered(d)

ReadInv == RowsTyped /\ StoredSound /\ RolledSound /\ RolledCovered

LEMMA AddsRow ==
    ASSUME NEW rows, NEW i, i \notin DOMAIN rows, NEW row
    PROVE  /\ DOMAIN WithRow(rows, i, row) = DOMAIN rows \union {i}
           /\ WithRow(rows, i, row)[i] = row
           /\ \A j \in DOMAIN rows : WithRow(rows, i, row)[j] = rows[j]
BY DEF WithRow

-----------------------------------------------------------------------------
(* What a step leaves as it was.                                           *)

\* The events of a session, and what a summary, cells and a day take from them.
SummarySame(s) ==
    /\ sess'[s].armour = sess[s].armour /\ sess'[s].heal = sess[s].heal
    /\ sess'[s].name = sess[s].name
    /\ Of(kills', s) = Of(kills, s) /\ \A k \in Of(kills, s) : kills'[k].mob = kills[k].mob
    /\ Of(swings', s) = Of(swings, s)
    /\ Of(gains', s) \ late' = Of(gains, s) \ late'

CellsSame(s) ==
    /\ Of(kills', s) = Of(kills, s)
    /\ \A k \in Of(kills, s) : /\ kills'[k].total = kills[k].total
                               /\ kills'[k].loot \ kills'[k].off = kills[k].loot \ kills[k].off
    /\ Of(gains', s) \ late' = Of(gains, s) \ late'

SessionsOn(d) == {<<s, sess[s].armour, sess[s].heal>> :
                    s \in {z \in Session : Recorded(z) /\ Day(sess[z].start) = d}}

DaySame(d) ==
    /\ On(kills', d) = On(kills, d) /\ \A k \in On(kills, d) : kills'[k].total = kills[k].total
    /\ SessionsOn(d)' = SessionsOn(d)
    /\ On(gains', d) \ late' = On(gains, d) \ late'
    /\ On(swings', d) = On(swings, d) /\ RewardsOn(d)' = RewardsOn(d)
    /\ d \in ledger' <=> d \in ledger

\* What was computed from rows that are still the same is still fresh.
LEMMA SummaryStands ==
    ASSUME NEW s \in Session, NEW x, StoredSummary(s, x), SummarySame(s), late \subseteq late'
    PROVE  StoredSummary(s, x)'
<1>1. {<<k, kills'[k].mob>> : k \in Of(kills', s)} = {<<k, kills[k].mob>> : k \in Of(kills, s)}
  BY DEF SummarySame
<1>2. x.gains \ late' = Of(gains', s) \ late'
  BY DEF SummarySame, StoredSummary, Timely
<1> QED BY <1>1, <1>2 DEF SummarySame, StoredSummary, Timely

LEMMA CellsStand ==
    ASSUME NEW s \in Session, NEW x, StoredCells(s, x), CellsSame(s), late \subseteq late'
    PROVE  StoredCells(s, x)'
<1>1. {<<k, kills'[k].total>> : k \in Of(kills', s)} = {<<k, kills[k].total>> : k \in Of(kills, s)}
  BY DEF CellsSame
<1>2. {p \in Of(kills', s) \X Item : p[2] \in Active(p[1])'}
        = {p \in Of(kills, s) \X Item : p[2] \in Active(p[1])}
  BY DEF CellsSame, Active
<1>3. x.gains \ late' = Of(gains', s) \ late'
  BY DEF CellsSame, StoredCells, Timely
<1> QED BY <1>1, <1>2, <1>3 DEF CellsSame, StoredCells, Timely

LEMMA DayStands ==
    ASSUME NEW d, NEW x, DayAgrees(x, RawDay(d), late), DaySame(d), late \subseteq late'
    PROVE  DayAgrees(x, RawDay(d)', late')
<1>1. {<<k, kills'[k].total>> : k \in On(kills', d)} = {<<k, kills[k].total>> : k \in On(kills, d)}
  BY DEF DaySame
<1>2. x.gains \ late' = On(gains', d) \ late'
  BY DEF DaySame, DayAgrees, RawDay, RefreshDays
<1>3. x.ledger = (d \in ledger')
  BY DEF DaySame, DayAgrees, RawDay, RefreshDays
<1> QED BY <1>1, <1>2, <1>3 DEF DaySame, DayAgrees, RawDay, SessionsOn, RefreshDays

LEMMA RawDayIsDay == \A d : IsDay(d, RawDay(d)) /\ IsDay(d, RawDay(d))'
BY DEF IsDay, RawDay, RefreshDays, On

\* A step that keeps each stored row, or drops it, or writes it anew.
LEMMA StoredMoves ==
    ASSUME StoredSound, late \subseteq late',
           DOMAIN summary' = Session, DOMAIN cells' = Session,
           \A s \in Session : summary'[s] # None =>
               /\ Ended(s)'
               /\ \/ summary'[s] = summary[s] /\ SummarySame(s)
                  \/ StoredSummary(s, summary[s])',
           \A s \in Session : cells'[s] # None =>
               /\ Ended(s)'
               /\ \/ cells'[s] = cells[s] /\ CellsSame(s)
                  \/ StoredCells(s, cells[s])'
    PROVE  StoredSound'
<1>1. ASSUME NEW s \in Session, summary'[s] # None PROVE StoredSummary(s, summary[s])'
  <2>1. CASE summary'[s] = summary[s] /\ SummarySame(s)
    <3>1. PICK x : x = summary[s]
      OBVIOUS
    <3>2. StoredSummary(s, x)
      BY <1>1, <2>1, <3>1 DEF StoredSound
    <3>3. StoredSummary(s, x)'
      BY <2>1, <3>2, SummaryStands
    <3> QED BY <2>1, <3>1, <3>3 DEF StoredSummary
  <2> QED BY <1>1, <2>1
<1>2. ASSUME NEW s \in Session, cells'[s] # None PROVE StoredCells(s, cells[s])'
  <2>1. CASE cells'[s] = cells[s] /\ CellsSame(s)
    <3>1. PICK x : x = cells[s]
      OBVIOUS
    <3>2. StoredCells(s, x)
      BY <1>2, <2>1, <3>1 DEF StoredSound
    <3>3. StoredCells(s, x)'
      BY <2>1, <3>2, CellsStand
    <3> QED BY <2>1, <3>1, <3>3 DEF StoredCells
  <2> QED BY <1>2, <2>1
<1> QED BY <1>1, <1>2 DEF StoredSound

\* Days D are derived anew as far as they are rolled.
Rerolled(D) ==
    /\ watermark' = watermark
    /\ DOMAIN days' = DOMAIN days \union {d \in D : d <= watermark}
    /\ \A d \in DOMAIN days' : days'[d] = IF d \in D /\ d <= watermark THEN RawDay(d)' ELSE days[d]

\* refresh_days does so.
LEMMA RefreshRerolls == ASSUME NEW D, RefreshDays(D) PROVE Rerolled(D)
BY DEF RefreshDays, Rerolled

LEMMA KeepRerolls == UNCHANGED <<days, watermark>> => Rerolled({})
BY DEF Rerolled

\* The kills and gains of the days that are not derived anew stay where they are.
RowsStay(D) ==
    /\ \A k \in DOMAIN kills : \/ k \in DOMAIN kills' /\ kills'[k].at = kills[k].at
                               \/ Day(kills[k].at) \in D
    /\ \A g \in DOMAIN gains : \/ g \in DOMAIN gains' /\ gains'[g].at = gains[g].at
                               \/ Day(gains[g].at) \in D

\* A step that derives anew every day it changed, a live session's apart.
LEMMA RolledMoves ==
    ASSUME RolledSound, NEW D \in SUBSET Nat, Rerolled(D), late \subseteq late',
           now \in Nat, now' \in Nat, now <= now',
           \A d \in Nat \ D : Busy(d)' \/ (~Busy(d) /\ DaySame(d)),
           \A s \in Session : Recorded(s) =>
               (Recorded(s)' /\ sess'[s].start = sess[s].start) \/ Day(sess[s].start) \in D,
           RowsStay(D)
    PROVE  RolledSound'
<1>1. watermark' = watermark /\ (watermark # NoWatermark => watermark < Day(now'))
  <2>1. Day(now) <= Day(now') /\ Day(now) \in Int /\ Day(now') \in Int
    BY DEF Day
  <2> QED BY <2>1 DEF RolledSound, Rerolled
<1>2. DOMAIN days' \subseteq 0..watermark
  <2> SUFFICES ASSUME NEW d \in DOMAIN days' PROVE d \in 0..watermark
    OBVIOUS
  <2>1. d \in DOMAIN days \/ (d \in D /\ d <= watermark)
    BY DEF Rerolled
  <2>2. watermark \in Int /\ DOMAIN days \subseteq 0..watermark
    BY DEF RolledSound
  <2>3. CASE d \in D /\ d <= watermark
    <3>1. d \in Nat
      BY <2>3
    <3> QED BY <2>2, <2>3, <3>1
  <2> QED BY <2>1, <2>2, <2>3
<1>3. ASSUME NEW d \in DOMAIN days'
      PROVE  IsDay(d, days[d])' /\ (Busy(d)' \/ DayAgrees(days'[d], RawDay(d)', late'))
  <2>1. d \in Nat /\ d <= watermark
    BY <1>2 DEF RolledSound
  <2>2. CASE d \in D
    <3>1. days'[d] = RawDay(d)'
      BY <2>1, <2>2 DEF Rerolled
    <3> QED BY <3>1, RawDayIsDay DEF DayAgrees
  <2>3. CASE d \notin D
    <3>1. d \in DOMAIN days /\ days'[d] = days[d]
      BY <2>3 DEF Rerolled
    <3>2. PICK x : x = days[d]
      OBVIOUS
    <3>3. IsDay(d, x) /\ (Busy(d) \/ DayAgrees(x, RawDay(d), late))
      BY <3>1, <3>2 DEF RolledSound
    <3>4. IsDay(d, x)'
      <4>1. \A z \in x.sessions : z[1] \in Session /\ Recorded(z[1])' /\ Day(sess'[z[1]].start) = d
        BY <2>3, <3>3 DEF IsDay
      <4>2. \A p \in x.kills : p[1] \in DOMAIN kills' /\ Day(kills'[p[1]].at) = d
        BY <2>3, <3>3 DEF IsDay, RowsStay
      <4>3. \A g \in x.gains : g \in DOMAIN gains' /\ Day(gains'[g].at) = d
        BY <2>3, <3>3 DEF IsDay, RowsStay
      <4> QED BY <3>3, <4>1, <4>2, <4>3 DEF IsDay
    <3>5. Busy(d)' \/ DayAgrees(x, RawDay(d)', late')
      BY <2>1, <2>3, <3>3, DayStands
    <3>6. IsDay(d, days[d])'
      BY <3>1, <3>2, <3>4 DEF IsDay
    <3> QED BY <3>1, <3>2, <3>5, <3>6
  <2> QED BY <2>2, <2>3
<1> QED BY <1>1, <1>2, <1>3 DEF RolledSound

\* The rows of live sessions stay and only grow.
Grown ==
    /\ \A z \in Session : Live(z) => Live(z)' /\ sess'[z].start = sess[z].start
    /\ \A k \in DOMAIN kills : /\ k \in DOMAIN kills'
                               /\ kills'[k].session = kills[k].session /\ kills'[k].at = kills[k].at
    /\ \A g \in DOMAIN gains : g \in DOMAIN gains' /\ gains'[g] = gains[g]
    /\ \A h \in DOMAIN swings : h \in DOMAIN swings' /\ swings'[h] = swings[h]

LEMMA LiveIsBusy ==
    ASSUME NEW s \in Session, Live(s), NEW d
    PROVE  d \in SessionDays(s) <=>
               \/ d = Day(sess[s].start)
               \/ \E k \in DOMAIN kills : kills[k].session = s /\ Day(kills[k].at) = d
               \/ \E g \in DOMAIN gains : gains[g].session = s /\ Day(gains[g].at) = d
               \/ \E h \in DOMAIN swings : swings[h].session = s /\ Day(swings[h].at) = d
BY DEF SessionDays, Recorded, Live, Ended, Of

LEMMA LiveIsBusyNext ==
    ASSUME NEW s \in Session, Live(s)', NEW d
    PROVE  d \in SessionDays(s)' <=>
               \/ d = Day(sess'[s].start)
               \/ \E k \in DOMAIN kills' : kills'[k].session = s /\ Day(kills'[k].at) = d
               \/ \E g \in DOMAIN gains' : gains'[g].session = s /\ Day(gains'[g].at) = d
               \/ \E h \in DOMAIN swings' : swings'[h].session = s /\ Day(swings'[h].at) = d
BY DEF SessionDays, Recorded, Live, Ended, Of, RefreshDays

\* A day a live session has touched stays so while it is live.
LEMMA BusyGrows == ASSUME Grown, NEW d, Busy(d) PROVE Busy(d)'
<1>1. PICK s \in Session : Live(s) /\ d \in SessionDays(s)
  BY DEF Busy
<1>2. Live(s)' /\ sess'[s].start = sess[s].start
  BY <1>1 DEF Grown
<1>3. d \in SessionDays(s)'
  <2>1. CASE d = Day(sess[s].start)
    BY <1>2, <2>1, LiveIsBusyNext
  <2>2. CASE \E k \in DOMAIN kills : kills[k].session = s /\ Day(kills[k].at) = d
    BY <1>2, <2>2, LiveIsBusyNext DEF Grown
  <2>3. CASE \E g \in DOMAIN gains : gains[g].session = s /\ Day(gains[g].at) = d
    BY <1>2, <2>3, LiveIsBusyNext DEF Grown
  <2>4. CASE \E h \in DOMAIN swings : swings[h].session = s /\ Day(swings[h].at) = d
    BY <1>2, <2>4, LiveIsBusyNext DEF Grown
  <2> QED BY <1>1, <2>1, <2>2, <2>3, <2>4, LiveIsBusy
<1> QED BY <1>2, <1>3 DEF Busy

\* A step on the sessions alone.
LEMMA SessionsMove ==
    ASSUME RowsTyped, DOMAIN sess' = Session,
           \A z \in Session : IsSession(sess'[z]) /\ sess'[z].start <= now',
           \A z \in Session : Recorded(z) => Recorded(z)' /\ sess'[z].start = sess[z].start,
           \A z \in Session : sess[z].status # "none" =>
               sess'[z].status # "none" /\ sess'[z].start = sess[z].start,
           UNCHANGED <<kills, gains, swings, rewards, ledger, late>>,
           facts' \in Nat, facts <= facts', edits' \in Nat, edits <= edits',
           heard' = heard \/ heard' = None,
           now' \in Nat, now <= now', now' <= MaxTime + 1
    PROVE  RowsTyped'
<1>1. ASSUME NEW k \in DOMAIN kills
      PROVE  /\ IsKill(kills[k]) /\ Recorded(kills[k].session)'
             /\ sess'[kills[k].session].start <= kills[k].at /\ kills[k].at <= now'
  <2>1. PICK z \in Session : z = kills[k].session
    BY DEF RowsTyped, IsKill
  <2>2. /\ IsKill(kills[k]) /\ Recorded(z) /\ sess[z].start <= kills[k].at
        /\ kills[k].at <= now /\ kills[k].at \in Nat /\ now \in Nat
    BY <2>1 DEF RowsTyped, IsKill
  <2>3. Recorded(z)' /\ sess'[z].start = sess[z].start
    BY <2>2
  <2> QED BY <2>1, <2>2, <2>3 DEF Recorded, Live, Ended
<1>2. ASSUME NEW g \in DOMAIN gains
      PROVE  /\ IsEvent(gains[g])
             /\ g \notin late => /\ Recorded(gains[g].session)'
                                 /\ sess'[gains[g].session].start <= gains[g].at
  <2>1. PICK z \in Session : z = gains[g].session
    BY DEF RowsTyped, IsEvent
  <2>2. IsEvent(gains[g]) /\ (g \notin late => Recorded(z) /\ sess[z].start <= gains[g].at)
    BY <2>1 DEF RowsTyped
  <2> QED BY <2>1, <2>2 DEF Recorded, Live, Ended
<1>3. heard' # None => /\ IsEvent(heard') /\ sess'[heard'.session].status # "none"
                       /\ sess'[heard'.session].start <= heard'.at
  <2> SUFFICES ASSUME heard # None, heard' = heard
               PROVE  /\ IsEvent(heard) /\ sess'[heard.session].status # "none"
                      /\ sess'[heard.session].start <= heard.at
    OBVIOUS
  <2>1. IsEvent(heard) /\ sess[heard.session].status # "none"
        /\ sess[heard.session].start <= heard.at
    BY DEF RowsTyped
  <2> QED BY <2>1 DEF IsEvent
<1>4. /\ DOMAIN kills \subseteq 1..facts' /\ DOMAIN gains \subseteq 1..facts'
      /\ DOMAIN swings \subseteq 1..facts' /\ late \subseteq 1..facts'
      /\ DOMAIN rewards \subseteq 1..edits' /\ ledger \subseteq Nat
  <2>1. facts \in Nat /\ edits \in Nat
    BY DEF RowsTyped
  <2>2. 1..facts \subseteq 1..facts' /\ 1..edits \subseteq 1..edits'
    BY <2>1
  <2> QED BY <2>2 DEF RowsTyped
<1> QED BY <1>1, <1>2, <1>3, <1>4 DEF RowsTyped

-----------------------------------------------------------------------------
(* Recording a live session.                                               *)

LEMMA StartKeeps == ASSUME ReadInv, NEW s \in Session, StartSession(s) PROVE ReadInv'
<1>1. RowsTyped /\ StoredSound /\ RolledSound /\ RolledCovered
  BY DEF ReadInv
<1>2. PICK new : new = [status |-> "live", start |-> now, end |-> now,
                        armour |-> 0, heal |-> 0, name |-> "a"]
  OBVIOUS
<1>3. /\ sess[s].status = "none" /\ \A z \in Session : ~Live(z)
      /\ sess' = [sess EXCEPT ![s] = new]
      /\ UNCHANGED <<summary, cells, days, watermark, now, kills, gains, swings, rewards, ledger,
                     facts, edits, heard, late>>
  BY <1>2 DEF StartSession, KeepReads, derived, history
<1>4. /\ DOMAIN sess' = Session /\ sess'[s] = new
      /\ \A z \in Session : z # s => sess'[z] = sess[z]
  BY <1>1, <1>3 DEF RowsTyped
<1>5. /\ new.status = "live" /\ new.start = now /\ new.end = now
      /\ IsSession(new)
  BY <1>1, <1>2 DEF IsSession, RowsTyped
<1>6. /\ \A z \in Session : Recorded(z)' <=> Recorded(z) \/ z = s
      /\ \A z \in Session : Recorded(z) => z # s
      /\ \A z \in Session : Ended(z)' <=> Ended(z)
      /\ \A z \in Session : Live(z)' <=> z = s
  BY <1>3, <1>4, <1>5 DEF Recorded, Live, Ended
<1>7. RowsTyped'
  <2>1. \A z \in Session : IsSession(sess'[z]) /\ sess'[z].start <= now
    BY <1>1, <1>4, <1>5 DEF RowsTyped
  <2>2. now \in Nat /\ now <= MaxTime + 1 /\ facts \in Nat /\ edits \in Nat
    BY <1>1 DEF RowsTyped
  <2>3. \A z \in Session : sess[z].status # "none" =>
            sess'[z].status # "none" /\ sess'[z].start = sess[z].start
    BY <1>3, <1>4
  <2>4. \A z \in Session : Recorded(z) => Recorded(z)' /\ sess'[z].start = sess[z].start
    BY <1>4, <1>6
  <2> QED BY <1>1, <1>3, <1>4, <2>1, <2>2, <2>3, <2>4, SessionsMove
<1>8. StoredSound'
  <2>1. \A z \in Session : Ended(z) => z # s /\ SummarySame(z) /\ CellsSame(z)
    BY <1>3, <1>4 DEF SummarySame, CellsSame, Ended
  <2> QED BY <1>1, <1>3, <1>6, <2>1, StoredMoves DEF StoredSound
<1>9. RolledSound'
  <2>1. \A d \in Nat \ {} : Busy(d)' \/ (~Busy(d) /\ DaySame(d))
    <3> TAKE d \in Nat \ {}
    <3>1. CASE d = Day(now)
      <4>1. d \in SessionDays(s)'
        BY <1>4, <1>5, <1>6, <3>1, LiveIsBusyNext
      <4> QED BY <1>6, <4>1 DEF Busy
    <3>2. CASE d # Day(now)
      <4>1. SessionsOn(d)' = SessionsOn(d)
        <5>1. {z \in Session : Recorded(z)' /\ Day(sess'[z].start) = d}
                = {z \in Session : Recorded(z) /\ Day(sess[z].start) = d}
          BY <1>4, <1>5, <1>6, <3>2
        <5>2. \A z \in Session : Recorded(z) => sess'[z] = sess[z]
          BY <1>4, <1>6
        <5> QED BY <5>1, <5>2 DEF SessionsOn
      <4>2. RewardsOn(d)' = RewardsOn(d)
        BY <1>3 DEF RewardsOn
      <4> QED BY <1>3, <4>1, <4>2 DEF DaySame, Busy
    <3> QED BY <3>1, <3>2
  <2>2. \A z \in Session : Recorded(z) => Recorded(z)' /\ sess'[z].start = sess[z].start
    BY <1>4, <1>6
  <2>3. Rerolled({})
    BY <1>3, KeepRerolls
  <2>4. RowsStay({})
    BY <1>3 DEF RowsStay
  <2> QED BY <1>1, <1>3, <2>1, <2>2, <2>3, <2>4, RolledMoves DEF RowsTyped
<1>10. RolledCovered'
  <2>1. \A d : Covered(d)' <=> Covered(d)
    BY <1>3 DEF Covered
  <2>2. watermark < Day(now)
    BY <1>1 DEF RolledSound, RowsTyped, Day, NoWatermark
  <2>3. \A z \in Session : Recorded(z)' =>
            \A d \in 0..watermark : Day(sess'[z].start) <= d => Covered(d)
    <3> SUFFICES ASSUME NEW z \in Session, Recorded(z)', NEW d \in 0..watermark,
                        Day(sess'[z].start) <= d
                 PROVE  Covered(d)
      OBVIOUS
    <3>1. CASE z = s
      <4>1. watermark \in Int /\ now \in Nat /\ Day(now) <= d
        BY <1>1, <1>4, <1>5, <3>1 DEF RolledSound, RowsTyped
      <4>2. Day(now) \in Int
        BY <4>1 DEF Day
      <4> QED BY <2>2, <4>1, <4>2
    <3>2. CASE z # s
      BY <1>1, <1>4, <1>6, <3>2 DEF RolledCovered
    <3> QED BY <3>1, <3>2
  <2> QED BY <1>1, <1>3, <2>1, <2>3 DEF RolledCovered
<1> QED BY <1>7, <1>8, <1>9, <1>10 DEF ReadInv

\* A step that records rows of live sessions, or gains too late for theirs.
LEMMA EventsKeep ==
    ASSUME ReadInv, RowsTyped', Grown, late \subseteq late',
           UNCHANGED <<now, sess, rewards, ledger, summary, cells, days, watermark>>,
           \A k \in DOMAIN kills : kills'[k] = kills[k],
           \A k \in DOMAIN kills' : k \in DOMAIN kills \/ Live(kills'[k].session),
           \A g \in DOMAIN gains' : g \in DOMAIN gains \/ g \in late' \/ Live(gains'[g].session),
           \A h \in DOMAIN swings' :
               h \in DOMAIN swings \/ (Live(swings'[h].session) /\ swings'[h].at = now)
    PROVE  ReadInv'
<1>1. RowsTyped /\ StoredSound /\ RolledSound /\ RolledCovered
  BY DEF ReadInv
<1>2. \A z \in Session : /\ Live(z)' <=> Live(z)
                         /\ Ended(z)' <=> Ended(z)
                         /\ Recorded(z)' <=> Recorded(z)
  BY DEF Live, Ended, Recorded
<1>3. ASSUME NEW z \in Session, Ended(z) PROVE SummarySame(z) /\ CellsSame(z)
  <2>1. ~Live(z)
    BY <1>3 DEF Live, Ended
  <2>2. Of(kills', z) = Of(kills, z)
    BY <2>1 DEF Of, Grown
  <2>3. Of(swings', z) = Of(swings, z)
    BY <2>1 DEF Of, Grown
  <2>4. Of(gains', z) \ late' = Of(gains, z) \ late'
    BY <2>1 DEF Of, Grown
  <2>5. \A k \in Of(kills, z) : kills'[k] = kills[k]
    BY DEF Of
  <2> QED BY <2>2, <2>3, <2>4, <2>5 DEF SummarySame, CellsSame
<1>4. StoredSound'
  BY <1>1, <1>2, <1>3, StoredMoves DEF StoredSound
<1>5. ASSUME NEW d \in Nat PROVE Busy(d)' \/ (~Busy(d) /\ DaySame(d))
  <2>1. CASE Busy(d)
    BY <2>1, BusyGrows
  <2>2. CASE \E k \in DOMAIN kills' : k \notin DOMAIN kills /\ Day(kills'[k].at) = d
    <3>1. PICK k \in DOMAIN kills' : k \notin DOMAIN kills /\ Day(kills'[k].at) = d
      BY <2>2
    <3>2. PICK z \in Session : z = kills'[k].session
      BY <3>1 DEF RowsTyped, IsKill
    <3>3. Live(z)'
      BY <3>1, <3>2 DEF Live
    <3>4. d \in SessionDays(z)'
      BY <3>1, <3>2, <3>3, LiveIsBusyNext
    <3> QED BY <3>3, <3>4 DEF Busy
  <2>3. CASE \E g \in DOMAIN gains' : g \notin DOMAIN gains /\ g \notin late' /\ Day(gains'[g].at) = d
    <3>1. PICK g \in DOMAIN gains' : g \notin DOMAIN gains /\ g \notin late' /\ Day(gains'[g].at) = d
      BY <2>3
    <3>2. PICK z \in Session : z = gains'[g].session
      BY <3>1 DEF RowsTyped, IsEvent
    <3>3. Live(z)'
      BY <3>1, <3>2 DEF Live
    <3>4. d \in SessionDays(z)'
      BY <3>1, <3>2, <3>3, LiveIsBusyNext
    <3> QED BY <3>3, <3>4 DEF Busy
  <2>4. CASE \E h \in DOMAIN swings' : h \notin DOMAIN swings /\ Day(swings'[h].at) = d
    <3>1. PICK h \in DOMAIN swings' : h \notin DOMAIN swings /\ Day(swings'[h].at) = d
      BY <2>4
    <3>2. PICK z \in Session : z = swings'[h].session
      BY <3>1 DEF RowsTyped, IsEvent
    <3>3. Live(z)'
      BY <3>1, <3>2 DEF Live
    <3>4. d \in SessionDays(z)'
      BY <3>1, <3>2, <3>3, LiveIsBusyNext
    <3> QED BY <3>3, <3>4 DEF Busy
  <2>5. ASSUME ~Busy(d),
               \A k \in DOMAIN kills' : k \in DOMAIN kills \/ Day(kills'[k].at) # d,
               \A g \in DOMAIN gains' : g \in DOMAIN gains \/ g \in late' \/ Day(gains'[g].at) # d,
               \A h \in DOMAIN swings' : h \in DOMAIN swings \/ Day(swings'[h].at) # d
        PROVE  DaySame(d)
    <3>1. On(kills', d) = On(kills, d)
      BY <2>5 DEF On, Grown
    <3>2. On(gains', d) \ late' = On(gains, d) \ late'
      BY <2>5 DEF On, Grown
    <3>3. On(swings', d) = On(swings, d)
      BY <2>5 DEF On, Grown
    <3>4. \A k \in On(kills, d) : kills'[k].total = kills[k].total
      BY DEF On
    <3>5. SessionsOn(d)' = SessionsOn(d) /\ RewardsOn(d)' = RewardsOn(d)
      BY DEF SessionsOn, RewardsOn, Recorded, Live, Ended
    <3> QED BY <3>1, <3>2, <3>3, <3>4, <3>5 DEF DaySame
  <2> QED BY <2>1, <2>2, <2>3, <2>4, <2>5
<1>6. RolledSound'
  <2>1. Rerolled({})
    BY KeepRerolls
  <2>2. \A s \in Session : Recorded(s) => Recorded(s)' /\ sess'[s].start = sess[s].start
    BY <1>2
  <2>3. now \in Nat /\ now' = now /\ now <= now
    BY <1>1 DEF RowsTyped
  <2>4. \A d \in Nat \ {} : Busy(d)' \/ (~Busy(d) /\ DaySame(d))
    BY <1>5
  <2>5. RowsStay({})
    BY DEF RowsStay, Grown
  <2> QED BY <1>1, <2>1, <2>2, <2>3, <2>4, <2>5, RolledMoves
<1>7. RolledCovered'
  <2>1. \A d : Covered(d)' <=> Covered(d)
    BY DEF Covered
  <2>2. /\ watermark \in Int /\ Day(now) \in Int /\ 0 <= Day(now)
        /\ \A d \in 0..watermark : d < Day(now)
    BY <1>1 DEF RolledSound, RowsTyped, Day, NoWatermark
  <2>3. \A h \in DOMAIN swings' :
            \A d \in 0..watermark' : Day(swings'[h].at) <= d => Covered(d)'
    <3> SUFFICES ASSUME NEW h \in DOMAIN swings', NEW d \in 0..watermark, Day(swings'[h].at) <= d
                 PROVE  Covered(d)
      BY <2>1
    <3>1. CASE h \in DOMAIN swings
      BY <1>1, <3>1 DEF RolledCovered, Grown
    <3>2. CASE h \notin DOMAIN swings
      <4>1. Day(now) <= d /\ d < Day(now) /\ d \in Int
        BY <2>2, <3>2
      <4> QED BY <2>2, <4>1
    <3> QED BY <3>1, <3>2
  <2>4. \A s \in Session : Recorded(s)' =>
            \A d \in 0..watermark' : Day(sess'[s].start) <= d => Covered(d)'
    BY <1>1, <1>2, <2>1 DEF RolledCovered
  <2>5. \A d \in ledger' : Covered(d)'
    BY <1>1, <2>1 DEF RolledCovered
  <2> QED BY <2>1, <2>3, <2>4, <2>5 DEF RolledCovered
<1> QED BY <1>4, <1>6, <1>7 DEF ReadInv

\* A row counted as a fact is a new one.
LEMMA NewId ==
    ASSUME RowsTyped, NewFact
    PROVE  /\ facts' \in Nat /\ facts <= facts' /\ facts' \in 1..facts'
           /\ facts' \notin DOMAIN kills /\ facts' \notin DOMAIN gains /\ facts' \notin DOMAIN swings
           /\ DOMAIN kills \subseteq 1..facts' /\ DOMAIN gains \subseteq 1..facts'
           /\ DOMAIN swings \subseteq 1..facts' /\ late \subseteq 1..facts'
BY DEF RowsTyped, NewFact

\* A chat line's own time is inside its session.
LEMMA StampIsNear ==
    ASSUME RowsTyped, NEW s \in Session, NEW t \in Stamp(s)
    PROVE  t \in Nat /\ sess[s].start <= t /\ t <= now
BY DEF RowsTyped, IsSession, Stamp

LEMMA KillKeeps ==
    ASSUME ReadInv, NEW s \in Session, NEW t \in 0..MaxTime, NEW drop \in Drops,
           RecordKill(s, t, drop)
    PROVE  ReadInv'
<1>1. RowsTyped /\ Live(s) /\ t \in Stamp(s) /\ NewFact
  BY DEF ReadInv, RecordKill
<1>2. PICK row : row = [session |-> s, at |-> t, loot |-> drop, off |-> {},
                        total |-> Cardinality(drop \ {"rebate"}), mob |-> "a"]
  OBVIOUS
<1>3. PICK i : i = facts'
  OBVIOUS
<1>4. /\ kills' = WithRow(kills, i, row)
      /\ UNCHANGED <<now, sess, gains, swings, rewards, ledger, edits, heard, late,
                     summary, cells, days, watermark>>
  BY <1>2, <1>3 DEF RecordKill, KeepReads, derived
<1>5. /\ i \notin DOMAIN kills /\ DOMAIN kills' = DOMAIN kills \union {i} /\ kills'[i] = row
      /\ \A k \in DOMAIN kills : kills'[k] = kills[k]
  <2>1. i \notin DOMAIN kills
    BY <1>1, <1>3, NewId
  <2> QED BY <1>4, <2>1 DEF WithRow
<1>6. t \in Nat /\ sess[s].start <= t /\ t <= now
  BY <1>1, StampIsNear
<1>7. IsKill(row) /\ row.session = s /\ row.at = t
  BY <1>2, <1>6 DEF IsKill
<1>8. RowsTyped'
  <2>1. \A k \in DOMAIN kills' : /\ IsKill(kills'[k]) /\ Recorded(kills'[k].session)
                                 /\ sess[kills'[k].session].start <= kills'[k].at
                                 /\ kills'[k].at <= now
    BY <1>1, <1>5, <1>6, <1>7 DEF RowsTyped, Recorded
  <2>2. DOMAIN kills' \subseteq 1..facts'
    BY <1>1, <1>3, <1>5, NewId
  <2> QED BY <1>1, <1>4, <2>1, <2>2, NewId DEF RowsTyped, Recorded, Live, Ended
<1>9. Grown
  BY <1>4, <1>5 DEF Grown, Live
<1> QED BY <1>1, <1>4, <1>5, <1>7, <1>8, <1>9, EventsKeep

LEMMA SwingKeeps == ASSUME ReadInv, NEW s \in Session, RecordSwing(s) PROVE ReadInv'
<1>1. RowsTyped /\ Live(s) /\ NewFact
  BY DEF ReadInv, RecordSwing
<1>2. PICK row : row = [session |-> s, at |-> now]
  OBVIOUS
<1>3. PICK i : i = facts'
  OBVIOUS
<1>4. /\ swings' = WithRow(swings, i, row)
      /\ UNCHANGED <<now, sess, kills, gains, rewards, ledger, edits, heard, late,
                     summary, cells, days, watermark>>
  BY <1>2, <1>3 DEF RecordSwing, KeepReads, derived
<1>5. /\ i \notin DOMAIN swings /\ DOMAIN swings' = DOMAIN swings \union {i} /\ swings'[i] = row
      /\ \A h \in DOMAIN swings : swings'[h] = swings[h]
  <2>1. i \notin DOMAIN swings
    BY <1>1, <1>3, NewId
  <2> QED BY <1>4, <2>1 DEF WithRow
<1>6. IsEvent(row) /\ row.session = s /\ row.at = now
  BY <1>1, <1>2 DEF IsEvent, RowsTyped
<1>7. RowsTyped'
  <2>1. \A h \in DOMAIN swings' : IsEvent(swings'[h])
    BY <1>1, <1>5, <1>6 DEF RowsTyped
  <2>2. DOMAIN swings' \subseteq 1..facts'
    BY <1>1, <1>3, <1>5, NewId
  <2> QED BY <1>1, <1>4, <2>1, <2>2, NewId DEF RowsTyped, Recorded, Live, Ended
<1>8. Grown
  BY <1>4, <1>5 DEF Grown, Live
<1> QED BY <1>1, <1>4, <1>5, <1>6, <1>7, <1>8, EventsKeep

LEMMA HearKeeps ==
    ASSUME ReadInv, NEW s \in Session, NEW t \in 0..MaxTime, HearGain(s, t)
    PROVE  ReadInv'
<1>1. RowsTyped /\ Live(s) /\ t \in Stamp(s)
  BY DEF ReadInv, HearGain
<1>2. PICK row : row = [session |-> s, at |-> t]
  OBVIOUS
<1>3. /\ heard' = row
      /\ UNCHANGED <<now, sess, kills, gains, swings, rewards, ledger, facts, edits, late,
                     summary, cells, days, watermark>>
  BY <1>2 DEF HearGain, KeepReads, derived, raw
<1>4. t \in Nat /\ sess[s].start <= t
  BY <1>1, StampIsNear
<1>5. IsEvent(row) /\ row.session = s /\ row.at = t
  BY <1>2, <1>4 DEF IsEvent
<1>6. RowsTyped'
  BY <1>1, <1>3, <1>4, <1>5 DEF RowsTyped, Recorded, Live, Ended
<1>7. Grown
  BY <1>3 DEF Grown, Live
<1> QED BY <1>3, <1>6, <1>7, EventsKeep

LEMMA InsertKeeps == ASSUME ReadInv, InsertGain PROVE ReadInv'
<1>1. RowsTyped /\ heard # None /\ NewFact
  BY DEF ReadInv, InsertGain
<1>2. PICK row : row = heard
  OBVIOUS
<1>3. PICK i : i = facts'
  OBVIOUS
<1>4. /\ gains' = WithRow(gains, i, row)
      /\ late' = IF Live(row.session) THEN late ELSE late \union {i}
      /\ heard' = None
      /\ UNCHANGED <<now, sess, kills, swings, rewards, ledger, edits,
                     summary, cells, days, watermark>>
  BY <1>2, <1>3 DEF InsertGain, KeepReads, derived
<1>5. /\ i \notin DOMAIN gains /\ DOMAIN gains' = DOMAIN gains \union {i} /\ gains'[i] = row
      /\ \A g \in DOMAIN gains : gains'[g] = gains[g]
  <2>1. i \notin DOMAIN gains
    BY <1>1, <1>3, NewId
  <2> QED BY <1>4, <2>1 DEF WithRow
<1>6. IsEvent(row) /\ sess[row.session].start <= row.at
  BY <1>1, <1>2 DEF RowsTyped
<1>7. RowsTyped'
  <2>1. \A g \in DOMAIN gains' : /\ IsEvent(gains'[g])
                                 /\ g \notin late' => /\ Recorded(gains'[g].session)
                                                      /\ sess[gains'[g].session].start <= gains'[g].at
    BY <1>1, <1>4, <1>5, <1>6 DEF RowsTyped, Recorded
  <2>2. DOMAIN gains' \subseteq 1..facts' /\ late' \subseteq 1..facts'
    BY <1>1, <1>3, <1>4, <1>5, NewId
  <2> QED BY <1>1, <1>4, <2>1, <2>2, NewId DEF RowsTyped, Recorded, Live, Ended
<1>8. Grown
  BY <1>4, <1>5 DEF Grown, Live
<1>9. late \subseteq late' /\ \A g \in DOMAIN gains' :
          g \in DOMAIN gains \/ g \in late' \/ Live(gains'[g].session)
  BY <1>4, <1>5
<1> QED BY <1>4, <1>7, <1>8, <1>9, EventsKeep

LEMMA HalfDayKeeps == ASSUME ReadInv, HalfDay PROVE ReadInv'
<1>1. /\ RowsTyped /\ StoredSound /\ RolledSound /\ RolledCovered
      /\ now < MaxTime /\ now' = now + 1
      /\ UNCHANGED <<sess, kills, gains, swings, rewards, ledger, facts, edits, heard, late,
                     summary, cells, days, watermark>>
  BY DEF ReadInv, HalfDay, KeepReads, derived, history
<1>2. /\ now \in Nat /\ now' \in Nat /\ now <= now' /\ now' <= MaxTime + 1
      /\ facts \in Nat /\ edits \in Nat /\ MaxTime \in Nat
  BY <1>1, ReadBounds DEF RowsTyped
<1>3. RowsTyped'
  <2>1. \A z \in Session : IsSession(sess'[z]) /\ sess'[z].start <= now'
    <3> TAKE z \in Session
    <3>1. IsSession(sess[z]) /\ sess[z].start <= now
      BY <1>1 DEF RowsTyped
    <3> QED BY <1>1, <1>2, <3>1 DEF IsSession
  <2>2. \A z \in Session : Recorded(z) => Recorded(z)' /\ sess'[z].start = sess[z].start
    BY <1>1 DEF Recorded, Live, Ended
  <2> QED BY <1>1, <1>2, <2>1, <2>2, SessionsMove DEF RowsTyped
<1>4. StoredSound'
  <2>1. \A z \in Session : SummarySame(z) /\ CellsSame(z) /\ (Ended(z)' <=> Ended(z))
    BY <1>1 DEF SummarySame, CellsSame, Ended
  <2> QED BY <1>1, <2>1, StoredMoves DEF StoredSound
<1>5. RolledSound'
  <2>1. \A d \in Nat \ {} : Busy(d)' \/ (~Busy(d) /\ DaySame(d))
    <3> TAKE d \in Nat \ {}
    <3>1. Grown
      BY <1>1 DEF Grown, Live
    <3>2. SessionsOn(d)' = SessionsOn(d) /\ RewardsOn(d)' = RewardsOn(d)
      BY <1>1 DEF SessionsOn, RewardsOn, Recorded, Live, Ended
    <3>3. DaySame(d)
      BY <1>1, <3>2 DEF DaySame
    <3> QED BY <3>1, <3>3, BusyGrows
  <2>2. Rerolled({})
    BY <1>1, KeepRerolls
  <2>3. \A z \in Session : Recorded(z) => Recorded(z)' /\ sess'[z].start = sess[z].start
    BY <1>1 DEF Recorded, Live, Ended
  <2>4. RowsStay({})
    BY <1>1 DEF RowsStay
  <2> QED BY <1>1, <1>2, <2>1, <2>2, <2>3, <2>4, RolledMoves
<1>6. RolledCovered'
  BY <1>1 DEF RolledCovered, Covered, Recorded, Live, Ended
<1> QED BY <1>3, <1>4, <1>5, <1>6 DEF ReadInv

-----------------------------------------------------------------------------
(* Edits of a session's own row: its status, costs and name.               *)

LEMMA DayIsNat == \A t \in Nat : Day(t) \in Nat /\ Day(t) <= t
BY DEF Day

LEMMA DaysAreNat == ASSUME NEW s \in Session, RowsTyped PROVE SessionDays(s) \in SUBSET Nat
<1>1. Day(sess[s].start) \in Nat /\ Day(sess[s].end) \in Nat
  BY DayIsNat DEF RowsTyped, IsSession
<1>2. \A k \in DOMAIN kills : Day(kills[k].at) \in Nat
  BY DayIsNat DEF RowsTyped, IsKill
<1>3. \A g \in DOMAIN gains : Day(gains[g].at) \in Nat
  BY DayIsNat DEF RowsTyped, IsEvent
<1>4. \A h \in DOMAIN swings : Day(swings[h].at) \in Nat
  BY DayIsNat DEF RowsTyped, IsEvent
<1> QED BY <1>1, <1>2, <1>3, <1>4 DEF SessionDays, Of

LEMMA DaysAreNatNext == ASSUME NEW s \in Session, RowsTyped' PROVE SessionDays(s)' \in SUBSET Nat
<1>1. Day(sess'[s].start) \in Nat /\ Day(sess'[s].end) \in Nat
  BY DayIsNat DEF RowsTyped, IsSession
<1>2. \A k \in DOMAIN kills' : Day(kills'[k].at) \in Nat
  BY DayIsNat DEF RowsTyped, IsKill
<1>3. \A g \in DOMAIN gains' : Day(gains'[g].at) \in Nat
  BY DayIsNat DEF RowsTyped, IsEvent
<1>4. \A h \in DOMAIN swings' : Day(swings'[h].at) \in Nat
  BY DayIsNat DEF RowsTyped, IsEvent
<1> QED BY <1>1, <1>2, <1>3, <1>4 DEF SessionDays, Of, RefreshDays

\* What the writes of an edit leave in the stored rows.
LEMMA SummaryWritten ==
    ASSUME NEW s \in Session, summary'[s] = SummaryOf(s)', summary'[s] # None
    PROVE  Ended(s)' /\ StoredSummary(s, summary[s])'
<1>1. PICK x : x = summary'[s]
  OBVIOUS
<1>2. /\ Ended(s)'
      /\ x = [loot |-> {<<k, kills'[k].total>> : k \in Of(kills', s)},
              mobs |-> {<<k, kills'[k].mob>> : k \in Of(kills', s)},
              gains |-> Of(gains', s), swings |-> Of(swings', s),
              armour |-> sess'[s].armour, heal |-> sess'[s].heal, name |-> sess'[s].name]
  BY <1>1 DEF SummaryOf, Ended
<1>3. StoredSummary(s, x)'
  BY <1>2 DEF StoredSummary, Timely
<1> QED BY <1>1, <1>2, <1>3 DEF StoredSummary

LEMMA CellsWritten ==
    ASSUME NEW s \in Session, cells'[s] = RawCells(s)'
    PROVE  StoredCells(s, cells[s])'
BY DEF RawCells, StoredCells, Timely

LEMMA CellsRecomputed ==
    ASSUME StoredSound, NEW s \in Session, RecomputeCells(s)
    PROVE  /\ DOMAIN cells' = Session
           /\ \A z \in Session : z # s => cells'[z] = cells[z]
           /\ cells'[s] # None => Ended(s)' /\ StoredCells(s, cells[s])'
<1>1. /\ DOMAIN cells' = Session
      /\ \A z \in Session : z # s => cells'[z] = cells[z]
      /\ cells'[s] = IF sess'[s].status = "ended" THEN RawCells(s)' ELSE None
  BY DEF RecomputeCells, StoredSound
<1> QED BY <1>1, CellsWritten DEF Ended

\* An edit of one session's row that settles it, or changes its costs or its
\* name, derives anew what it has to.
LEMMA SessionEditKeeps ==
    ASSUME ReadInv, NEW s \in Session, Recorded(s), NEW new, sess' = [sess EXCEPT ![s] = new],
           IsSession(new), new.start = sess[s].start,
           NEW D \in SUBSET Nat, Rerolled(D),
           new.status = sess[s].status \/ (new.status = "ended" /\ SessionDays(s) \subseteq D),
           \/ new.armour = sess[s].armour /\ new.heal = sess[s].heal
           \/ Day(sess[s].start) \in D
           \/ new.status = "live",
           UNCHANGED <<now, kills, gains, swings, rewards, ledger, late>>,
           facts' \in Nat, facts <= facts', edits' \in Nat, edits <= edits',
           heard' = heard \/ heard' = None,
           DOMAIN summary' = Session, DOMAIN cells' = Session,
           \A z \in Session : z # s => summary'[z] = summary[z] /\ cells'[z] = cells[z],
           summary'[s] # None => Ended(s)' /\ StoredSummary(s, summary[s])',
           cells'[s] # None => Ended(s)' /\ (cells'[s] = cells[s] \/ StoredCells(s, cells[s])')
    PROVE  ReadInv'
<1>1. RowsTyped /\ StoredSound /\ RolledSound /\ RolledCovered
  BY DEF ReadInv
<1>2. /\ DOMAIN sess' = Session /\ sess'[s] = new
      /\ \A z \in Session : z # s => sess'[z] = sess[z]
  BY <1>1 DEF RowsTyped
<1>3. /\ \A z \in Session : Recorded(z)' <=> Recorded(z)
      /\ \A z \in Session : sess'[z].start = sess[z].start
      /\ \A z \in Session : z # s => (Live(z)' <=> Live(z)) /\ (Ended(z)' <=> Ended(z))
  BY <1>2 DEF Recorded, Live, Ended
<1>4. RowsTyped'
  <2>1. \A z \in Session : IsSession(sess'[z]) /\ sess'[z].start <= now
    BY <1>1, <1>2 DEF RowsTyped
  <2>2. now \in Nat /\ now <= MaxTime + 1 /\ now <= now
    BY <1>1 DEF RowsTyped
  <2>3. \A z \in Session : sess[z].status # "none" =>
            sess'[z].status # "none" /\ sess'[z].start = sess[z].start
    BY <1>2 DEF Recorded, Live, Ended
  <2> QED BY <1>1, <1>2, <1>3, <2>1, <2>2, <2>3, SessionsMove
<1>5. StoredSound'
  <2>1. \A z \in Session : z # s => SummarySame(z)
    BY <1>2 DEF SummarySame
  <2>2. \A z \in Session : CellsSame(z)
    BY DEF CellsSame
  <2>3. \A z \in Session : summary'[z] # None =>
            /\ Ended(z)'
            /\ (summary'[z] = summary[z] /\ SummarySame(z)) \/ StoredSummary(z, summary[z])'
    <3> TAKE z \in Session
    <3>1. CASE z = s
      BY <3>1
    <3>2. CASE z # s
      BY <1>1, <1>3, <2>1, <3>2 DEF StoredSound
    <3> QED BY <3>1, <3>2
  <2>4. \A z \in Session : cells'[z] # None =>
            /\ Ended(z)'
            /\ (cells'[z] = cells[z] /\ CellsSame(z)) \/ StoredCells(z, cells[z])'
    <3> TAKE z \in Session
    <3>1. CASE z = s
      BY <2>2, <3>1
    <3>2. CASE z # s
      BY <1>1, <1>3, <2>2, <3>2 DEF StoredSound
    <3> QED BY <3>1, <3>2
  <2> QED BY <1>1, <2>3, <2>4, StoredMoves
<1>6. ASSUME NEW d \in Nat \ D PROVE Busy(d)' \/ (~Busy(d) /\ DaySame(d))
  <2>1. ASSUME NEW z \in Session, Live(z), Live(z)', d \in SessionDays(z) PROVE Busy(d)'
    <3>1. d \in SessionDays(z)'
      BY <1>3, <2>1, LiveIsBusy, LiveIsBusyNext
    <3> QED BY <2>1, <3>1 DEF Busy
  <2>2. CASE Busy(d)
    <3>1. PICK z \in Session : Live(z) /\ d \in SessionDays(z)
      BY <2>2 DEF Busy
    <3>2. CASE z = s /\ new.status # sess[s].status
      BY <3>1, <3>2
    <3>3. CASE ~(z = s /\ new.status # sess[s].status)
      <4>1. Live(z)'
        BY <1>2, <3>1, <3>3 DEF Live
      <4> QED BY <2>1, <3>1, <4>1
    <3> QED BY <3>2, <3>3
  <2>3. CASE d = Day(sess[s].start) /\ new.status = "live"
    <3>1. Live(s)'
      BY <1>2, <2>3 DEF Live
    <3>2. d \in SessionDays(s)'
      BY <1>3, <2>3, <3>1, LiveIsBusyNext
    <3> QED BY <3>1, <3>2 DEF Busy
  <2>4. CASE ~Busy(d) /\ (d # Day(sess[s].start)
                          \/ (new.armour = sess[s].armour /\ new.heal = sess[s].heal))
    <3>1. {z \in Session : Recorded(z)' /\ Day(sess'[z].start) = d}
            = {z \in Session : Recorded(z) /\ Day(sess[z].start) = d}
      BY <1>3
    <3>2. \A z \in Session : Day(sess[z].start) = d =>
              sess'[z].armour = sess[z].armour /\ sess'[z].heal = sess[z].heal
      BY <1>2, <2>4
    <3>3. SessionsOn(d)' = SessionsOn(d)
      BY <3>1, <3>2 DEF SessionsOn
    <3>4. RewardsOn(d)' = RewardsOn(d)
      BY DEF RewardsOn
    <3> QED BY <2>4, <3>3, <3>4 DEF DaySame
  <2> QED BY <2>2, <2>3, <2>4
<1>7. RolledSound'
  <2>1. now \in Nat /\ now <= now
    BY <1>1 DEF RowsTyped
  <2>2. \A z \in Session : Recorded(z) => Recorded(z)' /\ sess'[z].start = sess[z].start
    BY <1>3
  <2>3. RowsStay(D)
    BY DEF RowsStay
  <2> QED BY <1>1, <1>6, <2>1, <2>2, <2>3, RolledMoves
<1>8. RolledCovered'
  <2>1. \A d : Covered(d) => Covered(d)'
    BY DEF Covered, Rerolled
  <2>2. watermark' = watermark
    BY DEF Rerolled
  <2> QED BY <1>1, <1>3, <2>1, <2>2 DEF RolledCovered
<1> QED BY <1>4, <1>5, <1>7, <1>8 DEF ReadInv

LEMMA HealCostKeeps == ASSUME ReadInv, NEW s \in Session, HealCost(s) PROVE ReadInv'
<1>1. RowsTyped /\ StoredSound
  BY DEF ReadInv
<1>2. PICK new : new = [sess[s] EXCEPT !.heal = 1]
  OBVIOUS
<1>3. /\ Live(s) /\ facts' = facts + 1 /\ sess' = [sess EXCEPT ![s] = new]
      /\ UNCHANGED <<now, kills, gains, swings, rewards, ledger, edits, heard, late,
                     summary, cells, days, watermark>>
  BY <1>2 DEF HealCost, NewFact, KeepReads, derived
<1>4. /\ IsSession(new) /\ new.start = sess[s].start /\ new.status = sess[s].status
      /\ new.status = "live"
  BY <1>1, <1>2, <1>3 DEF RowsTyped, IsSession, Live
<1>5. facts \in Nat /\ facts' \in Nat /\ facts <= facts' /\ edits \in Nat /\ edits <= edits
  BY <1>1, <1>3 DEF RowsTyped
<1>6. summary[s] = None /\ cells[s] = None /\ DOMAIN summary = Session /\ DOMAIN cells = Session
  BY <1>1, <1>3 DEF StoredSound, Live, Ended
<1>7. Rerolled({}) /\ {} \in SUBSET Nat
  BY <1>3, KeepRerolls
<1>8. Recorded(s)
  BY <1>3 DEF Recorded
<1> QED BY <1>3, <1>4, <1>5, <1>6, <1>7, <1>8, SessionEditKeeps

\* The end of a session derives anew every day it has touched.
LEMMA SettleKeeps ==
    ASSUME ReadInv, NEW s \in Session, Live(s), NEW end \in Nat, sess[s].start <= end,
           Settle(s, end), heard' = heard \/ heard' = None
    PROVE  ReadInv'
<1>1. RowsTyped /\ StoredSound
  BY DEF ReadInv
<1>2. PICK new : new = [sess[s] EXCEPT !.status = "ended", !.end = end]
  OBVIOUS
<1>3. /\ sess' = [sess EXCEPT ![s] = new]
      /\ UNCHANGED <<now, kills, gains, swings, rewards, ledger, facts, edits, late>>
      /\ WriteSummary(s) /\ RefreshDays(SessionDays(s)') /\ RecomputeCells(s)
  BY <1>2 DEF Settle
<1>4. IsSession(new) /\ new.start = sess[s].start /\ new.status = "ended"
      /\ new.armour = sess[s].armour /\ new.heal = sess[s].heal
  <2>1. PICK x : x = sess[s]
    OBVIOUS
  <2>2. IsSession(x) /\ x.start <= end /\ new = [x EXCEPT !.status = "ended", !.end = end]
    BY <1>1, <1>2, <2>1 DEF RowsTyped
  <2>3. new = [status |-> "ended", start |-> x.start, end |-> end, armour |-> x.armour,
               heal |-> x.heal, name |-> x.name]
    BY <2>2 DEF IsSession
  <2> QED BY <2>1, <2>2, <2>3 DEF IsSession
<1>5. /\ DOMAIN sess' = Session /\ sess'[s] = new
      /\ \A z \in Session : z # s => sess'[z] = sess[z]
  BY <1>1, <1>3 DEF RowsTyped
<1>6. facts \in Nat /\ facts <= facts /\ edits \in Nat /\ edits <= edits
  BY <1>1 DEF RowsTyped
<1>7. PICK D : D = SessionDays(s)'
  OBVIOUS
<1>8. Rerolled(D)
  BY <1>3, <1>7, RefreshRerolls
<1>9. SessionDays(s) \subseteq D
  BY <1>3, <1>4, <1>5, <1>7 DEF SessionDays, Recorded, Live, Ended, RefreshDays, Of
<1>10. D \in SUBSET Nat
  <2>1. \A k \in DOMAIN kills : Day(kills[k].at) \in Nat
    BY <1>1, DayIsNat DEF RowsTyped, IsKill
  <2>2. \A g \in DOMAIN gains : Day(gains[g].at) \in Nat
    BY <1>1, DayIsNat DEF RowsTyped, IsEvent
  <2>3. \A h \in DOMAIN swings : Day(swings[h].at) \in Nat
    BY <1>1, DayIsNat DEF RowsTyped, IsEvent
  <2>4. Day(sess'[s].start) \in Nat /\ Day(sess'[s].end) \in Nat
    BY <1>4, <1>5, DayIsNat DEF IsSession
  <2> QED BY <1>3, <1>7, <2>1, <2>2, <2>3, <2>4 DEF SessionDays, Of, RefreshDays
<1>11. /\ DOMAIN summary' = Session /\ summary'[s] = SummaryOf(s)'
       /\ \A z \in Session : z # s => summary'[z] = summary[z]
  BY <1>1, <1>3 DEF WriteSummary, StoredSound
<1>12. summary'[s] # None => Ended(s)' /\ StoredSummary(s, summary[s])'
  BY <1>11, SummaryWritten
<1>13. /\ DOMAIN cells' = Session /\ \A z \in Session : z # s => cells'[z] = cells[z]
       /\ cells'[s] # None => Ended(s)' /\ StoredCells(s, cells[s])'
  BY <1>1, <1>3, CellsRecomputed
<1>14. Recorded(s)
  BY DEF Recorded
<1> QED BY <1>3, <1>4, <1>6, <1>8, <1>9, <1>10, <1>11, <1>12, <1>13, <1>14, SessionEditKeeps

LEMMA StopKeeps == ASSUME ReadInv, NEW s \in Session, StopSession(s) PROVE ReadInv'
<1>1. Live(s) /\ Settle(s, now) /\ heard' = heard
  BY DEF StopSession
<1>2. now \in Nat /\ sess[s].start <= now
  BY DEF ReadInv, RowsTyped
<1> QED BY <1>1, <1>2, SettleKeeps

\* A set of moments up to now has a latest one.
LEMMA LatestIsIn ==
    ASSUME NEW n \in Nat, NEW T \in SUBSET (0..n), T # {}
    PROVE  Greatest(T) \in T
<1>1. \E x \in T : \A y \in T : x >= y
  <2> DEFINE U == {n - x : x \in T}
  <2>0. \A x \in T : x \in Nat /\ n - x \in Nat
    OBVIOUS
  <2>1. U \in SUBSET Nat /\ U # {}
    BY <2>0
  <2>2. \E u \in U : \A v \in U : u <= v
    BY <2>1, LeastExists
  <2>3. PICK x \in T : \A v \in U : n - x <= v
    BY <2>2
  <2>4. \A y \in T : n - x <= n - y
    BY <2>3
  <2> QED BY <2>0, <2>3, <2>4
<1> QED BY <1>1 DEF Greatest

LEMMA RecoverKeeps == ASSUME ReadInv, NEW s \in Session, RecoverOrphan(s) PROVE ReadInv'
<1>1. PICK seen : seen = {kills[k].at : k \in Of(kills, s)}
                             \union (IF sess[s].heal > 0 THEN {now} ELSE {})
  OBVIOUS
<1>2. PICK end : end = IF seen = {} THEN sess[s].start ELSE Greatest(seen)
  OBVIOUS
<1>3. Live(s) /\ Settle(s, end) /\ heard' = None
  BY <1>1, <1>2 DEF RecoverOrphan
<1>4. now \in Nat /\ sess[s].start \in Nat /\ sess[s].start <= now
  BY DEF ReadInv, RowsTyped, IsSession
<1>5. \A x \in seen : x \in 0..now /\ sess[s].start <= x
  <2>1. \A k \in Of(kills, s) : kills[k].at \in Nat /\ kills[k].at <= now
                                /\ sess[s].start <= kills[k].at
    BY DEF ReadInv, RowsTyped, IsKill, Of
  <2>2. seen \subseteq {kills[k].at : k \in Of(kills, s)} \union {now}
    BY <1>1
  <2> QED BY <1>4, <2>1, <2>2
<1>6. end \in Nat /\ sess[s].start <= end
  <2>1. CASE seen = {}
    BY <1>2, <1>4, <2>1
  <2>2. CASE seen # {}
    <3>1. Greatest(seen) \in seen
      BY <1>4, <1>5, <2>2, LatestIsIn
    <3> QED BY <1>2, <1>5, <2>2, <3>1
  <2> QED BY <2>1, <2>2
<1> QED BY <1>3, <1>6, SettleKeeps

LEMMA ReassignKeeps ==
    ASSUME ReadInv, NEW s \in Session, NEW name, Reassign(s, name)
    PROVE  ReadInv'
<1>1. RowsTyped /\ StoredSound
  BY DEF ReadInv
<1>2. PICK new : new = [sess[s] EXCEPT !.name = name]
  OBVIOUS
<1>3. /\ Ended(s) /\ edits' = edits + 1 /\ sess' = [sess EXCEPT ![s] = new]
      /\ UNCHANGED <<now, kills, gains, swings, rewards, ledger, facts, heard, late,
                     cells, days, watermark>>
      /\ summary' = [summary EXCEPT ![s] = IF @ = None THEN None ELSE [@ EXCEPT !.name = name]]
  BY <1>2 DEF Reassign, EditOf
<1>4. /\ IsSession(new) /\ new.start = sess[s].start /\ new.status = sess[s].status
      /\ new.armour = sess[s].armour /\ new.heal = sess[s].heal /\ new.name = name
  BY <1>1, <1>2 DEF RowsTyped, IsSession
<1>5. facts \in Nat /\ facts <= facts /\ edits \in Nat /\ edits' \in Nat /\ edits <= edits'
  BY <1>1, <1>3 DEF RowsTyped
<1>6. /\ DOMAIN summary' = Session /\ DOMAIN cells = Session
      /\ \A z \in Session : z # s => summary'[z] = summary[z]
      /\ summary'[s] = IF summary[s] = None THEN None ELSE [summary[s] EXCEPT !.name = name]
  BY <1>1, <1>3 DEF StoredSound
<1>7. sess'[s] = new
  BY <1>1, <1>3 DEF RowsTyped
<1>8. Ended(s)'
  BY <1>3, <1>4, <1>7 DEF Ended
<1>9. ASSUME summary'[s] # None PROVE StoredSummary(s, summary[s])'
  <2>1. PICK x : x = summary[s]
    OBVIOUS
  <2>2. StoredSummary(s, x) /\ summary'[s] = [x EXCEPT !.name = name]
    BY <1>1, <1>6, <1>9, <2>1 DEF StoredSound
  <2>3. PICK y : y = summary'[s]
    OBVIOUS
  <2>4. /\ y = [loot |-> y.loot, mobs |-> y.mobs, gains |-> y.gains, swings |-> y.swings,
                armour |-> y.armour, heal |-> y.heal, name |-> y.name]
        /\ y.name = name /\ y.armour = x.armour /\ y.heal = x.heal /\ y.mobs = x.mobs
        /\ y.swings = x.swings /\ y.gains = x.gains
    BY <2>2, <2>3 DEF StoredSummary
  <2>5. StoredSummary(s, y)'
    BY <1>3, <1>4, <1>7, <2>2, <2>4 DEF StoredSummary, Timely
  <2> QED BY <2>3, <2>5 DEF StoredSummary
<1>10. Rerolled({}) /\ {} \in SUBSET Nat
  BY <1>3, KeepRerolls
<1>11. Recorded(s)
  BY <1>3 DEF Recorded
<1> QED BY <1>3, <1>4, <1>5, <1>6, <1>8, <1>9, <1>10, <1>11, SessionEditKeeps

LEMMA ArmourKeeps == ASSUME ReadInv, NEW s \in Session, AddArmourCost(s) PROVE ReadInv'
<1>1. RowsTyped /\ StoredSound
  BY DEF ReadInv
<1>2. PICK new : new = [sess[s] EXCEPT !.armour = @ + 1]
  OBVIOUS
<1>3. PICK D : D = {Day(sess[s].start)}
  OBVIOUS
<1>4. /\ Recorded(s) /\ edits' = edits + 1 /\ sess' = [sess EXCEPT ![s] = new]
      /\ UNCHANGED <<now, kills, gains, swings, rewards, ledger, facts, heard, late, cells>>
      /\ RefreshDays(D) /\ WriteSummary(s)
  BY <1>2, <1>3 DEF AddArmourCost, EditOf
<1>5. IsSession(new) /\ new.start = sess[s].start /\ new.status = sess[s].status
  BY <1>1, <1>2 DEF RowsTyped, IsSession
<1>6. facts \in Nat /\ facts <= facts /\ edits \in Nat /\ edits' \in Nat /\ edits <= edits'
  BY <1>1, <1>4 DEF RowsTyped
<1>7. Rerolled(D)
  BY <1>4, RefreshRerolls
<1>8. D \in SUBSET Nat /\ Day(sess[s].start) \in D
  BY <1>1, <1>3, DayIsNat DEF RowsTyped, IsSession
<1>9. /\ DOMAIN summary' = Session /\ DOMAIN cells = Session /\ summary'[s] = SummaryOf(s)'
      /\ \A z \in Session : z # s => summary'[z] = summary[z]
  BY <1>1, <1>4 DEF WriteSummary, StoredSound
<1>10. summary'[s] # None => Ended(s)' /\ StoredSummary(s, summary[s])'
  BY <1>9, SummaryWritten
<1>11. cells'[s] # None => Ended(s)' /\ cells'[s] = cells[s]
  <2>1. sess'[s] = new
    BY <1>1, <1>4 DEF RowsTyped
  <2> QED BY <1>1, <1>4, <1>5, <2>1 DEF StoredSound, Ended
<1> QED BY <1>4, <1>5, <1>6, <1>7, <1>8, <1>9, <1>10, <1>11, SessionEditKeeps

-----------------------------------------------------------------------------
(* Edits of kills, rewards and the ledger.                                 *)

\* A kill keeps its session and moment through an edit.
KillEdited(x, y) ==
    /\ x.session = y.session /\ x.at = y.at
    /\ IsKill(x)

\* An edit that derives anew the days and the cells of the rows it changed.
LEMMA EditsKeep ==
    ASSUME ReadInv, NEW D \in SUBSET Nat, Rerolled(D),
           UNCHANGED <<now, sess, gains, swings, facts, heard, late>>,
           edits' \in Nat, edits <= edits',
           DOMAIN rewards' \subseteq 1..edits', \A r \in DOMAIN rewards' : IsReward(rewards'[r]),
           ledger' \subseteq Nat, \A d \in Nat \ D : RewardsOn(d)' = RewardsOn(d),
           \A d \in Nat \ D : d \in ledger' <=> d \in ledger,
           DOMAIN kills' = DOMAIN kills,
           \A k \in DOMAIN kills : KillEdited(kills'[k], kills[k]),
           \A k \in DOMAIN kills : kills'[k].total = kills[k].total \/ Day(kills[k].at) \in D,
           DOMAIN summary' = Session, DOMAIN cells' = Session,
           \A z \in Session : summary'[z] # None =>
               /\ summary'[z] = summary[z]
               /\ \A k \in Of(kills, z) : kills'[k].mob = kills[k].mob,
           \A z \in Session : cells'[z] # None =>
               \/ /\ cells'[z] = cells[z]
                  /\ \A k \in Of(kills, z) : /\ kills'[k].total = kills[k].total
                                             /\ kills'[k].loot = kills[k].loot
                                             /\ kills'[k].off = kills[k].off
               \/ Ended(z)' /\ StoredCells(z, cells[z])'
    PROVE  ReadInv'
<1>1. RowsTyped /\ StoredSound /\ RolledSound /\ RolledCovered
  BY DEF ReadInv
<1>2. \A z \in Session : /\ Live(z)' <=> Live(z)
                         /\ Ended(z)' <=> Ended(z)
                         /\ Recorded(z)' <=> Recorded(z)
  BY DEF Live, Ended, Recorded
<1>3. \A k \in DOMAIN kills : /\ kills'[k].session = kills[k].session /\ kills'[k].at = kills[k].at
                              /\ IsKill(kills'[k])
  BY DEF KillEdited
<1>4. RowsTyped'
  <2>1. \A k \in DOMAIN kills' : /\ IsKill(kills'[k]) /\ Recorded(kills'[k].session)
                                 /\ sess[kills'[k].session].start <= kills'[k].at
                                 /\ kills'[k].at <= now
    BY <1>1, <1>3 DEF RowsTyped
  <2>2. DOMAIN kills' \subseteq 1..facts
    BY <1>1 DEF RowsTyped
  <2> QED BY <1>1, <2>1, <2>2 DEF RowsTyped, Recorded, Live, Ended
<1>5. \A z \in Session : Of(kills', z) = Of(kills, z)
  BY <1>3 DEF Of
<1>6. StoredSound'
  <2>1. \A z \in Session : (\A k \in Of(kills, z) : kills'[k].mob = kills[k].mob) => SummarySame(z)
    BY <1>5 DEF SummarySame
  <2>2. \A z \in Session : (\A k \in Of(kills, z) : /\ kills'[k].total = kills[k].total
                                                    /\ kills'[k].loot = kills[k].loot
                                                    /\ kills'[k].off = kills[k].off) => CellsSame(z)
    BY <1>5 DEF CellsSame
  <2>3. \A z \in Session : summary'[z] # None =>
            /\ Ended(z)'
            /\ (summary'[z] = summary[z] /\ SummarySame(z)) \/ StoredSummary(z, summary[z])'
    BY <1>1, <1>2, <2>1 DEF StoredSound
  <2>4. \A z \in Session : cells'[z] # None =>
            /\ Ended(z)'
            /\ (cells'[z] = cells[z] /\ CellsSame(z)) \/ StoredCells(z, cells[z])'
    BY <1>1, <1>2, <2>2 DEF StoredSound
  <2> QED BY <1>1, <2>3, <2>4, StoredMoves
<1>7. ASSUME NEW d \in Nat \ D PROVE Busy(d)' \/ (~Busy(d) /\ DaySame(d))
  <2>1. CASE Busy(d)
    <3>1. PICK z \in Session : Live(z) /\ d \in SessionDays(z)
      BY <2>1 DEF Busy
    <3>2. Live(z)'
      BY <1>2, <3>1
    <3>3. d \in SessionDays(z)'
      BY <1>3, <3>1, <3>2, LiveIsBusy, LiveIsBusyNext
    <3> QED BY <3>2, <3>3 DEF Busy
  <2>2. CASE ~Busy(d)
    <3>1. On(kills', d) = On(kills, d)
      BY <1>3 DEF On
    <3>2. \A k \in On(kills, d) : kills'[k].total = kills[k].total
      BY DEF On
    <3>3. SessionsOn(d)' = SessionsOn(d)
      BY DEF SessionsOn, Recorded, Live, Ended
    <3> QED BY <2>2, <3>1, <3>2, <3>3 DEF DaySame
  <2> QED BY <2>1, <2>2
<1>8. RolledSound'
  <2>1. now \in Nat /\ now <= now
    BY <1>1 DEF RowsTyped
  <2>2. \A z \in Session : Recorded(z) => Recorded(z)' /\ sess'[z].start = sess[z].start
    BY <1>2
  <2>3. RowsStay(D)
    BY <1>3 DEF RowsStay
  <2> QED BY <1>1, <1>7, <2>1, <2>2, <2>3, RolledMoves
<1>9. RolledCovered'
  <2>1. \A d : Covered(d) => Covered(d)'
    BY DEF Covered, Rerolled
  <2>2. watermark' = watermark
    BY DEF Rerolled
  <2>3. \A d \in ledger' : Covered(d)'
    <3> TAKE d \in ledger'
    <3>1. CASE d \in D
      BY <3>1 DEF Covered, Rerolled
    <3>2. CASE d \notin D
      BY <1>1, <2>1, <3>2 DEF RolledCovered
    <3> QED BY <3>1, <3>2
  <2> QED BY <1>1, <1>2, <2>1, <2>2, <2>3 DEF RolledCovered
<1> QED BY <1>4, <1>6, <1>8, <1>9 DEF ReadInv

\* What an edit of the kills of one session owes: its cells and its days.
LEMMA SessionKillsKeep ==
    ASSUME ReadInv, NEW s \in Session, NEW D \in SUBSET Nat, Rerolled(D),
           UNCHANGED <<now, sess, gains, swings, ledger, facts, heard, late>>,
           edits' \in Nat, edits <= edits',
           DOMAIN rewards' \subseteq 1..edits', \A r \in DOMAIN rewards' : IsReward(rewards'[r]),
           \A d \in Nat \ D : RewardsOn(d)' = RewardsOn(d),
           DOMAIN kills' = DOMAIN kills,
           \A k \in DOMAIN kills : KillEdited(kills'[k], kills[k]),
           \A k \in DOMAIN kills : kills[k].session # s => kills'[k] = kills[k],
           \A k \in Of(kills, s) : Day(kills[k].at) \in D,
           DOMAIN summary' = Session,
           \A z \in Session : summary'[z] # None =>
               /\ summary'[z] = summary[z]
               /\ z = s => \A k \in Of(kills, s) : kills'[k].mob = kills[k].mob,
           RecomputeCells(s)
    PROVE  ReadInv'
<1>1. StoredSound /\ RowsTyped
  BY DEF ReadInv
<1>2. /\ DOMAIN cells' = Session /\ \A z \in Session : z # s => cells'[z] = cells[z]
      /\ cells'[s] # None => Ended(s)' /\ StoredCells(s, cells[s])'
  BY <1>1, CellsRecomputed
<1>3. \A z \in Session : z # s => \A k \in Of(kills, z) : kills'[k] = kills[k]
  BY DEF Of
<1>4. \A z \in Session : summary'[z] # None =>
          /\ summary'[z] = summary[z]
          /\ \A k \in Of(kills, z) : kills'[k].mob = kills[k].mob
  BY <1>3
<1>5. \A z \in Session : cells'[z] # None =>
          \/ /\ cells'[z] = cells[z]
             /\ \A k \in Of(kills, z) : /\ kills'[k].total = kills[k].total
                                        /\ kills'[k].loot = kills[k].loot
                                        /\ kills'[k].off = kills[k].off
          \/ Ended(z)' /\ StoredCells(z, cells[z])'
  <2> TAKE z \in Session
  <2>1. CASE z = s
    BY <1>2, <2>1
  <2>2. CASE z # s
    BY <1>2, <1>3, <2>2
  <2> QED BY <2>1, <2>2
<1>6. \A k \in DOMAIN kills : kills'[k].total = kills[k].total \/ Day(kills[k].at) \in D
  BY DEF Of
<1>7. ledger' \subseteq Nat /\ \A d \in Nat \ D : d \in ledger' <=> d \in ledger
  BY <1>1 DEF RowsTyped
<1> QED BY <1>2, <1>4, <1>5, <1>6, <1>7, EditsKeep

\* An edit of its kills leaves a session the days it had.
LEMMA KillDays ==
    ASSUME RowsTyped, NEW s \in Session, Recorded(s), sess' = sess,
           gains' = gains, swings' = swings, DOMAIN kills' = DOMAIN kills,
           \A k \in DOMAIN kills : KillEdited(kills'[k], kills[k])
    PROVE  /\ SessionDays(s)' \in SUBSET Nat
           /\ \A k \in Of(kills, s) : Day(kills[k].at) \in SessionDays(s)'
<1>1. SessionDays(s) \in SUBSET Nat
  BY DaysAreNat
<1>2. Of(kills', s) = Of(kills, s) /\ \A k \in Of(kills, s) : kills'[k].at = kills[k].at
  BY DEF Of, KillEdited
<1>3. {Day(kills'[k].at) : k \in Of(kills', s)} = {Day(kills[k].at) : k \in Of(kills, s)}
  BY <1>2
<1>4. SessionDays(s)' = SessionDays(s)
  BY <1>3 DEF SessionDays, Recorded, Live, Ended, RefreshDays
<1>5. \A k \in Of(kills, s) : Day(kills[k].at) \in SessionDays(s)
  BY DEF SessionDays
<1> QED BY <1>1, <1>4, <1>5

LEMMA FlipKeeps ==
    ASSUME ReadInv, NEW s \in Session, NEW n, NEW off \in BOOLEAN, FlipLoot(s, n, off)
    PROVE  ReadInv'
<1>1. RowsTyped /\ StoredSound
  BY DEF ReadInv
<1> DEFINE flipped(k) == {i \in kills[k].loot : Name(i) = n /\ (i \in kills[k].off) # off}
           hit == {k \in Of(kills, s) : flipped(k) # {}}
<1>2. /\ Recorded(s) /\ edits' = edits + 1
      /\ kills' = [k \in DOMAIN kills |->
                 IF k \notin hit THEN kills[k]
                 ELSE [kills[k] EXCEPT
                         !.off = IF off THEN @ \union flipped(k) ELSE @ \ flipped(k),
                         !.total = IF off THEN @ - Cardinality(flipped(k))
                                          ELSE @ + Cardinality(flipped(k))]]
      /\ UNCHANGED <<now, sess, gains, swings, rewards, ledger, facts, heard, late>>
      /\ DropSummary(s) /\ RefreshDays(SessionDays(s)') /\ RecomputeCells(s)
  BY DEF FlipLoot, EditOf
<1>3. \A k \in DOMAIN kills : flipped(k) \subseteq kills[k].loot
  OBVIOUS
<1>4. DOMAIN kills' = DOMAIN kills
  BY <1>2
<1>5. ASSUME NEW k \in DOMAIN kills
      PROVE  /\ KillEdited(kills'[k], kills[k])
             /\ kills[k].session # s => kills'[k] = kills[k]
  <2>1. IsKill(kills[k]) /\ flipped(k) \subseteq kills[k].loot
    BY <1>1, <1>3 DEF RowsTyped
  <2>2. PICK F : F = flipped(k)
    OBVIOUS
  <2>3. PICK total : total = IF off THEN kills[k].total - Cardinality(F)
                                    ELSE kills[k].total + Cardinality(F)
    OBVIOUS
  <2> HIDE DEF flipped
  <2>4. kills'[k] = IF k \notin hit THEN kills[k]
                    ELSE [kills[k] EXCEPT !.off = IF off THEN @ \union F ELSE @ \ F,
                                          !.total = total]
    BY <1>2, <2>2, <2>3
  <2>5. k \in hit => kills[k].session = s
    BY DEF Of
  <2> HIDE DEF hit
  <2>6. CASE k \notin hit
    BY <2>1, <2>4, <2>6 DEF KillEdited
  <2>7. CASE k \in hit
    <3>1. PICK x : x = kills[k]
      OBVIOUS
    <3>2. PICK off2 : off2 = IF off THEN x.off \union F ELSE x.off \ F
      OBVIOUS
    <3>3. IsKill(x) /\ F \subseteq x.loot
      BY <2>1, <2>2, <3>1
    <3>4. kills'[k] = [x EXCEPT !.off = off2, !.total = total]
      BY <2>4, <2>7, <3>1, <3>2
    <3>5. off2 \subseteq x.loot
      BY <3>2, <3>3 DEF IsKill
    <3>6. kills'[k] = [session |-> x.session, at |-> x.at, loot |-> x.loot, off |-> off2,
                       total |-> total, mob |-> x.mob]
      BY <3>3, <3>4 DEF IsKill
    <3> QED BY <2>5, <2>7, <3>1, <3>3, <3>5, <3>6 DEF IsKill, KillEdited
  <2> QED BY <2>6, <2>7
<1> HIDE DEF flipped, hit
<1>6. PICK D : D = SessionDays(s)'
  OBVIOUS
<1>7. D \in SUBSET Nat /\ \A k \in Of(kills, s) : Day(kills[k].at) \in D
  BY <1>1, <1>2, <1>4, <1>5, <1>6, KillDays
<1>8. Rerolled(D)
  BY <1>2, <1>6, RefreshRerolls
<1>9. /\ DOMAIN summary' = Session
      /\ \A z \in Session : summary'[z] # None => summary'[z] = summary[z] /\ z # s
  BY <1>1, <1>2 DEF DropSummary, StoredSound
<1>10. /\ edits' \in Nat /\ edits <= edits' /\ DOMAIN rewards' \subseteq 1..edits'
       /\ \A r \in DOMAIN rewards' : IsReward(rewards'[r])
  <2>1. edits \in Nat /\ DOMAIN rewards \subseteq 1..edits /\ edits' = edits + 1
        /\ rewards' = rewards /\ \A r \in DOMAIN rewards : IsReward(rewards[r])
    BY <1>1, <1>2 DEF RowsTyped
  <2> QED BY <2>1
<1>11. \A d \in Nat \ D : RewardsOn(d)' = RewardsOn(d)
  BY <1>2 DEF RewardsOn
<1> QED BY <1>2, <1>4, <1>5, <1>7, <1>8, <1>9, <1>10, <1>11, SessionKillsKeep

LEMMA RenameKeeps ==
    ASSUME ReadInv, NEW s \in Session, NEW from, NEW to, RenameMob(s, from, to)
    PROVE  ReadInv'
<1>1. RowsTyped /\ StoredSound
  BY DEF ReadInv
<1>2. /\ edits' = edits + 1
      /\ kills' = [k \in DOMAIN kills |->
                   IF k \in Of(kills, s) /\ kills[k].mob = from
                   THEN [kills[k] EXCEPT !.mob = to] ELSE kills[k]]
      /\ UNCHANGED <<now, sess, gains, swings, rewards, ledger, facts, heard, late,
                     cells, days, watermark>>
      /\ DropSummary(s)
  BY DEF RenameMob, EditOf
<1>3. DOMAIN kills' = DOMAIN kills
  BY <1>2
<1>4. ASSUME NEW k \in DOMAIN kills
      PROVE  /\ KillEdited(kills'[k], kills[k]) /\ kills'[k].total = kills[k].total
             /\ kills'[k].loot = kills[k].loot /\ kills'[k].off = kills[k].off
             /\ kills[k].session # s => kills'[k].mob = kills[k].mob
  <2>1. IsKill(kills[k])
    BY <1>1 DEF RowsTyped
  <2>2. kills'[k] = kills[k] \/ (kills'[k] = [kills[k] EXCEPT !.mob = to] /\ kills[k].session = s)
    BY <1>2 DEF Of
  <2> QED BY <2>1, <2>2 DEF IsKill, KillEdited
<1>5. Rerolled({}) /\ {} \in SUBSET Nat
  BY <1>2, KeepRerolls
<1>6. /\ DOMAIN summary' = Session
      /\ \A z \in Session : summary'[z] # None => summary'[z] = summary[z] /\ z # s
  BY <1>1, <1>2 DEF DropSummary, StoredSound
<1>7. /\ edits' \in Nat /\ edits <= edits' /\ DOMAIN rewards' \subseteq 1..edits'
      /\ \A r \in DOMAIN rewards' : IsReward(rewards'[r])
      /\ ledger' \subseteq Nat /\ \A d \in Nat \ {} : d \in ledger' <=> d \in ledger
  BY <1>1, <1>2 DEF RowsTyped
<1>8. \A d \in Nat \ {} : RewardsOn(d)' = RewardsOn(d)
  BY <1>2 DEF RewardsOn
<1>9. \A z \in Session : z # s => \A k \in Of(kills, z) : kills'[k].mob = kills[k].mob
  BY <1>4 DEF Of
<1>10. \A z \in Session : \A k \in Of(kills, z) :
           /\ kills'[k].total = kills[k].total
           /\ kills'[k].loot = kills[k].loot /\ kills'[k].off = kills[k].off
  BY <1>4 DEF Of
<1>11. DOMAIN cells' = Session
  BY <1>1, <1>2 DEF StoredSound
<1> QED BY <1>2, <1>3, <1>4, <1>5, <1>6, <1>7, <1>8, <1>9, <1>10, <1>11, EditsKeep

\* A new row of the rewards is counted on its own day only.
LEMMA RewardAdded ==
    ASSUME RowsTyped, NEW row, IsReward(row), edits' = edits + 1,
           rewards' = WithRow(rewards, edits', row)
    PROVE  /\ edits' \in Nat /\ edits <= edits' /\ DOMAIN rewards' \subseteq 1..edits'
           /\ \A r \in DOMAIN rewards' : IsReward(rewards'[r])
           /\ \A d \in Nat : d # Day(row.at) => RewardsOn(d)' = RewardsOn(d)
<1>1. PICK i : i = edits'
  OBVIOUS
<1>2. edits \in Nat /\ i \in Nat /\ edits <= i /\ i \in 1..i /\ i \notin DOMAIN rewards
      /\ DOMAIN rewards \subseteq 1..i
  BY <1>1 DEF RowsTyped
<1>3. /\ DOMAIN rewards' = DOMAIN rewards \union {i} /\ rewards'[i] = row
      /\ \A r \in DOMAIN rewards : rewards'[r] = rewards[r]
  BY <1>1, <1>2 DEF WithRow
<1>4. \A r \in DOMAIN rewards' : IsReward(rewards'[r])
  BY <1>3 DEF RowsTyped
<1>5. \A d \in Nat : d # Day(row.at) => RewardsOn(d)' = RewardsOn(d)
  BY <1>3 DEF RewardsOn
<1>6. DOMAIN rewards' \subseteq 1..i
  BY <1>2, <1>3
<1> QED BY <1>1, <1>2, <1>4, <1>5, <1>6

LEMMA ClaimKeeps ==
    ASSUME ReadInv, NEW k \in DOMAIN kills, ClaimLoot(k)
    PROVE  ReadInv'
<1>1. RowsTyped /\ StoredSound
  BY DEF ReadInv
<1>2. PICK s \in Session : s = kills[k].session
  BY <1>1 DEF RowsTyped, IsKill
<1>3. PICK row : row = [kill |-> k, items |-> kills[k].loot, at |-> now, reversed |-> FALSE]
  OBVIOUS
<1>0. PICK E : E = SessionDays(s)'
  OBVIOUS
<1>4. PICK D : D = E \union {Day(now)}
  OBVIOUS
<1>5. /\ Live(s) /\ edits' = edits + 1
      /\ kills' = [kills EXCEPT ![k].off = kills[k].loot, ![k].total = 0]
      /\ rewards' = WithRow(rewards, edits', row)
      /\ UNCHANGED <<now, sess, gains, swings, ledger, facts, heard, late, summary>>
  BY <1>2, <1>3 DEF ClaimLoot, EditOf
<1>6. /\ DOMAIN kills' = DOMAIN kills /\ \A j \in DOMAIN kills : j # k => kills'[j] = kills[j]
      /\ kills'[k] = [kills[k] EXCEPT !.off = kills[k].loot, !.total = 0]
  BY <1>5
<1>16. kills'[k].session = s
  BY <1>1, <1>2, <1>6 DEF RowsTyped, IsKill
<1>17. RecomputeCells(s) /\ RefreshDays(D)
  <2>1. RecomputeCells(kills[k].session)
    BY DEF ClaimLoot
  <2>2. RecomputeCells(s)
    BY <1>2, <1>16, <2>1 DEF RecomputeCells
  <2>3. PICK F : F = SessionDays(kills[k].session)'
    OBVIOUS
  <2>4. RefreshDays(F \union {Day(now)})
    BY <2>3 DEF ClaimLoot
  <2>5. F = E
    BY <1>0, <1>16, <2>3 DEF RefreshDays
  <2> QED BY <1>4, <2>2, <2>4, <2>5
<1>7. ASSUME NEW j \in DOMAIN kills
      PROVE  /\ KillEdited(kills'[j], kills[j]) /\ kills'[j].mob = kills[j].mob
             /\ kills[j].session # s => kills'[j] = kills[j]
  <2>1. IsKill(kills[j])
    BY <1>1 DEF RowsTyped
  <2>2. CASE j = k
    BY <1>2, <1>6, <2>1, <2>2 DEF IsKill, KillEdited
  <2>3. CASE j # k
    BY <1>6, <2>1, <2>3 DEF KillEdited
  <2> QED BY <2>2, <2>3
<1>8. IsReward(row) /\ row.at = now /\ Day(now) \in Nat
  BY <1>1, <1>3, DayIsNat DEF RowsTyped, IsReward
<1>9. /\ edits' \in Nat /\ edits <= edits' /\ DOMAIN rewards' \subseteq 1..edits'
      /\ \A r \in DOMAIN rewards' : IsReward(rewards'[r])
      /\ \A d \in Nat : d # Day(row.at) => RewardsOn(d)' = RewardsOn(d)
  BY <1>1, <1>5, <1>8, RewardAdded
<1>10. D \in SUBSET Nat /\ \A j \in Of(kills, s) : Day(kills[j].at) \in D
  <2>1. Recorded(s)
    BY <1>5 DEF Recorded
  <2>2. E \in SUBSET Nat /\ \A j \in Of(kills, s) : Day(kills[j].at) \in E
    BY <1>0, <1>1, <1>5, <1>6, <1>7, <2>1, KillDays
  <2> QED BY <1>4, <1>8, <2>2
<1>11. Rerolled(D)
  BY <1>17, RefreshRerolls
<1>12. \A d \in Nat \ D : RewardsOn(d)' = RewardsOn(d)
  BY <1>4, <1>8, <1>9
<1>13. /\ DOMAIN summary' = Session
       /\ \A z \in Session : summary'[z] # None =>
              /\ summary'[z] = summary[z]
              /\ z = s => \A j \in Of(kills, s) : kills'[j].mob = kills[j].mob
  BY <1>1, <1>5, <1>7 DEF StoredSound, Of
<1> QED BY <1>5, <1>6, <1>7, <1>9, <1>10, <1>11, <1>12, <1>13, <1>17, SessionKillsKeep

LEMMA ReviewKeeps ==
    ASSUME ReadInv, NEW k \in DOMAIN kills, NEW i \in Item, ReviewReward(k, i)
    PROVE  ReadInv'
<1>1. RowsTyped /\ StoredSound
  BY DEF ReadInv
<1>2. PICK s \in Session : s = kills[k].session
  BY <1>1 DEF RowsTyped, IsKill
<1>3. PICK row : row = [kill |-> k, items |-> {i}, at |-> kills[k].at, reversed |-> FALSE]
  OBVIOUS
<1>0. PICK E : E = SessionDays(s)'
  OBVIOUS
<1>4. PICK D : D = E \union {Day(kills[k].at)}
  OBVIOUS
<1>5. PICK total : total = OrdinaryTotal(k) - 1
  OBVIOUS
<1>6. /\ i \in kills[k].loot /\ edits' = edits + 1
      /\ kills' = [kills EXCEPT ![k].off = @ \union {i}, ![k].total = total]
      /\ rewards' = WithRow(rewards, edits', row)
      /\ UNCHANGED <<now, sess, gains, swings, ledger, facts, heard, late, summary>>
  BY <1>2, <1>3, <1>5 DEF ReviewReward, EditOf, Active
<1>7. /\ DOMAIN kills' = DOMAIN kills /\ \A j \in DOMAIN kills : j # k => kills'[j] = kills[j]
      /\ kills'[k] = [kills[k] EXCEPT !.off = @ \union {i}, !.total = total]
  BY <1>6
<1>16. kills'[k].session = s /\ kills'[k].at = kills[k].at
  BY <1>1, <1>2, <1>7 DEF RowsTyped, IsKill
<1>17. RecomputeCells(s) /\ RefreshDays(D)
  <2>1. RecomputeCells(kills[k].session)
    BY DEF ReviewReward
  <2>2. RecomputeCells(s)
    BY <1>2, <1>16, <2>1 DEF RecomputeCells
  <2>3. PICK F : F = SessionDays(kills[k].session)'
    OBVIOUS
  <2>4. RefreshDays(F \union {Day(kills[k].at)})
    BY <2>3 DEF ReviewReward
  <2>5. F = E
    BY <1>0, <1>16, <2>3 DEF RefreshDays
  <2>6. D = F \union {Day(kills[k].at)}
    BY <1>4, <2>5
  <2>7. PICK G : G = F \union {Day(kills[k].at)}
    OBVIOUS
  <2>8. RefreshDays(G)
    BY <1>16, <2>4, <2>7 DEF RefreshDays
  <2> QED BY <2>2, <2>6, <2>7, <2>8
<1>8. ASSUME NEW j \in DOMAIN kills
      PROVE  /\ KillEdited(kills'[j], kills[j]) /\ kills'[j].mob = kills[j].mob
             /\ kills[j].session # s => kills'[j] = kills[j]
  <2>1. IsKill(kills[j])
    BY <1>1 DEF RowsTyped
  <2>2. CASE j = k
    BY <1>2, <1>6, <1>7, <2>1, <2>2 DEF IsKill, KillEdited
  <2>3. CASE j # k
    BY <1>7, <2>1, <2>3 DEF KillEdited
  <2> QED BY <2>2, <2>3
<1>9. IsReward(row) /\ row.at = kills[k].at /\ Day(kills[k].at) \in Nat
  BY <1>1, <1>3, DayIsNat DEF RowsTyped, IsReward, IsKill
<1>10. /\ edits' \in Nat /\ edits <= edits' /\ DOMAIN rewards' \subseteq 1..edits'
       /\ \A r \in DOMAIN rewards' : IsReward(rewards'[r])
       /\ \A d \in Nat : d # Day(row.at) => RewardsOn(d)' = RewardsOn(d)
  BY <1>1, <1>6, <1>9, RewardAdded
<1>11. D \in SUBSET Nat /\ \A j \in Of(kills, s) : Day(kills[j].at) \in D
  <2>1. Recorded(s)
    BY <1>1, <1>2 DEF RowsTyped
  <2>2. E \in SUBSET Nat /\ \A j \in Of(kills, s) : Day(kills[j].at) \in E
    BY <1>0, <1>1, <1>6, <1>7, <1>8, <2>1, KillDays
  <2> QED BY <1>4, <1>9, <2>2
<1>12. Rerolled(D)
  BY <1>17, RefreshRerolls
<1>13. \A d \in Nat \ D : RewardsOn(d)' = RewardsOn(d)
  BY <1>4, <1>9, <1>10
<1>14. /\ DOMAIN summary' = Session
       /\ \A z \in Session : summary'[z] # None =>
              /\ summary'[z] = summary[z]
              /\ z = s => \A j \in Of(kills, s) : kills'[j].mob = kills[j].mob
  BY <1>1, <1>6, <1>8 DEF StoredSound, Of
<1> QED BY <1>6, <1>7, <1>8, <1>10, <1>11, <1>12, <1>13, <1>14, <1>17, SessionKillsKeep

LEMMA UndoKeeps == ASSUME ReadInv, NEW r \in DOMAIN rewards, UndoReward(r) PROVE ReadInv'
<1>1. RowsTyped /\ StoredSound
  BY DEF ReadInv
<1>2. PICK k : k = rewards[r].kill
  OBVIOUS
<1>3. PICK moments : moments = {Day(rewards[r].at), Day(now)}
  OBVIOUS
<1>4. /\ edits' = edits + 1
      /\ rewards' = [rewards EXCEPT ![r].reversed = TRUE]
      /\ UNCHANGED <<now, sess, gains, swings, ledger, facts, heard, late, summary>>
  BY DEF UndoReward, EditOf
<1>5. /\ edits' \in Nat /\ edits <= edits' /\ DOMAIN rewards' \subseteq 1..edits'
      /\ \A q \in DOMAIN rewards' : IsReward(rewards'[q])
      /\ \A d \in Nat : d # Day(rewards[r].at) => RewardsOn(d)' = RewardsOn(d)
  <2>1. /\ DOMAIN rewards' = DOMAIN rewards
        /\ \A q \in DOMAIN rewards : q # r => rewards'[q] = rewards[q]
        /\ rewards'[r] = [rewards[r] EXCEPT !.reversed = TRUE]
    BY <1>4
  <2>2. \A q \in DOMAIN rewards : IsReward(rewards[q])
    BY <1>1 DEF RowsTyped
  <2>3. IsReward(rewards'[r]) /\ rewards'[r].at = rewards[r].at
    BY <2>1, <2>2 DEF IsReward
  <2>4. \A d \in Nat : d # Day(rewards[r].at) => RewardsOn(d)' = RewardsOn(d)
    BY <2>1, <2>3 DEF RewardsOn
  <2>5. edits \in Nat /\ DOMAIN rewards \subseteq 1..edits
    BY <1>1 DEF RowsTyped
  <2> QED BY <1>4, <2>1, <2>2, <2>3, <2>4, <2>5
<1>6. Day(rewards[r].at) \in Nat /\ Day(now) \in Nat
  BY <1>1, DayIsNat DEF RowsTyped, IsReward
<1>7. DOMAIN summary' = Session /\ \A z \in Session : summary'[z] = summary[z]
  BY <1>1, <1>4 DEF StoredSound
<1>8. CASE k \notin DOMAIN kills
  <2>1. UNCHANGED <<kills, cells>> /\ RefreshDays(moments)
    BY <1>2, <1>3, <1>8 DEF UndoReward
  <2>2. Rerolled(moments) /\ moments \in SUBSET Nat
    BY <1>3, <1>6, <2>1, RefreshRerolls
  <2>3. \A d \in Nat \ moments : RewardsOn(d)' = RewardsOn(d)
    BY <1>3, <1>5
  <2>4. \A j \in DOMAIN kills : KillEdited(kills'[j], kills[j])
    BY <1>1, <2>1 DEF RowsTyped, KillEdited
  <2>5. ledger' \subseteq Nat /\ DOMAIN cells' = Session
    BY <1>1, <1>4, <2>1 DEF RowsTyped, StoredSound
  <2> QED BY <1>4, <1>5, <1>7, <2>1, <2>2, <2>3, <2>4, <2>5, EditsKeep
<1>9. CASE k \in DOMAIN kills
  <2>1. PICK s \in Session : s = kills[k].session
    BY <1>1, <1>9 DEF RowsTyped, IsKill
  <2>2. PICK total : total = Cardinality((Active(k) \union rewards[r].items) \ {"rebate"})
    OBVIOUS
  <2>0. PICK E : E = SessionDays(s)'
    OBVIOUS
  <2>3. PICK D : D = E \union moments
    OBVIOUS
  <2>4. kills' = [kills EXCEPT ![k].off = @ \ rewards[r].items, ![k].total = total]
    BY <1>2, <1>9, <2>2 DEF UndoReward
  <2>5. /\ DOMAIN kills' = DOMAIN kills /\ \A j \in DOMAIN kills : j # k => kills'[j] = kills[j]
        /\ kills'[k] = [kills[k] EXCEPT !.off = @ \ rewards[r].items, !.total = total]
    BY <1>9, <2>4
  <2>16. kills'[k].session = s
    BY <1>1, <1>9, <2>1, <2>5 DEF RowsTyped, IsKill
  <2>19. rewards'[r].kill = k
    BY <1>1, <1>2, <1>4 DEF RowsTyped, IsReward
  <2>17. RecomputeCells(s) /\ RefreshDays(D)
    <3>1. RecomputeCells(kills[rewards[r].kill].session)
      BY <1>2, <1>9 DEF UndoReward
    <3>2. RecomputeCells(s)
      BY <1>2, <2>1, <2>16, <2>19, <3>1 DEF RecomputeCells
    <3>3. PICK F : F = SessionDays(kills[rewards[r].kill].session)'
      OBVIOUS
    <3>4. RefreshDays(F \union moments)
      BY <1>2, <1>3, <1>9, <3>3 DEF UndoReward
    <3>5. F = E
      BY <2>0, <2>16, <2>19, <3>3 DEF RefreshDays
    <3> QED BY <2>3, <3>2, <3>4, <3>5
  <2>6. ASSUME NEW j \in DOMAIN kills
        PROVE  /\ KillEdited(kills'[j], kills[j]) /\ kills'[j].mob = kills[j].mob
               /\ kills[j].session # s => kills'[j] = kills[j]
    <3>1. IsKill(kills[j])
      BY <1>1 DEF RowsTyped
    <3>2. CASE j = k
      BY <2>1, <2>5, <3>1, <3>2 DEF IsKill, KillEdited
    <3>3. CASE j # k
      BY <2>5, <3>1, <3>3 DEF KillEdited
    <3> QED BY <3>2, <3>3
  <2>7. D \in SUBSET Nat /\ \A j \in Of(kills, s) : Day(kills[j].at) \in D
    <3>1. Recorded(s)
      BY <1>1, <1>9, <2>1 DEF RowsTyped
    <3>2. E \in SUBSET Nat /\ \A j \in Of(kills, s) : Day(kills[j].at) \in E
      BY <1>1, <1>4, <2>0, <2>5, <2>6, <3>1, KillDays
    <3> QED BY <1>3, <1>6, <2>3, <3>2
  <2>8. Rerolled(D)
    BY <2>17, RefreshRerolls
  <2>9. \A d \in Nat \ D : RewardsOn(d)' = RewardsOn(d)
    BY <1>3, <1>5, <2>3
  <2>10. \A z \in Session : summary'[z] # None =>
            /\ summary'[z] = summary[z]
            /\ z = s => \A j \in Of(kills, s) : kills'[j].mob = kills[j].mob
    BY <1>7, <2>6 DEF Of
  <2> QED BY <1>4, <1>5, <1>7, <2>5, <2>6, <2>7, <2>8, <2>9, <2>10, <2>17, SessionKillsKeep
<1> QED BY <1>8, <1>9

LEMMA OutsideKeeps == ASSUME ReadInv, RewardOutside PROVE ReadInv'
<1>1. RowsTyped /\ StoredSound
  BY DEF ReadInv
<1>2. PICK row : row = [kill |-> 0, items |-> {}, at |-> now, reversed |-> FALSE]
  OBVIOUS
<1>3. PICK D : D = {Day(now)}
  OBVIOUS
<1>4. /\ edits' = edits + 1 /\ rewards' = WithRow(rewards, edits', row)
      /\ UNCHANGED <<now, sess, kills, gains, swings, ledger, facts, heard, late, summary, cells>>
      /\ RefreshDays(D)
  BY <1>2, <1>3 DEF RewardOutside, EditOf
<1>5. IsReward(row) /\ row.at = now /\ Day(now) \in Nat
  BY <1>1, <1>2, DayIsNat DEF RowsTyped, IsReward
<1>6. /\ edits' \in Nat /\ edits <= edits' /\ DOMAIN rewards' \subseteq 1..edits'
      /\ \A r \in DOMAIN rewards' : IsReward(rewards'[r])
      /\ \A d \in Nat : d # Day(row.at) => RewardsOn(d)' = RewardsOn(d)
  BY <1>1, <1>4, <1>5, RewardAdded
<1>7. Rerolled(D) /\ D \in SUBSET Nat
  BY <1>3, <1>4, <1>5, RefreshRerolls
<1>8. \A d \in Nat \ D : RewardsOn(d)' = RewardsOn(d)
  BY <1>3, <1>5, <1>6
<1>9. \A j \in DOMAIN kills : KillEdited(kills'[j], kills[j])
  BY <1>1, <1>4 DEF RowsTyped, KillEdited
<1>10. ledger' \subseteq Nat /\ DOMAIN cells' = Session /\ DOMAIN summary' = Session
  BY <1>1, <1>4 DEF RowsTyped, StoredSound
<1> QED BY <1>4, <1>6, <1>7, <1>8, <1>9, <1>10, EditsKeep

LEMMA LedgerKeeps == ASSUME ReadInv, NEW d \in Ledger, BookLedger(d) PROVE ReadInv'
<1>1. RowsTyped /\ StoredSound
  BY DEF ReadInv
<1>2. d \in Nat
  BY ReadBounds
<1>3. PICK D : D = {d}
  OBVIOUS
<1>4. /\ edits' = edits + 1
      /\ ledger' = IF d \in ledger THEN ledger \ {d} ELSE ledger \union {d}
      /\ UNCHANGED <<now, sess, kills, gains, swings, rewards, facts, heard, late, summary, cells>>
      /\ RefreshDays(D)
  BY <1>3 DEF BookLedger, EditOf
<1>5. /\ edits' \in Nat /\ edits <= edits' /\ DOMAIN rewards' \subseteq 1..edits'
      /\ \A r \in DOMAIN rewards' : IsReward(rewards'[r])
  BY <1>1, <1>4 DEF RowsTyped
<1>6. Rerolled(D) /\ D \in SUBSET Nat
  BY <1>2, <1>3, <1>4, RefreshRerolls
<1>7. \A e \in Nat \ D : RewardsOn(e)' = RewardsOn(e)
  BY <1>4 DEF RewardsOn
<1>8. \A j \in DOMAIN kills : KillEdited(kills'[j], kills[j])
  BY <1>1, <1>4 DEF RowsTyped, KillEdited
<1>9. /\ ledger' \subseteq Nat /\ DOMAIN cells' = Session /\ DOMAIN summary' = Session
      /\ \A e \in Nat \ D : e \in ledger' <=> e \in ledger
  BY <1>1, <1>2, <1>3, <1>4 DEF RowsTyped, StoredSound
<1> QED BY <1>4, <1>5, <1>6, <1>7, <1>8, <1>9, EditsKeep

LEMMA DeleteKeeps == ASSUME ReadInv, NEW s \in Session, DeleteSession(s) PROVE ReadInv'
<1>1. RowsTyped /\ StoredSound /\ RolledSound /\ RolledCovered
  BY DEF ReadInv
<1>2. PICK new : new = [sess[s] EXCEPT !.status = "deleted"]
  OBVIOUS
<1>3. PICK D : D = DeletedDays(s)
  OBVIOUS
<1>4. /\ Ended(s) /\ edits' = edits + 1 /\ sess' = [sess EXCEPT ![s] = new]
      /\ kills' = WithoutRows(kills, Of(kills, s))
      /\ gains' = WithoutRows(gains, Of(gains, s))
      /\ UNCHANGED <<now, swings, rewards, ledger, facts, heard, late>>
      /\ DropSummary(s) /\ cells' = [cells EXCEPT ![s] = None]
      /\ RefreshDays(D)
  BY <1>2, <1>3 DEF DeleteSession, EditOf
<1>5. IsSession(new) /\ new.start = sess[s].start /\ new.status = "deleted"
  BY <1>1, <1>2 DEF RowsTyped, IsSession
<1>6. /\ DOMAIN sess' = Session /\ sess'[s] = new
      /\ \A z \in Session : z # s => sess'[z] = sess[z]
  BY <1>1, <1>4 DEF RowsTyped
<1>7. /\ \A z \in Session : z # s => /\ Recorded(z)' <=> Recorded(z)
                                     /\ Live(z)' <=> Live(z)
                                     /\ Ended(z)' <=> Ended(z)
      /\ ~Recorded(s)' /\ ~Live(s)' /\ ~Live(s) /\ Recorded(s)
      /\ \A z \in Session : sess'[z].start = sess[z].start
  BY <1>4, <1>5, <1>6 DEF Recorded, Live, Ended
<1>8. /\ \A k : k \in DOMAIN kills' <=> k \in DOMAIN kills /\ kills[k].session # s
      /\ \A k \in DOMAIN kills' : kills'[k] = kills[k]
  BY <1>4 DEF WithoutRows, Of
<1>9. /\ \A g : g \in DOMAIN gains' <=> g \in DOMAIN gains /\ gains[g].session # s
      /\ \A g \in DOMAIN gains' : gains'[g] = gains[g]
  BY <1>4 DEF WithoutRows, Of
<1>10. RowsTyped'
  <2>1. \A z \in Session : IsSession(sess'[z]) /\ sess'[z].start <= now
    BY <1>1, <1>5, <1>6 DEF RowsTyped
  <2>2. \A k \in DOMAIN kills' : /\ IsKill(kills'[k]) /\ Recorded(kills[k].session)'
                                 /\ sess'[kills'[k].session].start <= kills'[k].at
                                 /\ kills'[k].at <= now
    <3> TAKE k \in DOMAIN kills'
    <3>1. k \in DOMAIN kills /\ kills'[k] = kills[k] /\ kills[k].session # s
      BY <1>8
    <3>2. PICK z \in Session : z = kills[k].session
      BY <1>1, <3>1 DEF RowsTyped, IsKill
    <3>3. /\ IsKill(kills[k]) /\ Recorded(z) /\ sess[z].start <= kills[k].at
          /\ kills[k].at <= now
      BY <1>1, <3>1, <3>2 DEF RowsTyped
    <3>4. Recorded(z)' /\ sess'[z] = sess[z]
      BY <1>6, <1>7, <3>1, <3>2, <3>3
    <3> QED BY <3>1, <3>2, <3>3, <3>4 DEF Recorded, Live, Ended
  <2>3. \A g \in DOMAIN gains' : /\ IsEvent(gains'[g])
                                 /\ g \notin late => /\ Recorded(gains[g].session)'
                                                     /\ sess'[gains'[g].session].start <= gains'[g].at
    <3> TAKE g \in DOMAIN gains'
    <3>1. g \in DOMAIN gains /\ gains'[g] = gains[g] /\ gains[g].session # s
      BY <1>9
    <3>2. PICK z \in Session : z = gains[g].session
      BY <1>1, <3>1 DEF RowsTyped, IsEvent
    <3>3. IsEvent(gains[g]) /\ (g \notin late => Recorded(z) /\ sess[z].start <= gains[g].at)
      BY <1>1, <3>1, <3>2 DEF RowsTyped
    <3>4. (Recorded(z)' <=> Recorded(z)) /\ sess'[z] = sess[z]
      BY <1>6, <1>7, <3>1, <3>2
    <3> QED BY <3>1, <3>2, <3>3, <3>4 DEF Recorded, Live, Ended
  <2>4. heard # None => /\ IsEvent(heard) /\ sess'[heard.session].status # "none"
                        /\ sess'[heard.session].start <= heard.at
    BY <1>1, <1>5, <1>6 DEF RowsTyped, IsEvent
  <2>5. /\ edits' \in Nat /\ DOMAIN rewards \subseteq 1..edits'
        /\ DOMAIN kills' \subseteq 1..facts /\ DOMAIN gains' \subseteq 1..facts
    BY <1>1, <1>4, <1>8, <1>9 DEF RowsTyped
  <2> QED BY <1>1, <1>4, <1>6, <2>1, <2>2, <2>3, <2>4, <2>5 DEF RowsTyped
<1>11. ASSUME NEW z \in Session, z # s
       PROVE  /\ Of(kills', z) = Of(kills, z) /\ Of(gains', z) = Of(gains, z)
              /\ \A k \in Of(kills, z) : kills'[k] = kills[k]
              /\ \A g \in Of(gains, z) : gains'[g] = gains[g]
  BY <1>8, <1>9, <1>11 DEF Of
<1>12. StoredSound'
  <2>1. \A z \in Session : z # s => SummarySame(z) /\ CellsSame(z)
    BY <1>4, <1>6, <1>11 DEF SummarySame, CellsSame
  <2>2. /\ DOMAIN summary' = Session /\ DOMAIN cells' = Session
        /\ summary'[s] = None /\ cells'[s] = None
        /\ \A z \in Session : z # s => summary'[z] = summary[z] /\ cells'[z] = cells[z]
    BY <1>1, <1>4 DEF StoredSound, DropSummary
  <2>3. \A z \in Session : summary'[z] # None =>
            /\ Ended(z)'
            /\ (summary'[z] = summary[z] /\ SummarySame(z)) \/ StoredSummary(z, summary[z])'
    BY <1>1, <1>7, <2>1, <2>2 DEF StoredSound
  <2>4. \A z \in Session : cells'[z] # None =>
            /\ Ended(z)'
            /\ (cells'[z] = cells[z] /\ CellsSame(z)) \/ StoredCells(z, cells[z])'
    BY <1>1, <1>7, <2>1, <2>2 DEF StoredSound
  <2> QED BY <1>1, <1>4, <2>2, <2>3, <2>4, StoredMoves
<1>13. D \in SUBSET Nat
  <2>1. \A k \in DOMAIN kills : Day(kills[k].at) \in Nat
    BY <1>1, DayIsNat DEF RowsTyped, IsKill
  <2>2. \A g \in DOMAIN gains : Day(gains[g].at) \in Nat
    BY <1>1, DayIsNat DEF RowsTyped, IsEvent
  <2>3. Day(sess[s].start) \in Nat /\ Day(sess[s].end) \in Nat
    BY <1>1, DayIsNat DEF RowsTyped, IsSession
  <2> QED BY <1>3, <2>1, <2>2, <2>3 DEF DeletedDays, Of
<1>14. /\ Day(sess[s].start) \in D
       /\ \A k \in DOMAIN kills : kills[k].session = s => Day(kills[k].at) \in D
       /\ \A g \in DOMAIN gains : gains[g].session = s => Day(gains[g].at) \in D
  BY <1>3 DEF DeletedDays, Of
<1>15. ASSUME NEW d \in Nat \ D PROVE Busy(d)' \/ (~Busy(d) /\ DaySame(d))
  <2>1. CASE Busy(d)
    <3>1. PICK z \in Session : Live(z) /\ d \in SessionDays(z)
      BY <2>1 DEF Busy
    <3>2. z # s /\ Live(z)' /\ sess'[z].start = sess[z].start
      BY <1>7, <3>1
    <3>3. \A k \in DOMAIN kills : kills[k].session = z => k \in DOMAIN kills' /\ kills'[k] = kills[k]
      BY <1>8, <3>2
    <3>4. \A g \in DOMAIN gains : gains[g].session = z => g \in DOMAIN gains' /\ gains'[g] = gains[g]
      BY <1>9, <3>2
    <3>5. d \in SessionDays(z)'
      <4>1. CASE d = Day(sess[z].start)
        BY <3>2, <4>1, LiveIsBusyNext
      <4>2. CASE \E k \in DOMAIN kills : kills[k].session = z /\ Day(kills[k].at) = d
        BY <3>2, <3>3, <4>2, LiveIsBusyNext
      <4>3. CASE \E g \in DOMAIN gains : gains[g].session = z /\ Day(gains[g].at) = d
        BY <3>2, <3>4, <4>3, LiveIsBusyNext
      <4>4. CASE \E h \in DOMAIN swings : swings[h].session = z /\ Day(swings[h].at) = d
        BY <1>4, <3>2, <4>4, LiveIsBusyNext
      <4> QED BY <3>1, <4>1, <4>2, <4>3, <4>4, LiveIsBusy
    <3> QED BY <3>2, <3>5 DEF Busy
  <2>2. CASE ~Busy(d)
    <3>1. On(kills', d) = On(kills, d)
      BY <1>8, <1>14 DEF On
    <3>2. \A k \in On(kills, d) : kills'[k].total = kills[k].total
      BY <1>8, <3>1 DEF On
    <3>3. On(gains', d) = On(gains, d)
      BY <1>9, <1>14 DEF On
    <3>4. SessionsOn(d)' = SessionsOn(d)
      <4>1. {z \in Session : Recorded(z)' /\ Day(sess'[z].start) = d}
              = {z \in Session : Recorded(z) /\ Day(sess[z].start) = d}
        BY <1>7, <1>14
      <4>2. \A z \in {y \in Session : Recorded(y) /\ Day(sess[y].start) = d} : sess'[z] = sess[z]
        BY <1>6, <1>14
      <4> QED BY <4>1, <4>2 DEF SessionsOn
    <3>5. RewardsOn(d)' = RewardsOn(d)
      BY <1>4 DEF RewardsOn
    <3> QED BY <1>4, <2>2, <3>1, <3>2, <3>3, <3>4, <3>5 DEF DaySame
  <2> QED BY <2>1, <2>2
<1>16. Rerolled(D)
  BY <1>4, RefreshRerolls
<1>17. RolledSound'
  <2>1. now \in Nat /\ now <= now
    BY <1>1 DEF RowsTyped
  <2>2. \A z \in Session : Recorded(z) =>
            (Recorded(z)' /\ sess'[z].start = sess[z].start) \/ Day(sess[z].start) \in D
    BY <1>7, <1>14
  <2>3. RowsStay(D)
    BY <1>8, <1>9, <1>14 DEF RowsStay
  <2> QED BY <1>1, <1>4, <1>13, <1>15, <1>16, <2>1, <2>2, <2>3, RolledMoves
<1>18. RolledCovered'
  <2>1. \A d : Covered(d) => Covered(d)'
    BY <1>16 DEF Covered, Rerolled
  <2>2. watermark' = watermark
    BY <1>16 DEF Rerolled
  <2>3. \A z \in Session : Recorded(z)' => Recorded(z) /\ sess'[z].start = sess[z].start
    BY <1>7
  <2> QED BY <1>1, <1>4, <2>1, <2>2, <2>3 DEF RolledCovered
<1> QED BY <1>10, <1>12, <1>17, <1>18 DEF ReadInv

-----------------------------------------------------------------------------
(* Healing and rebuilding.                                                 *)

\* A heal changes no raw row.
LEMMA RawStands ==
    ASSUME RowsTyped, UNCHANGED <<raw, history>>
    PROVE  /\ RowsTyped'
           /\ \A z \in Session : SummarySame(z) /\ CellsSame(z) /\ SummaryOf(z)' = SummaryOf(z)
                                 /\ RawCells(z)' = RawCells(z)
           /\ \A z \in Session : /\ Live(z)' <=> Live(z)
                                 /\ Ended(z)' <=> Ended(z)
                                 /\ Recorded(z)' <=> Recorded(z)
           /\ \A d : (Busy(d) => Busy(d)') /\ DaySame(d)
<1>1. UNCHANGED <<now, sess, kills, gains, swings, rewards, ledger, facts, edits, heard, late>>
  BY DEF raw, history
<1>2. RowsTyped'
  BY <1>1 DEF RowsTyped, Recorded, Live, Ended
<1>3. \A z \in Session : SummarySame(z) /\ CellsSame(z)
  BY <1>1 DEF SummarySame, CellsSame
<1>4. \A z \in Session : SummaryOf(z)' = SummaryOf(z) /\ RawCells(z)' = RawCells(z)
  BY <1>1 DEF SummaryOf, RawCells, Ended, Active
<1>5. \A z \in Session : /\ Live(z)' <=> Live(z)
                         /\ Ended(z)' <=> Ended(z)
                         /\ Recorded(z)' <=> Recorded(z)
  BY <1>1 DEF Recorded, Live, Ended
<1>6. Grown
  BY <1>1 DEF Grown, Live
<1>7. \A d : Busy(d) => Busy(d)'
  BY <1>6, BusyGrows
<1>8. \A d : DaySame(d)
  <2> TAKE d
  <2>1. SessionsOn(d)' = SessionsOn(d) /\ RewardsOn(d)' = RewardsOn(d)
    BY <1>1 DEF SessionsOn, RewardsOn, Recorded, Live, Ended
  <2> QED BY <1>1, <2>1 DEF DaySame
<1> QED BY <1>2, <1>3, <1>4, <1>5, <1>7, <1>8

LEMMA RolledStand ==
    ASSUME RowsTyped, RolledSound, RolledCovered, UNCHANGED <<days, watermark>>,
           UNCHANGED <<now, sess, kills, gains, swings, rewards, ledger, late>>,
           \A d : (Busy(d) => Busy(d)') /\ DaySame(d)
    PROVE  RolledSound' /\ RolledCovered'
<1>1. Rerolled({})
  BY KeepRerolls
<1>2. now \in Nat /\ now <= now
  BY DEF RowsTyped
<1>3. \A z \in Session : Recorded(z) => Recorded(z)' /\ sess'[z].start = sess[z].start
  BY DEF Recorded, Live, Ended
<1>4. RolledSound'
  <2>1. RowsStay({})
    BY DEF RowsStay
  <2> QED BY <1>1, <1>2, <1>3, <2>1, RolledMoves
<1>5. RolledCovered'
  BY DEF RolledCovered, Covered, Recorded, Live, Ended
<1> QED BY <1>4, <1>5

\* Where the first walk starts: before every day with data.
LEMMA FirstWalk ==
    ASSUME RowsTyped, Day(now) > 0
    PROVE  /\ WalkFrom(NoWatermark) \in Int /\ NoWatermark <= WalkFrom(NoWatermark)
           /\ \A d \in DataDays : WalkFrom(NoWatermark) < d
<1>1. DataDays \in SUBSET Nat
  <2>1. \A k \in DOMAIN kills : Day(kills[k].at) \in Nat
    BY DayIsNat DEF RowsTyped, IsKill
  <2>2. \A g \in DOMAIN gains : Day(gains[g].at) \in Nat
    BY DayIsNat DEF RowsTyped, IsEvent
  <2>3. \A h \in DOMAIN swings : Day(swings[h].at) \in Nat
    BY DayIsNat DEF RowsTyped, IsEvent
  <2>4. \A z \in Session : Day(sess[z].start) \in Nat
    BY DayIsNat DEF RowsTyped, IsSession
  <2>5. ledger \subseteq Nat
    BY DEF RowsTyped
  <2> QED BY <2>1, <2>2, <2>3, <2>4, <2>5 DEF DataDays
<1>2. Day(now) \in Nat
  BY DayIsNat DEF RowsTyped
<1>3. CASE DataDays = {}
  BY <1>2, <1>3 DEF WalkFrom, NoWatermark
<1>4. CASE DataDays # {}
  <2>1. PICK least \in DataDays : \A y \in DataDays : least <= y
    BY <1>1, <1>4, LeastExists
  <2>2. Least(DataDays) \in DataDays /\ \A y \in DataDays : Least(DataDays) <= y
    BY <2>1 DEF Least
  <2>3. PICK m \in Nat : m = Least(DataDays)
    BY <1>1, <2>2
  <2>4. WalkFrom(NoWatermark) = IF m - 1 < Day(now) - 1 THEN m - 1 ELSE Day(now) - 1
    BY <1>4, <2>3 DEF WalkFrom
  <2> QED BY <1>1, <1>2, <2>2, <2>3, <2>4 DEF NoWatermark
<1> QED BY <1>3, <1>4

\* A walk rolls every day up to yesterday, and leaves no day with data out.
LEMMA HealRollupsKeeps == ASSUME ReadInv, HealRollups PROVE ReadInv'
<1>1. RowsTyped /\ StoredSound /\ RolledSound /\ RolledCovered
  BY DEF ReadInv
<1>2. PICK crossed : crossed = WalkFrom(watermark) + 1 .. Day(now) - 1
  OBVIOUS
<1>3. /\ Day(now) > 0 /\ watermark' = Day(now) - 1
      /\ watermark < Day(now) - 1 \/ watermark = NoWatermark
      /\ days' = [d \in DOMAIN days \union crossed |->
                      IF d \in crossed THEN RawDay(d) ELSE days[d]]
      /\ UNCHANGED <<raw, history>> /\ UNCHANGED <<summary, cells>>
  BY <1>2 DEF HealRollups
<1>4. UNCHANGED <<now, sess, kills, gains, swings, rewards, ledger, late>>
  BY <1>3 DEF raw, history
<1>5. /\ RowsTyped'
      /\ \A z \in Session : SummarySame(z) /\ CellsSame(z)
      /\ \A z \in Session : /\ Live(z)' <=> Live(z)
                            /\ Ended(z)' <=> Ended(z)
                            /\ Recorded(z)' <=> Recorded(z)
      /\ \A d : (Busy(d) => Busy(d)') /\ DaySame(d)
  BY <1>1, <1>3, RawStands
<1>6. Day(now) \in Nat /\ watermark \in Int /\ NoWatermark <= watermark
      /\ DOMAIN days \subseteq 0..watermark
  BY <1>1, DayIsNat DEF RowsTyped, RolledSound
<1>7. /\ WalkFrom(watermark) \in Int /\ NoWatermark <= WalkFrom(watermark)
      /\ watermark # NoWatermark => WalkFrom(watermark) = watermark
      /\ watermark = NoWatermark => \A d \in DataDays : WalkFrom(watermark) < d
  <2>1. CASE watermark = NoWatermark
    BY <1>1, <1>3, <2>1, FirstWalk
  <2>2. CASE watermark # NoWatermark
    BY <1>6, <2>2 DEF WalkFrom
  <2> QED BY <2>1, <2>2
<1>8. PICK from \in Int : from = WalkFrom(watermark)
  BY <1>7
<1>9. crossed = from + 1 .. Day(now) - 1 /\ crossed \subseteq 0..Day(now) - 1
  BY <1>2, <1>6, <1>7, <1>8 DEF NoWatermark
<1>10. StoredSound'
  BY <1>1, <1>3, <1>4, <1>5, StoredMoves DEF StoredSound
<1>11. RolledSound'
  <2>1. watermark' \in Int /\ NoWatermark <= watermark' /\ watermark' < Day(now)
    BY <1>3, <1>6 DEF NoWatermark
  <2>2. DOMAIN days' \subseteq 0..watermark'
    <3>1. 0..watermark \subseteq 0..Day(now) - 1
      BY <1>3, <1>6 DEF NoWatermark
    <3> QED BY <1>3, <1>6, <1>9, <3>1
  <2>3. ASSUME NEW d \in DOMAIN days'
        PROVE  IsDay(d, days[d])' /\ (Busy(d)' \/ DayAgrees(days'[d], RawDay(d)', late'))
    <3>1. CASE d \in crossed
      <4>1. days'[d] = RawDay(d)
        BY <1>3, <3>1
      <4>2. PICK x : x = RawDay(d)
        OBVIOUS
      <4>3. DayAgrees(x, RawDay(d), late) /\ IsDay(d, x)
        BY <4>2, RawDayIsDay DEF DayAgrees
      <4>4. DayAgrees(x, RawDay(d)', late')
        BY <1>4, <1>5, <4>3, DayStands
      <4>5. IsDay(d, x)'
        BY <1>4, <4>3 DEF IsDay, Recorded, Live, Ended
      <4>6. IsDay(d, days[d])'
        BY <4>1, <4>2, <4>5 DEF IsDay
      <4> QED BY <4>1, <4>2, <4>4, <4>6
    <3>2. CASE d \notin crossed
      <4>1. d \in DOMAIN days /\ days'[d] = days[d]
        BY <1>3, <3>2
      <4>2. PICK x : x = days[d]
        OBVIOUS
      <4>3. (Busy(d) \/ DayAgrees(x, RawDay(d), late)) /\ IsDay(d, x)
        BY <1>1, <4>1, <4>2 DEF RolledSound
      <4>4. Busy(d)' \/ DayAgrees(x, RawDay(d)', late')
        BY <1>4, <1>5, <4>3, DayStands
      <4>5. IsDay(d, x)'
        BY <1>4, <4>3 DEF IsDay, Recorded, Live, Ended
      <4>6. IsDay(d, days[d])'
        BY <4>1, <4>2, <4>5 DEF IsDay
      <4> QED BY <4>1, <4>2, <4>4, <4>6
    <3> QED BY <3>1, <3>2
  <2> QED BY <1>4, <2>1, <2>2, <2>3 DEF RolledSound
<1>12. RolledCovered'
  <2>1. \A d : d \in DOMAIN days => d \in DOMAIN days'
    BY <1>3
  <2>2. ASSUME NEW d \in Nat, NEW e \in DataDays, e \in Nat, e <= d, d < Day(now),
               d <= watermark => d \in DOMAIN days
        PROVE  d \in DOMAIN days'
    <3>1. CASE d <= watermark
      BY <2>1, <2>2, <3>1
    <3>2. CASE watermark < d
      <4>1. from < d
        <5>1. CASE watermark = NoWatermark
          BY <1>7, <1>8, <2>2, <5>1
        <5>2. CASE watermark # NoWatermark
          BY <1>7, <1>8, <3>2, <5>2
        <5> QED BY <5>1, <5>2
      <4>2. d \in crossed
        BY <1>6, <1>9, <2>2, <4>1
      <4> QED BY <1>3, <4>2
    <3> QED BY <1>6, <3>1, <3>2
  <2>3. \A z \in Session : Recorded(z)' =>
            \A d \in 0..watermark' : Day(sess'[z].start) <= d => Covered(d)'
    <3> SUFFICES ASSUME NEW z \in Session, Recorded(z), NEW d \in 0..watermark',
                        Day(sess[z].start) <= d
                 PROVE  d \in DOMAIN days'
      BY <1>4, <1>5 DEF Covered
    <3>1. Day(sess[z].start) \in DataDays
      BY DEF DataDays
    <3>2. Day(sess[z].start) \in Nat
      BY <1>1, DayIsNat DEF RowsTyped, IsSession
    <3>3. d \in Nat /\ d < Day(now)
      BY <1>3, <1>6
    <3>4. d <= watermark => d \in DOMAIN days
      BY <1>1, <1>6, <3>3 DEF RolledCovered, Covered
    <3> QED BY <2>2, <3>1, <3>2, <3>3, <3>4
  <2>4. \A h \in DOMAIN swings' :
            \A d \in 0..watermark' : Day(swings'[h].at) <= d => Covered(d)'
    <3> SUFFICES ASSUME NEW h \in DOMAIN swings, NEW d \in 0..watermark', Day(swings[h].at) <= d
                 PROVE  d \in DOMAIN days'
      BY <1>4 DEF Covered
    <3>1. Day(swings[h].at) \in Nat /\ Day(swings[h].at) \in DataDays
      BY <1>1, DayIsNat DEF RowsTyped, IsEvent, DataDays
    <3>2. d \in Nat /\ d < Day(now)
      BY <1>3, <1>6
    <3>3. d <= watermark => d \in DOMAIN days
      BY <1>1, <1>6, <3>2 DEF RolledCovered, Covered
    <3> QED BY <2>2, <3>1, <3>2, <3>3
  <2>5. \A d \in ledger' : Covered(d)'
    <3> SUFFICES ASSUME NEW d \in ledger, d <= watermark' PROVE d \in DOMAIN days'
      BY <1>4 DEF Covered
    <3>1. d \in Nat /\ d \in DataDays
      BY <1>1 DEF RowsTyped, DataDays
    <3>2. d <= watermark => d \in DOMAIN days
      BY <1>1 DEF RolledCovered, Covered
    <3>3. d < Day(now) /\ d <= d
      BY <1>3, <1>6, <3>1
    <3> QED BY <2>2, <3>1, <3>2, <3>3
  <2> QED BY <2>3, <2>4, <2>5 DEF RolledCovered
<1> QED BY <1>5, <1>10, <1>11, <1>12 DEF ReadInv

LEMMA HealSummariesKeeps == ASSUME ReadInv, HealSummaries PROVE ReadInv'
<1>1. RowsTyped /\ StoredSound /\ RolledSound /\ RolledCovered
  BY DEF ReadInv
<1>2. /\ summary' = [s \in Session |-> IF summary[s] = None THEN SummaryOf(s) ELSE summary[s]]
      /\ UNCHANGED <<raw, history>> /\ UNCHANGED <<cells, days, watermark>>
  BY DEF HealSummaries
<1>3. UNCHANGED <<now, sess, kills, gains, swings, rewards, ledger, late>>
  BY <1>2 DEF raw, history
<1>4. /\ RowsTyped'
      /\ \A z \in Session : SummarySame(z) /\ CellsSame(z) /\ SummaryOf(z)' = SummaryOf(z)
      /\ \A z \in Session : /\ Live(z)' <=> Live(z)
                            /\ Ended(z)' <=> Ended(z)
                            /\ Recorded(z)' <=> Recorded(z)
      /\ \A d : (Busy(d) => Busy(d)') /\ DaySame(d)
  BY <1>1, <1>2, RawStands
<1>5. StoredSound'
  <2>1. \A z \in Session : summary'[z] # None =>
            /\ Ended(z)'
            /\ (summary'[z] = summary[z] /\ SummarySame(z)) \/ StoredSummary(z, summary[z])'
    <3> TAKE z \in Session
    <3>1. CASE summary[z] = None
      BY <1>2, <1>4, <3>1, SummaryWritten
    <3>2. CASE summary[z] # None
      BY <1>1, <1>2, <1>4, <3>2 DEF StoredSound
    <3> QED BY <3>1, <3>2
  <2>2. DOMAIN summary' = Session /\ DOMAIN cells' = Session
    BY <1>1, <1>2 DEF StoredSound
  <2>3. \A z \in Session : cells'[z] # None =>
            /\ Ended(z)'
            /\ (cells'[z] = cells[z] /\ CellsSame(z)) \/ StoredCells(z, cells[z])'
    BY <1>1, <1>2, <1>4 DEF StoredSound
  <2> QED BY <1>1, <1>3, <2>1, <2>2, <2>3, StoredMoves
<1>6. RolledSound' /\ RolledCovered'
  BY <1>1, <1>2, <1>3, <1>4, RolledStand
<1> QED BY <1>4, <1>5, <1>6 DEF ReadInv

LEMMA HealCellsKeeps == ASSUME ReadInv, HealCells PROVE ReadInv'
<1>1. RowsTyped /\ StoredSound /\ RolledSound /\ RolledCovered
  BY DEF ReadInv
<1>2. /\ cells' = [s \in Session |-> IF Ended(s) /\ cells[s] = None THEN RawCells(s) ELSE cells[s]]
      /\ UNCHANGED <<raw, history>> /\ UNCHANGED <<summary, days, watermark>>
  BY DEF HealCells
<1>3. UNCHANGED <<now, sess, kills, gains, swings, rewards, ledger, late>>
  BY <1>2 DEF raw, history
<1>4. /\ RowsTyped'
      /\ \A z \in Session : SummarySame(z) /\ CellsSame(z) /\ RawCells(z)' = RawCells(z)
      /\ \A z \in Session : /\ Live(z)' <=> Live(z)
                            /\ Ended(z)' <=> Ended(z)
                            /\ Recorded(z)' <=> Recorded(z)
      /\ \A d : (Busy(d) => Busy(d)') /\ DaySame(d)
  BY <1>1, <1>2, RawStands
<1>5. StoredSound'
  <2>1. \A z \in Session : cells'[z] # None =>
            /\ Ended(z)'
            /\ (cells'[z] = cells[z] /\ CellsSame(z)) \/ StoredCells(z, cells[z])'
    <3> TAKE z \in Session
    <3>1. CASE Ended(z) /\ cells[z] = None
      BY <1>2, <1>4, <3>1, CellsWritten
    <3>2. CASE ~(Ended(z) /\ cells[z] = None)
      BY <1>1, <1>2, <1>4, <3>2 DEF StoredSound
    <3> QED BY <3>1, <3>2
  <2>2. DOMAIN summary' = Session /\ DOMAIN cells' = Session
    BY <1>1, <1>2 DEF StoredSound
  <2>3. \A z \in Session : summary'[z] # None =>
            /\ Ended(z)'
            /\ (summary'[z] = summary[z] /\ SummarySame(z)) \/ StoredSummary(z, summary[z])'
    BY <1>1, <1>2, <1>4 DEF StoredSound
  <2> QED BY <1>1, <1>3, <2>1, <2>2, <2>3, StoredMoves
<1>6. RolledSound' /\ RolledCovered'
  BY <1>1, <1>2, <1>3, <1>4, RolledStand
<1> QED BY <1>4, <1>5, <1>6 DEF ReadInv

LEMMA RebuildKeeps == ASSUME ReadInv, RebuildAndVerify PROVE ReadInv'
<1>1. RowsTyped /\ StoredSound /\ RolledSound /\ RolledCovered
  BY DEF ReadInv
<1>2. PICK crossed : crossed = WalkFrom(NoWatermark) + 1 .. Day(now) - 1
  OBVIOUS
<1>3. /\ Day(now) > 0 /\ watermark' = Day(now) - 1
      /\ days' = [d \in crossed |-> RawDay(d)]
      /\ summary' = [s \in Session |-> SummaryOf(s)]
      /\ cells' = [s \in Session |-> IF Ended(s) THEN RawCells(s) ELSE None]
      /\ UNCHANGED <<raw, history>>
  BY <1>2 DEF RebuildAndVerify
<1>4. UNCHANGED <<now, sess, kills, gains, swings, rewards, ledger, late>>
  BY <1>3 DEF raw, history
<1>5. /\ RowsTyped'
      /\ \A z \in Session : SummaryOf(z)' = SummaryOf(z) /\ RawCells(z)' = RawCells(z)
      /\ \A z \in Session : /\ Live(z)' <=> Live(z)
                            /\ Ended(z)' <=> Ended(z)
                            /\ Recorded(z)' <=> Recorded(z)
      /\ \A d : (Busy(d) => Busy(d)') /\ DaySame(d)
  BY <1>1, <1>3, RawStands
<1>6. Day(now) \in Nat
  BY <1>1, DayIsNat DEF RowsTyped
<1>7. PICK from \in Int : from = WalkFrom(NoWatermark) /\ NoWatermark <= from
                          /\ \A d \in DataDays : from < d
  BY <1>1, <1>3, FirstWalk
<1>8. crossed = from + 1 .. Day(now) - 1 /\ crossed \subseteq 0..Day(now) - 1
  BY <1>2, <1>6, <1>7 DEF NoWatermark
<1>9. StoredSound'
  <2>1. \A z \in Session : summary'[z] # None => Ended(z)' /\ StoredSummary(z, summary[z])'
    BY <1>3, <1>5, SummaryWritten
  <2>2. \A z \in Session : cells'[z] # None => Ended(z)' /\ StoredCells(z, cells[z])'
    BY <1>3, <1>5, CellsWritten
  <2>3. DOMAIN summary' = Session /\ DOMAIN cells' = Session
    BY <1>3
  <2> QED BY <1>1, <1>4, <2>1, <2>2, <2>3, StoredMoves
<1>10. RolledSound'
  <2>1. watermark' \in Int /\ NoWatermark <= watermark' /\ watermark' < Day(now)
    BY <1>3, <1>6 DEF NoWatermark
  <2>2. DOMAIN days' \subseteq 0..watermark'
    BY <1>3, <1>8
  <2>3. ASSUME NEW d \in DOMAIN days'
        PROVE  IsDay(d, days[d])' /\ DayAgrees(days'[d], RawDay(d)', late')
    <3>1. days'[d] = RawDay(d)
      BY <1>3
    <3>2. PICK x : x = RawDay(d)
      OBVIOUS
    <3>3. DayAgrees(x, RawDay(d), late) /\ IsDay(d, x)
      BY <3>2, RawDayIsDay DEF DayAgrees
    <3>4. DayAgrees(x, RawDay(d)', late')
      BY <1>4, <1>5, <3>3, DayStands
    <3>5. IsDay(d, x)'
      BY <1>4, <3>3 DEF IsDay, Recorded, Live, Ended
    <3>6. IsDay(d, days[d])'
      BY <3>1, <3>2, <3>5 DEF IsDay
    <3> QED BY <3>1, <3>2, <3>4, <3>6
  <2> QED BY <1>4, <2>1, <2>2, <2>3 DEF RolledSound
<1>11. RolledCovered'
  <2>1. ASSUME NEW d \in Nat, NEW e \in DataDays, e \in Nat, e <= d, d < Day(now)
        PROVE  d \in DOMAIN days'
    <3>1. from < d
      BY <1>7, <2>1
    <3>2. d \in crossed
      BY <1>6, <1>8, <2>1, <3>1
    <3> QED BY <1>3, <3>2
  <2>2. \A z \in Session : Recorded(z)' =>
            \A d \in 0..watermark' : Day(sess'[z].start) <= d => Covered(d)'
    <3> SUFFICES ASSUME NEW z \in Session, Recorded(z), NEW d \in 0..watermark',
                        Day(sess[z].start) <= d
                 PROVE  d \in DOMAIN days'
      BY <1>4, <1>5 DEF Covered
    <3>1. Day(sess[z].start) \in DataDays
      BY DEF DataDays
    <3>2. Day(sess[z].start) \in Nat
      BY <1>1, DayIsNat DEF RowsTyped, IsSession
    <3>3. d \in Nat /\ d < Day(now)
      BY <1>3, <1>6
    <3> QED BY <2>1, <3>1, <3>2, <3>3
  <2>3. \A h \in DOMAIN swings' :
            \A d \in 0..watermark' : Day(swings'[h].at) <= d => Covered(d)'
    <3> SUFFICES ASSUME NEW h \in DOMAIN swings, NEW d \in 0..watermark', Day(swings[h].at) <= d
                 PROVE  d \in DOMAIN days'
      BY <1>4 DEF Covered
    <3>1. Day(swings[h].at) \in Nat /\ Day(swings[h].at) \in DataDays
      BY <1>1, DayIsNat DEF RowsTyped, IsEvent, DataDays
    <3>2. d \in Nat /\ d < Day(now)
      BY <1>3, <1>6
    <3> QED BY <2>1, <3>1, <3>2
  <2>4. \A d \in ledger' : Covered(d)'
    <3> SUFFICES ASSUME NEW d \in ledger, d <= watermark' PROVE d \in DOMAIN days'
      BY <1>4 DEF Covered
    <3>1. d \in Nat /\ d \in DataDays
      BY <1>1 DEF RowsTyped, DataDays
    <3>2. d < Day(now) /\ d <= d
      BY <1>3, <1>6, <3>1
    <3> QED BY <2>1, <3>1, <3>2
  <2> QED BY <2>2, <2>3, <2>4 DEF RolledCovered
<1> QED BY <1>5, <1>9, <1>10, <1>11 DEF ReadInv

-----------------------------------------------------------------------------
(* Every behaviour keeps the invariant.                                    *)

LEMMA ReadInit == Init => ReadInv
<1> SUFFICES ASSUME Init PROVE ReadInv
  OBVIOUS
<1>1. PICK status \in [Session -> {"none", "ended"}] :
          sess = [s \in Session |->
                    [status |-> status[s], start |-> 0,
                     end |-> IF status[s] = "ended" THEN 1 ELSE 0,
                     armour |-> 0, heal |-> 0, name |-> "a"]]
  BY DEF Init
<1>2. /\ now = 1 /\ gains = << >> /\ swings = << >> /\ rewards = << >> /\ ledger = {}
      /\ edits = 0 /\ heard = None /\ late = {}
      /\ summary = [s \in Session |-> None] /\ cells = [s \in Session |-> None]
      /\ days = << >> /\ watermark = NoWatermark
      /\ \/ \A s \in Session : Unrecorded(s)
         \/ \E s \in Session : Unsettled(s) /\ \A z \in Session \ {s} : sess[z].status = "none"
  BY DEF Init
<1>3. /\ DOMAIN sess = Session
      /\ \A s \in Session : IsSession(sess[s]) /\ sess[s].start = 0
  BY <1>1 DEF IsSession
<1>4. DOMAIN << >> = {}
  OBVIOUS
<1>5. \/ kills = << >> /\ facts = 0
      \/ /\ facts = 1 /\ DOMAIN kills = {1} /\ IsKill(kills[1]) /\ kills[1].at = 0
         /\ Ended(kills[1].session)
  <2>1. CASE \A s \in Session : Unrecorded(s)
    BY <2>1, ReadBounds DEF Unrecorded
  <2>2. CASE \E s \in Session : Unsettled(s) /\ \A z \in Session \ {s} : sess[z].status = "none"
    <3>1. PICK s \in Session : Unsettled(s)
      BY <2>2
    <3>2. PICK drop \in Drops :
              kills = WithRow(<< >>, 1, [session |-> s, at |-> 0, loot |-> drop, off |-> {},
                                        total |-> Cardinality(drop \ {"rebate"}), mob |-> "a"])
      BY <3>1 DEF Unsettled
    <3>3. facts = 1 /\ sess[s].status = "ended"
      BY <3>1 DEF Unsettled
    <3>4. DOMAIN kills = {1} /\ kills[1] = [session |-> s, at |-> 0, loot |-> drop, off |-> {},
                                        total |-> Cardinality(drop \ {"rebate"}), mob |-> "a"]
      BY <1>4, <3>2 DEF WithRow
    <3> QED BY <3>3, <3>4 DEF IsKill, Ended
  <2> QED BY <1>2, <2>1, <2>2
<1>6. DOMAIN kills \subseteq 1..facts /\ facts \in Nat
  BY <1>4, <1>5
<1>7. \A k \in DOMAIN kills : /\ IsKill(kills[k]) /\ Recorded(kills[k].session)
                              /\ sess[kills[k].session].start <= kills[k].at /\ kills[k].at <= now
  <2> TAKE k \in DOMAIN kills
  <2>1. k = 1 /\ IsKill(kills[1]) /\ kills[1].at = 0 /\ Ended(kills[1].session)
    BY <1>4, <1>5
  <2>2. sess[kills[1].session].start = 0
    BY <1>3, <2>1 DEF IsKill
  <2> QED BY <1>2, <2>1, <2>2 DEF Recorded
<1>8. RowsTyped
  <2>1. now <= MaxTime + 1 /\ \A s \in Session : sess[s].start <= now
    BY <1>2, <1>3, ReadBounds
  <2>2. /\ DOMAIN gains = {} /\ DOMAIN swings = {} /\ DOMAIN rewards = {}
    BY <1>2, <1>4
  <2> QED BY <1>2, <1>3, <1>6, <1>7, <2>1, <2>2 DEF RowsTyped
<1>9. StoredSound
  BY <1>2 DEF StoredSound
<1>10. DOMAIN days = {} /\ DOMAIN swings = {}
  BY <1>2, <1>4
<1>11. RolledSound
  BY <1>2, <1>10 DEF RolledSound, NoWatermark
<1>12. RolledCovered
  BY <1>2, <1>10 DEF RolledCovered, NoWatermark
<1> QED BY <1>8, <1>9, <1>11, <1>12 DEF ReadInv

LEMMA ReadStep == ReadInv /\ [Next]_vars => ReadInv'
<1> SUFFICES ASSUME ReadInv, [Next]_vars PROVE ReadInv'
  OBVIOUS
<1>1. CASE Play
  <2>1. ASSUME NEW s \in Session, NEW t \in 0..MaxTime, NEW drop \in Drops, RecordKill(s, t, drop)
        PROVE  ReadInv'
    BY <2>1, KillKeeps
  <2>2. ASSUME NEW s \in Session, NEW t \in 0..MaxTime, HearGain(s, t) PROVE ReadInv'
    BY <2>2, HearKeeps
  <2>3. ASSUME NEW s \in Session, RecordSwing(s) PROVE ReadInv'
    BY <2>3, SwingKeeps
  <2> QED BY <1>1, <2>1, <2>2, <2>3 DEF Play
<1>2. CASE InsertGain
  BY <1>2, InsertKeeps
<1>3. CASE Lifecycle
  <2>1. ASSUME NEW s \in Session, StartSession(s) PROVE ReadInv'
    BY <2>1, StartKeeps
  <2>2. ASSUME NEW s \in Session, HealCost(s) PROVE ReadInv'
    BY <2>2, HealCostKeeps
  <2>3. ASSUME NEW s \in Session, StopSession(s) PROVE ReadInv'
    BY <2>3, StopKeeps
  <2>4. ASSUME NEW s \in Session, RecoverOrphan(s) PROVE ReadInv'
    BY <2>4, RecoverKeeps
  <2> QED BY <1>3, <2>1, <2>2, <2>3, <2>4 DEF Lifecycle
<1>4. CASE EditSession
  <2>1. ASSUME NEW s \in Session, NEW n \in {"stock", "shrapnel"}, NEW off \in BOOLEAN,
               FlipLoot(s, n, off)
        PROVE  ReadInv'
    BY <2>1, FlipKeeps
  <2>2. ASSUME NEW s \in Session, NEW from \in {"a", "b"}, NEW to \in {"a", "b"},
               RenameMob(s, from, to)
        PROVE  ReadInv'
    BY <2>2, RenameKeeps
  <2>3. ASSUME NEW s \in Session, Reassign(s, "b") PROVE ReadInv'
    BY <2>3, ReassignKeeps
  <2>4. ASSUME NEW s \in Session, AddArmourCost(s) PROVE ReadInv'
    BY <2>4, ArmourKeeps
  <2>5. ASSUME NEW s \in Session, DeleteSession(s) PROVE ReadInv'
    BY <2>5, DeleteKeeps
  <2> QED BY <1>4, <2>1, <2>2, <2>3, <2>4, <2>5 DEF EditSession
<1>5. CASE EditBooks
  <2>1. ASSUME NEW k \in DOMAIN kills, ClaimLoot(k) PROVE ReadInv'
    BY <2>1, ClaimKeeps
  <2>2. ASSUME NEW k \in DOMAIN kills, NEW i \in Item, ReviewReward(k, i) PROVE ReadInv'
    BY <2>2, ReviewKeeps
  <2>3. ASSUME NEW r \in DOMAIN rewards, UndoReward(r) PROVE ReadInv'
    BY <2>3, UndoKeeps
  <2>4. ASSUME RewardOutside PROVE ReadInv'
    BY <2>4, OutsideKeeps
  <2>5. ASSUME NEW d \in Ledger, BookLedger(d) PROVE ReadInv'
    BY <2>5, LedgerKeeps
  <2> QED BY <1>5, <2>1, <2>2, <2>3, <2>4, <2>5 DEF EditBooks
<1>6. CASE Heal
  BY <1>6, HealRollupsKeeps, HealSummariesKeeps, HealCellsKeeps, RebuildKeeps DEF Heal
<1>7. CASE HalfDay
  BY <1>7, HalfDayKeeps
<1>8. CASE UNCHANGED vars
  <2>1. UNCHANGED <<raw, history>> /\ UNCHANGED <<summary, cells>> /\ UNCHANGED <<days, watermark>>
    BY <1>8 DEF vars, derived
  <2>2. UNCHANGED <<now, sess, kills, gains, swings, rewards, ledger, late>>
    BY <2>1 DEF raw, history
  <2>3. RowsTyped /\ StoredSound /\ RolledSound /\ RolledCovered
    BY DEF ReadInv
  <2>4. /\ RowsTyped'
        /\ \A z \in Session : SummarySame(z) /\ CellsSame(z)
        /\ \A z \in Session : /\ Live(z)' <=> Live(z)
                              /\ Ended(z)' <=> Ended(z)
                              /\ Recorded(z)' <=> Recorded(z)
        /\ \A d : (Busy(d) => Busy(d)') /\ DaySame(d)
    BY <2>1, <2>3, RawStands
  <2>5. StoredSound'
    BY <2>1, <2>2, <2>3, <2>4, StoredMoves DEF StoredSound
  <2>6. RolledSound' /\ RolledCovered'
    BY <2>1, <2>2, <2>3, <2>4, RolledStand
  <2> QED BY <2>4, <2>5, <2>6 DEF ReadInv
<1> QED BY <1>1, <1>2, <1>3, <1>4, <1>5, <1>6, <1>7, <1>8 DEF Next

\* Whatever is recorded, edited, healed, rebuilt or recovered, and in whatever
\* order: the invariant of the tables and the three read models.
THEOREM ReadInvariant == ReadSpec => []ReadInv
BY ReadInit, ReadStep, PTL DEF ReadSpec

-----------------------------------------------------------------------------
(* What the runs check follows.                                            *)

LEMMA SettledFollows == ASSUME ReadInv PROVE SettledFresh
<1>1. StoredSound
  BY DEF ReadInv
<1>2. CellsFresh
  <2> SUFFICES ASSUME NEW s \in Session, cells[s] # None
               PROVE  /\ cells[s].kills = RawCells(s).kills /\ cells[s].loot = RawCells(s).loot
                      /\ Timely(cells[s].gains) = Timely(RawCells(s).gains)
    BY DEF CellsFresh
  <2>1. StoredCells(s, cells[s])
    BY <1>1 DEF StoredSound
  <2> QED BY <2>1 DEF StoredCells, RawCells
<1>3. SummaryTracksSession
  <2> SUFFICES ASSUME NEW s \in Session, summary[s] # None, SummaryOf(s) # None,
                      NEW fresh, fresh = SummaryOf(s)
               PROVE  /\ summary[s].armour = fresh.armour /\ summary[s].heal = fresh.heal
                      /\ summary[s].mobs = fresh.mobs /\ summary[s].name = fresh.name
                      /\ summary[s].swings = fresh.swings
                      /\ Timely(summary[s].gains) = Timely(fresh.gains)
    BY DEF SummaryTracksSession
  <2>1. StoredSummary(s, summary[s])
    BY <1>1 DEF StoredSound
  <2>2. fresh = [loot |-> {<<k, kills[k].total>> : k \in Of(kills, s)},
                 mobs |-> {<<k, kills[k].mob>> : k \in Of(kills, s)},
                 gains |-> Of(gains, s), swings |-> Of(swings, s),
                 armour |-> sess[s].armour, heal |-> sess[s].heal, name |-> sess[s].name]
    BY DEF SummaryOf
  <2> QED BY <2>1, <2>2 DEF StoredSummary
<1> QED BY <1>2, <1>3 DEF SettledFresh

LEMMA DaysFollow == ASSUME ReadInv PROVE DaysSound
<1>1. RowsTyped /\ StoredSound /\ RolledSound /\ RolledCovered
  BY DEF ReadInv
<1>2. Day(now) \in Nat /\ watermark \in Int
  BY <1>1, DayIsNat DEF RowsTyped, RolledSound
<1>3. ReadsTypeOK
  <2>1. \A s \in Session : /\ sess[s].status \in {"none", "live", "ended", "deleted"}
                           /\ sess[s].start <= sess[s].end
                           /\ summary[s] # None \/ cells[s] # None => Ended(s)
    BY <1>1 DEF RowsTyped, IsSession, StoredSound
  <2>2. \A k \in DOMAIN kills : kills[k].off \subseteq kills[k].loot
    BY <1>1 DEF RowsTyped, IsKill
  <2>3. DOMAIN days \subseteq 0..watermark
        /\ watermark \in NoWatermark..(Day(now) - 1) \union {NoWatermark}
    BY <1>1, <1>2 DEF RolledSound, NoWatermark
  <2> QED BY <2>1, <2>2, <2>3 DEF ReadsTypeOK
<1>4. DaysFresh
  <2> SUFFICES ASSUME NoSessionLive, NEW d \in DOMAIN days, NEW fresh, fresh = RawDay(d)
               PROVE  [days[d] EXCEPT !.gains = Timely(@)] = [fresh EXCEPT !.gains = Timely(@)]
    BY DEF DaysFresh
  <2>1. ~Busy(d)
    BY DEF NoSessionLive, Busy
  <2>2. IsDay(d, days[d]) /\ DayAgrees(days[d], fresh, late)
    BY <1>1, <2>1 DEF RolledSound
  <2>3. IsDay(d, fresh)
    BY RawDayIsDay
  <2>4. PICK x : x = days[d]
    OBVIOUS
  <2>5. /\ x = [kills |-> x.kills, sessions |-> x.sessions, gains |-> x.gains,
                swings |-> x.swings, rewards |-> x.rewards, ledger |-> x.ledger]
        /\ fresh = [kills |-> fresh.kills, sessions |-> fresh.sessions, gains |-> fresh.gains,
                    swings |-> fresh.swings, rewards |-> fresh.rewards, ledger |-> fresh.ledger]
    BY Zenon, <2>2, <2>3, <2>4 DEF IsDay
  <2>6. /\ x.kills = fresh.kills /\ x.sessions = fresh.sessions /\ x.swings = fresh.swings
        /\ x.rewards = fresh.rewards /\ x.ledger = fresh.ledger
        /\ Timely(x.gains) = Timely(fresh.gains)
    BY Zenon, <2>2, <2>4 DEF DayAgrees, Timely
  <2>7. /\ [x EXCEPT !.gains = Timely(@)]
             = [kills |-> x.kills, sessions |-> x.sessions, gains |-> Timely(x.gains),
                swings |-> x.swings, rewards |-> x.rewards, ledger |-> x.ledger]
        /\ [fresh EXCEPT !.gains = Timely(@)]
             = [kills |-> fresh.kills, sessions |-> fresh.sessions, gains |-> Timely(fresh.gains),
                swings |-> fresh.swings, rewards |-> fresh.rewards, ledger |-> fresh.ledger]
    BY <2>5
  <2> QED BY Zenon, <2>4, <2>6, <2>7
<1>5. DaysCovered
  <2> SUFFICES ASSUME NEW d \in 0..watermark, d \in ledger \/ (\E e \in PlayDays : e <= d)
               PROVE  d \in DOMAIN days
    BY DEF DaysCovered
  <2>1. d \in Nat /\ d <= watermark
    BY <1>2
  <2>2. ASSUME NEW z \in Session, Recorded(z), Day(sess[z].start) <= d PROVE d \in DOMAIN days
    BY <1>1, <2>1, <2>2 DEF RolledCovered, Covered
  <2>3. ASSUME NEW z \in Session, Recorded(z), NEW t \in Nat, sess[z].start <= t, Day(t) <= d
        PROVE  d \in DOMAIN days
    <3>1. sess[z].start \in Nat
      BY <1>1 DEF RowsTyped, IsSession
    <3>2. Day(sess[z].start) <= d
      BY <2>1, <2>3, <3>1 DEF Day
    <3> QED BY <2>2, <2>3, <3>2
  <2>4. ASSUME NEW k \in DOMAIN kills, Day(kills[k].at) <= d PROVE d \in DOMAIN days
    <3>1. PICK z \in Session : z = kills[k].session
      BY <1>1 DEF RowsTyped, IsKill
    <3>2. Recorded(z) /\ sess[z].start <= kills[k].at /\ kills[k].at \in Nat
      BY <1>1, <3>1 DEF RowsTyped, IsKill
    <3> QED BY <2>3, <2>4, <3>2
  <2>5. ASSUME NEW g \in Timely(DOMAIN gains), Day(gains[g].at) <= d PROVE d \in DOMAIN days
    <3>1. g \in DOMAIN gains /\ g \notin late
      BY DEF Timely
    <3>2. PICK z \in Session : z = gains[g].session
      BY <1>1, <3>1 DEF RowsTyped, IsEvent
    <3>3. Recorded(z) /\ sess[z].start <= gains[g].at /\ gains[g].at \in Nat
      BY <1>1, <3>1, <3>2 DEF RowsTyped, IsEvent
    <3> QED BY <2>3, <2>5, <3>3
  <2>6. ASSUME NEW h \in DOMAIN swings, Day(swings[h].at) <= d PROVE d \in DOMAIN days
    BY <1>1, <2>1, <2>6 DEF RolledCovered, Covered
  <2>7. CASE d \in ledger
    BY <1>1, <2>1, <2>7 DEF RolledCovered, Covered
  <2> QED BY <2>2, <2>4, <2>5, <2>6, <2>7 DEF PlayDays
<1> QED BY <1>3, <1>4, <1>5 DEF DaysSound

\* Summaries, cells and the days that are rolled follow every later edit of the
\* rows they were computed from: refresh_session_days, recompute_session and the
\* summary writes reach every row they have to.  And every day from the first
\* day of play to the watermark is rolled; a day before it that holds nothing
\* but a reward need not be, for earliest_data_day does not look at rewards.
THEOREM ReadsStayFresh == ReadSpec => []DerivedSound
<1>1. ReadInv => DerivedSound
  BY SettledFollows, DaysFollow DEF DerivedSound
<1> QED BY <1>1, ReadInvariant, PTL

\* delete_session_impl takes a session's summary, cells, costs, kills and gains
\* out of the read models, and no heal or rebuild brings them back; its swings
\* stay.
THEOREM DeletedStaysOut == ReadSpec => []DeletedLeavesReads
<1>1. ReadInv => DeletedLeavesReads
  <2> SUFFICES ASSUME ReadInv PROVE DeletedLeavesReads
    OBVIOUS
  <2>1. ASSUME NEW s \in Session, sess[s].status = "deleted"
        PROVE  /\ summary[s] = None /\ cells[s] = None
               /\ \A d \in DOMAIN days : \A z \in days[d].sessions : z[1] # s
    <3>1. ~Recorded(s) /\ ~Ended(s)
      BY <2>1 DEF Recorded, Live, Ended
    <3> QED BY <3>1 DEF ReadInv, StoredSound, RolledSound, IsDay
  <2>2. ASSUME NEW d \in DOMAIN days
        PROVE  /\ \A p \in days[d].kills : p[1] \in DOMAIN kills
               /\ days[d].gains \subseteq DOMAIN gains
    BY DEF ReadInv, RolledSound, IsDay
  <2> QED BY <2>1, <2>2 DEF DeletedLeavesReads
<1> QED BY <1>1, ReadInvariant, PTL

-----------------------------------------------------------------------------
(* The window of the Overview.                                             *)

\* The whole days of a window end at its cut: the watermark's boundary, or the
\* midnight before the window's own end.
LEMMA CutIsMidnight ==
    ASSUME NEW mark \in Nat, NEW end, end = None \/ end \in Nat
    PROVE  /\ LastFullDay(end, mark) \in Int
           /\ 2 * (LastFullDay(end, mark) + 1) \in Int
           /\ end # None => 2 * (LastFullDay(end, mark) + 1) <= end
<1>1. CASE end = None
  BY <1>1 DEF LastFullDay, Day
<1>2. CASE end # None /\ end < 2 * (mark + 1)
  BY <1>2 DEF LastFullDay, Day
<1>3. CASE end # None /\ ~(end < 2 * (mark + 1))
  BY <1>3 DEF LastFullDay, Day
<1> QED BY <1>1, <1>2, <1>3

\* One part of the window serves a moment inside it: the head up to the first
\* midnight, the rolled days up to the cut, the tail from there.
LEMMA ServedIsOne ==
    ASSUME NEW mark \in Nat, NEW start, start = None \/ start \in Nat,
           NEW end, end = None \/ end \in Nat,
           start = None \/ end = None \/ start <= end, NEW t \in Nat
    PROVE  Cardinality(Served(start, end, mark, t)) =
               IF (start = None \/ start <= t) /\ (end = None \/ t < end) THEN 1 ELSE 0
<1> DEFINE inside == (start = None \/ start <= t) /\ (end = None \/ t < end)
           parted(lo, up) == (lo = None \/ lo <= t) /\ (up = None \/ t < up)
           first == 2 * FirstFullDay(start)
           cut == 2 * (LastFullDay(end, mark) + 1)
           rolled == <<"rolled", IF start = None THEN None ELSE first, cut>>
           head == <<"head", start, first>>
           tail == <<"tail", cut, end>>
           whole == start = None \/ FirstFullDay(start) <= LastFullDay(end, mark)
<1>1. None \notin Int
  BY ReadBounds
<1>2. LastFullDay(end, mark) \in Int /\ cut \in Int /\ (end # None => cut <= end)
  BY CutIsMidnight
<1>3. start # None => /\ FirstFullDay(start) \in Nat /\ first \in Nat /\ start <= first
  BY DEF FirstFullDay, Day
<1>4. whole => start = None \/ first <= cut
  BY <1>2, <1>3
<1>5. ~whole => Served(start, end, mark, t) = {p \in {<<"raw", start, end>>} : parted(p[2], p[3])}
  BY DEF Served
<1>6. whole => Served(start, end, mark, t) =
          {p \in {rolled} \union (IF start # None /\ start < first THEN {head} ELSE {})
                          \union (IF end = None \/ end > cut THEN {tail} ELSE {}) :
                 parted(p[2], p[3])}
  BY DEF Served
<1>7. ASSUME ~whole
      PROVE  Served(start, end, mark, t) = IF inside THEN {<<"raw", start, end>>} ELSE {}
  BY <1>5, <1>7
<1>8. ASSUME whole
      PROVE  Served(start, end, mark, t) =
                 IF ~inside THEN {}
                 ELSE IF start # None /\ t < first THEN {head}
                 ELSE IF t < cut THEN {rolled} ELSE {tail}
  <2>1. parted(rolled[2], rolled[3]) <=> (start = None \/ first <= t) /\ t < cut
    BY <1>1, <1>2, <1>3
  <2>2. start # None => (parted(head[2], head[3]) <=> start <= t /\ t < first)
    BY <1>1, <1>3
  <2>3. parted(tail[2], tail[3]) <=> cut <= t /\ (end = None \/ t < end)
    BY <1>1, <1>2
  <2>4. Served(start, end, mark, t) =
            {p \in {rolled} : parted(p[2], p[3])}
            \union {p \in {head} : start # None /\ start < first /\ parted(p[2], p[3])}
            \union {p \in {tail} : (end = None \/ end > cut) /\ parted(p[2], p[3])}
    BY <1>6, <1>8
  <2> HIDE DEF parted, rolled, head, tail
  <2>5. CASE ~inside
    <3>1. ~parted(rolled[2], rolled[3])
      BY <1>1, <1>2, <1>3, <1>4, <1>8, <2>1, <2>5
    <3>2. start # None => ~parted(head[2], head[3])
      BY <1>1, <1>2, <1>3, <1>4, <1>8, <2>2, <2>5
    <3>3. ~parted(tail[2], tail[3])
      BY <1>1, <1>2, <1>3, <1>4, <1>8, <2>3, <2>5
    <3> QED BY <2>4, <2>5, <3>1, <3>2, <3>3
  <2>6. CASE inside /\ start # None /\ t < first
    <3>1. ~parted(rolled[2], rolled[3]) /\ ~parted(tail[2], tail[3])
      BY <1>2, <1>3, <1>4, <1>8, <2>1, <2>3, <2>6
    <3>2. parted(head[2], head[3]) /\ start < first
      BY <1>3, <2>2, <2>6
    <3> QED BY <2>4, <2>6, <3>1, <3>2
  <2>7. CASE inside /\ ~(start # None /\ t < first) /\ t < cut
    <3>1. parted(rolled[2], rolled[3]) /\ ~parted(tail[2], tail[3])
          /\ (start # None => ~parted(head[2], head[3]))
      BY <1>2, <1>3, <2>1, <2>2, <2>3, <2>7
    <3> QED BY <2>4, <2>7, <3>1
  <2>8. CASE inside /\ ~(start # None /\ t < first) /\ ~(t < cut)
    <3>1. ~parted(rolled[2], rolled[3]) /\ parted(tail[2], tail[3])
          /\ (start # None => ~parted(head[2], head[3])) /\ (end = None \/ end > cut)
      BY <1>2, <1>3, <2>1, <2>2, <2>3, <2>8
    <3> QED BY <2>4, <2>8, <3>1
  <2> QED BY <2>5, <2>6, <2>7, <2>8
<1>9. \A x : Cardinality({x}) = 1
  BY FS_Singleton
<1>10. Cardinality({}) = 0
  BY FS_EmptySet
<1> HIDE DEF inside, head, rolled, tail, first, cut, whole
<1>11. Cardinality(Served(start, end, mark, t)) = IF inside THEN 1 ELSE 0
  BY <1>7, <1>8, <1>9, <1>10
<1> QED BY <1>11 DEF inside

\* hybrid_window: wherever the watermark stands, the rolled days, the head and
\* the tail of a window serve each of its moments once and nothing outside it.
THEOREM WindowsServeOnce == ReadSpec => []ServedOnce
<1>1. ReadInv => ServedOnce
  <2> SUFFICES ASSUME ReadInv, watermark # NoWatermark PROVE watermark \in SoundMarks
    BY DEF ServedOnce
  <2>1. watermark \in 0..MaxTime
    <3>1. /\ now \in Nat /\ now <= MaxTime + 1 /\ watermark \in Int /\ NoWatermark <= watermark
          /\ watermark < Day(now)
      BY DEF ReadInv, RowsTyped, RolledSound
    <3>2. Day(now) <= now /\ Day(now) \in Nat /\ MaxTime \in Nat
      BY <3>1, DayIsNat, ReadBounds
    <3> QED BY <3>1, <3>2 DEF NoWatermark
  <2>2. ASSUME NEW start \in (0..MaxTime + 2) \union {None},
               NEW end \in (0..MaxTime + 2) \union {None}, NEW t \in 0..MaxTime + 2,
               start = None \/ end = None \/ start <= end
        PROVE  Cardinality(Served(start, end, watermark, t)) =
                   IF (start = None \/ start <= t) /\ (end = None \/ t < end) THEN 1 ELSE 0
    <3>1. /\ start = None \/ start \in Nat
          /\ end = None \/ end \in Nat
          /\ t \in Nat /\ watermark \in Nat
      BY <2>1
    <3> QED BY <2>2, <3>1, ServedIsOne
  <2> QED BY <2>1, <2>2 DEF SoundMarks
<1> QED BY <1>1, ReadInvariant, PTL
=============================================================================
