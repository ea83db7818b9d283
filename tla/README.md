# A verification of Entropia Orme's recording core

Entropia Orme is a desktop companion for a game. It tails the game's chat log,
follows what the player does, and keeps a ledger of tracking sessions: kills,
loot, skill gains, costs, quests and what was *declared* while they happened.
The Rust back end (`app/src-tauri`) owns all state; the Svelte window renders
it. This directory holds TLA+ models of that back end, the TLC configurations
that check them, and TLAPS proofs about the core.

Paths below are relative to `src/app/src-tauri/eo-services/src/` unless they
begin with another crate's name. `PROJECT.json` maps every definition to the
lines it models.

## 1. Inventory

### Components

| Component | State it keeps | Operations | What makes it correct |
|---|---|---|---|
| Interval engine (`tracker/intervals.rs`) | standing intervals and the current context in memory; `session_intervals`, `session_contexts`, `session_context_intervals` | open_session, open_interval, close_kind, close_intervals, close_session | an event's context names exactly what was in force, for good |
| Tracker actor (`tracker/actor.rs`, `session.rs`, `persistence.rs`, `mod.rs`) | one `SessionState`; `tracking_sessions` rows | start, stop, declare, withdraw, boost, protection, recover | at most one active row; a session ends once; failures leave memory and rows in step |
| Kills, loot, weapons (`tracker/loot.rs`, `combat.rs`, `mob.rs`, `weapons.rs`) | accumulator, dedup window, weapon runtime | on_combat, on_loot, on_global, reconcile_loot_source | each loot group is at most one kill; a kill's cost is the shots since the last |
| Healing (`tracker/healing.rs`) | intent, evidence windows, costs | on_hotbar_intent, reconcile | a use is paid once, by the tool that made it |
| Harvest (`tracker/harvest.rs`) | swings, expectations | on_harvest_fail, on_loot, restamp | a swing has one tool and one outcome |
| Skill tracker (`skill_tracker.rs`) | followed session, totals, suppressed claims; `skill_gains` | on_session_start/stop, on_skill_gain | a gain is recorded in its session with the context in force |
| Event bus (`event_bus.rs`) | subscriber registry | subscribe, publish | synchronous, snapshot then call; nobody waits in a circle |
| Quest service (`quests/`) | session watch; quests, completions, clumps, hand-ins | start, complete (with evidence), undo, filters, review | a quest is paid once a session; a clump is claimed once |
| Chat watcher (`chatlog_watcher.rs`, `chatlog_parser.rs`, `chatlog_time.rs`) | file position, tick buffer, clock offset | tail_loop, flush_tick, restart | one second is one tick; order within a tick |
| Hotbar (`hotbar_listener.rs`) | gate, resolve queue | reconcile, on_keystroke, resolve | an intent belongs to the session it was pressed in |
| Codex (`codex.rs`) | ranks, masteries, claims; points on the calibration trail | claim_rank, unclaim_rank, mastery, calibrate | a rank is claimed once; a reward's point is on the trail as long as its claim |
| Keystroke source and listeners (`keystroke_source.rs`, `spacebar_capture_listener.rs`, `coord_capture.rs`) | claim count, flags, calibration flow | start, stop, set_enabled, on_confirm | the hook lives while someone needs it |
| Navigation (`navigation.rs`) | `navigation_runs`, `navigation_stops`, `map_pin_visits`; pending harvest, live flag, hook claim | start, mark_visited, skip, on_harvest, resolve_harvest, cooldown_pin, replan_after_pin_removed, undo, end | a live route has one stop to walk to; visits and progress agree; the claim is released |
| Protection (`protection.rs`) | declarations, cost windows, observations | assign, confirm, create windows and resets | no defence event is paid twice |
| Stock and market (`stock_allocation.rs`, `analytics.rs`) | `stock_movements`, listings, private sales, conversions, the market's rows of the money ledger | list, confirm, expire, revert, convert, sell, remove, undo | an outflow is drawn from the open sources and comes back to them; nothing is earned twice |
| Rollups (`session_rollup.rs`, `session_summary.rs`, `daily_rollup.rs`) | settled cells per session and day | recompute, heal | a settled session's cells equal its rows |
| Skill scan (`skill_scan_manual.rs`, `scan_completion.rs`) | phase, pages, pending review | start, capture, undo, process, accept, reject | what is accepted is what was shown |
| Storage (`db/pool.rs`, `db/mod.rs`, `db/migrate.rs`) | one writer thread, reader threads | write, read, checkpoint, shutdown | writes are serial; shutdown joins |
| Definitions, configuration, codex, reads, formulas, image reading | see `PROJECT.json` | mostly single-row edits, reads and pure functions | |
| Facade and shell (`eo-api`, `entropia-orme`), window (`app/src`) | wiring | one call per command | |

### How they interact

* The bus calls subscribers **on the publisher's thread**. The tracker and the
  quest service subscribe with forwarders that enqueue a message to their task
  and block until it has been absorbed, so `publish` is a rendezvous.
* The chat watcher's thread publishes the events of a tick and asks the quest
  service for a filter; completions are spawned on the runtime after the
  tick's publishes and call back into the tracker (`set_stretch_closer`).
* The tracker's task publishes `SessionStarted` and `SessionStopped`; the quest
  service, the skill tracker and the hotbar follow.
* The hotbar's hook thread queues presses, its worker resolves and publishes.
* Commands of the window call the actors' handles and the services directly.
* Listeners share one keyboard hook by reference count: the hotbar, the spacebar,
  navigation and the confirm listener of a calibration, of which the radar's
  calibration makes a second (`coord_capture.rs:446`, used at `navigation.rs:1007`).

### What is hard

Publishing that blocks and could block in a circle; a subscriber snapshot that
outlives an unsubscription; starts and stops made of several commits and
publishes, with a crash or a failing write between any two; the skill tracker
recording on another thread than the one that ends the session; memory adopted
after a commit; unlocked check-then-act on two threads over one hook.
Beyond the core: completions, scans and claims that check on one connection and
write on another; derived tables that must follow every late edit of what they
were derived from; windows and watermarks with an off-by-one at each end;
evidence that several costs may want; a file read while it is written; a pool
whose last handle may be dropped by one of its own threads; undo, of a sale
after what it sold has moved on and of a route whose trees have gone.
`PROJECT.json` lists each at its line under `hazards`, with the properties that
would catch it.

## 2. What is modelled

```
DeclaredPlay            abstract: a log of events with what was declared
   ^ refined by (memory and tables -> declarations in force)
SessionIntervals        the interval engine       <- SessionIntervals_proofs
   ^ driven by (same variables, more of them)
TrackerSession          session lifecycle + skill <- TrackerSession_proofs

BusRendezvous           who waits for whom        <- Threads_proofs
KeystrokeClaims         one hook, its consumers   <- Threads_proofs
ChatTail                the log's tail            <- Threads_proofs
ChatClock               the server's clock        <- Threads_proofs
DbPool                  the connection core       <- Threads_proofs

QuestLifecycle          runs, completions, clumps, reviews      <- QuestLifecycle_proofs
ReadModels              summaries, cells, days and windows      <- ReadModels_proofs
ProtectionEvidence      hits, setups and what paid for them     <- CostsAndStock_proofs
StockLedger             stock, listings, conversions, their undo <- CostsAndStock_proofs
Navigation              routes, visits, cooldowns and undo      <- TrackerSession_proofs
LedgerSession           one session's life, extended by
   KillLedger           shots, kills, cost        <- SessionBooks_proofs
   HarvestSwings        swings, tools, tiers      <- SessionBooks_proofs
   HealingLedger        presses, heals, uses      <- SessionBooks_proofs
SkillLedger             the calibration trail: gains, codex, scans <- SessionBooks_proofs
SkillScan               the scan's verbs, worker and frames     <- SessionBooks_proofs

Selection               filtering a sequence, as a recursive function
ModelLemmas             lemmas about sequences and sums that the proofs share
```

Each module can be checked alone (`...Spec` at its end). Modules that share no
state are instantiated side by side and explored one at a time, by a variable
`part` chosen in the initial state: `MCThreads` (hook, tail, clock, bus),
`MCWaits` (bus and pool under fairness), `MCSessionBooks` (kills, swings,
heals, skills, scan), `MCIntervalsAndArmour`, `MCRewardsAndStock` and
`MCPlayerCommands` (declarations and routes). This is a way to run them and claims nothing about their
interplay; where two components do meet in state they are in one module.

**DeclaredPlay** says what the session layer promises about attribution with no
tables, ids or transactions: declarations are stated, restated and lapse; an
event is logged with those in force, and nothing changes the log afterwards.
Lapse exists because a stop forgets the context before the session is dropped;
from then until the drop an event is logged as *Unstated*.

**SessionIntervals** has one action per transition of `IntervalState`: the
opening context, opening an interval (which first seals those its scope
closes), closing a set, closing the session. Each is one transaction in the
code and one action here, tables and memory together, because memory is
adopted only after the commit and the actor does nothing in between; a failed
transaction changes nothing and is a stutter. `open` and `current` are memory;
`intervals`, `contexts` and `stamps` are the tables. Labels, positions and
wall-clock bounds are dropped: a row is ended or not.

**TrackerSession** EXTENDS it with the actor's life. A declaration is one
action because the actor handles one message at a time. A start and a stop are
several: `StartSession`, `AnnounceStart`, `MintOpening`, `OpenOpeningBoost`,
`OpenOpeningProtection`; `BeginStop`, `Seal` or `SealFails`, `Part`. Contained
failures (`let _ =`) are a disjunct of the step; early returns are actions.
`Crash` is enabled everywhere and keeps only the tables; `Boot`,
`RecoverOrphan`, `RecoveryFails`, `Ready` follow. The skill tracker captures
the session in `HearGain`, reads the newest context of that session and
inserts the row in `RecordGain`, or loses the gain. `lapsed` remembers that the
boost facet moved and its interval write failed: the code logs and goes on.
The actor's kill, harvest and healing state and its protection setups are in
modules of their own.

**BusRendezvous** drops payloads and keeps processes: the tracker's task, the
quest service's task, the watcher's thread, the hotbar's worker, the user, and
the spawned completion tasks. `publish` is a snapshot step and a delivery step.
The one subtlety is that a stop unsubscribes before it publishes, so a delivery
already carrying its snapshot reaches the tracker with no session or the next.
`announcing` is what is left of a start or a stop to publish; while it is not
empty the tracker takes no message. The panic containment, the taps and the
demo player are left out.

**KeystrokeClaims** makes each load, store and source call of an unlocked
reconcile a step, and follows the spacebar's lock. `crossed` is a history
variable: the consumers whose unlocked sections have overlapped; `blind`
records that navigation released a claim it never held. For `navigation` the
program counter only remembers whether the claim attached. The platform hooks,
the `stop` at shutdown and the radar's confirm listener are left out: the
last is `CoordConfirmListener` again with another flow behind it, and one of its
kind shows what the kind does to the count. A press that passed its gates may
reach `on_confirm` after the flow was cancelled.

**ChatTail** has the game appending (a line may be seen half written), the tail
thread as a program counter over `tail_loop`, `process_line` and `flush_tick`,
a control thread that starts, stops and restarts, and a waiter of
`wait_drained` that reads the two counters one after the other. A line is a
stamp and whether the parser recognises it. **ChatClock** has one action,
`Observe`, for a sample of the offset estimate, and one for a server that
changes its zone; a delay is how late the tick was flushed.

**DbPool** follows a job from the queue through the receiver lock, the run, the
drop of the handle it may own, and the reply; the last handle's drop closes the
queues and joins the threads, except the one it happens on.

**QuestLifecycle** has three actors. The tail thread filters a tick, publishes
it and spawns its probes; the probe of a tick and the user's command task run a
completion, whose check, stretch close and transaction are three steps with
every other actor's steps between them (`CheckCompletion`,
`ReportStretchClosed`, `CommitCompletion` or `AbortCompletion`). A tick is one
of two kinds with the units of its line; a clump is the journal's row of it. A
hand-in confirms against the clump it was shown, a review settles an unresolved
reward against a line, an undo reverses a completion and returns its lines.
`shifted` remembers the ticks between whose filter and probe a quest started or
ended: the code reads the quests in progress at both moments and compares
nothing.

**ReadModels** models a derived row by *the set of raw rows and columns it was
computed from*, so that it is fresh exactly when computing it again would read
the same, whichever sums are taken. Every writer of the raw tables is an action
with the refreshes of its transaction: record, stop, recover, flip, rename,
reassign, armour cost, claim, review, undo, ledger entry, delete. Heals are
actions that may happen at any time, as readers trigger them. Time is half
days, so that sessions and windows cross midnight. Versions of the derivations
are left out (a new version forces a rebuild and nothing else).

**KillLedger**, **HarvestSwings** and **HealingLedger** extend
**LedgerSession**, whose clock steps are the shortest window the ledger looks
at. A shot goes to the cost phase of the tool it is attributed to, at the price
of that moment; a loot group that is no duplicate turns the accumulator into a
kill; its transaction may fail and the failure is contained; a duplicate is
dropped and leaves the window where it was. Swings are corrected backwards by
board evidence in two passes, each a transaction. A press of a harvesting tool,
or of a weapon while the hotbar attributes the shots, holds the passes back
(`OnEquip`); a weapon in trifecta mode, a healer and a consumable do not
(`OnEquipUnsynced`). A heal
in the log and the press of a healer arrive in either order; each decision is a
transaction and memory follows it. Damage, crits, mob stamps, the blacklist and
a swing's own cost are left out.

**ProtectionEvidence** keeps what the costs are shared over: hits stamped with
the setup that stands, windows between readings or repairs, and claims of a
window on a layer of a hit. A declaration of the actor is two steps, its read
and its write, and the service may settle something in between. The catalogue
of sets, retry tokens, markup and the shares of contexts are left out.

**StockLedger** keeps recorded loot, signed movements and one fact per
operation, in units of trade-terminal value, so that a conversion is one to
one. A position is what a source recorded plus its movements; an outflow takes
from every open source in proportion, by largest remainder, and books an
opening balance for what no source holds. Every operation is a transaction of
the single writer and one action here, except the direct sale of an equipment
row, whose item is read on a reader connection first (`ReadForSale`). Prices,
dates and the filter by profession are left out.

**Navigation** keeps the latest run, because a start ends every other and only
the run last touched is revived. Every operation holds one lock and is one
action; beside it pins are deleted, in two steps (the row at once, the stop
when the lock is free), and an out-of-order harvest is two transactions, its
arrival and its `Replan`. Where the player stands is the set of trees within
reach, and the optimiser may return any order. Of visits that are not the
run's only the cooldown is kept.

**SkillLedger** is one skill's calibration trail and its three writers: the
skill tracker in its three steps, the codex (whose claims check on a reader and
advance on the writer), the scan. A gain and a reward are one level each: the
curve is arithmetic. **SkillScan** is every verb of the scan, the worker that
extracts and the frame that follows each change: the key is compared under the
lock and the frame sent outside it.

## 3. What the runs check

| Run | Instance | Question |
|---|---|---|
| `engine` | engine: 2 sessions, 2 kinds, 2 subjects, 3 intervals, 1 stamp; armour: 2 sessions, 2 armours, plates, 2 hits, 2 setups, 2 costs | do memory, contexts and rows agree, and do the tables implement `DeclaredPlay`; what a session leaves open is what its last context names; a layer is paid once, costs are allocated whole, settled evidence stays |
| `lifecycle` | 2 sessions, 2 intervals, 1 gain | one live session, gains and crashes; the engine is used only as it allows |
| `commands` | declarations: 1 session, 2 quests, 2 segments, 2 boosts (one zero), a loadout, 3 intervals; route: 3 trees, a second route or a deleted pin, 1 cooldown at a time | any sequence of declarations with failing writes; a live route has one stop to walk to, visits follow progress, progress is undone one stop at a time |
| `threads` | hook: seven threads, any two consumers busy; tail: 2 lines, 2 seconds; clock: seven delays, zones of -2 to 2 quarters, three samples remembered; bus: 2 sessions, 2 ticks, 1 probe, 1 press, 1 stop | claims counted and gates followed; every line in one tick and drains true; the offset proved; no wait cycle and whoever is waited for can go on, absorbed on return, nothing crosses sessions |
| `waits` | bus with 1 tick; pool with 2 readers, 3 jobs, 2 handles; fair | every publish and command returns, every job is answered, the core ends; writes begin in order and the core never stands still while it owes something |
| `rewards` | quests: a signal and a manual quest, a log of two marker ticks or of one unpaid mission tick, 2 runs, 5 commands (4 around both ticks), retention 1; stock: 2 items, 2 provenances and the unknown one, a recipe, 3 operations, or 2 around an edit; gear: 1 row | a quest paid once a session, a line whose quests stood still not both reward and loot, runs and completions reciprocal, clumps pay their own run, ended runs final; every movement has a standing fact, no undo leaves money behind, only an undo overdraws a source |
| `reads` | 1 session, three days, 2 facts, 2 edits of any kind | derived tables follow every edit and no day is missing from the first day of play on; windows serve each moment once; a deletion leaves no summary and no cells, and no day counts what it deleted |
| `books` | kills: 2 weapons, 1 slot, 2 shots, 2 kept groups of 3; swings: 3 swings, 2 tiers; heals: a direct and a lasting healer, 2 heals, 2 presses; skills: 2 claimers, rank 2, 2 gains, 4 calls; scan: 2 hands, 2 pages, 2 scans | costs add up in memory and tables, repeats are dropped and nothing else, corrections respect evidence and presses, paid heals were pressed, points back gains and claims, the window has the status there is |
| `context_lost`, `reward_twice`, `skill_chain`, `stock_negative` | the instance above, or the smallest that shows it | a documented claim the code does not keep (section 5) |

**Why the bounds are enough to be interesting.** Two sessions let an event, a
gain, an intent or a close arrive in the session after its own; a third would
only repeat the crossing. Two kinds let an exclusive switch seal across kinds,
two subjects let one kind stack; three intervals let one be sealed, one stand
and one be opened. Two ticks let a completion of the first run during the
second. `MaxClaims` is 2: two consumers, or a double start of one; without a
bound, repeated double starts leak a claim each time and the state space is
infinite. Every hazard of the hook is between two consumers, so `TwoAtATime`
lets two be busy; every hazard of a completion is between two actors, so the
constraint of `rewards` lets two be between a read and a write. Two runs let a
run be cancelled and started again while a hand-in waits; a retention of one
makes the sweep bite at the second clump. Three days are a day before the
watermark, one on it and one after; one session may cross them. Two edits are
an edit and its reversal, or two whose refreshes meet. Three swings are a
board, a swing it corrects and one beyond the window; three loot groups
(`MaxArrivals`), two of them kept, are a group, its duplicate, and one that comes
when the duplicate, had it been kept, would have carried the window on. A third
group leaves one act (a press, a break, a setting, a reclassification), two
groups leave two (`ThreeGroupsOrTwoActs`). Three jobs fill two readers and leave one queued, or
queue behind the last handle's drop. Two hits under one cost leave a
remainder to allocate. Three operations on stock are a conversion, the sale of
what it made and its undo, or a listing and two that move its sources in
between; two provenances give the remainder somewhere to go. Three trees let a
harvest out of order leave a stop to replan; a second route or a deleted pin,
not both, is the bound `MaxUpsets`. Bounds that count events (`MaxStamps`, `MaxGains`,
`MaxPresses`, `MaxStops`, `MaxActs`, `MaxCalls`, `MaxEffort` and the like) only
end behaviours. One probe at a time is a bound of the bus model: with none free
the watcher waits, which the code never does. In `MCSessionBooks` what a part
does not look at is fixed in the initial state. Identities that a module does
not tell apart are symmetric in the safety runs; the liveness run uses no
symmetry.

**Deadlock.** The bounded models stop when their bounds are used up, and the
program may sit idle, so the runs of these instances set
`CHECK_DEADLOCK FALSE`; that nobody *waits* for ever is `WaitsSound`
(`NoWaitCycle`, `WaitsAreServed`), the part `CoreNeverStuck` of `PoolSound`,
`EveryCallReturns` and `PoolEnds`. The tracker runs check deadlock: a crash is
always possible.

**Fairness.** Only `waits` assumes any. For the bus: weak fairness of the
tracker's and the quest service's task and of each spawned task (the
multi-threaded runtime polls a ready task), and of the watcher's and the
hotbar's threads (the operating system schedules them). For the pool: weak
fairness of each worker thread and of the thread that joins. Nothing is assumed
of the player, the chat log, commands or the pool's callers. Each condition is
restricted to the part under way, or a step the other part forbids would
satisfy it. In the bus model database calls are inside the steps: they return,
with an error or without; that they do is `PoolEnds`.

**History variables in properties.** Some properties hold up to something the
code lets go wrong, and say so by name: `crossed` and `blind` (overlapped
unlocked reconciles, a route's release), `lapsed` (a boost whose interval write
failed), `stale` and `untagged` (a correction or a tag whose write failed),
`flipped` and `pending` (a reclassification not told yet), `late` (a gain
inserted after its stop), `lost` (lines buffered when a read failed),
`shifted` (a quest that started or ended between a tick's filter and its probe),
`overlapped` (two scan verbs at once), `moved` (a rank set by hand), `skewed` (an
undo that brought a route back with a deleted or a cooling stop, or that took
another stop's visit). `HoldingsKept` speaks of items with no overdrawn source,
because an undo may overdraw one (section 5). `arrivals` (the loot groups in the
order they came) only remembers what the code forgets, to compare what it did
with.

**What two properties leave out.** `DaysCovered`, a part of `DerivedSound`, says
that no day from the first day of play (a session, kill, swing or a gain in time)
to the watermark is without a row, and no ledger day is; a day before it with
only a reward may be (section 5). `DeletedLeavesReads` speaks
of a deleted session's summary and cells and of its costs, kills and gains in the
days, not of its swings, which the delete leaves in the raw table and so in the
days that count them (section 5).

**Conjunctions.** A run's property that ends in *Sound*, and `OneLiveSession`,
`RewardsOnce`, `SkillBooksAgree`, `CallsAbsorbed`, `AttributedInPlace` and
`CostsReachSessions`, are conjunctions of named parts, each stated and commented
where it is defined. Two deserve a word. `KillsSound` has a part for the window,
`GroupsCountedOnce`: a group is dropped exactly when the last group *kept* has its
print and came less than the window before it, and each group kept is one kill or
one swing. `RewardsOnce` has a part for the watcher, `WatcherCountsOnce`: a line
given to a quest is not loot as well, as long as nothing is `shifted`.

**Mutants.** Each property is paired with a plausible bug in a mapped
definition (the operators marked as mutants or plausible mistakes, defined
beside the original and used by no specification) that makes TLC find it
violated.

## 4. What is proved

Thirty-eight of the forty properties of the passing runs are theorems: they hold
for every set of sessions, items, threads, quests, ... and every bound, from
the named assumptions of the modules only. The assumptions say what the
constants are (bounds are natural numbers, what stands for an absent value is
no value, sets a step sums over are finite). Five say more, each read off the
code:

* `ClockAssumption` (ChatClock): twice the lag accepted of a sample (120 s) is
  less than a quarter of an hour (`chatlog_time.rs:46`, `:57`), so that a live
  sample cannot look like the zone next to its own.
* `PoolAssumption` (DbPool): there is at least one reader and finitely many
  (`READER_POOL_SIZE` is 4, `db/pool.rs:37`), and the writer and the caller are
  none of them.
* `HealingAssumption`: a reload is no negative time
  (`reload_seconds.max(0.0)`, `tracker/healing.rs:165`).
* `LayersAssumption` (ProtectionEvidence): armour and plates are different
  layers and a loadout names one of each or none.
* `ProcessAssumption` (BusRendezvous): actors are not clients, a probe is none
  of the named threads, and waiting for nobody is no process.

The form is the same throughout. What a run checks is seldom inductive: it
speaks of an idle actor or of two ends of a computation. Each proof states the
inductive invariant that says it of every state in between, shows it initially
true and kept, one lemma per operation, and derives the properties from it.

**The interval engine** (`SessionIntervals_proofs`). `ContextNamesOpenSet`, the
property that matters, is not inductive alone. A fresh session must find no
row of its own (`RowsFollowSession`, a fact of this proof only), opening one may empty memory only if
every row has been named (`EveryIntervalNamed`), a new context stays in its
session because the standing rows are the session's (`OpenRowsAreStanding`),
and a stamp does because the context in force names the standing set.
`EngineInv` is the conjunction. `EngineImplementsPlay` is the refinement: each
transition is a step of `DeclaredPlay` or a stutter, under the mapping that
resolves a context id to the declarations of its members. The heart of it is
`RecordedPlayStands`: transitions append and end rows, and neither changes what
an old context resolves to. `LeftOpenIsNamed` looks at what stays behind: the rows
of a session that is not live are neither ended nor added to, because rows are
ended by identifier and only from memory, and dropping memory changes no table, so
its open rows are still those its last context named.

**The session's life** (`TrackerSession_proofs`). `TrackerDrivesEngine`: every
step, failures, crashes and recoveries included, is a step of the engine or
leaves it alone, so the engine's theorems hold of the running tracker.
`TrackerInv` then says, for each step the actor may be at, whether a session is
in memory and what rows, bus and skill tracker say of it (`OneSession`), and
what memory holds of the boost while a start opens its intervals one by one
(`BoostStands`). `OneSessionIsLive`, `DeclarationsStaySound` and the three
action properties follow.

**Routes** (the end of `TrackerSession_proofs`). The check speaks of a route
between two commands; in between, a cooldown or a deletion leaves a live run
without an active stop until its replan. `NavInv` says which of the two is
owed (`Walkable`), that every stop has one place in the order and that what is
done was visited or skipped (`Listed`), and that the visits are the stops done
as visited, in order (`Follows`). `Moved` is the little a step may do to
progress: nothing, one stop more, or the last one reopened; `RoutesSound` and
`ProgressIsKept` follow from the two. What they rest on is that filtering keeps
order and repeats nothing. The provers know nothing of the built-in
`SelectSeq`, so Navigation filters with `Selection`, a recursive function, and
the lemmas about it walk along the sequence by the least place that would be
an exception.

**Threads** (`Threads_proofs`). *Bus*: `NobodyWaitsInACircle` by `WaitOrder`
(clients may wait for either actor, the tracker only for the quest service,
the quest service for no one; a set that waits on itself would have to contain
the quest service). What a caller may rely on afterwards needs that a process
has one call in the inboxes at most and waits while it is there
(`OneCallEach`), that followers are one announcement behind (`FollowersInStep`)
and that a close stands behind the events of its tick (`ClosesComeLast`). Who
waits is served (`EveryWaitIsServed`) because a call that has not returned is in
an inbox or in the tracker's hands (`Waiters`), and the order of the waits leaves
the quest service free.
*Hook*: the count equals the number of consumers that hold a claim, where a
consumer in the middle of a call is judged by where its thread stands
(`Counted`). *Tail*: what is published and what is buffered, one after the
other, are the recognised lines handled and not lost (`TicksHoldHandled`). Both
are sequences in the order of the file, and a sequence in order is known by what
is in it, so that a step has to show only that the two hold the same lines; the
order comes from where the reader stands in the file (`ReadsFollowFile`). That a
tick holds one second needs that a new second closes the tick first
(`OneSecondEach`), that a line is cut only at a stop needs `EndsWhenTold`, and
that a drained wait is true needs the counter and the pending flag to agree with
what the thread has in its hands (`HandsAgree`, `WaitsForSeen`). *Clock*: the
run of agreeing samples at the end of the record is what the candidate counts
(`CandidateCounts`). *Pool*: what was submitted to a queue is what has begun,
then what waits (`InOrder`). The core never stands still while it owes something
(`CoreKeepsGoing`) by `CoreInv`: a worker holds its queue's receiver exactly while
it waits for a job (`ReceiverHeld`), what is in hand has begun and is in one hand
only (`JobsApart`), a closed core has no handle left (`NothingOwned`), only the
worker that drops the core waits for its joins (`DropJoins`), and a job not
answered waits in its queue or is in a hand (`JobsAccounted`).

**Quests** (`QuestLifecycle_proofs`). A completion reads, closes and writes with
other actors in between, so `QuestInv` says of each of its steps what the
tables already hold and what is still owed (`FlowsCarry`), and that a line has
at most one flow, review or clump of its own (`OneReview`, `OneClump`).
`QuestBooksAreSound` follows, and what `RewardsAreGivenOnce` says of completions
and hand-ins. What it says of the watcher needs a second invariant, `WatchInv`,
which follows the filter's answer: until its probe looks, a tick that is not
`shifted` was filtered by the quests still in progress (`FilterHolds`,
`ProbesHold`); so a reward the probe confirms is of a suppressed line, on its way
(`FlowsTold`) and in the table (`CompletionsTold`), or it is a clump's, whose line
was loot and is taken off it; and no step makes a suppressed line loot
(`LootHolds`).

**A session's books** (`SessionBooks_proofs`). *Kills*: at every step of a loot
group the shots are in exactly one kill or the accumulator, and a row has what
its kill has unless its tag failed or its loot awaits reconciliation. What
arrived is followed beside it (`LootInv`): the guard remembers the last group
kept, so what it drops are the repeats of that one. *Swings*: an inferred tier keeps, in the same stretch, the board that backs it,
and no correction takes that board away. *Heals*: the cost is a sum over
standing uses, and a heal may only join a use whose window is open. *Trail and
codex*: a call between its read and its write has already earned its point or
its rank or neither, and says which. *Scan*: the key last sent is the key there
is, or a thread inside a verb still owes the frame.

**Costs and stock** (`CostsAndStock_proofs`) are about sums. The shares of a
window are divided by the hits that claim it, and each hit's layer is claimed
by one window. The movements of every fact of the stock ledger are those of
*one plan*: a plan has an outflow for every open source, its parts add up to
the quantity, and whatever credit, fee, expiry or undo follows is derived from
the same plan, so every balance is one sum taken twice. `HoldingsStayKept`
needs in addition that a share is no more than its source holds.

**Read models** (`ReadModels_proofs`). What is stored is the set of rows it was
computed from, so each step owes a new derivation of whatever was computed from
rows it changed. `ReadInv` says that stored cells are of ended sessions and
equal their rows, that rolled days do, except the days a live session has
touched, and that no day from the first day of play to the watermark is missing,
which rests on where the first walk starts and on sessions starting no earlier
than the days already rolled. `WindowsServeOnce` is arithmetic about the three parts of a
window, for any watermark.

**Shared lemmas.** `ModelLemmas` holds what several proofs need: appending to
and replacing in a table, removing the head of a queue, greatest and least
elements of finite sets, and the sum of a function over a finite set
(`SumOf`, from the community modules' fold): adding and removing an element,
agreeing and renamed summands, parts, support, scaling, monotonicity. The
library's induction theorems cannot be used by the installed provers, so
these proofs take the *smallest exception*: were there a set of which the claim
fails, there would be one of least cardinality, and removing an element from it
gives a smaller one.

The concatenation of ticks (`FlattenSeq`) and filtering (`Selected`) are
recursive functions over a sequence; the lemmas about them, and about sequences
in order, take the least place that would be an exception in the same way.

**Only model-checked.** `EveryCallReturns` and `PoolEnds` are liveness under
fairness, out of the prover's reach. Their safety half is proved: whenever a
call or a job waits, someone the program schedules has a step to take
(`WaitsAreServed`, `CoreNeverStuck`). That these steps come to an
end is TLC's. The four properties of the violated runs of section 5 are refuted: TLC's counterexamples
are the result.
No module has a RECURSIVE operator.

## 5. Disagreements between the code and what it says

Four are runs that TLC finds violated.

* **A failed stop loses the context** (`context_lost`). `stop_session` closes
  the intervals and forgets the context, then runs its transaction; when that
  fails the session stays live with no context, although
  `tracker/intervals.rs:237` says there is none only before the first is minted.
* **Points of one second fork the skill trail** (`skill_chain`). The level to go
  on from is read without a tie break (`skill_tracker.rs:175`), so the second
  gain of a second may start where the first did and the trail ends one short.
* **A line is counted twice** (`reward_twice`). The filter that keeps a reward's
  line off the loot "so the reward is not double-counted" (`quests/missions.rs:348`)
  and the probe that completes the quest each read the quests in progress. A quest
  that starts in between is completed from a line already recorded as loot.
* **An undo leaves a negative holding** (`stock_negative`). An undo is checked
  against the item's total (`analytics.rs:4150`), while outflows draw on each
  source: a conversion undone after its product was sold from another source
  overdraws one, positions then leave it out, and the next sale takes the item
  below zero without booking an opening balance.

The following were met while modelling; the models carry the behaviour and the
properties are stated up to it, or it lies outside what is modelled.

* *An interval outlives its session*: `tracker/session.rs:1103` closes the open
  intervals "so no interval outlives the session that owns it"; the error of
  that close is dropped (`:1110`) and the session's row ends all the same.
  Recovery ends session rows only, so a crash leaves the same. What stays open
  is exactly what the session's last context names (`LeftOpenIsLastContext`).
* *A deleted session leaves its swings*: `tracking_reads.rs:1434` says every row
  that references the session is deleted; harvest swings and their loot are not,
  and foreign keys are off.
* *A day with only a reward is lost*: `daily_rollup.rs:18`
  gives every day from the earliest data day to the watermark a row;
  `earliest_data_day` (`:335`) does not look at quest rewards, which
  `recompute_day` (`:178`) counts. A reward outside a session, a day later the
  first heal: the watermark is past the reward's day, no row has it, and reads
  below the watermark do not look at the raw tables.
* *A line is counted never*: `quests/missions.rs:203` says the probe mirrors the
  filter's assignment. For a quest taken up again in the session that completed
  it, the filter suppresses the marker and the completion returns early
  (`quests/lifecycle.rs:304`).
* *A press does not hold a correction back*: "Any hotbar press" resolves the
  wrong-tool cue and bounds the retro pass (`tracker/combat.rs:355`,
  `tracker/harvest.rs:24`); a weapon press in trifecta mode returns before both
  (`tracker/combat.rs:348`), and a healer's and a consumable's press touch
  neither (`tracker/combat.rs:441`, `tracker/healing.rs:231`). `EvidenceStands`
  and `InferredIsBacked` therefore speak of presses that re-sync the belief.
* *Every cost phase is kept*: `tracker/persistence.rs:82` says a kill's rows are
  keyed on the tool's name, so the last of its phases wins. Since
  `migrations/0049` the key has the cost and the evidence as well, and every
  phase has its row, which is what the costs need to add up (`KillsSound`); the
  comment is what is out of date.
* *A late gain misses the rollup*: inserted after its session's stop, it is in
  no settled cell until the next edit, although `session_rollup.rs:25` calls
  readers of a complete session correct (`late` in ReadModels).
* *The hotbar's hook without a session* and *a live calibration without its
  listener*: unlocked reconciles that overlap (`crossed` in KeystrokeClaims).
  Presses are still gated on the session.
* *A route takes the hook from others*: a claim that never attached is released
  all the same (`blind`).
* *A flip moves the rebate*: a bulk flip of Shrapnel (`tracking_reads.rs:1274`)
  also moves the rows an enhancer's rebate returned, which the total counted at
  record time leaves out.
* *A summary keeps its loot*: a review (`quests/review.rs:345`) moves loot
  between reward and ordinary and refreshes cells and days but not the session's
  summary; `SummaryTracksSession` therefore leaves loot out.
* *A rank claimed twice*: after a calibration downwards, or a reversal of an
  earlier rank, the codex lets a rank be claimed whose claim still stands
  (`moved` in SkillLedger).
* *A suppression outlives its session*: `suppress_next` looks at the active flag
  first and arms later; a session change between them arms it in the next.
* *An expired piece is held again*: undoing an expired equipment listing
  (`undo_auction_listing`) sets the inventory row to held though a later listing
  of it may be pending or sold.
* *A flip after a sale* takes stock below zero: the sale is not asked.
* *Movements are deleted*: `insert_movement` says rows are never updated or
  deleted; every undo deletes them.
* *A direct sale prices a stale row*: `sell_inventory_item` computes its result
  from a basis read before its transaction.
* *A route completes with a tree left*: a harvest at the last pending tree
  while another is active finds nothing to activate and completes the run; the
  replan that follows keeps it completed with a stop active, later harvests find
  no live route, and the hook stays claimed until the route is ended
  (`apply_position`, `navigation.rs:607`). `RouteHasTarget` speaks of live routes.
* *An undo takes another stop's visit*: a skip writes no visit, its undo deletes
  the run's latest one all the same; and an undo may bring back a stop whose pin
  is deleted, or whose tree was put on cooldown from the map (`skewed`).
* *An undo with nothing to undo* claims the hook for a route that has ended.
* *Two scan verbs at once*: an accept repeated while the first is saving resets
  a scan begun in between, a capture under way lands in the scan begun after a
  cancel, and two changes that undo each other between the comparison of the
  keys may coalesce into no frame (`overlapped` in SkillScan).

## 6. What is not modelled, and the plan

| Part | Why |
|---|---|
| Analytics reports, most of `tracking_reads.rs` | figures computed from rows, one pass and no state; the window they cut and the tables they read are in ReadModels |
| Market prices and observations | data that reports read; stock itself is StockLedger |
| Session definitions, configuration, maps and pins | single-row edits; what a start resolves from them is an input of TrackerSession; a pin's deletion and cooldown are in Navigation |
| Route distances and the optimiser | geometry; Navigation lets the plan take any order |
| Quest names, families, cooldowns, CRUD | matching and dates; which quest a line means is an input |
| Character and cost arithmetic | floating-point formulas, which the repository checks against golden files |
| Image reading, auction-fee research | image processing and a neural model |
| Migrations | run once, in order, before anything else starts |
| Wire types, facade, shell, frontend | render and forward; the window keeps no authoritative state |

The arithmetic, reports, image reading and views above are most of the lines of
the repository, and none of them is a transition system; what a model could say
of them would restate their code.

Of what is modelled, every safety property the runs check is proved. What is
left to TLC is the liveness of the bus and of the pool; what a further model
could add is the tie between modules that are checked side by side, above all
the tail thread of ChatTail as the watcher of BusRendezvous and QuestLifecycle.
