--------------------------- MODULE QuestLifecycle ---------------------------
(***************************************************************************)
(* The quest service's rewards: runs, completions, raw loot clumps, manual *)
(* hand-ins, reviews and reversals (quests/lifecycle.rs, hand_in.rs,       *)
(* missions.rs, review.rs), as three kinds of actor drive them:            *)
(*   - the chat tail thread, which asks the quest task what to suppress,   *)
(*     publishes the loot to the tracker and spawns one probe task per     *)
(*     tick;                                                               *)
(*   - the probe tasks, which complete quests once the tick is published;  *)
(*   - the command task of the user interface.                             *)
(* Every await between two database calls of a completion is a point where *)
(* another actor may step.  Writer transactions are atomic.                *)
(***************************************************************************)
EXTENDS Integers, Sequences, FiniteSets

CONSTANTS
    Quest,          \* quests of the mission log
    Signal,         \* those completed by a marker item (completion_mode)
    Manual,         \* those completed by confirming a loot clump
    Named,          \* those whose reward is read off the tick (named_items)
    Session,        \* tracking sessions
    NoSession,
    Chat,           \* the chat logs: sequences of ticks that carry loot or a completion
    MaxTicks,       \* the longest of them
    MaxRuns,        \* rows of quest_runs
    MaxCommands,    \* what the user does: declare, start, complete, cancel ...
    Retention       \* RAW_CLUMP_RETENTION: unclaimed clumps kept

\* A mission tick completes `quest` and carries its reward line (units = 1)
\* or not; a loot tick's line is `units` marker items, or other loot (0).
TickKind == [kind : {"mission"}, quest : Quest, units : 0..1]
            \union [kind : {"loot"}, units : 0..2]

ASSUME QuestKinds ==
    /\ \A log \in Chat : log \in Seq(TickKind) /\ Len(log) <= MaxTicks
    /\ IsFiniteSet(Quest) /\ Signal \subseteq Quest /\ Manual \subseteq Quest /\ Named \subseteq Quest
    /\ Signal \cap Manual = {}

ASSUME QuestBounds ==
    /\ NoSession \notin Session
    /\ {MaxTicks, MaxRuns, MaxCommands} \subseteq Nat /\ Retention \in Nat \ {0}

VARIABLES
    session,        \* the session watch of the quest task
    spent,          \* sessions already started once
    commands,       \* what the user has done so far, bounded by MaxCommands
    standing,       \* quests with a declared stretch open in the session
    startedAt,      \* quests.started_at: the run a start opened, 0 when null
    runs,           \* quest_runs
    completions,    \* session_quest_completions with their reward lines
    reversed,       \* quest_reward_reversals
    ticks,          \* published ticks; one loot line each
    clumps,         \* quest_reward_clumps: the tick's line and its claim
    tail,           \* the tail thread: idle, or a tick filtered and unpublished
    task,           \* the command task (0) and the probe of each tick
    shifted         \* ticks between whose filter and probe a quest started or ended
                    \* (history: the code keeps no such thing)

tables == <<runs, completions, reversed, clumps>>
questVars == <<session, spent, commands, standing, startedAt, tables, ticks, tail, task, shifted>>

-----------------------------------------------------------------------------
Task == 0..MaxTicks

\* One more act of the user.
Command == commands < MaxCommands /\ commands' = commands + 1
Idle == [pc |-> "idle"]

OpenRuns(q) == {r \in DOMAIN runs : runs[r].quest = q /\ runs[r].status = "in_progress"}
Completed(s, q) == \E c \in DOMAIN completions :
                      completions[c].session = s /\ completions[c].quest = q
IsStarted(q) == startedAt[q] # 0
Without(q) == [startedAt EXCEPT ![q] = 0]
NewRun(q) == [quest |-> q, status |-> "in_progress", since |-> Len(ticks),
              completion |-> 0]

\* Ticks the filter has answered and no probe has looked at yet.
Pending == {k \in DOMAIN ticks : task[k].pc \in {"spawned", "journalled"}}
               \union (IF tail.pc = "filtered" THEN {Len(ticks) + 1} ELSE {})
Shift == shifted' = IF startedAt' = startedAt THEN shifted ELSE shifted \union Pending

\* The signal quests in progress a marker line pays for: oldest first, one
\* unit each.
Assigned(units) ==
    LET candidates == {q \in Signal : IsStarted(q)}
        older(q) == {p \in candidates : startedAt[p] < startedAt[q]}
    IN  {q \in candidates : Cardinality(older(q)) < units}

\* The whole line is suppressed only when each of its units is the named
\* reward of a quest.
SafelyOwned(units) ==
    /\ Cardinality(Assigned(units)) = units
    /\ units > 0
    /\ Assigned(units) \subseteq Named

\* What the filter answers for a tick before it is published.
Suppresses(t) ==
    CASE t.kind = "mission" -> IsStarted(t.quest) /\ t.quest \in Named /\ t.units > 0
      [] OTHER -> SafelyOwned(t.units)

-----------------------------------------------------------------------------
(* The tracker's session and the declared stretches.                       *)

StartSession(s) ==
    /\ session = NoSession
    /\ Command
    /\ s \notin spent
    /\ session' = s
    /\ spent' = spent \union {s}
    /\ UNCHANGED <<standing, startedAt, tables, ticks, tail, task, shifted>>

StopSession ==
    /\ Command
    /\ session # NoSession
    /\ session' = NoSession
    /\ standing' = {}
    /\ UNCHANGED <<spent, startedAt, tables, ticks, tail, task, shifted>>

(* start_quest: one transaction; the index on open runs makes the insert   *)
(* fail, and the whole start with it, when a run was left open.  Declaring *)
(* a quest the log does not carry starts it first, then opens the stretch. *)
StartQuest(q, declare) ==
    /\ Command
    /\ ~IsStarted(q)
    /\ OpenRuns(q) = {}
    /\ Len(runs) < MaxRuns
    /\ declare => q \in Signal \union Manual /\ session # NoSession /\ task[0].pc = "idle"
    /\ startedAt' = [startedAt EXCEPT ![q] = Len(runs) + 1]
    /\ runs' = Append(runs, NewRun(q))
    /\ task' = IF declare THEN [task EXCEPT ![0] = [pc |-> "declare", quest |-> q]] ELSE task
    /\ Shift
    /\ UNCHANGED <<session, spent, standing, completions, reversed, clumps, ticks, tail>>

\* A quest already in progress, or the one just started for it; the tracker
\* refuses when its session has ended meanwhile.
DeclareStretch(q) ==
    /\ \/ Command /\ session # NoSession /\ q \notin standing /\ IsStarted(q)
          /\ UNCHANGED task
       \/ /\ task[0].pc = "declare" /\ task[0].quest = q
          /\ task' = [task EXCEPT ![0] = Idle]
          /\ UNCHANGED commands
    /\ standing' = IF session = NoSession THEN standing ELSE standing \union {q}
    /\ UNCHANGED <<session, spent, startedAt, tables, ticks, tail, shifted>>

-----------------------------------------------------------------------------
(* The chat tail: filter, publish, spawn the probe.                        *)

FilterTick(log) ==
    /\ tail.pc = "idle"
    /\ Len(ticks) < Len(log)
    /\ \A i \in DOMAIN ticks : ticks[i].tick = log[i]
    /\ LET t == log[Len(ticks) + 1]
       IN  tail' = [pc |-> "filtered", tick |-> t, suppressed |-> Suppresses(t)]
    /\ UNCHANGED <<session, spent, commands, standing, startedAt, tables, ticks, task,
                   shifted>>

PublishTick ==
    /\ tail.pc = "filtered"
    /\ LET id == Len(ticks) + 1
           recorded == session # NoSession /\ ~tail.suppressed
       IN  /\ ticks' = Append(ticks,
                 [tick |-> tail.tick, suppressed |-> tail.suppressed, session |-> session,
                  stood |-> standing, loot |-> IF recorded THEN "active" ELSE "none"])
           /\ task' = [task EXCEPT ![id] = [pc |-> "spawned"]]
    /\ tail' = [pc |-> "idle"]
    /\ UNCHANGED <<session, spent, commands, standing, startedAt, tables, shifted>>

-----------------------------------------------------------------------------
(* A completion: complete_quest_with_evidence, one action per await.       *)

Completion(q, outcome, tick, lines, clump) ==
    [pc |-> "check", quest |-> q, session |-> NoSession, attr |-> {},
     outcome |-> outcome, tick |-> tick, lines |-> lines, clump |-> clump,
     rest |-> <<>>]

\* A probe goes on with the next quest its marker line pays for.
Resume(k) ==
    IF task[k].rest = <<>> THEN Idle
    ELSE [Head(task[k].rest) EXCEPT !.rest = Tail(task[k].rest)]

\* The session is snapshotted, its completions and the declared stretch are
\* read; all three may be stale when the transaction runs.
CheckCompletion(k) ==
    /\ task[k].pc = "check"
    /\ task' = [task EXCEPT ![k] =
         IF session # NoSession /\ Completed(session, @.quest) THEN Resume(k)
         ELSE [@ EXCEPT !.session = session,
                        !.attr = IF task[k].quest \in standing THEN standing ELSE {},
                        !.pc = IF task[k].clump # 0 THEN "write" ELSE "close"]]
    /\ UNCHANGED <<session, spent, commands, standing, startedAt, tables, ticks, tail,
                   shifted>>

ReportStretchClosed(k) ==
    /\ task[k].pc \in {"close", "after"}
    /\ standing' = standing \ {task[k].quest}
    /\ task' = [task EXCEPT ![k] =
                   IF @.pc = "close" THEN [@ EXCEPT !.pc = "write"] ELSE Resume(k)]
    /\ UNCHANGED <<session, spent, commands, startedAt, tables, ticks, tail, shifted>>

\* (A plausible mistake.)
ClaimValidAnyRun(q, clump, since) ==
    /\ clumps[clump].claimed = 0
    /\ ~clumps[clump].pruned
    /\ q \in ticks[clumps[clump].tick].stood

\* The claim, revalidated under the writer lock against the open run.
ClaimValid(q, clump, since) ==
    /\ clumps[clump].claimed = 0
    /\ ~clumps[clump].pruned
    /\ q \in ticks[clumps[clump].tick].stood
    /\ clumps[clump].tick > since

\* (A plausible mistake.)
TrustEarlierCheck(f) == FALSE

\* INSERT OR IGNORE over UNIQUE(session_id, quest_id).
Ignored(f) == f.session # NoSession /\ Completed(f.session, f.quest)

CloseRun(rows, run, completion) ==
    [rows EXCEPT ![run].status = "completed", ![run].completion = completion]

CommitCompletion(k) ==
    /\ task[k].pc = "write"
    /\ LET f == task[k]
           opened == IF OpenRuns(f.quest) = {} THEN Append(runs, NewRun(f.quest)) ELSE runs
           run == CHOOSE r \in DOMAIN opened : opened[r].quest = f.quest
                                               /\ opened[r].status = "in_progress"
           id == Len(completions) + 1
       IN  /\ Len(opened) <= MaxRuns
           /\ f.clump # 0 => ClaimValid(f.quest, f.clump, opened[run].since)
           /\ startedAt' = Without(f.quest)
           /\ IF Ignored(f)
              THEN /\ runs' = opened
                   /\ task' = [task EXCEPT ![k] = Resume(k)]
                   /\ UNCHANGED <<completions, clumps, ticks>>
              ELSE /\ completions' = Append(completions,
                        [session |-> f.session, quest |-> f.quest, run |-> run,
                         outcome |-> f.outcome, tick |-> f.tick, attr |-> f.attr,
                         lines |-> f.lines, reviewed |-> 0])
                   /\ runs' = CloseRun(opened, run, id)
                   /\ IF f.clump = 0
                      THEN /\ task' = [task EXCEPT ![k] = Resume(k)]
                           /\ UNCHANGED <<clumps, ticks>>
                      ELSE /\ clumps' = [clumps EXCEPT ![f.clump].claimed = id]
                           /\ ticks' = [ticks EXCEPT ![clumps[f.clump].tick].loot = "inactive"]
                           /\ task' = [task EXCEPT ![k].pc = "after"]
    /\ Shift
    /\ UNCHANGED <<session, spent, commands, standing, reversed, tail>>

\* A refused claim or a failing write rolls the transaction back; the error
\* ends the task, the assignments it still held included.
AbortCompletion(k) ==
    /\ task[k].pc = "write"
    /\ task' = [task EXCEPT ![k] = Idle]
    /\ UNCHANGED <<session, spent, commands, standing, startedAt, tables, ticks, tail,
                   shifted>>

-----------------------------------------------------------------------------
(* The probes of a published tick.                                         *)

MissionCompleteCheck(k) ==
    /\ task[k].pc = "spawned"
    /\ ticks[k].tick.kind = "mission"
    /\ LET t == ticks[k].tick
           paid == t.quest \in Named /\ t.units > 0
       IN  task' = [task EXCEPT ![k] =
             IF ~IsStarted(t.quest) THEN Idle
             ELSE Completion(t.quest,
                             CASE t.quest \notin Named -> "none"
                               [] paid -> "confirmed"
                               [] OTHER -> "unresolved",
                             k, IF paid THEN {k} ELSE {}, 0)]
    /\ UNCHANGED <<session, spent, commands, standing, startedAt, tables, ticks, tail,
                   shifted>>

\* Only the newest unclaimed clumps stay in the journal.
Swept(rows) ==
    LET unclaimed == {c \in DOMAIN rows : rows[c].claimed = 0 /\ ~rows[c].pruned}
        old(c) == Cardinality({d \in unclaimed : d > c}) >= Retention
    IN  [c \in DOMAIN rows |-> IF c \in unclaimed /\ old(c)
                               THEN [rows[c] EXCEPT !.pruned = TRUE] ELSE rows[c]]

\* raw_loot_clump_check drops the lines a signal quest owns by now, then
\* journals what is left when a manual run stood at the tick.
RecordRewardClump(k) ==
    /\ task[k].pc = "spawned"
    /\ ticks[k].tick.kind = "loot"
    /\ LET relevant == \E q \in ticks[k].stood \cap Manual :
                          \E r \in OpenRuns(q) : runs[r].since < k
           journal == /\ ~SafelyOwned(ticks[k].tick.units)
                      /\ ticks[k].loot # "none"
                      /\ relevant
           clump == [tick |-> k, claimed |-> 0, pruned |-> FALSE]
       IN  clumps' = IF journal THEN Swept(Append(clumps, clump)) ELSE clumps
    /\ task' = [task EXCEPT ![k].pc = "journalled"]
    /\ UNCHANGED <<session, spent, commands, standing, startedAt, runs, completions, reversed,
                   ticks, tail, shifted>>

\* signal_candidate_order: oldest start first.
Oldest(quests) ==
    {order \in [1..Cardinality(quests) -> quests] :
        \A i, j \in 1..Cardinality(quests) : i < j => startedAt[order[i]] < startedAt[order[j]]}

\* A named reward's unit is taken only from a line all of whose units are.
SignalLootCheck(k) ==
    /\ task[k].pc = "journalled"
    /\ LET units == ticks[k].tick.units
           paid == {q \in Assigned(units) : q \in Named => SafelyOwned(units)}
           flow(q) == IF q \in Named THEN Completion(q, "confirmed", k, {k}, 0)
                      ELSE Completion(q, "none", k, {}, 0)
       IN  \E order \in Oldest(paid) :
             LET flows == [i \in DOMAIN order |-> flow(order[i])]
             IN  task' = [task EXCEPT ![k] =
                   IF flows = <<>> THEN Idle ELSE [Head(flows) EXCEPT !.rest = Tail(flows)]]
    /\ UNCHANGED <<session, spent, commands, standing, startedAt, tables, ticks, tail,
                   shifted>>

-----------------------------------------------------------------------------
(* The command task.                                                       *)

CompleteQuest(q) ==
    /\ Command
    /\ task[0].pc = "idle"
    /\ q \notin Manual
    /\ task' = [task EXCEPT ![0] =
          Completion(q, IF q \in Named THEN "unresolved" ELSE "none", 0, {}, 0)]
    /\ UNCHANGED <<session, spent, standing, startedAt, tables, ticks, tail, shifted>>

\* The read behind a hand-in: the manual quest is in progress, its stretch
\* stands in the live session, and the clump is one it may claim.
HandInConfirm(q, c) ==
    /\ Command
    /\ task[0].pc = "idle"
    /\ q \in standing
    /\ ticks[clumps[c].tick].session = session
    /\ \E r \in OpenRuns(q) : ClaimValid(q, c, runs[r].since)
    /\ task' = [task EXCEPT ![0] =
          Completion(q, "confirmed", clumps[c].tick, {clumps[c].tick}, c)]
    /\ UNCHANGED <<session, spent, standing, startedAt, tables, ticks, tail, shifted>>

\* cancel_quest reads the quest first; what it read decides the branch.
CancelQuest(q, undo) ==
    /\ Command
    /\ task[0].pc = "idle"
    /\ IsStarted(q) # undo
    /\ task' = [task EXCEPT ![0] = [pc |-> IF undo THEN "undo" ELSE "cancel", quest |-> q]]
    /\ UNCHANGED <<session, spent, standing, startedAt, tables, ticks, tail, shifted>>

\* (A plausible mistake.)
CancelEveryRun ==
    /\ task[0].pc = "cancel"
    /\ startedAt' = Without(task[0].quest)
    /\ runs' = [r \in DOMAIN runs |->
                  IF runs[r].quest = task[0].quest
                  THEN [runs[r] EXCEPT !.status = "cancelled"] ELSE runs[r]]
    /\ task' = [task EXCEPT ![0] = Idle]
    /\ Shift
    /\ UNCHANGED <<session, spent, commands, standing, completions, reversed, clumps, ticks,
                   tail>>

CancelRun ==
    /\ task[0].pc = "cancel"
    /\ startedAt' = Without(task[0].quest)
    /\ runs' = [r \in DOMAIN runs |->
                  IF r \in OpenRuns(task[0].quest)
                  THEN [runs[r] EXCEPT !.status = "cancelled"] ELSE runs[r]]
    /\ task' = [task EXCEPT ![0] = Idle]
    /\ Shift
    /\ UNCHANGED <<session, spent, commands, standing, completions, reversed, clumps, ticks,
                   tail>>

\* The loot a completion took off the books: its review's and its claim's.
OffTheBooks(c) ==
    {completions[c].reviewed}
        \union {clumps[i].tick : i \in {j \in DOMAIN clumps : clumps[j].claimed = c}}

\* The reward of the quest's latest completion is reversed, and the loot its
\* review or its claim took off the books is put back; refused when there is
\* none, when it was undone before, and while its stock has been spent.
UndoReward ==
    /\ task[0].pc = "undo"
    /\ LET own == {c \in DOMAIN completions : completions[c].quest = task[0].quest}
           c == CHOOSE c \in own : \A d \in own : d <= c
       IN  \/ UNCHANGED <<reversed, ticks>>
           \/ /\ own # {} /\ c \notin reversed
              /\ reversed' = reversed \union {c}
              /\ ticks' = [t \in DOMAIN ticks |->
                             IF t \in OffTheBooks(c)
                             THEN [ticks[t] EXCEPT !.loot = "active"] ELSE ticks[t]]
    /\ task' = [task EXCEPT ![0] = Idle]
    /\ UNCHANGED <<session, spent, commands, standing, startedAt, runs, completions, clumps,
                   tail, shifted>>

\* resolve_reward_review: one transaction.  The line must still be active loot
\* of the completion's own session and activity.
ResolveRewardReview(c) ==
    /\ Command
    /\ completions[c].outcome = "unresolved"
    /\ completions[c].reviewed = 0
    /\ completions[c].tick # 0
    /\ LET t == completions[c].tick
       IN  /\ ticks[t].session = completions[c].session
           /\ completions[c].attr # {} /\ ticks[t].stood = completions[c].attr
           /\ ticks[t].loot = "active"
           /\ ticks' = [ticks EXCEPT ![t].loot = "inactive"]
           /\ completions' = [completions EXCEPT ![c].reviewed = t,
                                                  ![c].lines = @ \union {t}]
    /\ UNCHANGED <<session, spent, standing, startedAt, runs, reversed, clumps, tail, task,
                   shifted>>

-----------------------------------------------------------------------------
QuestInit ==
    /\ session = NoSession
    /\ spent = {}
    /\ commands = 0
    /\ standing = {}
    /\ startedAt = [q \in Quest |-> 0]
    /\ runs = <<>>
    /\ completions = <<>>
    /\ reversed = {}
    /\ ticks = <<>>
    /\ clumps = <<>>
    /\ tail = [pc |-> "idle"]
    /\ task = [k \in Task |-> Idle]
    /\ shifted = {}

Sessions == (\E s \in Session : StartSession(s)) \/ StopSession
Declares == \E q \in Quest : \/ DeclareStretch(q)
                             \/ \E declare \in BOOLEAN : StartQuest(q, declare)
Tail1 == (\E log \in Chat : FilterTick(log)) \/ PublishTick
Completes == \E k \in Task : \/ CheckCompletion(k) \/ ReportStretchClosed(k)
                             \/ CommitCompletion(k) \/ AbortCompletion(k)
Probes == \E k \in DOMAIN ticks : \/ MissionCompleteCheck(k)
                                  \/ RecordRewardClump(k)
                                  \/ SignalLootCheck(k)
HandIns == \E q \in Manual, c \in DOMAIN clumps : HandInConfirm(q, c)
Commands == \/ \E q \in Quest : CompleteQuest(q)
            \/ \E q \in Quest, undo \in BOOLEAN : CancelQuest(q, undo)
            \/ CancelRun
            \/ UndoReward
            \/ \E c \in DOMAIN completions : ResolveRewardReview(c)

QuestNext == Sessions \/ Declares \/ Tail1 \/ Completes \/ Probes \/ HandIns \/ Commands

QuestSpec == QuestInit /\ [][QuestNext]_questVars

-----------------------------------------------------------------------------
(* Properties.                                                             *)

FlowOf(k) == task[k].pc \in {"check", "close", "write", "after"}

\* Types of the tables and of the actors.
QuestTypeOK ==
    /\ session \in Session \union {NoSession} /\ spent \subseteq Session
    /\ commands \in 0..MaxCommands
    /\ standing \subseteq Quest /\ (session = NoSession => standing = {})
    /\ startedAt \in [Quest -> 0..Len(runs)]
    /\ \A r \in DOMAIN runs :
          /\ runs[r].quest \in Quest /\ runs[r].since \in 0..Len(ticks)
          /\ runs[r].status \in {"in_progress", "completed", "cancelled"}
          /\ runs[r].completion \in 0..Len(completions)
    /\ \A c \in DOMAIN completions :
          /\ completions[c].session \in Session \union {NoSession}
          /\ completions[c].lines \subseteq DOMAIN ticks
          /\ completions[c].reviewed \in {0} \union DOMAIN ticks
    /\ reversed \subseteq DOMAIN completions
    /\ \A t \in DOMAIN ticks : ticks[t].loot \in {"none", "active", "inactive"}
    /\ \A i \in DOMAIN clumps : clumps[i].tick \in DOMAIN ticks
    /\ DOMAIN task = Task
    /\ \A k \in Task : FlowOf(k) => task[k].quest \in Quest

\* A quest the log shows in progress has one open run, whatever commands,
\* probes and failed transactions came between its start and its end; without
\* it the next completion would invent a run and lose the effort before it.
StartedHasRun ==
    /\ \A q \in Quest : Cardinality(OpenRuns(q)) <= 1
    /\ \A q \in Quest : IsStarted(q) => startedAt[q] \in OpenRuns(q)

\* A run and its completion name each other: a completed run has exactly one
\* completion, of its own quest, and no completion has another's run.
RunsReciprocal ==
    /\ \A c \in DOMAIN completions :
          /\ runs[completions[c].run].completion = c
          /\ runs[completions[c].run].quest = completions[c].quest
    /\ \A r \in DOMAIN runs : (runs[r].status = "completed") = (runs[r].completion # 0)

\* The tables are well formed, quests in progress have their run and completed
\* runs their completion, through every interleaving of completions, commands
\* and aborted transactions.
RunsConsistent == QuestTypeOK /\ StartedHasRun /\ RunsReciprocal

\* Two completions in flight at once, a click and a probe or two probes, pay a
\* quest once per session.
PaidOncePerSession ==
    \A c, d \in DOMAIN completions :
        /\ completions[c].session = completions[d].session
        /\ completions[c].quest = completions[d].quest
        /\ completions[c].session # NoSession
        => c = d

\* Loot turned into a quest reward, by a hand-in or by a review, is off the
\* ordinary loot exactly until that reward is reversed, so that its value is
\* counted once and never in both places or in neither.
ReclassifiedOnce ==
    /\ \A i \in DOMAIN clumps : clumps[i].claimed # 0 =>
          /\ clumps[i].tick \in completions[clumps[i].claimed].lines
          /\ (ticks[clumps[i].tick].loot = "active") = (clumps[i].claimed \in reversed)
    /\ \A c \in DOMAIN completions \ reversed : completions[c].reviewed # 0 =>
          ticks[completions[c].reviewed].loot = "inactive"

\* A clump pays only for effort that was already under way: it fell while the
\* quest's stretch stood and after the run it completes had started, even when
\* the run was cancelled and restarted between the dialog and the transaction.
ClumpPaysItsRun ==
    \A i \in DOMAIN clumps : clumps[i].claimed # 0 =>
        LET c == completions[clumps[i].claimed]
        IN  /\ runs[c.run].since < clumps[i].tick
            /\ c.quest \in ticks[clumps[i].tick].stood

\* Journalled evidence a hand-in has claimed survives the retention sweep, and
\* the sweep keeps the newest unclaimed clumps.
ClaimedClumpsKept ==
    /\ \A i \in DOMAIN clumps : clumps[i].claimed # 0 => ~clumps[i].pruned
    /\ Cardinality({i \in DOMAIN clumps : clumps[i].claimed = 0 /\ ~clumps[i].pruned})
         <= Retention

\* The journal of reward clumps as a hand-in may rely on it.
ClumpsSound == ClumpPaysItsRun /\ ClaimedClumpsKept

\* The quest tables: runs, completions and the clumps completions were paid by.
QuestBooksSound == RunsConsistent /\ ClumpsSound

\* A reward line the watcher gave a quest is not ordinary loot as well, as long
\* as the probe saw the quests in progress that the filter had seen; what a
\* start, a completion or a cancel in between does is RewardLineNotLoot below.
WatcherCountsOnce ==
    \A c \in DOMAIN completions \ reversed :
        completions[c].outcome = "confirmed" /\ completions[c].tick \notin shifted
        => ticks[completions[c].tick].loot # "active"

\* No two completions pay a quest in one session; loot a hand-in or a review
\* made a reward is off the ordinary loot until that reward is reversed; and a
\* line whose probe agreed with its filter is not both reward and loot.
RewardsOnce == PaidOncePerSession /\ ReclassifiedOnce /\ WatcherCountsOnce

\* A run that ended stays as it ended, with the completion it ended in.
EndedRunsFinal ==
    [][\A r \in DOMAIN runs : runs[r].status # "in_progress" =>
          /\ runs'[r].status = runs[r].status
          /\ runs'[r].completion = runs[r].completion]_questVars

-----------------------------------------------------------------------------
(* What the repository states and the code does not do.                    *)

\* missions.rs:348-350: the filter names what to suppress "so the reward is not
\* double-counted by tracking".
RewardLineNotLoot ==
    \A c \in DOMAIN completions \ reversed :
        completions[c].outcome = "confirmed" => ticks[completions[c].tick].loot # "active"

=============================================================================
