----------------------- MODULE QuestLifecycle_proofs ------------------------
(***************************************************************************)
(* The books of the quest service are sound and a reward is given once,    *)
(* for any number of quests, sessions, ticks, probes and commands, and     *)
(* whatever the chat log says.  A completion moves through its close, its  *)
(* write and its signals while other commands interleave, so the invariant *)
(* says of each step of it what the tables already hold and what is still  *)
(* owed.  A second invariant follows the answer of the chat filter from    *)
(* before a tick is published to the probe that completes a quest from it. *)
(***************************************************************************)
EXTENDS QuestLifecycle, ModelLemmas

(* What the tables and the actors hold, as one inductive invariant.        *)

FlowPcs == {"check", "close", "write", "after"}
Outcomes == {"none", "confirmed", "unresolved"}
InSession == Session \union {NoSession}

RunRow == [quest : Quest, status : {"in_progress", "completed", "cancelled"},
           since : Nat, completion : Nat]
CompletionRow == [session : InSession, quest : Quest, run : Nat, outcome : Outcomes,
                  tick : Nat, attr : SUBSET Quest, lines : SUBSET Nat, reviewed : Nat]
TickRow == [tick : TickKind, suppressed : BOOLEAN, session : InSession,
            stood : SUBSET Quest, loot : {"none", "active", "inactive"}]
ClumpRow == [tick : Nat, claimed : Nat, pruned : BOOLEAN]

\* A completion in flight, and one that waits behind it on the same line.
Waiting == [pc : FlowPcs, quest : Quest, session : InSession, attr : SUBSET Quest,
            outcome : Outcomes, tick : Nat, lines : SUBSET Nat, clump : Nat,
            rest : {<<>>}]
Flow == [pc : FlowPcs, quest : Quest, session : InSession, attr : SUBSET Quest,
         outcome : Outcomes, tick : Nat, lines : SUBSET Nat, clump : Nat,
         rest : Seq(Waiting)]
Working == [pc : {"idle", "spawned", "journalled"}]
           \union [pc : {"declare", "undo", "cancel"}, quest : Quest]
           \union Flow

SidesTyped ==
    /\ session \in InSession /\ spent \subseteq Session
    /\ commands \in 0..MaxCommands
    /\ standing \subseteq Quest /\ (session = NoSession => standing = {})
    /\ tail.pc = "filtered" => /\ tail.tick \in TickKind /\ tail.suppressed \in BOOLEAN
                               /\ Len(ticks) < MaxTicks

TablesTyped ==
    /\ startedAt \in [Quest -> Nat]
    /\ runs \in Seq(RunRow) /\ completions \in Seq(CompletionRow)
    /\ reversed \subseteq DOMAIN completions
    /\ ticks \in Seq(TickRow) /\ Len(ticks) <= MaxTicks
    /\ clumps \in Seq(ClumpRow)

TasksTyped == task \in [Task -> Working]

\* Every number in a table is a row of the table it names.
Referring ==
    /\ \A r \in DOMAIN runs : runs[r].since <= Len(ticks)
                              /\ runs[r].completion <= Len(completions)
    /\ \A c \in DOMAIN completions :
          /\ completions[c].run \in DOMAIN runs
          /\ completions[c].lines \subseteq DOMAIN ticks
          /\ completions[c].tick <= Len(ticks)
    /\ \A i \in DOMAIN clumps : clumps[i].tick \in DOMAIN ticks
                                /\ clumps[i].claimed <= Len(completions)

\* A quest has at most one open run, and the one its start opened is open.
OneOpenRun ==
    /\ \A q \in Quest : \A r, s \in OpenRuns(q) : r = s
    /\ \A q \in Quest : startedAt[q] # 0 => startedAt[q] \in OpenRuns(q)

\* What a completion in flight carries: a probe the evidence of its own tick,
\* the command task a clump or nothing; only a mission's own completion can
\* still ask for a review.
Carries(k, f, kinds, fell) ==
    /\ k # 0 => /\ k \in DOMAIN kinds /\ f.tick = k /\ f.clump = 0 /\ f.lines \subseteq {k}
                /\ f.outcome = "unresolved" => kinds[k] = "mission" /\ f.rest = <<>>
                /\ \A i \in DOMAIN f.rest :
                      /\ f.rest[i].pc = "check" /\ f.rest[i].clump = 0
                      /\ f.rest[i].tick = k /\ f.rest[i].lines \subseteq {k}
                      /\ f.rest[i].outcome # "unresolved"
    /\ k = 0 => /\ f.rest = <<>>
                /\ f.outcome = "unresolved" => f.tick = 0
                /\ IF f.clump = 0 THEN f.tick = 0 /\ f.lines = {}
                   ELSE /\ f.clump \in DOMAIN fell /\ f.outcome = "confirmed"
                        /\ f.tick = fell[f.clump] /\ f.lines = {fell[f.clump]}
    /\ f.pc = "after" => f.clump # 0

Kinds == [t \in DOMAIN ticks |-> ticks[t].tick.kind]
Fell == [i \in DOMAIN clumps |-> clumps[i].tick]

FlowsCarry ==
    /\ \A k \in Task : FlowOf(k) => Carries(k, task[k], Kinds, Fell)
    /\ \A k \in Task \ {0} : task[k].pc # "idle" => k \in DOMAIN ticks

\* A completion that asks for a review is the only one of its mission tick,
\* whose probe has ended, and is reviewed with the loot of that tick.
OneReview ==
    \A c \in DOMAIN completions :
        /\ completions[c].outcome = "unresolved" /\ completions[c].tick # 0 =>
              /\ ticks[completions[c].tick].tick.kind = "mission"
              /\ task[completions[c].tick].pc = "idle"
              /\ \A d \in DOMAIN completions :
                    completions[d].outcome = "unresolved"
                    /\ completions[d].tick = completions[c].tick => d = c
        /\ completions[c].reviewed # 0 =>
              completions[c].outcome = "unresolved"
              /\ completions[c].reviewed = completions[c].tick

\* A loot tick is journalled at most once, by the probe that it spawned.
OneClump ==
    \A i \in DOMAIN clumps :
        /\ ticks[clumps[i].tick].tick.kind = "loot"
        /\ task[clumps[i].tick].pc # "spawned"
        /\ \A j \in DOMAIN clumps : clumps[j].tick = clumps[i].tick => j = i

QuestInv ==
    /\ SidesTyped /\ TablesTyped /\ TasksTyped
    /\ Referring
    /\ OneOpenRun /\ RunsReciprocal
    /\ PaidOncePerSession
    /\ FlowsCarry /\ OneReview /\ OneClump
    /\ ReclassifiedOnce
    /\ ClumpPaysItsRun /\ ClaimedClumpsKept

-----------------------------------------------------------------------------
(* Steps that touch no table: tasks move and sessions come and go.         *)

LEMMA QuestStarts == QuestInit => QuestInv
<1> SUFFICES ASSUME QuestInit PROVE QuestInv
  OBVIOUS
<1> USE QuestBounds DEF QuestInit
<1>1. /\ DOMAIN runs = {} /\ DOMAIN completions = {} /\ DOMAIN ticks = {} /\ DOMAIN clumps = {}
      /\ Len(runs) = 0 /\ Len(ticks) = 0
  OBVIOUS
<1>2. SidesTyped /\ TablesTyped
  BY DEF SidesTyped, TablesTyped, InSession
<1>3. TasksTyped
  BY DEF TasksTyped, Working, Idle
<1>4. Referring /\ OneOpenRun /\ RunsReciprocal /\ PaidOncePerSession
  BY <1>1 DEF Referring, OneOpenRun, OpenRuns, RunsReciprocal, PaidOncePerSession
<1>5. \A k \in Task : task[k].pc = "idle"
  BY DEF Idle
<1>6. FlowsCarry /\ OneReview /\ OneClump
  BY <1>1, <1>5 DEF FlowsCarry, FlowOf, OneReview, OneClump
<1>7. ReclassifiedOnce /\ ClumpPaysItsRun
  BY <1>1 DEF ReclassifiedOnce, ClumpPaysItsRun
<1>8. ClaimedClumpsKept
  <2>1. {i \in DOMAIN clumps : clumps[i].claimed = 0 /\ ~clumps[i].pruned} = {}
    BY <1>1
  <2>2. 0 <= Retention
    OBVIOUS
  <2> QED BY <1>1, <2>1, <2>2, FS_EmptySet DEF ClaimedClumpsKept
<1> QED BY <1>2, <1>3, <1>4, <1>6, <1>7, <1>8 DEF QuestInv

\* The rows of the tables, one by one.
LEMMA RowsTyped ==
    ASSUME TablesTyped
    PROVE  /\ Len(runs) \in Nat /\ DOMAIN runs = 1 .. Len(runs)
           /\ \A r \in DOMAIN runs : runs[r] \in RunRow
           /\ Len(completions) \in Nat /\ DOMAIN completions = 1 .. Len(completions)
           /\ \A c \in DOMAIN completions : completions[c] \in CompletionRow
           /\ Len(ticks) \in Nat /\ DOMAIN ticks = 1 .. Len(ticks)
           /\ \A t \in DOMAIN ticks : ticks[t] \in TickRow
           /\ Len(clumps) \in Nat /\ DOMAIN clumps = 1 .. Len(clumps)
           /\ \A i \in DOMAIN clumps : clumps[i] \in ClumpRow
BY LenProperties, ElementOfSeq DEF TablesTyped

\* One task moves on, or none, and the tables stay as they are.
LEMMA TaskMoves ==
    ASSUME QuestInv, NEW k \in Task, NEW v \in Working, task' = [task EXCEPT ![k] = v],
           SidesTyped', UNCHANGED <<startedAt, tables, ticks>>,
           v.pc \in FlowPcs => Carries(k, v, Kinds, Fell),
           v.pc = "spawned" => task[k].pc = "spawned",
           task[k].pc = "idle" => k = 0 \/ v.pc = "idle"
    PROVE  QuestInv'
<1>1. /\ TablesTyped' /\ Referring' /\ OneOpenRun' /\ RunsReciprocal' /\ PaidOncePerSession'
      /\ ReclassifiedOnce' /\ ClumpPaysItsRun' /\ ClaimedClumpsKept'
  <2> USE DEF QuestInv, tables
  <2>1. TablesTyped' /\ Referring'
    BY DEF TablesTyped, Referring
  <2>2. OneOpenRun' /\ RunsReciprocal' /\ PaidOncePerSession'
    BY DEF OneOpenRun, OpenRuns, RunsReciprocal, PaidOncePerSession
  <2>3. ReclassifiedOnce' /\ ClumpPaysItsRun' /\ ClaimedClumpsKept'
    BY DEF ReclassifiedOnce, ClumpPaysItsRun, ClaimedClumpsKept
  <2> QED BY <2>1, <2>2, <2>3
<1>2. TasksTyped'
  BY DEF QuestInv, TasksTyped
<1>3. /\ task'[k] = v
      /\ \A j \in Task : j # k => task'[j] = task[j]
  BY DEF QuestInv, TasksTyped
<1>4. FlowsCarry'
  <2>1. Kinds' = Kinds /\ Fell' = Fell
    BY DEF Kinds, Fell, tables
  <2>2. ASSUME NEW j \in Task, FlowOf(j)' PROVE Carries(j, task'[j], Kinds', Fell')
    BY <1>3, <2>1, <2>2 DEF QuestInv, FlowsCarry, FlowOf, FlowPcs
  <2>3. \A j \in Task \ {0} : task'[j].pc # "idle" => j \in DOMAIN ticks'
    BY <1>3 DEF QuestInv, FlowsCarry, tables
  <2> QED BY <2>2, <2>3 DEF FlowsCarry
<1>5. \A t \in DOMAIN ticks : t \in Task \ {0}
  BY QuestBounds DEF QuestInv, TablesTyped, Task
<1>6. OneReview'
  <2>1. ASSUME NEW t \in DOMAIN ticks, task[t].pc = "idle" PROVE task'[t].pc = "idle"
    BY <1>3, <1>5, <2>1
  <2>2. \A c \in DOMAIN completions : completions[c].tick # 0 => completions[c].tick \in DOMAIN ticks
    BY RowsTyped DEF QuestInv, Referring, CompletionRow
  <2> QED BY <2>1, <2>2 DEF QuestInv, OneReview, tables
<1>7. OneClump'
  <2>1. ASSUME NEW t \in DOMAIN ticks, task[t].pc # "spawned" PROVE task'[t].pc # "spawned"
    BY <1>3, <1>5, <2>1
  <2> QED BY <2>1 DEF QuestInv, OneClump, Referring, tables
<1> QED BY <1>1, <1>2, <1>4, <1>6, <1>7 DEF QuestInv

\* No task moves either.
LEMMA NoTaskMoves ==
    ASSUME QuestInv, SidesTyped', UNCHANGED <<startedAt, tables, ticks, task>>
    PROVE  QuestInv'
<1>1. 0 \in Task /\ task[0] \in Working /\ task' = [task EXCEPT ![0] = task[0]]
  BY QuestBounds DEF Task, QuestInv, TasksTyped
<1>2. task[0].pc \in FlowPcs => Carries(0, task[0], Kinds, Fell)
  BY <1>1 DEF QuestInv, FlowsCarry, FlowOf, FlowPcs
<1> QED BY <1>1, <1>2, TaskMoves

LEMMA SessionsKeep ==
    ASSUME QuestInv, Sessions
    PROVE  QuestInv'
<1>1. SidesTyped'
  BY QuestBounds DEF QuestInv, SidesTyped, Sessions, StartSession, StopSession, Command, InSession
<1> QED BY <1>1, NoTaskMoves DEF Sessions, StartSession, StopSession

LEMMA DeclareKeeps ==
    ASSUME QuestInv, NEW q \in Quest, DeclareStretch(q)
    PROVE  QuestInv'
<1>1. SidesTyped'
  BY QuestBounds DEF QuestInv, SidesTyped, DeclareStretch, Command
<1>2. CASE UNCHANGED task
  BY <1>1, <1>2, NoTaskMoves DEF DeclareStretch
<1>3. CASE task' = [task EXCEPT ![0] = Idle]
  <2>1. Idle \in Working /\ Idle.pc = "idle" /\ 0 \in Task
    BY QuestBounds DEF Working, Idle, Task
  <2> QED BY <1>1, <1>3, <2>1, TaskMoves DEF DeclareStretch, FlowPcs
<1> QED BY <1>2, <1>3 DEF DeclareStretch

LEMMA FilterKeeps ==
    ASSUME QuestInv, NEW log \in Chat, FilterTick(log)
    PROVE  QuestInv'
<1>1. log \in Seq(TickKind) /\ Len(log) <= MaxTicks
  BY QuestKinds
<1>2. log[Len(ticks) + 1] \in TickKind /\ Len(ticks) < MaxTicks
  BY <1>1, RowsTyped, LenProperties, ElementOfSeq, QuestBounds DEF FilterTick, QuestInv
<1>3. Suppresses(log[Len(ticks) + 1]) \in BOOLEAN
  BY DEF Suppresses, SafelyOwned
<1>4. SidesTyped'
  BY <1>2, <1>3 DEF QuestInv, SidesTyped, FilterTick, tables
<1> QED BY <1>4, NoTaskMoves DEF FilterTick

-----------------------------------------------------------------------------
(* What a task goes on with.                                               *)

LEMMA IdleCarries == \A k \in Task : Idle \in Working /\ Idle.pc = "idle"
BY DEF Working, Idle

LEMMA FlowsTyped ==
    ASSUME TasksTyped, NEW k \in Task, task[k].pc \in FlowPcs
    PROVE  task[k] \in Flow
BY DEF TasksTyped, Working, FlowPcs

\* A completion that is taken up is a flow, and differs in what is left only.
LEMMA TakenUp ==
    ASSUME NEW w \in Waiting, NEW left \in Seq(Waiting), NEW v, v = [w EXCEPT !.rest = left]
    PROVE  /\ v \in Flow
           /\ v.pc = w.pc /\ v.clump = w.clump /\ v.tick = w.tick /\ v.lines = w.lines
           /\ v.outcome = w.outcome /\ v.rest = left
<1>1. /\ v.pc = w.pc /\ v.clump = w.clump /\ v.tick = w.tick /\ v.lines = w.lines
      /\ v.outcome = w.outcome /\ v.rest = left
  BY DEF Waiting
<1>2. v \in Flow
  BY DEF Waiting, Flow
<1> QED BY <1>1, <1>2

\* The next completion of a line is as yet unchecked and pays no review.
LEMMA ResumeCarries ==
    ASSUME QuestInv, NEW k \in Task, task[k].pc \in FlowPcs
    PROVE  /\ Resume(k) \in Working
           /\ Resume(k).pc \in {"idle", "check"}
           /\ Resume(k).pc \in FlowPcs => Carries(k, Resume(k), Kinds, Fell)
           /\ task[k].outcome = "unresolved" => Resume(k).pc = "idle"
           /\ k = 0 => Resume(k).pc = "idle"
<1>1. task[k] \in Flow
  BY FlowsTyped DEF QuestInv
<1>2. Carries(k, task[k], Kinds, Fell)
  BY DEF QuestInv, FlowsCarry, FlowOf, FlowPcs
<1>3. CASE task[k].rest = <<>>
  BY <1>3, IdleCarries DEF Resume, FlowPcs
<1>4. CASE task[k].rest # <<>>
  <2> DEFINE rest == task[k].rest
  <2>1. rest \in Seq(Waiting) /\ rest # <<>>
    BY <1>1, <1>4 DEF Flow
  <2>2. k # 0 /\ task[k].outcome # "unresolved"
    BY <1>2, <1>4 DEF Carries
  <2> HIDE DEF rest
  <2>3. /\ 1 \in DOMAIN rest /\ Head(rest) = rest[1] /\ Head(rest) \in Waiting
        /\ Tail(rest) \in Seq(Waiting)
        /\ \A i \in DOMAIN Tail(rest) : i + 1 \in DOMAIN rest /\ Tail(rest)[i] = rest[i + 1]
    BY <2>1, TakeFirst
  <2>4. Resume(k) = [Head(rest) EXCEPT !.rest = Tail(rest)]
    BY <1>4 DEF Resume, rest
  <2>5. /\ Resume(k) \in Flow
        /\ Resume(k).pc = rest[1].pc /\ Resume(k).clump = rest[1].clump
        /\ Resume(k).tick = rest[1].tick /\ Resume(k).lines = rest[1].lines
        /\ Resume(k).outcome = rest[1].outcome /\ Resume(k).rest = Tail(rest)
    <3>1. Head(rest) \in Waiting /\ Tail(rest) \in Seq(Waiting) /\ Head(rest) = rest[1]
      BY <2>3
    <3>2. PICK w \in Waiting, left \in Seq(Waiting) : w = Head(rest) /\ left = Tail(rest)
      BY <3>1
    <3>3. PICK v : v = Resume(k)
      OBVIOUS
    <3>4. v = [w EXCEPT !.rest = left]
      BY <2>4, <3>2, <3>3
    <3>5. /\ v \in Flow
          /\ v.pc = w.pc /\ v.clump = w.clump /\ v.tick = w.tick /\ v.lines = w.lines
          /\ v.outcome = w.outcome /\ v.rest = left
      BY <3>4, TakenUp
    <3> QED BY <3>1, <3>2, <3>3, <3>5
  <2>6. \A i \in DOMAIN rest :
            /\ rest[i].pc = "check" /\ rest[i].clump = 0 /\ rest[i].tick = k
            /\ rest[i].lines \subseteq {k} /\ rest[i].outcome # "unresolved"
    BY <1>2, <2>2 DEF Carries, rest
  <2>7. k \in DOMAIN Kinds
    BY <1>2, <2>2 DEF Carries
  <2>8. Carries(k, Resume(k), Kinds, Fell)
    BY <2>2, <2>3, <2>5, <2>6, <2>7 DEF Carries
  <2> QED BY <2>2, <2>3, <2>5, <2>6, <2>8 DEF Working
<1> QED BY <1>3, <1>4

-----------------------------------------------------------------------------
(* A completion, but for the transaction that writes it.                   *)

LEMMA CheckKeeps ==
    ASSUME QuestInv, NEW k \in Task, CheckCompletion(k)
    PROVE  QuestInv'
<1>1. SidesTyped'
  BY DEF QuestInv, SidesTyped, CheckCompletion, tables
<1>2. task[k].pc \in FlowPcs /\ task[k] \in Flow
  BY FlowsTyped DEF CheckCompletion, FlowPcs, QuestInv
<1>3. Carries(k, task[k], Kinds, Fell)
  BY <1>2 DEF QuestInv, FlowsCarry, FlowOf, FlowPcs
<1> DEFINE v == [task[k] EXCEPT !.session = session,
                                !.attr = IF task[k].quest \in standing THEN standing ELSE {},
                                !.pc = IF task[k].clump # 0 THEN "write" ELSE "close"]
<1>4. CASE task' = [task EXCEPT ![k] = Resume(k)]
  <2> HIDE DEF Carries, QuestInv
  <2> QED BY <1>1, <1>2, <1>4, ResumeCarries, TaskMoves DEF CheckCompletion
<1>5. CASE task' = [task EXCEPT ![k] = v]
  <2>1. v \in Flow /\ v.pc \in {"write", "close"} /\ v.tick = task[k].tick
        /\ v.clump = task[k].clump /\ v.lines = task[k].lines
        /\ v.outcome = task[k].outcome /\ v.rest = task[k].rest
    BY <1>2 DEF Flow, FlowPcs, QuestInv, SidesTyped
  <2> HIDE DEF v
  <2>2. Carries(k, v, Kinds, Fell)
    BY <1>3, <2>1 DEF Carries
  <2>3. v \in Working /\ v.pc # "spawned"
    BY <2>1 DEF Working
  <2> QED BY <1>1, <1>5, <2>2, <2>3, TaskMoves DEF CheckCompletion
<1> QED
  <2>1. task' = [task EXCEPT ![k] = IF session # NoSession /\ Completed(session, task[k].quest)
                                    THEN Resume(k) ELSE v]
    BY DEF CheckCompletion, QuestInv, TasksTyped
  <2> HIDE DEF v
  <2> QED BY <1>4, <1>5, <2>1

LEMMA ReportKeeps ==
    ASSUME QuestInv, NEW k \in Task, ReportStretchClosed(k)
    PROVE  QuestInv'
<1>1. SidesTyped'
  BY DEF QuestInv, SidesTyped, ReportStretchClosed, tables
<1>2. task[k].pc \in FlowPcs /\ task[k] \in Flow
  BY FlowsTyped DEF ReportStretchClosed, FlowPcs, QuestInv
<1>3. Carries(k, task[k], Kinds, Fell)
  BY <1>2 DEF QuestInv, FlowsCarry, FlowOf, FlowPcs
<1> DEFINE v == [task[k] EXCEPT !.pc = "write"]
<1>4. CASE task' = [task EXCEPT ![k] = Resume(k)]
  <2> HIDE DEF Carries, QuestInv
  <2> QED BY <1>1, <1>2, <1>4, ResumeCarries, TaskMoves DEF ReportStretchClosed
<1>5. CASE task' = [task EXCEPT ![k] = v]
  <2>1. v \in Flow /\ v.pc = "write" /\ v.tick = task[k].tick
        /\ v.clump = task[k].clump /\ v.lines = task[k].lines
        /\ v.outcome = task[k].outcome /\ v.rest = task[k].rest
    BY <1>2 DEF Flow, FlowPcs
  <2> HIDE DEF v
  <2>2. Carries(k, v, Kinds, Fell)
    BY <1>3, <2>1 DEF Carries
  <2>3. v \in Working
    BY <2>1 DEF Working
  <2>4. task[k].pc # "idle"
    BY <1>2 DEF FlowPcs
  <2> QED BY <1>1, <1>5, <2>1, <2>2, <2>3, <2>4, TaskMoves DEF ReportStretchClosed
<1> QED
  <2>1. task' = [task EXCEPT ![k] = IF task[k].pc = "close" THEN v ELSE Resume(k)]
    BY DEF ReportStretchClosed, QuestInv, TasksTyped
  <2> HIDE DEF v
  <2> QED BY <1>4, <1>5, <2>1

LEMMA AbortKeeps ==
    ASSUME QuestInv, NEW k \in Task, AbortCompletion(k)
    PROVE  QuestInv'
<1>1. SidesTyped'
  BY DEF QuestInv, SidesTyped, AbortCompletion, tables
<1> QED BY <1>1, IdleCarries, TaskMoves DEF AbortCompletion, FlowPcs

-----------------------------------------------------------------------------
(* The probes and the commands that only read.                             *)

LEMMA NewCompletion ==
    ASSUME NEW q \in Quest, NEW outcome \in Outcomes, NEW tick \in Nat,
           NEW lines \in SUBSET Nat, NEW clump \in Nat
    PROVE  /\ Completion(q, outcome, tick, lines, clump) \in Waiting \cap Flow
           /\ Completion(q, outcome, tick, lines, clump).pc = "check"
           /\ Completion(q, outcome, tick, lines, clump).outcome = outcome
           /\ Completion(q, outcome, tick, lines, clump).tick = tick
           /\ Completion(q, outcome, tick, lines, clump).lines = lines
           /\ Completion(q, outcome, tick, lines, clump).clump = clump
           /\ Completion(q, outcome, tick, lines, clump).rest = <<>>
<1>1. <<>> \in Seq(Waiting)
  OBVIOUS
<1> QED BY <1>1 DEF Completion, Waiting, Flow, FlowPcs, InSession

LEMMA MissionKeeps ==
    ASSUME QuestInv, NEW k \in DOMAIN ticks, MissionCompleteCheck(k)
    PROVE  QuestInv'
<1>1. SidesTyped'
  BY DEF QuestInv, SidesTyped, MissionCompleteCheck, tables
<1>2. k \in Nat \ {0} /\ k \in Task /\ ticks[k] \in TickRow
  BY RowsTyped, QuestBounds DEF QuestInv, TablesTyped, Task
<1>3. task[k].pc = "spawned" /\ ticks[k].tick.kind = "mission"
  BY DEF MissionCompleteCheck
<1> DEFINE t == ticks[k].tick
           paid == t.quest \in Named /\ t.units > 0
           outcome == CASE t.quest \notin Named -> "none"
                        [] paid -> "confirmed"
                        [] OTHER -> "unresolved"
           lines == IF paid THEN {k} ELSE {}
           v == Completion(t.quest, outcome, k, lines, 0)
<1>4. CASE task' = [task EXCEPT ![k] = Idle]
  BY <1>1, <1>2, <1>4, IdleCarries, TaskMoves DEF MissionCompleteCheck, FlowPcs
<1>5. CASE task' = [task EXCEPT ![k] = v]
  <2>1. t.quest \in Quest
    BY <1>2, <1>3 DEF TickRow, TickKind
  <2>2. outcome \in Outcomes
    BY DEF Outcomes
  <2>3. lines \in SUBSET Nat /\ lines \subseteq {k}
    BY <1>2
  <2> HIDE DEF outcome, lines
  <2>4. /\ v \in Flow /\ v.pc = "check" /\ v.tick = k /\ v.lines = lines /\ v.clump = 0
        /\ v.rest = <<>>
    BY <1>2, <2>1, <2>2, <2>3, NewCompletion
  <2>5. Kinds[k] = "mission" /\ k \in DOMAIN Kinds
    BY <1>3 DEF Kinds
  <2> HIDE DEF v
  <2>6. Carries(k, v, Kinds, Fell)
    BY <1>2, <2>3, <2>4, <2>5 DEF Carries
  <2>7. v \in Working /\ v.pc # "spawned" /\ task[k].pc # "idle"
    BY <1>3, <2>4 DEF Working
  <2> QED BY <1>1, <1>2, <1>5, <2>6, <2>7, TaskMoves DEF MissionCompleteCheck
<1>6. task' = [task EXCEPT ![k] = IF ~IsStarted(t.quest) THEN Idle ELSE v]
  BY DEF MissionCompleteCheck
<1> HIDE DEF v
<1> QED BY <1>4, <1>5, <1>6

LEMMA SignalKeeps ==
    ASSUME QuestInv, NEW k \in DOMAIN ticks, SignalLootCheck(k)
    PROVE  QuestInv'
<1>1. SidesTyped'
  BY DEF QuestInv, SidesTyped, SignalLootCheck, tables
<1>2. k \in Nat \ {0} /\ k \in Task
  BY RowsTyped, QuestBounds DEF QuestInv, TablesTyped, Task
<1>3. task[k].pc = "journalled"
  BY DEF SignalLootCheck
<1> DEFINE units == ticks[k].tick.units
           paid == {q \in Assigned(units) : q \in Named => SafelyOwned(units)}
           flow(q) == IF q \in Named THEN Completion(q, "confirmed", k, {k}, 0)
                      ELSE Completion(q, "none", k, {}, 0)
           flows(order) == [i \in DOMAIN order |-> flow(order[i])]
<1>4. PICK order \in Oldest(paid) :
          task' = [task EXCEPT ![k] = IF flows(order) = <<>> THEN Idle
                                      ELSE [Head(flows(order)) EXCEPT !.rest = Tail(flows(order))]]
  BY DEF SignalLootCheck
<1>5. paid \subseteq Quest /\ IsFiniteSet(paid)
  BY QuestKinds, FS_Subset DEF Assigned
<1>6. Cardinality(paid) \in Nat
  BY <1>5, FS_CardinalityType
<1>7. order \in [1 .. Cardinality(paid) -> Quest]
  BY <1>5 DEF Oldest
<1>8. ASSUME NEW q \in Quest
      PROVE  /\ flow(q) \in Waiting \cap Flow /\ flow(q).pc = "check" /\ flow(q).tick = k
             /\ flow(q).lines \subseteq {k} /\ flow(q).clump = 0
             /\ flow(q).outcome # "unresolved"
  <2>1. {k} \in SUBSET Nat /\ {} \in SUBSET Nat /\ {"confirmed", "none"} \subseteq Outcomes
        /\ k \in Nat /\ 0 \in Nat
    BY <1>2 DEF Outcomes
  <2>2. CASE q \in Named
    BY <2>1, <2>2, NewCompletion
  <2>3. CASE q \notin Named
    BY <2>1, <2>3, NewCompletion
  <2> QED BY <2>2, <2>3
<1> DEFINE rows == flows(order)
<1>9. /\ rows \in Seq(Waiting)
      /\ \A i \in DOMAIN rows :
            /\ rows[i] \in Waiting \cap Flow /\ rows[i].pc = "check" /\ rows[i].tick = k
            /\ rows[i].lines \subseteq {k} /\ rows[i].clump = 0
            /\ rows[i].outcome # "unresolved"
  <2> HIDE DEF flow, paid
  <2>1. \A i \in DOMAIN order : order[i] \in Quest /\ rows[i] = flow(order[i])
    BY <1>7
  <2>2. \A i \in 1 .. Cardinality(paid) : rows[i] \in Waiting
    BY <1>7, <1>8, <2>1
  <2>3. rows \in [1 .. Cardinality(paid) -> Waiting]
    BY <1>7, <2>2
  <2> QED BY <1>6, <1>7, <1>8, <2>1, <2>3
<1> DEFINE v == [Head(rows) EXCEPT !.rest = Tail(rows)]
<1>10. CASE rows = <<>>
  <2> HIDE DEF rows, flows, paid
  <2>1. task' = [task EXCEPT ![k] = Idle]
    BY <1>4, <1>10 DEF rows
  <2> QED BY <1>1, <1>2, <2>1, IdleCarries, TaskMoves DEF SignalLootCheck, FlowPcs
<1>11. CASE rows # <<>>
  <2>0. task' = [task EXCEPT ![k] = v]
    BY <1>4, <1>11
  <2> HIDE DEF rows, flows, flow, paid
  <2>1. /\ 1 \in DOMAIN rows /\ Head(rows) = rows[1] /\ Tail(rows) \in Seq(Waiting)
        /\ \A i \in DOMAIN Tail(rows) : i + 1 \in DOMAIN rows /\ Tail(rows)[i] = rows[i + 1]
    BY <1>9, <1>11, TakeFirst
  <2> DEFINE first == rows[1]
             others == Tail(rows)
  <2>6. /\ first \in Flow /\ first.pc = "check" /\ first.tick = k /\ first.lines \subseteq {k}
        /\ first.clump = 0 /\ first.outcome # "unresolved"
    BY <1>9, <2>1
  <2>7. v = [first EXCEPT !.rest = others] /\ others \in Seq(Waiting)
    BY <2>1
  <2> HIDE DEF first, others, v
  <2>2. /\ v \in Flow /\ v.pc = "check" /\ v.tick = k /\ v.lines \subseteq {k} /\ v.clump = 0
        /\ v.outcome # "unresolved" /\ v.rest = others
    BY <2>6, <2>7 DEF Flow
  <2>3. k \in DOMAIN Kinds
    BY DEF Kinds
  <2>4. Carries(k, v, Kinds, Fell)
    BY <1>2, <1>9, <2>1, <2>2, <2>3 DEF Carries, others
  <2>5. v \in Working /\ v.pc # "spawned" /\ task[k].pc # "idle"
    BY <1>3, <2>2 DEF Working
  <2> QED BY <1>1, <1>2, <2>0, <2>4, <2>5, TaskMoves DEF SignalLootCheck
<1> QED BY <1>10, <1>11

\* A command that reads and leaves the rest to a later step.
LEMMA CommandKeeps ==
    ASSUME QuestInv, Command, NEW v \in Working, task' = [task EXCEPT ![0] = v],
           v.pc \in FlowPcs => Carries(0, v, Kinds, Fell), v.pc # "spawned",
           UNCHANGED <<session, spent, standing, startedAt, tables, ticks, tail>>
    PROVE  QuestInv'
<1>1. SidesTyped'
  BY QuestBounds DEF QuestInv, SidesTyped, Command, tables
<1>2. 0 \in Task
  BY QuestBounds DEF Task
<1> QED BY <1>1, <1>2, TaskMoves

LEMMA CompleteKeeps ==
    ASSUME QuestInv, NEW q \in Quest, CompleteQuest(q)
    PROVE  QuestInv'
<1> DEFINE v == Completion(q, IF q \in Named THEN "unresolved" ELSE "none", 0, {}, 0)
<1>1. /\ v \in Flow /\ v.pc = "check" /\ v.tick = 0 /\ v.lines = {} /\ v.clump = 0
      /\ v.rest = <<>>
  <2> DEFINE outcome == IF q \in Named THEN "unresolved" ELSE "none"
  <2>1. outcome \in Outcomes /\ {} \in SUBSET Nat /\ 0 \in Nat
    BY DEF Outcomes
  <2> HIDE DEF outcome
  <2>2. v = Completion(q, outcome, 0, {}, 0)
    BY DEF outcome
  <2> HIDE DEF v
  <2> QED BY <2>1, <2>2, NewCompletion
<1>2. task' = [task EXCEPT ![0] = v]
  BY DEF CompleteQuest
<1> HIDE DEF v
<1>3. Carries(0, v, Kinds, Fell)
  BY <1>1 DEF Carries
<1>4. v \in Working
  BY <1>1 DEF Working
<1> QED BY <1>1, <1>2, <1>3, <1>4, CommandKeeps DEF CompleteQuest

LEMMA HandInKeeps ==
    ASSUME QuestInv, NEW q \in Manual, NEW c \in DOMAIN clumps, HandInConfirm(q, c)
    PROVE  QuestInv'
<1> DEFINE v == Completion(q, "confirmed", clumps[c].tick, {clumps[c].tick}, c)
<1>1. clumps[c] \in ClumpRow /\ c \in Nat \ {0} /\ q \in Quest
  BY RowsTyped, QuestKinds DEF QuestInv
<1>2. /\ v \in Flow /\ v.pc = "check" /\ v.tick = clumps[c].tick
      /\ v.lines = {clumps[c].tick} /\ v.clump = c
      /\ v.rest = <<>> /\ v.outcome = "confirmed"
  <2>1. "confirmed" \in Outcomes /\ clumps[c].tick \in Nat /\ {clumps[c].tick} \in SUBSET Nat
    BY <1>1 DEF Outcomes, ClumpRow
  <2> QED BY <1>1, <2>1, NewCompletion
<1>3. task' = [task EXCEPT ![0] = v]
  BY DEF HandInConfirm
<1> HIDE DEF v
<1>4. c \in DOMAIN Fell /\ Fell[c] = clumps[c].tick
  BY DEF Fell
<1>5. Carries(0, v, Kinds, Fell)
  BY <1>1, <1>2, <1>4 DEF Carries
<1>6. v \in Working
  BY <1>2 DEF Working
<1> QED BY <1>2, <1>3, <1>5, <1>6, CommandKeeps DEF HandInConfirm

LEMMA CancelKeeps ==
    ASSUME QuestInv, NEW q \in Quest, NEW undo \in BOOLEAN, CancelQuest(q, undo)
    PROVE  QuestInv'
<1> DEFINE v == [pc |-> IF undo THEN "undo" ELSE "cancel", quest |-> q]
<1>1. v \in Working /\ v.pc \in {"undo", "cancel"}
  BY DEF Working
<1>2. task' = [task EXCEPT ![0] = v]
  BY DEF CancelQuest
<1> HIDE DEF v
<1> QED BY <1>1, <1>2, CommandKeeps DEF CancelQuest, FlowPcs

-----------------------------------------------------------------------------
(* Steps that append to a table and leave what is in it.                   *)

\* What a completion in flight carries stays true while ticks and clumps are
\* added.
LEMMA CarriesOn ==
    ASSUME NEW k, NEW f, NEW kinds, NEW fell, NEW moreKinds, NEW moreFell,
           Carries(k, f, kinds, fell),
           \A t \in DOMAIN kinds : t \in DOMAIN moreKinds /\ moreKinds[t] = kinds[t],
           \A i \in DOMAIN fell : i \in DOMAIN moreFell /\ moreFell[i] = fell[i]
    PROVE  Carries(k, f, moreKinds, moreFell)
BY DEF Carries

LEMMA PublishKeeps ==
    ASSUME QuestInv, PublishTick
    PROVE  QuestInv'
<1> DEFINE id == Len(ticks) + 1
           row == [tick |-> tail.tick, suppressed |-> tail.suppressed, session |-> session,
                   stood |-> standing,
                   loot |-> IF session # NoSession /\ ~tail.suppressed THEN "active" ELSE "none"]
<1>1. /\ tail.pc = "filtered" /\ Len(ticks) < MaxTicks
      /\ ticks' = Append(ticks, row) /\ task' = [task EXCEPT ![id] = [pc |-> "spawned"]]
      /\ UNCHANGED <<session, spent, commands, standing, startedAt, tables>> /\ tail'.pc = "idle"
  BY DEF PublishTick, QuestInv, SidesTyped
<1>2. row \in TickRow /\ ticks \in Seq(TickRow)
  BY <1>1 DEF QuestInv, SidesTyped, TablesTyped, TickRow
<1>3. Len(ticks) \in Nat /\ DOMAIN ticks = 1 .. Len(ticks) /\ id \in Task \ {0}
  BY <1>1, RowsTyped, QuestBounds DEF QuestInv, Task
<1> HIDE DEF row
<1>4. /\ ticks' \in Seq(TickRow) /\ Len(ticks') = Len(ticks) + 1
      /\ DOMAIN ticks' = 1 .. Len(ticks) + 1
      /\ \A t \in DOMAIN ticks : ticks'[t] = ticks[t]
  BY <1>1, <1>2, AppendRow
<1>5. /\ task' \in [Task -> Working] /\ task'[id] = [pc |-> "spawned"]
      /\ \A k \in Task \ {id} : task'[k] = task[k]
  <2>1. [pc |-> "spawned"] \in Working
    BY DEF Working
  <2> QED BY <1>1, <1>3, <2>1 DEF QuestInv, TasksTyped
<1> HIDE DEF id
<1>6. SidesTyped' /\ TablesTyped' /\ TasksTyped'
  BY <1>1, <1>3, <1>4, <1>5, QuestBounds DEF QuestInv, SidesTyped, TablesTyped, TasksTyped, tables
<1>7. DOMAIN ticks \subseteq DOMAIN ticks' /\ id \notin DOMAIN ticks /\ id \in DOMAIN ticks'
  BY <1>3, <1>4 DEF id
<1>8. Referring'
  BY <1>1, <1>3, <1>4, <1>7, RowsTyped DEF QuestInv, Referring, tables, RunRow, CompletionRow
<1>9. OneOpenRun' /\ RunsReciprocal' /\ PaidOncePerSession'
  BY <1>1 DEF QuestInv, OneOpenRun, OpenRuns, RunsReciprocal, PaidOncePerSession, tables
<1>10. FlowsCarry'
  <2>1. \A t \in DOMAIN Kinds : t \in DOMAIN Kinds' /\ Kinds'[t] = Kinds[t]
    BY <1>4, <1>7 DEF Kinds
  <2>2. \A i \in DOMAIN Fell : i \in DOMAIN Fell' /\ Fell'[i] = Fell[i]
    BY <1>1 DEF Fell, tables
  <2>3. ASSUME NEW k \in Task, FlowOf(k)' PROVE Carries(k, task'[k], Kinds', Fell')
    <3>1. k # id
      BY <1>5, <2>3 DEF FlowOf
    <3>2. Carries(k, task[k], Kinds, Fell)
      BY <1>5, <2>3, <3>1 DEF QuestInv, FlowsCarry, FlowOf
    <3> QED BY <1>5, <2>1, <2>2, <3>1, <3>2, CarriesOn
  <2>4. \A k \in Task \ {0} : task'[k].pc # "idle" => k \in DOMAIN ticks'
    BY <1>5, <1>7 DEF QuestInv, FlowsCarry
  <2> QED BY <2>3, <2>4 DEF FlowsCarry
<1>11. \A t \in DOMAIN ticks : t \in Task /\ task'[t] = task[t]
  BY <1>3, <1>5, <1>7, <1>1, QuestBounds DEF Task
<1>12. OneReview'
  <2>1. \A c \in DOMAIN completions : completions[c].tick # 0 => completions[c].tick \in DOMAIN ticks
    BY RowsTyped DEF QuestInv, Referring, CompletionRow
  <2> QED BY <1>1, <1>4, <1>11, <2>1 DEF QuestInv, OneReview, tables
<1>13. OneClump'
  BY <1>1, <1>4, <1>11 DEF QuestInv, OneClump, Referring, tables
<1>14. ReclassifiedOnce'
  <2>1. \A c \in DOMAIN completions : completions[c].reviewed # 0 => completions[c].reviewed \in DOMAIN ticks
    BY RowsTyped DEF QuestInv, Referring, CompletionRow, OneReview
  <2> QED BY <1>1, <1>4, <2>1 DEF QuestInv, ReclassifiedOnce, Referring, tables
<1>15. ClumpPaysItsRun' /\ ClaimedClumpsKept'
  BY <1>1, <1>4 DEF QuestInv, ClumpPaysItsRun, ClaimedClumpsKept, Referring, tables
<1> QED BY <1>6, <1>8, <1>9, <1>10, <1>12, <1>13, <1>14, <1>15 DEF QuestInv

LEMMA StartKeeps ==
    ASSUME QuestInv, NEW q \in Quest, NEW declare \in BOOLEAN, StartQuest(q, declare)
    PROVE  QuestInv'
<1> DEFINE id == Len(runs) + 1
<1>1. /\ runs' = Append(runs, NewRun(q)) /\ startedAt' = [startedAt EXCEPT ![q] = id]
      /\ OpenRuns(q) = {}
      /\ UNCHANGED <<session, spent, standing, completions, reversed, clumps, ticks, tail>>
      /\ Command
  BY DEF StartQuest
<1>2. /\ Len(ticks) \in Nat /\ Len(runs) \in Nat /\ DOMAIN runs = 1 .. Len(runs)
      /\ runs \in Seq(RunRow)
  BY RowsTyped DEF QuestInv, TablesTyped
<1>3. /\ NewRun(q) \in RunRow /\ NewRun(q).quest = q /\ NewRun(q).status = "in_progress"
      /\ NewRun(q).since = Len(ticks) /\ NewRun(q).completion = 0
  BY <1>2 DEF NewRun, RunRow
<1>4. /\ runs' \in Seq(RunRow) /\ Len(runs') = Len(runs) + 1
      /\ DOMAIN runs' = 1 .. Len(runs) + 1 /\ runs'[id] = NewRun(q)
      /\ \A r \in DOMAIN runs : runs'[r] = runs[r]
  BY <1>1, <1>2, <1>3, AppendRow
<1>5. id \in Nat \ {0} /\ id \notin DOMAIN runs /\ DOMAIN runs' = DOMAIN runs \union {id}
  BY <1>2, <1>4
<1> HIDE DEF id
<1>6. SidesTyped' /\ TablesTyped'
  BY <1>1, <1>4, <1>5, QuestBounds DEF QuestInv, SidesTyped, TablesTyped, Command
<1>7. /\ task' \in [Task -> Working]
      /\ \A k \in Task \ {0} : task'[k] = task[k]
      /\ task'[0] = task[0] \/ task'[0].pc = "declare"
  <2>1. [pc |-> "declare", quest |-> q] \in Working
    BY DEF Working
  <2>2. CASE task' = task
    BY <2>2 DEF QuestInv, TasksTyped
  <2>3. CASE task' = [task EXCEPT ![0] = [pc |-> "declare", quest |-> q]]
    BY <2>1, <2>3, QuestBounds DEF QuestInv, TasksTyped, Task
  <2> QED BY <2>2, <2>3 DEF StartQuest
<1>8. Referring'
  BY <1>1, <1>2, <1>3, <1>4, <1>5, RowsTyped DEF QuestInv, Referring
<1>9. OneOpenRun'
  <2>1. \A p \in Quest \ {q} : OpenRuns(p)' = OpenRuns(p)
    BY <1>3, <1>4, <1>5 DEF OpenRuns
  <2>2. OpenRuns(q)' = {id}
    BY <1>1, <1>3, <1>4, <1>5 DEF OpenRuns
  <2>3. \A p \in Quest : startedAt'[p] = IF p = q THEN id ELSE startedAt[p]
    BY <1>1 DEF QuestInv, TablesTyped
  <2> QED BY <2>1, <2>2, <2>3 DEF QuestInv, OneOpenRun
<1>10. RunsReciprocal'
  BY <1>1, <1>3, <1>4, <1>5 DEF QuestInv, RunsReciprocal, Referring
<1>11. PaidOncePerSession' /\ ReclassifiedOnce' /\ ClaimedClumpsKept'
  BY <1>1 DEF QuestInv, PaidOncePerSession, ReclassifiedOnce, ClaimedClumpsKept
<1>12. FlowsCarry'
  <2>1. Kinds' = Kinds /\ Fell' = Fell
    BY <1>1 DEF Kinds, Fell
  <2> QED BY <1>1, <1>7, <2>1 DEF QuestInv, FlowsCarry, FlowOf
<1>13. \A t \in DOMAIN ticks : t \in Task \ {0}
  BY RowsTyped, QuestBounds DEF QuestInv, TablesTyped, Task
<1>14. OneReview' /\ OneClump'
  <2>1. \A c \in DOMAIN completions : completions[c].tick # 0 => completions[c].tick \in DOMAIN ticks
    BY RowsTyped DEF QuestInv, Referring, CompletionRow
  <2>2. OneReview'
    BY <1>1, <1>7, <1>13, <2>1 DEF QuestInv, OneReview
  <2>3. OneClump'
    BY <1>1, <1>7, <1>13 DEF QuestInv, OneClump, Referring
  <2> QED BY <2>2, <2>3
<1>15. ClumpPaysItsRun'
  <2>1. \A i \in DOMAIN clumps : clumps[i].claimed # 0 => clumps[i].claimed \in DOMAIN completions
    BY RowsTyped DEF QuestInv, Referring, ClumpRow
  <2> QED BY <1>1, <1>4, <2>1 DEF QuestInv, ClumpPaysItsRun, Referring
<1> QED BY <1>6, <1>7, <1>8, <1>9, <1>10, <1>11, <1>12, <1>14, <1>15 DEF QuestInv, TasksTyped

\* The sweep leaves at most as many unclaimed clumps as it is to keep.
LEMMA NewestKept ==
    ASSUME NEW n \in Nat, NEW U \in SUBSET (1 .. n), NEW R \in Nat \ {0}
    PROVE  Cardinality({c \in U : ~(Cardinality({d \in U : d > c}) >= R)}) <= R
<1> DEFINE K == {c \in U : ~(Cardinality({d \in U : d > c}) >= R)}
<1>1. IsFiniteSet(U)
  <2>1. IsFiniteSet(1 .. n)
    BY FS_Interval
  <2> QED BY <2>1, FS_Subset
<1>2. IsFiniteSet(K) /\ Cardinality(K) \in Nat
  BY <1>1, FS_Subset, FS_CardinalityType
<1>3. CASE K = {}
  <2> HIDE DEF K
  <2>1. Cardinality(K) <= R
    BY <1>3, FS_EmptySet
  <2> QED BY <2>1 DEF K
<1>4. CASE K # {}
  <2>0. K \subseteq U /\ K \subseteq Nat
    <3>1. K \subseteq U
      OBVIOUS
    <3> HIDE DEF K
    <3> QED BY <3>1
  <2>1. PICK m \in K : \A c \in K : m <= c
    <3> HIDE DEF K
    <3> QED BY <1>4, <2>0, LeastExists
  <2> DEFINE D == {d \in U : d > m}
  <2>2. IsFiniteSet(D) /\ Cardinality(D) \in Nat /\ ~(Cardinality(D) >= R)
    BY <1>1, <2>1, FS_Subset, FS_CardinalityType
  <2>3. K \ {m} \subseteq D
    <3> HIDE DEF K
    <3> QED BY <2>0, <2>1
  <2>4. Cardinality(K \ {m}) <= Cardinality(D)
    BY <2>2, <2>3, FS_Subset
  <2>5. Cardinality(K \ {m}) = Cardinality(K) - 1
    BY <1>2, <2>1, FS_RemoveElement
  <2> HIDE DEF K, D
  <2> QED BY <1>2, <2>2, <2>4, <2>5 DEF K
<1> QED BY <1>3, <1>4

\* The sweep marks unclaimed clumps and changes nothing else.
LEMMA SweptRows ==
    ASSUME NEW rows \in Seq(ClumpRow)
    PROVE  /\ Swept(rows) \in Seq(ClumpRow) /\ DOMAIN Swept(rows) = DOMAIN rows
           /\ \A i \in DOMAIN rows : /\ Swept(rows)[i].tick = rows[i].tick
                                     /\ Swept(rows)[i].claimed = rows[i].claimed
                                     /\ rows[i].claimed # 0 => Swept(rows)[i] = rows[i]
           /\ Cardinality({i \in DOMAIN rows : Swept(rows)[i].claimed = 0
                                               /\ ~Swept(rows)[i].pruned}) <= Retention
<1>1. Len(rows) \in Nat /\ DOMAIN rows = 1 .. Len(rows)
      /\ \A i \in DOMAIN rows : rows[i] \in ClumpRow
  BY LenProperties, ElementOfSeq
<1> DEFINE U == {c \in DOMAIN rows : rows[c].claimed = 0 /\ ~rows[c].pruned}
           old(c) == Cardinality({d \in U : d > c}) >= Retention
           swept(c) == IF c \in U /\ old(c) THEN [rows[c] EXCEPT !.pruned = TRUE] ELSE rows[c]
           S == [c \in DOMAIN rows |-> swept(c)]
<1>2. Swept(rows) = S
  BY DEF Swept
<1>3. \A c \in DOMAIN rows : swept(c) \in ClumpRow /\ swept(c).tick = rows[c].tick
                             /\ swept(c).claimed = rows[c].claimed
                             /\ (c \notin U \/ ~old(c) => swept(c) = rows[c])
                             /\ (c \in U /\ old(c) => swept(c).pruned)
  <2> HIDE DEF old
  <2> QED BY <1>1 DEF ClumpRow
<1>4. S \in Seq(ClumpRow) /\ DOMAIN S = DOMAIN rows
  <2>1. S \in [1 .. Len(rows) -> ClumpRow]
    <3> HIDE DEF swept
    <3> QED BY <1>1, <1>3
  <2> HIDE DEF S
  <2> QED BY <1>1, <2>1
<1>5. {c \in DOMAIN rows : S[c].claimed = 0 /\ ~S[c].pruned} = {c \in U : ~old(c)}
  <2>1. \A c \in DOMAIN rows : S[c] = swept(c)
    OBVIOUS
  <2> HIDE DEF swept, old, S
  <2> QED BY <1>3, <2>1
<1>6. Cardinality({c \in U : ~old(c)}) <= Retention
  BY <1>1, NewestKept, QuestBounds
<1>7. \A c \in DOMAIN rows : S[c] = swept(c) /\ (rows[c].claimed # 0 => c \notin U)
  OBVIOUS
<1> HIDE DEF S, swept, old, U
<1> QED BY <1>2, <1>3, <1>4, <1>5, <1>6, <1>7

LEMMA ClumpKeeps ==
    ASSUME QuestInv, NEW k \in DOMAIN ticks, RecordRewardClump(k)
    PROVE  QuestInv'
<1> DEFINE clump == [tick |-> k, claimed |-> 0, pruned |-> FALSE]
           rows == Append(clumps, clump)
<1>1. /\ task[k].pc = "spawned" /\ ticks[k].tick.kind = "loot"
      /\ clumps' = Swept(rows) \/ clumps' = clumps
      /\ task' = [task EXCEPT ![k].pc = "journalled"]
      /\ UNCHANGED <<session, spent, commands, standing, startedAt, runs, completions,
                     reversed, ticks, tail>>
  BY DEF RecordRewardClump
<1>2. k \in Nat \ {0} /\ k \in Task /\ Len(ticks) \in Nat /\ DOMAIN ticks = 1 .. Len(ticks)
  BY RowsTyped, QuestBounds DEF QuestInv, TablesTyped, Task
<1>3. /\ task' \in [Task -> Working] /\ task'[k].pc = "journalled"
      /\ \A j \in Task \ {k} : task'[j] = task[j]
  <2>1. task[k] \in [pc : {"idle", "spawned", "journalled"}]
    BY <1>1, <1>2 DEF QuestInv, TasksTyped, Working, Flow, FlowPcs
  <2>2. [task[k] EXCEPT !.pc = "journalled"] \in Working
        /\ [task[k] EXCEPT !.pc = "journalled"].pc = "journalled"
    BY <2>1 DEF Working
  <2>3. task' = [task EXCEPT ![k] = [task[k] EXCEPT !.pc = "journalled"]]
    BY <1>1
  <2> QED BY <1>2, <2>2, <2>3 DEF QuestInv, TasksTyped
<1>4. CASE clumps' = clumps
  <2>1. task' = [task EXCEPT ![k] = task'[k]]
    BY <1>2, <1>3 DEF QuestInv, TasksTyped
  <2>2. SidesTyped'
    BY <1>1 DEF QuestInv, SidesTyped
  <2>3. task'[k] \in Working
    BY <1>2, <1>3
  <2>4. UNCHANGED <<startedAt, tables, ticks>>
    BY <1>1, <1>4 DEF tables
  <2> QED BY <1>1, <1>2, <1>3, <2>1, <2>2, <2>3, <2>4, TaskMoves DEF FlowPcs
<1>5. CASE clumps' = Swept(rows)
  <2> DEFINE n == Len(clumps) + 1
  <2>1. clump \in ClumpRow /\ clumps \in Seq(ClumpRow)
    BY <1>2 DEF ClumpRow, QuestInv, TablesTyped
  <2>2. /\ rows \in Seq(ClumpRow) /\ DOMAIN rows = 1 .. n /\ rows[n] = clump
        /\ DOMAIN clumps = 1 .. n - 1 /\ n \in Nat \ {0}
        /\ \A i \in DOMAIN clumps : rows[i] = clumps[i]
    <3> HIDE DEF clump
    <3> QED BY <2>1, AppendRow
  <2>3. /\ clumps' \in Seq(ClumpRow) /\ DOMAIN clumps' = 1 .. n
        /\ \A i \in DOMAIN rows : /\ clumps'[i].tick = rows[i].tick
                                  /\ clumps'[i].claimed = rows[i].claimed
                                  /\ rows[i].claimed # 0 => clumps'[i] = rows[i]
        /\ Cardinality({i \in DOMAIN rows : clumps'[i].claimed = 0 /\ ~clumps'[i].pruned})
             <= Retention
    <3> HIDE DEF rows
    <3> QED BY <1>5, <2>2, SweptRows
  <2>4. clump.tick = k /\ clump.claimed = 0
    OBVIOUS
  <2>5. /\ DOMAIN clumps' = DOMAIN clumps \union {n} /\ n \notin DOMAIN clumps
        /\ clumps'[n].tick = k /\ clumps'[n].claimed = 0
        /\ \A i \in DOMAIN clumps : /\ clumps'[i].tick = clumps[i].tick
                                    /\ clumps'[i].claimed = clumps[i].claimed
                                    /\ clumps[i].claimed # 0 => clumps'[i] = clumps[i]
    <3> HIDE DEF rows, clump
    <3> QED BY <2>2, <2>3, <2>4
  <2> HIDE DEF n, rows, clump
  <2>6. \A i \in DOMAIN clumps : clumps[i].tick # k
    BY <1>1 DEF QuestInv, OneClump
  <2>7. SidesTyped' /\ TablesTyped' /\ TasksTyped'
    BY <1>1, <1>3, <2>3 DEF QuestInv, SidesTyped, TablesTyped, TasksTyped
  <2>8. Referring' /\ OneOpenRun' /\ RunsReciprocal' /\ PaidOncePerSession'
    <3>0. Len(completions) \in Nat
      BY RowsTyped DEF QuestInv
    <3>1. Referring'
      BY <1>1, <2>5, <3>0 DEF QuestInv, Referring
    <3> QED BY <1>1, <3>1 DEF QuestInv, OneOpenRun, OpenRuns, RunsReciprocal, PaidOncePerSession
  <2>9. FlowsCarry'
    <3>1. Kinds' = Kinds
      BY <1>1 DEF Kinds
    <3>2. \A i \in DOMAIN Fell : i \in DOMAIN Fell' /\ Fell'[i] = Fell[i]
      BY <2>5 DEF Fell
    <3>3. ASSUME NEW j \in Task, FlowOf(j)' PROVE Carries(j, task'[j], Kinds', Fell')
      <4>1. j # k /\ Carries(j, task[j], Kinds, Fell)
        BY <1>3, <3>3 DEF QuestInv, FlowsCarry, FlowOf
      <4> QED BY <1>3, <3>1, <3>2, <4>1, CarriesOn
    <3>4. \A j \in Task \ {0} : task'[j].pc # "idle" => j \in DOMAIN ticks'
      BY <1>1, <1>3 DEF QuestInv, FlowsCarry
    <3> QED BY <3>3, <3>4 DEF FlowsCarry
  <2>10. OneReview'
    <3>0. \A c \in DOMAIN completions : completions[c].tick \in Nat
      BY RowsTyped DEF QuestInv, CompletionRow
    <3>1. \A c \in DOMAIN completions : completions[c].tick # 0 => completions[c].tick \in Task
      BY <1>2, <3>0, QuestBounds DEF QuestInv, Referring, TablesTyped, Task
    <3> QED BY <1>1, <1>3, <3>1 DEF QuestInv, OneReview
  <2>11. OneClump'
    <3>1. \A t \in DOMAIN ticks : t \in Task
      BY <1>2, QuestBounds DEF Task, QuestInv, TablesTyped
    <3>2. \A i \in DOMAIN clumps : clumps[i].tick \in DOMAIN ticks
      BY DEF QuestInv, Referring
    <3> QED BY <1>1, <1>3, <2>5, <2>6, <3>1, <3>2 DEF QuestInv, OneClump
  <2>12. ReclassifiedOnce'
    BY <1>1, <2>5 DEF QuestInv, ReclassifiedOnce
  <2>13. ClumpPaysItsRun'
    BY <1>1, <2>5 DEF QuestInv, ClumpPaysItsRun
  <2>14. ClaimedClumpsKept'
    <3>1. DOMAIN rows = DOMAIN clumps'
      BY <2>2, <2>3
    <3> QED BY <2>3, <2>5, <3>1 DEF QuestInv, ClaimedClumpsKept
  <2> QED BY <2>7, <2>8, <2>9, <2>10, <2>11, <2>12, <2>13, <2>14 DEF QuestInv
<1> QED BY <1>1, <1>4, <1>5

-----------------------------------------------------------------------------
(* Steps that change rows.                                                 *)

LEMMA CancelRunKeeps ==
    ASSUME QuestInv, CancelRun
    PROVE  QuestInv'
<1>0. PICK q : q = task[0].quest
  OBVIOUS
<1> DEFINE cancelled(r) == IF r \in OpenRuns(q) THEN [runs[r] EXCEPT !.status = "cancelled"]
                        ELSE runs[r]
<1>1. /\ task[0].pc = "cancel" /\ startedAt' = [startedAt EXCEPT ![q] = 0]
      /\ runs' = [r \in DOMAIN runs |-> cancelled(r)]
      /\ task' = [task EXCEPT ![0] = Idle]
      /\ UNCHANGED <<session, spent, commands, standing, completions, reversed, clumps,
                     ticks, tail>>
  BY <1>0 DEF CancelRun, Without
<1>2. 0 \in Task /\ q \in Quest
  BY <1>0, <1>1, QuestBounds DEF QuestInv, TasksTyped, Working, Task, Flow, FlowPcs
<1>3. Len(runs) \in Nat /\ DOMAIN runs = 1 .. Len(runs) /\ \A r \in DOMAIN runs : runs[r] \in RunRow
  BY RowsTyped DEF QuestInv
<1>4. \A r \in DOMAIN runs :
          /\ cancelled(r) \in RunRow /\ cancelled(r).quest = runs[r].quest
          /\ cancelled(r).since = runs[r].since /\ cancelled(r).completion = runs[r].completion
          /\ cancelled(r).status = IF r \in OpenRuns(q) THEN "cancelled" ELSE runs[r].status
  BY <1>3 DEF RunRow
<1> HIDE DEF cancelled
<1>5. /\ runs' \in Seq(RunRow) /\ DOMAIN runs' = DOMAIN runs
      /\ \A r \in DOMAIN runs : runs'[r] = cancelled(r)
  BY <1>1, <1>3, <1>4
<1>6. SidesTyped' /\ TablesTyped'
  BY <1>1, <1>5 DEF QuestInv, SidesTyped, TablesTyped
<1>7. /\ task' \in [Task -> Working] /\ task'[0].pc = "idle"
      /\ \A k \in Task \ {0} : task'[k] = task[k]
  BY <1>1, <1>2, IdleCarries DEF QuestInv, TasksTyped
<1>8. Referring'
  BY <1>1, <1>4, <1>5 DEF QuestInv, Referring
<1>9. OneOpenRun'
  <2>1. \A p \in Quest \ {q} : OpenRuns(p)' = OpenRuns(p)
    BY <1>4, <1>5 DEF OpenRuns
  <2>2. OpenRuns(q)' = {}
    BY <1>4, <1>5 DEF OpenRuns
  <2>3. \A p \in Quest : startedAt'[p] = IF p = q THEN 0 ELSE startedAt[p]
    BY <1>1 DEF QuestInv, TablesTyped
  <2> QED BY <2>1, <2>2, <2>3 DEF QuestInv, OneOpenRun
<1>10. RunsReciprocal'
  <2>1. \A r \in OpenRuns(q) : runs[r].status = "in_progress"
    BY DEF OpenRuns
  <2> QED BY <1>1, <1>4, <1>5, <2>1 DEF QuestInv, RunsReciprocal, Referring
<1>11. PaidOncePerSession' /\ ReclassifiedOnce' /\ ClaimedClumpsKept'
  BY <1>1 DEF QuestInv, PaidOncePerSession, ReclassifiedOnce, ClaimedClumpsKept
<1>12. FlowsCarry'
  <2>1. Kinds' = Kinds /\ Fell' = Fell
    BY <1>1 DEF Kinds, Fell
  <2> QED BY <1>1, <1>7, <2>1 DEF QuestInv, FlowsCarry, FlowOf
<1>13. \A t \in DOMAIN ticks : t \in Task \ {0}
  BY RowsTyped, QuestBounds DEF QuestInv, TablesTyped, Task
<1>14. OneReview' /\ OneClump'
  <2>1. \A c \in DOMAIN completions : completions[c].tick # 0 => completions[c].tick \in DOMAIN ticks
    BY RowsTyped DEF QuestInv, Referring, CompletionRow
  <2>2. OneReview'
    BY <1>1, <1>7, <1>13, <2>1 DEF QuestInv, OneReview
  <2>3. OneClump'
    BY <1>1, <1>7, <1>13 DEF QuestInv, OneClump, Referring
  <2> QED BY <2>2, <2>3
<1>15. ClumpPaysItsRun'
  <2>1. \A i \in DOMAIN clumps : clumps[i].claimed # 0 => clumps[i].claimed \in DOMAIN completions
    BY RowsTyped DEF QuestInv, Referring, ClumpRow
  <2> QED BY <1>1, <1>4, <1>5, <2>1 DEF QuestInv, ClumpPaysItsRun, Referring
<1> QED BY <1>6, <1>7, <1>8, <1>9, <1>10, <1>11, <1>12, <1>14, <1>15 DEF QuestInv, TasksTyped

LEMMA UndoKeeps ==
    ASSUME QuestInv, UndoReward
    PROVE  QuestInv'
<1>1. 0 \in Task /\ task[0].pc = "undo" /\ task' = [task EXCEPT ![0] = Idle]
  BY QuestBounds DEF UndoReward, Task
<1>2. CASE UNCHANGED <<reversed, ticks>>
  <2>1. SidesTyped'
    BY <1>2 DEF QuestInv, SidesTyped, UndoReward
  <2> QED BY <1>1, <1>2, <2>1, IdleCarries, TaskMoves DEF UndoReward, FlowPcs, tables
<1>3. CASE ~UNCHANGED <<reversed, ticks>>
  <2>0. PICK own : own = {c \in DOMAIN completions : completions[c].quest = task[0].quest}
    OBVIOUS
  <2>1. PICK c : c = CHOOSE e \in own : \A d \in own : d <= e
    OBVIOUS
  <2>2. /\ own # {} /\ c \notin reversed /\ reversed' = reversed \union {c}
        /\ ticks' = [t \in DOMAIN ticks |-> IF t \in OffTheBooks(c)
                                            THEN [ticks[t] EXCEPT !.loot = "active"] ELSE ticks[t]]
        /\ UNCHANGED <<session, spent, commands, standing, startedAt, runs, completions, clumps,
                       tail>>
    BY <1>3, <2>0, <2>1 DEF UndoReward
  <2>3. c \in DOMAIN completions
    <3>1. Len(completions) \in Nat /\ own \subseteq 1 .. Len(completions)
      BY <2>0, RowsTyped DEF QuestInv
    <3>2. \E x \in own : \A y \in own : y <= x
      BY <2>2, <3>1, MaxExists
    <3> QED BY <2>0, <2>1, <3>2
  <2>4. /\ Len(ticks) \in Nat /\ DOMAIN ticks = 1 .. Len(ticks)
        /\ \A t \in DOMAIN ticks : ticks[t] \in TickRow
    BY RowsTyped DEF QuestInv
  <2>5. PICK off : off = OffTheBooks(c)
    OBVIOUS
  <2>6. /\ DOMAIN ticks' = DOMAIN ticks /\ ticks' \in Seq(TickRow)
        /\ \A t \in DOMAIN ticks : /\ ticks'[t].tick = ticks[t].tick
                                   /\ ticks'[t].stood = ticks[t].stood
                                   /\ t \in off => ticks'[t].loot = "active"
                                   /\ t \notin off => ticks'[t] = ticks[t]
    <3> DEFINE put(t) == IF t \in off THEN [ticks[t] EXCEPT !.loot = "active"] ELSE ticks[t]
    <3>1. \A t \in DOMAIN ticks :
              /\ put(t) \in TickRow /\ put(t).tick = ticks[t].tick /\ put(t).stood = ticks[t].stood
              /\ t \in off => put(t).loot = "active"
              /\ t \notin off => put(t) = ticks[t]
      BY <2>4 DEF TickRow
    <3>2. ticks' = [t \in DOMAIN ticks |-> put(t)]
      BY <2>2, <2>5
    <3> HIDE DEF put
    <3> QED BY <2>4, <3>1, <3>2
  <2>7. /\ task' \in [Task -> Working] /\ task'[0].pc = "idle"
        /\ \A k \in Task \ {0} : task'[k] = task[k]
    BY <1>1, IdleCarries DEF QuestInv, TasksTyped
  <2>8. Len(ticks') = Len(ticks)
    BY <2>4, <2>6, LenProperties
  <2>9. SidesTyped' /\ TablesTyped'
    BY <2>2, <2>3, <2>6, <2>8 DEF QuestInv, SidesTyped, TablesTyped
  <2>10. Referring' /\ OneOpenRun' /\ RunsReciprocal' /\ PaidOncePerSession'
    BY <2>2, <2>6, <2>8
       DEF QuestInv, Referring, OneOpenRun, OpenRuns, RunsReciprocal, PaidOncePerSession
  <2>11. Kinds' = Kinds /\ Fell' = Fell
    BY <2>2, <2>6 DEF Kinds, Fell
  <2>12. FlowsCarry'
    BY <2>6, <2>7, <2>11 DEF QuestInv, FlowsCarry, FlowOf
  <2>13. \A t \in DOMAIN ticks : t \in Task \ {0}
    BY <2>4, QuestBounds DEF QuestInv, TablesTyped, Task
  <2>14. /\ \A d \in DOMAIN completions : completions[d].tick # 0 => completions[d].tick \in DOMAIN ticks
         /\ \A i \in DOMAIN clumps : clumps[i].tick \in DOMAIN ticks
    BY RowsTyped DEF QuestInv, Referring, CompletionRow
  <2>15. OneReview'
    BY <2>2, <2>6, <2>7, <2>13, <2>14 DEF QuestInv, OneReview
  <2>16. OneClump'
    BY <2>2, <2>6, <2>7, <2>13, <2>14 DEF QuestInv, OneClump
  <2>17. \A d \in DOMAIN completions : completions[d].reviewed # 0 =>
             /\ completions[d].reviewed \in DOMAIN ticks
             /\ ticks[completions[d].reviewed].tick.kind = "mission"
             /\ \A e \in DOMAIN completions : completions[e].reviewed = completions[d].reviewed => e = d
    BY <2>14 DEF QuestInv, OneReview
  <2>18. ASSUME NEW i \in DOMAIN clumps, clumps[i].claimed # 0
         PROVE  clumps[i].tick \in off <=> clumps[i].claimed = c
    <3>1. ticks[clumps[i].tick].tick.kind = "loot" /\ clumps[i].tick \in DOMAIN ticks
          /\ clumps[i].tick # 0
          /\ \A j \in DOMAIN clumps : clumps[j].tick = clumps[i].tick => j = i
      BY <2>13, <2>14 DEF QuestInv, OneClump
    <3>2. clumps[i].tick # completions[c].reviewed
      BY <2>3, <2>17, <3>1
    <3> QED BY <2>5, <3>1, <3>2 DEF OffTheBooks
  <2>19. ASSUME NEW d \in DOMAIN completions, d # c, completions[d].reviewed # 0
         PROVE  completions[d].reviewed \notin off
    <3>1. \A j \in DOMAIN clumps : clumps[j].tick # completions[d].reviewed
      BY <2>17, <2>19 DEF QuestInv, OneClump
    <3>2. completions[c].reviewed # completions[d].reviewed
      BY <2>3, <2>17, <2>19
    <3> QED BY <2>5, <3>1, <3>2 DEF OffTheBooks
  <2>20. ReclassifiedOnce'
    <3>1. ASSUME NEW i \in DOMAIN clumps, clumps[i].claimed # 0
          PROVE  /\ clumps[i].tick \in completions[clumps[i].claimed].lines
                 /\ (ticks'[clumps[i].tick].loot = "active")
                        = (clumps[i].claimed \in reversed \union {c})
      <4>1. /\ clumps[i].tick \in completions[clumps[i].claimed].lines
            /\ (ticks[clumps[i].tick].loot = "active") = (clumps[i].claimed \in reversed)
        BY <3>1 DEF QuestInv, ReclassifiedOnce
      <4>2. CASE clumps[i].claimed = c
        BY <2>6, <2>14, <2>18, <3>1, <4>1, <4>2
      <4>3. CASE clumps[i].claimed # c
        <5>1. ticks'[clumps[i].tick] = ticks[clumps[i].tick]
          BY <2>6, <2>14, <2>18, <3>1, <4>3
        <5> QED BY <4>1, <4>3, <5>1
      <4> QED BY <4>2, <4>3
    <3>2. ASSUME NEW d \in DOMAIN completions, d \notin reversed \union {c},
                 completions[d].reviewed # 0
          PROVE  ticks'[completions[d].reviewed].loot = "inactive"
      BY <2>6, <2>17, <2>19, <3>2 DEF QuestInv, ReclassifiedOnce
    <3> QED BY <2>2, <3>1, <3>2 DEF ReclassifiedOnce
  <2>21. ClumpPaysItsRun' /\ ClaimedClumpsKept'
    BY <2>2, <2>6, <2>14 DEF QuestInv, ClumpPaysItsRun, ClaimedClumpsKept
  <2> QED BY <2>7, <2>9, <2>10, <2>12, <2>15, <2>16, <2>20, <2>21 DEF QuestInv, TasksTyped
<1> QED BY <1>2, <1>3

LEMMA ReviewKeeps ==
    ASSUME QuestInv, NEW c \in DOMAIN completions, ResolveRewardReview(c)
    PROVE  QuestInv'
<1>0. PICK t : t = completions[c].tick
  OBVIOUS
<1>1. /\ completions[c].outcome = "unresolved" /\ completions[c].reviewed = 0 /\ t # 0
      /\ ticks' = [ticks EXCEPT ![t].loot = "inactive"]
      /\ completions' = [completions EXCEPT ![c].reviewed = t, ![c].lines = @ \union {t}]
      /\ Command
      /\ UNCHANGED <<session, spent, standing, startedAt, runs, reversed, clumps, tail, task>>
  BY <1>0 DEF ResolveRewardReview
<1>2. /\ Len(ticks) \in Nat /\ DOMAIN ticks = 1 .. Len(ticks)
      /\ \A u \in DOMAIN ticks : ticks[u] \in TickRow
      /\ Len(completions) \in Nat /\ DOMAIN completions = 1 .. Len(completions)
      /\ \A d \in DOMAIN completions : completions[d] \in CompletionRow
  BY RowsTyped DEF QuestInv
<1>3. t \in DOMAIN ticks
  BY <1>0, <1>1, <1>2 DEF QuestInv, Referring, CompletionRow
<1>4. /\ DOMAIN ticks' = DOMAIN ticks /\ ticks' \in Seq(TickRow) /\ Len(ticks') = Len(ticks)
      /\ ticks'[t].loot = "inactive"
      /\ \A u \in DOMAIN ticks : /\ ticks'[u].tick = ticks[u].tick
                                 /\ ticks'[u].stood = ticks[u].stood
                                 /\ u # t => ticks'[u] = ticks[u]
  <2> DEFINE row == [ticks[t] EXCEPT !.loot = "inactive"]
  <2>1. row \in TickRow /\ row.loot = "inactive" /\ row.tick = ticks[t].tick
        /\ row.stood = ticks[t].stood
    BY <1>2, <1>3 DEF TickRow
  <2>2. ticks' = [ticks EXCEPT ![t] = row]
    BY <1>1
  <2>3. ticks \in Seq(TickRow)
    BY DEF QuestInv, TablesTyped
  <2> HIDE DEF row
  <2>4. ticks' \in Seq(TickRow) /\ DOMAIN ticks' = DOMAIN ticks
    BY <1>2, <1>3, <2>1, <2>2, <2>3
  <2> QED BY <1>2, <1>3, <2>1, <2>2, <2>4, LenProperties
<1>5. /\ DOMAIN completions' = DOMAIN completions /\ completions' \in Seq(CompletionRow)
      /\ Len(completions') = Len(completions)
      /\ completions'[c].reviewed = t
      /\ \A d \in DOMAIN completions :
            /\ completions'[d].session = completions[d].session
            /\ completions'[d].quest = completions[d].quest
            /\ completions'[d].run = completions[d].run
            /\ completions'[d].outcome = completions[d].outcome
            /\ completions'[d].tick = completions[d].tick
            /\ d # c => completions'[d] = completions[d]
      /\ completions'[c].lines = completions[c].lines \union {t}
  <2>0. PICK old \in CompletionRow : old = completions[c]
    BY <1>2
  <2> DEFINE lines == old.lines \union {t}
             row == [old EXCEPT !.reviewed = t, !.lines = lines]
  <2>5. lines \in SUBSET Nat /\ t \in Nat
    BY <1>2, <1>3 DEF CompletionRow
  <2>6. lines = completions[c].lines \union {t}
    BY <2>0
  <2> HIDE DEF lines
  <2>1. /\ row \in CompletionRow /\ row.reviewed = t /\ row.lines = completions[c].lines \union {t}
        /\ row.session = completions[c].session /\ row.quest = completions[c].quest
        /\ row.run = completions[c].run /\ row.outcome = completions[c].outcome
        /\ row.tick = completions[c].tick
    BY <2>0, <2>5, <2>6 DEF CompletionRow
  <2>2. completions' = [completions EXCEPT ![c] = row]
    BY <1>1, <2>0 DEF lines
  <2>3. completions \in Seq(CompletionRow)
    BY DEF QuestInv, TablesTyped
  <2> HIDE DEF row
  <2>4. completions' \in Seq(CompletionRow) /\ DOMAIN completions' = DOMAIN completions
    BY <1>2, <2>1, <2>2, <2>3
  <2> QED BY <1>2, <2>1, <2>2, <2>4, LenProperties
<1>6. SidesTyped' /\ TablesTyped' /\ TasksTyped'
  BY <1>1, <1>4, <1>5, QuestBounds DEF QuestInv, SidesTyped, TablesTyped, TasksTyped, Command
<1>7. Referring'
  BY <1>1, <1>3, <1>4, <1>5 DEF QuestInv, Referring
<1>8. OneOpenRun' /\ RunsReciprocal' /\ PaidOncePerSession'
  BY <1>1, <1>5 DEF QuestInv, OneOpenRun, OpenRuns, RunsReciprocal, PaidOncePerSession
<1>9. FlowsCarry'
  <2>1. Kinds' = Kinds /\ Fell' = Fell
    BY <1>1, <1>4 DEF Kinds, Fell
  <2> QED BY <1>1, <1>4, <2>1 DEF QuestInv, FlowsCarry, FlowOf
<1>10. /\ \A d \in DOMAIN completions : completions[d].tick # 0 => completions[d].tick \in DOMAIN ticks
       /\ \A i \in DOMAIN clumps : clumps[i].tick \in DOMAIN ticks
  BY <1>2 DEF QuestInv, Referring, CompletionRow
<1>11. OneReview'
  BY <1>0, <1>1, <1>4, <1>5, <1>10 DEF QuestInv, OneReview
<1>12. OneClump'
  BY <1>1, <1>4, <1>10 DEF QuestInv, OneClump
<1>13. ReclassifiedOnce'
  <2>1. ticks[t].tick.kind = "mission"
    BY <1>0, <1>1 DEF QuestInv, OneReview
  <2>2. \A i \in DOMAIN clumps : clumps[i].tick # t
    BY <2>1 DEF QuestInv, OneClump
  <2>3. \A d \in DOMAIN completions : completions[d].reviewed # 0 =>
            completions[d].reviewed \in DOMAIN ticks
    BY <1>10 DEF QuestInv, OneReview
  <2>4. \A d \in DOMAIN completions : completions[d].lines \subseteq completions'[d].lines
    BY <1>5
  <2>5. \A i \in DOMAIN clumps : clumps[i].claimed # 0 => clumps[i].claimed \in DOMAIN completions
    BY <1>2, RowsTyped DEF QuestInv, Referring, ClumpRow
  <2> QED BY <1>1, <1>4, <1>5, <1>10, <2>2, <2>3, <2>4, <2>5 DEF QuestInv, ReclassifiedOnce
<1>14. ClumpPaysItsRun' /\ ClaimedClumpsKept'
  <2>1. \A i \in DOMAIN clumps : clumps[i].claimed # 0 => clumps[i].claimed \in DOMAIN completions
    BY <1>2, RowsTyped DEF QuestInv, Referring, ClumpRow
  <2> QED BY <1>1, <1>4, <1>5, <1>10, <2>1 DEF QuestInv, ClumpPaysItsRun, ClaimedClumpsKept
<1> QED BY <1>6, <1>7, <1>8, <1>9, <1>11, <1>12, <1>13, <1>14 DEF QuestInv

-----------------------------------------------------------------------------
(* The transaction that writes a completion.                               *)

\* The runs with one of `q` open, which it finds or inserts.
WithOpenRun(q, opened, run) ==
    /\ opened \in Seq(RunRow) /\ run \in DOMAIN opened /\ DOMAIN runs \subseteq DOMAIN opened
    /\ \A r \in DOMAIN runs : opened[r] = runs[r]
    /\ \A r \in DOMAIN opened : (opened[r].quest = q /\ opened[r].status = "in_progress")
                                    <=> r = run
    /\ \A r \in DOMAIN opened \ DOMAIN runs :
          /\ opened[r].quest = q /\ opened[r].status = "in_progress"
          /\ opened[r].since = Len(ticks) /\ opened[r].completion = 0

LEMMA RunIsOpened ==
    ASSUME QuestInv, NEW q \in Quest, NEW opened, NEW run,
           opened = IF OpenRuns(q) = {} THEN Append(runs, NewRun(q)) ELSE runs,
           run = CHOOSE r \in DOMAIN opened : opened[r].quest = q /\ opened[r].status = "in_progress"
    PROVE  WithOpenRun(q, opened, run)
<1>1. /\ Len(runs) \in Nat /\ DOMAIN runs = 1 .. Len(runs) /\ runs \in Seq(RunRow)
      /\ Len(ticks) \in Nat
  BY RowsTyped DEF QuestInv, TablesTyped
<1>2. CASE OpenRuns(q) = {}
  <2>1. /\ NewRun(q) \in RunRow /\ NewRun(q).quest = q /\ NewRun(q).status = "in_progress"
        /\ NewRun(q).since = Len(ticks) /\ NewRun(q).completion = 0
    BY <1>1 DEF NewRun, RunRow
  <2>2. opened = Append(runs, NewRun(q))
    BY <1>2
  <2>3. /\ opened \in Seq(RunRow) /\ DOMAIN opened = 1 .. Len(runs) + 1
        /\ opened[Len(runs) + 1] = NewRun(q)
        /\ \A r \in DOMAIN runs : opened[r] = runs[r]
    BY <1>1, <2>1, <2>2, AppendRow
  <2>4. \A r \in DOMAIN opened : (opened[r].quest = q /\ opened[r].status = "in_progress")
                                     <=> r = Len(runs) + 1
    BY <1>1, <1>2, <2>1, <2>3 DEF OpenRuns
  <2>5. run = Len(runs) + 1
    BY <1>1, <2>3, <2>4
  <2> QED BY <1>1, <2>1, <2>3, <2>4, <2>5 DEF WithOpenRun
<1>3. CASE OpenRuns(q) # {}
  <2>1. opened = runs
    BY <1>3
  <2>2. PICK s \in OpenRuns(q) : TRUE
    BY <1>3
  <2>3. \A r \in DOMAIN opened : (opened[r].quest = q /\ opened[r].status = "in_progress")
                                     <=> r = s
    BY <2>1, <2>2 DEF OpenRuns, QuestInv, OneOpenRun
  <2>4. run = s /\ s \in DOMAIN runs
    BY <2>1, <2>2, <2>3 DEF OpenRuns
  <2> QED BY <1>1, <2>1, <2>3, <2>4 DEF WithOpenRun
<1> QED BY <1>2, <1>3

\* What a completion still owed or already on its way carries.
LEMMA WriterCarries ==
    ASSUME QuestInv, NEW k \in Task, task[k].pc = "write"
    PROVE  /\ task[k] \in Flow /\ Carries(k, task[k], Kinds, Fell)
           /\ task[k].pc \in FlowPcs /\ task[k].quest \in Quest
BY FlowsTyped DEF QuestInv, FlowsCarry, FlowOf, FlowPcs, Flow

\* The quest was paid in this session already: its run is opened, nothing else.
LEMMA IgnoredKeeps ==
    ASSUME QuestInv, NEW k \in Task, task[k].pc = "write",
           NEW q \in Quest, NEW run, WithOpenRun(q, runs', run),
           startedAt' = [startedAt EXCEPT ![q] = 0],
           task' = [task EXCEPT ![k] = Resume(k)],
           UNCHANGED <<session, spent, commands, standing, completions, reversed, clumps, ticks,
                       tail>>
    PROVE  QuestInv'
<1>1. /\ Len(ticks) \in Nat /\ Len(completions) \in Nat /\ DOMAIN ticks = 1 .. Len(ticks)
  BY RowsTyped DEF QuestInv
<1>2. /\ task' \in [Task -> Working] /\ task'[k] = Resume(k)
      /\ \A j \in Task \ {k} : task'[j] = task[j]
      /\ Resume(k).pc \in {"idle", "check"}
      /\ Resume(k).pc \in FlowPcs => Carries(k, Resume(k), Kinds, Fell)
  BY WriterCarries, ResumeCarries DEF QuestInv, TasksTyped
<1>3. /\ runs' \in Seq(RunRow) /\ run \in DOMAIN runs' /\ DOMAIN runs \subseteq DOMAIN runs'
      /\ \A r \in DOMAIN runs : runs'[r] = runs[r]
      /\ \A r \in DOMAIN runs' : (runs'[r].quest = q /\ runs'[r].status = "in_progress")
                                      <=> r = run
      /\ \A r \in DOMAIN runs' \ DOMAIN runs :
            /\ runs'[r].quest = q /\ runs'[r].status = "in_progress"
            /\ runs'[r].since = Len(ticks) /\ runs'[r].completion = 0
  BY DEF WithOpenRun
<1>4. SidesTyped' /\ TablesTyped'
  BY <1>3 DEF QuestInv, SidesTyped, TablesTyped
<1>5. Referring'
  BY <1>1, <1>3 DEF QuestInv, Referring
<1>6. OneOpenRun'
  <2>1. \A p \in Quest \ {q} : OpenRuns(p)' = OpenRuns(p)
    BY <1>3 DEF OpenRuns
  <2>2. OpenRuns(q)' = {run}
    BY <1>3 DEF OpenRuns
  <2>3. \A p \in Quest : startedAt'[p] = IF p = q THEN 0 ELSE startedAt[p]
    BY DEF QuestInv, TablesTyped
  <2> QED BY <2>1, <2>2, <2>3 DEF QuestInv, OneOpenRun
<1>7. RunsReciprocal' /\ PaidOncePerSession' /\ ReclassifiedOnce' /\ ClaimedClumpsKept'
  <2>1. RunsReciprocal'
    BY <1>3 DEF QuestInv, RunsReciprocal, Referring
  <2> QED BY <2>1 DEF QuestInv, PaidOncePerSession, ReclassifiedOnce, ClaimedClumpsKept
<1>8. FlowsCarry'
  <2>1. Kinds' = Kinds /\ Fell' = Fell
    BY DEF Kinds, Fell
  <2>2. task[k].pc # "idle"
    OBVIOUS
  <2>3. ASSUME NEW j \in Task, FlowOf(j)' PROVE Carries(j, task'[j], Kinds', Fell')
    BY <1>2, <2>1, <2>3 DEF QuestInv, FlowsCarry, FlowOf, FlowPcs
  <2> QED BY <1>2, <2>2, <2>3 DEF QuestInv, FlowsCarry
<1>9. \A t \in DOMAIN ticks : t \in Task
  BY <1>1, QuestBounds DEF QuestInv, TablesTyped, Task
<1>10. OneReview' /\ OneClump'
  <2>1. \A c \in DOMAIN completions : completions[c].tick # 0 => completions[c].tick \in DOMAIN ticks
    BY RowsTyped DEF QuestInv, Referring, CompletionRow
  <2>2. OneReview'
    BY <1>2, <1>9, <2>1 DEF QuestInv, OneReview
  <2>3. OneClump'
    BY <1>2, <1>9 DEF QuestInv, OneClump, Referring
  <2> QED BY <2>2, <2>3
<1>11. ClumpPaysItsRun'
  <2>1. \A i \in DOMAIN clumps : clumps[i].claimed # 0 => clumps[i].claimed \in DOMAIN completions
    BY RowsTyped DEF QuestInv, Referring, ClumpRow
  <2> QED BY <1>3, <2>1 DEF QuestInv, ClumpPaysItsRun, Referring
<1> QED BY <1>2, <1>4, <1>5, <1>6, <1>7, <1>8, <1>10, <1>11 DEF QuestInv, TasksTyped

\* What the transaction of a completion writes when it is not ignored.
Written(k, f, opened, run, id) ==
    /\ completions' = Append(completions,
           [session |-> f.session, quest |-> f.quest, run |-> run,
            outcome |-> f.outcome, tick |-> f.tick, attr |-> f.attr,
            lines |-> f.lines, reviewed |-> 0])
    /\ runs' = CloseRun(opened, run, id)
    /\ IF f.clump = 0
       THEN /\ task' = [task EXCEPT ![k] = Resume(k)]
            /\ UNCHANGED <<clumps, ticks>>
       ELSE /\ clumps' = [clumps EXCEPT ![f.clump].claimed = id]
            /\ ticks' = [ticks EXCEPT ![clumps[f.clump].tick].loot = "inactive"]
            /\ task' = [task EXCEPT ![k].pc = "after"]

\* The completion is written: its run closes, the journalled clump it claims
\* goes off the ordinary loot.
LEMMA WrittenKeeps ==
    ASSUME QuestInv, NEW k \in Task, task[k].pc = "write",
           NEW f, f = task[k], NEW run, NEW opened, WithOpenRun(f.quest, opened, run),
           NEW id, id = Len(completions) + 1,
           f.clump # 0 => ClaimValid(f.quest, f.clump, opened[run].since),
           ~Ignored(f),
           startedAt' = [startedAt EXCEPT ![f.quest] = 0],
           Written(k, f, opened, run, id),
           UNCHANGED <<session, spent, commands, standing, reversed, tail>>
    PROVE  QuestInv'
<1>1. /\ f \in Flow /\ Carries(k, f, Kinds, Fell) /\ f.quest \in Quest
      /\ f.session \in InSession /\ f.outcome \in Outcomes /\ f.tick \in Nat
      /\ f.attr \in SUBSET Quest /\ f.lines \in SUBSET Nat /\ f.clump \in Nat
  BY WriterCarries DEF Flow
<1>2. /\ Len(ticks) \in Nat /\ DOMAIN ticks = 1 .. Len(ticks)
      /\ \A t \in DOMAIN ticks : ticks[t] \in TickRow
      /\ Len(completions) \in Nat /\ DOMAIN completions = 1 .. Len(completions)
      /\ \A c \in DOMAIN completions : completions[c] \in CompletionRow
      /\ DOMAIN clumps = 1 .. Len(clumps) /\ Len(clumps) \in Nat
      /\ \A i \in DOMAIN clumps : clumps[i] \in ClumpRow
      /\ id \in Nat \ {0} /\ id \notin DOMAIN completions
  BY RowsTyped DEF QuestInv
<1>3. /\ opened \in Seq(RunRow) /\ run \in DOMAIN opened /\ DOMAIN runs \subseteq DOMAIN opened
      /\ \A r \in DOMAIN runs : opened[r] = runs[r]
      /\ \A r \in DOMAIN opened : (opened[r].quest = f.quest /\ opened[r].status = "in_progress")
                                      <=> r = run
      /\ \A r \in DOMAIN opened \ DOMAIN runs :
            /\ opened[r].quest = f.quest /\ opened[r].status = "in_progress"
            /\ opened[r].since = Len(ticks) /\ opened[r].completion = 0
  BY DEF WithOpenRun
<1>4. /\ DOMAIN opened = 1 .. Len(opened) /\ Len(opened) \in Nat
      /\ \A r \in DOMAIN opened : opened[r] \in RunRow
  BY <1>3, LenProperties, ElementOfSeq
\* the runs
<1>5. /\ runs' \in Seq(RunRow) /\ DOMAIN runs' = DOMAIN opened
      /\ \A r \in DOMAIN opened : /\ runs'[r].quest = opened[r].quest
                                  /\ runs'[r].since = opened[r].since
                                  /\ r # run => runs'[r] = opened[r]
      /\ runs'[run].status = "completed" /\ runs'[run].completion = id
  <2> DEFINE row == [opened[run] EXCEPT !.status = "completed", !.completion = id]
  <2>1. /\ row \in RunRow /\ row.status = "completed" /\ row.completion = id
        /\ row.quest = opened[run].quest /\ row.since = opened[run].since
    BY <1>2, <1>3, <1>4 DEF RunRow
  <2>2. runs' = [opened EXCEPT ![run] = row]
    BY <1>3 DEF CloseRun, Written
  <2> HIDE DEF row
  <2>3. /\ runs' \in Seq(RunRow) /\ DOMAIN runs' = DOMAIN opened /\ runs'[run] = row
        /\ \A r \in DOMAIN opened : r # run => runs'[r] = opened[r]
    <3>1. opened \in Seq(RunRow) /\ run \in DOMAIN opened /\ row \in RunRow
      BY <1>3, <2>1
    <3>2. /\ [opened EXCEPT ![run] = row] \in Seq(RunRow)
          /\ DOMAIN [opened EXCEPT ![run] = row] = DOMAIN opened
          /\ [opened EXCEPT ![run] = row][run] = row
          /\ \A r \in DOMAIN opened : r # run => [opened EXCEPT ![run] = row][r] = opened[r]
      BY <3>1, ReplaceRow
    <3> QED BY <2>2, <3>2
  <2> QED BY <2>1, <2>3
\* the completions
<1>6. PICK paid \in CompletionRow :
          /\ paid.session = f.session /\ paid.quest = f.quest /\ paid.run = run
          /\ paid.outcome = f.outcome /\ paid.tick = f.tick /\ paid.lines = f.lines
          /\ paid.reviewed = 0
          /\ completions' = Append(completions, paid)
  <2>1. run \in Nat
    BY <1>3, <1>4
  <2> DEFINE row == [session |-> f.session, quest |-> f.quest, run |-> run,
                     outcome |-> f.outcome, tick |-> f.tick, attr |-> f.attr,
                     lines |-> f.lines, reviewed |-> 0]
  <2>2. row \in CompletionRow
    BY <1>1, <2>1 DEF CompletionRow
  <2> QED BY <2>2 DEF Written
<1>7. /\ completions' \in Seq(CompletionRow) /\ Len(completions') = id
      /\ DOMAIN completions' = DOMAIN completions \union {id} /\ completions'[id] = paid
      /\ \A c \in DOMAIN completions : completions'[c] = completions[c]
  <2>1. completions \in Seq(CompletionRow)
    BY DEF QuestInv, TablesTyped
  <2> QED BY <1>2, <1>6, <2>1, AppendRow
\* the clumps and their ticks
<1>8. f.clump # 0 => /\ k = 0 /\ f.clump \in DOMAIN clumps /\ f.outcome = "confirmed"
                     /\ f.tick = clumps[f.clump].tick /\ f.lines = {clumps[f.clump].tick}
                     /\ clumps[f.clump].tick \in DOMAIN ticks
                     /\ clumps[f.clump].claimed = 0 /\ ~clumps[f.clump].pruned
                     /\ f.quest \in ticks[clumps[f.clump].tick].stood
                     /\ opened[run].since < clumps[f.clump].tick
  <2>1. ASSUME f.clump # 0 PROVE f.clump \in DOMAIN clumps /\ k = 0
    BY <1>1, <2>1 DEF Carries, Fell
  <2>2. \A i \in DOMAIN clumps : Fell[i] = clumps[i].tick
    BY DEF Fell
  <2>3. opened[run].since \in Nat
    BY <1>3, <1>4 DEF RunRow
  <2> QED BY <1>1, <1>2, <2>1, <2>2, <2>3 DEF Carries, ClaimValid, QuestInv, Referring, ClumpRow
<1>9. /\ clumps' \in Seq(ClumpRow) /\ DOMAIN clumps' = DOMAIN clumps
      /\ \A i \in DOMAIN clumps : /\ clumps'[i].tick = clumps[i].tick
                                  /\ clumps'[i].pruned = clumps[i].pruned
                                  /\ i # f.clump => clumps'[i] = clumps[i]
                                  /\ i = f.clump => clumps'[i].claimed = id
  <2>1. clumps \in Seq(ClumpRow)
    BY DEF QuestInv, TablesTyped
  <2>2. CASE f.clump = 0
    BY <1>2, <2>1, <2>2 DEF Written
  <2>3. CASE f.clump # 0
    <3> DEFINE row == [clumps[f.clump] EXCEPT !.claimed = id]
    <3>1. /\ row \in ClumpRow /\ row.claimed = id /\ row.tick = clumps[f.clump].tick
          /\ row.pruned = clumps[f.clump].pruned
      BY <1>2, <1>8, <2>3 DEF ClumpRow
    <3>2. clumps' = [clumps EXCEPT ![f.clump] = row]
      BY <2>3 DEF Written
    <3> HIDE DEF row
    <3>3. /\ clumps' \in Seq(ClumpRow) /\ DOMAIN clumps' = DOMAIN clumps
          /\ clumps'[f.clump] = row
          /\ \A i \in DOMAIN clumps : i # f.clump => clumps'[i] = clumps[i]
      BY <1>8, <2>1, <2>3, <3>1, <3>2, ReplaceRow
    <3> QED BY <2>3, <3>1, <3>3
  <2> QED BY <2>2, <2>3
<1>10. /\ ticks' \in Seq(TickRow) /\ DOMAIN ticks' = DOMAIN ticks /\ Len(ticks') = Len(ticks)
       /\ \A t \in DOMAIN ticks : /\ ticks'[t].tick = ticks[t].tick
                                  /\ ticks'[t].stood = ticks[t].stood
                                  /\ f.clump = 0 \/ t # clumps[f.clump].tick => ticks'[t] = ticks[t]
       /\ f.clump # 0 => ticks'[clumps[f.clump].tick].loot = "inactive"
  <2>1. ticks \in Seq(TickRow)
    BY DEF QuestInv, TablesTyped
  <2>2. CASE f.clump = 0
    BY <1>2, <2>1, <2>2 DEF Written
  <2>3. CASE f.clump # 0
    <3>0. PICK t \in DOMAIN ticks : t = clumps[f.clump].tick
      BY <1>8, <2>3
    <3> DEFINE row == [ticks[t] EXCEPT !.loot = "inactive"]
    <3>1. /\ row \in TickRow /\ row.loot = "inactive" /\ row.tick = ticks[t].tick
          /\ row.stood = ticks[t].stood
      BY <1>2 DEF TickRow
    <3>2. ticks' = [ticks EXCEPT ![t] = row]
      BY <2>3, <3>0 DEF Written
    <3> HIDE DEF row
    <3>3. /\ ticks' \in Seq(TickRow) /\ DOMAIN ticks' = DOMAIN ticks /\ ticks'[t] = row
          /\ Len(ticks') = Len(ticks)
          /\ \A u \in DOMAIN ticks : u # t => ticks'[u] = ticks[u]
      BY <2>1, <3>1, <3>2, ReplaceRow
    <3> QED BY <2>3, <3>0, <3>1, <3>3
  <2> QED BY <2>2, <2>3
\* the tasks
<1>11. /\ task' \in [Task -> Working]
       /\ \A j \in Task \ {k} : task'[j] = task[j]
       /\ task'[k].pc \in {"idle", "check", "after"}
       /\ task'[k].pc \in FlowPcs => Carries(k, task'[k], Kinds, Fell)
       /\ k # 0 /\ f.outcome = "unresolved" => task'[k].pc = "idle"
  <2>1. CASE f.clump = 0
    <3>1. task' = [task EXCEPT ![k] = Resume(k)]
      BY <2>1 DEF Written
    <3> QED BY <3>1, WriterCarries, ResumeCarries DEF QuestInv, TasksTyped
  <2>2. CASE f.clump # 0
    <3> DEFINE v == [f EXCEPT !.pc = "after"]
    <3>1. /\ v \in Flow /\ v.pc = "after" /\ v.tick = f.tick /\ v.clump = f.clump
          /\ v.lines = f.lines /\ v.outcome = f.outcome /\ v.rest = f.rest
      BY <1>1 DEF Flow, FlowPcs
    <3>2. task' = [task EXCEPT ![k] = v]
      BY <2>2 DEF Written
    <3> HIDE DEF v
    <3>3. v \in Working
      BY <3>1 DEF Working
    <3>4. Carries(k, v, Kinds, Fell)
      BY <1>1, <1>8, <2>2, <3>1 DEF Carries
    <3> QED BY <1>8, <2>2, <3>1, <3>2, <3>3, <3>4 DEF QuestInv, TasksTyped
  <2> QED BY <2>1, <2>2
\* what follows
<1>12. SidesTyped' /\ TablesTyped' /\ TasksTyped'
  BY <1>2, <1>5, <1>7, <1>9, <1>10, <1>11 DEF QuestInv, SidesTyped, TablesTyped, TasksTyped
<1>13. f.lines \subseteq DOMAIN ticks /\ f.tick <= Len(ticks)
  <2>1. DOMAIN Kinds = DOMAIN ticks
    BY DEF Kinds
  <2> QED BY SMTT(90), <1>1, <1>2, <1>8, <2>1 DEF Carries
<1>14. Referring'
  <2>1. \A r \in DOMAIN runs' : runs'[r].since <= Len(ticks') /\ runs'[r].completion <= Len(completions')
    <3>1. \A r \in DOMAIN runs : runs[r].since <= Len(ticks)
                                 /\ runs[r].completion <= Len(completions)
                                 /\ runs[r].completion \in Nat
      BY RowsTyped DEF QuestInv, Referring, RunRow
    <3>2. \A r \in DOMAIN opened : opened[r].since <= Len(ticks)
                                   /\ opened[r].completion <= Len(completions)
                                   /\ opened[r].completion \in Nat
      BY <1>2, <1>3, <3>1
    <3>3. Len(completions') = Len(completions) + 1 /\ Len(ticks') = Len(ticks)
      BY <1>7, <1>10
    <3> SUFFICES ASSUME NEW r \in DOMAIN opened
                 PROVE  runs'[r].since <= Len(ticks') /\ runs'[r].completion <= Len(completions')
      BY <1>5
    <3>4. CASE r = run
      BY SMTT(90), <1>2, <1>5, <3>2, <3>3, <3>4
    <3>5. CASE r # run
      BY <1>2, <1>5, <3>2, <3>3, <3>5
    <3> QED BY <3>4, <3>5
  <2>2. \A c \in DOMAIN completions' : /\ completions'[c].run \in DOMAIN runs'
                                       /\ completions'[c].lines \subseteq DOMAIN ticks'
                                       /\ completions'[c].tick <= Len(ticks')
    BY SMTT(90), <1>3, <1>5, <1>6, <1>7, <1>10, <1>13 DEF QuestInv, Referring
  <2>3. \A i \in DOMAIN clumps' : clumps'[i].tick \in DOMAIN ticks'
                                  /\ clumps'[i].claimed <= Len(completions')
    <3>1. \A i \in DOMAIN clumps : clumps[i].tick \in DOMAIN ticks
                                   /\ clumps[i].claimed <= Len(completions)
                                   /\ clumps[i].claimed \in Nat
      BY <1>2 DEF QuestInv, Referring, ClumpRow
    <3> QED BY <1>2, <1>7, <1>9, <1>10, <3>1
  <2> QED BY <2>1, <2>2, <2>3 DEF Referring
<1>15. OneOpenRun'
  <2>1. \A p \in Quest : p # f.quest => OpenRuns(p)' = OpenRuns(p)
    BY <1>3, <1>5 DEF OpenRuns
  <2>2. \A r \in DOMAIN runs' : ~(runs'[r].quest = f.quest /\ runs'[r].status = "in_progress")
    BY <1>3, <1>5
  <2>3. \A p \in Quest : startedAt'[p] = IF p = f.quest THEN 0 ELSE startedAt[p]
    BY <1>1 DEF QuestInv, TablesTyped
  <2>4. \A p \in Quest : p = f.quest => OpenRuns(p)' = {}
    BY <2>2 DEF OpenRuns
  <2> QED BY <2>1, <2>3, <2>4 DEF QuestInv, OneOpenRun
<1>16. RunsReciprocal'
  <2>1. opened[run].status = "in_progress" /\ opened[run].quest = f.quest
    BY <1>3
  <2>2. ASSUME NEW c \in DOMAIN completions
        PROVE  completions[c].run \in DOMAIN runs /\ completions[c].run # run
    <3>1. /\ completions[c].run \in DOMAIN runs /\ runs[completions[c].run].completion = c
          /\ c # 0
      BY <1>2 DEF QuestInv, RunsReciprocal, Referring
    <3>2. runs[completions[c].run].status = "completed"
      BY <3>1 DEF QuestInv, RunsReciprocal
    <3> QED BY <1>3, <2>1, <3>1, <3>2
  <2>3. ASSUME NEW c \in DOMAIN completions'
        PROVE  /\ runs'[completions'[c].run].completion = c
               /\ runs'[completions'[c].run].quest = completions'[c].quest
    <3>1. CASE c = id
      BY <1>3, <1>5, <1>6, <1>7, <2>1, <3>1
    <3>2. CASE c \in DOMAIN completions
      BY <1>3, <1>5, <1>7, <2>2, <3>2 DEF QuestInv, RunsReciprocal
    <3> QED BY <1>7, <3>1, <3>2
  <2>4. \A r \in DOMAIN runs' : (runs'[r].status = "completed") = (runs'[r].completion # 0)
    <3>1. \A r \in DOMAIN runs : (runs[r].status = "completed") = (runs[r].completion # 0)
      BY DEF QuestInv, RunsReciprocal
    <3>2. \A r \in DOMAIN opened : (opened[r].status = "completed") = (opened[r].completion # 0)
      <4> TAKE r \in DOMAIN opened
      <4>1. CASE r \in DOMAIN runs
        BY <1>3, <3>1, <4>1
      <4>2. CASE r \notin DOMAIN runs
        BY <1>3, <4>2
      <4> QED BY <4>1, <4>2
    <3>3. runs'[run].status = "completed" /\ runs'[run].completion # 0
      BY <1>2, <1>5
    <3> QED BY <1>5, <3>2, <3>3
  <2> QED BY <2>3, <2>4 DEF RunsReciprocal
<1>17. PaidOncePerSession'
  <2>1. f.session # NoSession => \A c \in DOMAIN completions :
            ~(completions[c].session = f.session /\ completions[c].quest = f.quest)
    BY DEF Ignored, Completed
  <2> SUFFICES ASSUME NEW c \in DOMAIN completions', NEW d \in DOMAIN completions',
                      completions'[c].session = completions'[d].session,
                      completions'[c].quest = completions'[d].quest,
                      completions'[c].session # NoSession
               PROVE  c = d
    BY DEF PaidOncePerSession
  <2>2. CASE c = id \/ d = id
    <3>1. completions'[id].session = f.session /\ completions'[id].quest = f.quest
      BY <1>6, <1>7
    <3>2. CASE c = id /\ d \in DOMAIN completions
      BY <1>7, <2>1, <3>1, <3>2
    <3>3. CASE d = id /\ c \in DOMAIN completions
      BY <1>7, <2>1, <3>1, <3>3
    <3> QED BY <1>7, <2>2, <3>2, <3>3
  <2>3. CASE c # id /\ d # id
    BY <1>7, <2>3 DEF QuestInv, PaidOncePerSession
  <2> QED BY <2>2, <2>3
<1>18. Kinds' = Kinds /\ Fell' = Fell
  BY <1>9, <1>10 DEF Kinds, Fell
<1>19. FlowsCarry'
  <2>1. ASSUME NEW j \in Task, FlowOf(j)' PROVE Carries(j, task'[j], Kinds', Fell')
    BY <1>11, <1>18, <2>1 DEF QuestInv, FlowsCarry, FlowOf, FlowPcs
  <2>2. task[k].pc # "idle"
    OBVIOUS
  <2> QED BY <1>10, <1>11, <2>1, <2>2 DEF QuestInv, FlowsCarry
<1>20. \A t \in DOMAIN ticks : t \in Task /\ t # 0
  BY <1>2, QuestBounds DEF QuestInv, TablesTyped, Task
<1>21. OneReview'
  <2>1. \A c \in DOMAIN completions : completions[c].tick # 0 => completions[c].tick \in DOMAIN ticks
    BY <1>2 DEF QuestInv, Referring, CompletionRow
  <2>2. \A c \in DOMAIN completions :
            completions[c].outcome = "unresolved" /\ completions[c].tick # 0
              => completions[c].tick # k
    BY DEF QuestInv, OneReview
  <2>3. f.outcome = "unresolved" /\ f.tick # 0 =>
            /\ k # 0 /\ f.tick = k /\ ticks[k].tick.kind = "mission" /\ k \in DOMAIN ticks
            /\ task'[k].pc = "idle"
    <3>1. ASSUME f.outcome = "unresolved", f.tick # 0
          PROVE  k # 0 /\ f.tick = k /\ Kinds[k] = "mission" /\ k \in DOMAIN Kinds
      BY <1>1, <3>1 DEF Carries
    <3> QED BY <1>11, <3>1 DEF Kinds
  <2>4. ASSUME NEW c \in DOMAIN completions
        PROVE  /\ completions[c].outcome = "unresolved" /\ completions[c].tick # 0 =>
                     /\ ticks'[completions[c].tick].tick.kind = "mission"
                     /\ task'[completions[c].tick].pc = "idle"
                     /\ \A d \in DOMAIN completions' :
                           completions'[d].outcome = "unresolved"
                           /\ completions'[d].tick = completions[c].tick => d = c
               /\ completions[c].reviewed # 0 =>
                     completions[c].outcome = "unresolved"
                     /\ completions[c].reviewed = completions[c].tick
    BY SMTT(90), <1>6, <1>7, <1>10, <1>11, <1>20, <2>1, <2>2, <2>3 DEF QuestInv, OneReview
  <2>5. f.outcome = "unresolved" /\ f.tick # 0 =>
            /\ ticks'[f.tick].tick.kind = "mission" /\ task'[f.tick].pc = "idle"
            /\ \A d \in DOMAIN completions' :
                  completions'[d].outcome = "unresolved" /\ completions'[d].tick = f.tick => d = id
    BY SMTT(90), <1>6, <1>7, <1>10, <2>2, <2>3
  <2> QED BY SMTT(90), <1>6, <1>7, <2>4, <2>5 DEF OneReview
<1>22. OneClump'
  <2>1. \A i \in DOMAIN clumps : /\ clumps[i].tick \in DOMAIN ticks
                                 /\ ticks[clumps[i].tick].tick.kind = "loot"
                                 /\ task[clumps[i].tick].pc # "spawned"
                                 /\ \A j \in DOMAIN clumps : clumps[j].tick = clumps[i].tick => j = i
    BY DEF QuestInv, OneClump, Referring
  <2>2. \A t \in DOMAIN ticks : task[t].pc # "spawned" => task'[t].pc # "spawned"
    BY <1>11, <1>20
  <2> QED BY SMTT(90), <1>9, <1>10, <2>1, <2>2 DEF OneClump
<1>23. \A c \in DOMAIN completions : completions[c].reviewed # 0 =>
           /\ completions[c].reviewed \in DOMAIN ticks
           /\ ticks[completions[c].reviewed].tick.kind = "mission"
  BY <1>2 DEF QuestInv, OneReview, Referring, CompletionRow
<1>24. /\ \A i \in DOMAIN clumps : /\ clumps[i].tick \in DOMAIN ticks
                                   /\ ticks[clumps[i].tick].tick.kind = "loot"
                                   /\ \A j \in DOMAIN clumps : clumps[j].tick = clumps[i].tick => j = i
       /\ \A i \in DOMAIN clumps : clumps[i].claimed # 0 => clumps[i].claimed \in DOMAIN completions
  BY <1>2 DEF QuestInv, OneClump, Referring, ClumpRow
<1>25. ReclassifiedOnce'
  <2>1. id \notin reversed
    BY <1>2 DEF QuestInv, TablesTyped
  <2>2. ASSUME NEW i \in DOMAIN clumps, clumps'[i].claimed # 0
        PROVE  /\ clumps'[i].tick \in completions'[clumps'[i].claimed].lines
               /\ (ticks'[clumps'[i].tick].loot = "active") = (clumps'[i].claimed \in reversed)
    <3>1. CASE i = f.clump
      <4>1. f.clump # 0
        BY <1>2, <3>1
      <4>2. clumps'[i].claimed = id /\ clumps'[i].tick = clumps[f.clump].tick
        BY <1>9, <3>1
      <4>3. clumps'[i].tick \in completions'[id].lines
        BY <1>6, <1>7, <1>8, <4>1, <4>2
      <4>4. ticks'[clumps'[i].tick].loot = "inactive"
        BY <1>10, <4>1, <4>2
      <4> QED BY <2>1, <4>2, <4>3, <4>4
    <3>2. CASE i # f.clump
      <4>1. clumps'[i] = clumps[i] /\ clumps[i].claimed # 0 /\ clumps[i].claimed \in DOMAIN completions
        BY <1>9, <1>24, <2>2, <3>2
      <4>2. ticks'[clumps[i].tick] = ticks[clumps[i].tick]
        BY <1>8, <1>10, <1>24, <3>2
      <4>3. /\ clumps[i].tick \in completions[clumps[i].claimed].lines
            /\ (ticks[clumps[i].tick].loot = "active") = (clumps[i].claimed \in reversed)
        BY <4>1 DEF QuestInv, ReclassifiedOnce
      <4> QED BY <1>7, <4>1, <4>2, <4>3
    <3> QED BY <3>1, <3>2
  <2>3. ASSUME NEW c \in DOMAIN completions' \ reversed, completions'[c].reviewed # 0
        PROVE  ticks'[completions'[c].reviewed].loot = "inactive"
    <3>1. c \in DOMAIN completions \ reversed /\ completions'[c] = completions[c]
      BY <1>6, <1>7, <2>3
    <3>2. ticks[completions[c].reviewed].loot = "inactive"
      BY <2>3, <3>1 DEF QuestInv, ReclassifiedOnce
    <3> QED BY SMTT(60), <1>8, <1>10, <1>23, <1>24, <2>3, <3>1, <3>2
  <2> QED BY <1>9, <2>2, <2>3 DEF ReclassifiedOnce
<1>26. ClumpPaysItsRun'
  <2>1. ASSUME NEW i \in DOMAIN clumps, clumps'[i].claimed # 0
        PROVE  /\ runs'[completions'[clumps'[i].claimed].run].since < clumps'[i].tick
               /\ completions'[clumps'[i].claimed].quest \in ticks'[clumps'[i].tick].stood
    <3>1. CASE i = f.clump
      <4>1. f.clump # 0
        BY <1>2, <3>1
      <4> QED BY SMTT(90), <1>3, <1>5, <1>6, <1>7, <1>8, <1>9, <1>10, <3>1, <4>1
    <3>2. CASE i # f.clump
      <4>1. clumps'[i] = clumps[i] /\ clumps[i].claimed # 0 /\ clumps[i].claimed \in DOMAIN completions
        BY <1>9, <1>24, <2>1, <3>2
      <4>2. /\ runs[completions[clumps[i].claimed].run].since < clumps[i].tick
            /\ completions[clumps[i].claimed].quest \in ticks[clumps[i].tick].stood
        BY <4>1 DEF QuestInv, ClumpPaysItsRun
      <4>3. completions[clumps[i].claimed].run \in DOMAIN runs
        BY <4>1 DEF QuestInv, Referring
      <4> QED BY SMTT(90), <1>3, <1>5, <1>7, <1>10, <1>24, <4>1, <4>2, <4>3
    <3> QED BY <3>1, <3>2
  <2> QED BY <1>9, <2>1 DEF ClumpPaysItsRun
<1>27. ClaimedClumpsKept'
  <2>1. \A i \in DOMAIN clumps' : clumps'[i].claimed # 0 => ~clumps'[i].pruned
    BY <1>2, <1>8, <1>9 DEF QuestInv, ClaimedClumpsKept
  <2> DEFINE U == {i \in DOMAIN clumps : clumps[i].claimed = 0 /\ ~clumps[i].pruned}
             V == {i \in DOMAIN clumps' : clumps'[i].claimed = 0 /\ ~clumps'[i].pruned}
  <2>2. V \subseteq U
    BY <1>2, <1>9
  <2>3. IsFiniteSet(U)
    <3>1. IsFiniteSet(1 .. Len(clumps))
      <4>1. 1 \in Int /\ Len(clumps) \in Int
        BY <1>2
      <4> QED BY <4>1, FS_Interval
    <3>2. U \subseteq 1 .. Len(clumps)
      BY <1>2
    <3> HIDE DEF U
    <3> QED BY <3>1, <3>2, FS_Subset
  <2>4. Cardinality(U) <= Retention
    BY DEF QuestInv, ClaimedClumpsKept
  <2>5. Cardinality(V) <= Cardinality(U) /\ Cardinality(U) \in Nat /\ Cardinality(V) \in Nat
    <3> HIDE DEF U, V
    <3> QED BY <2>2, <2>3, FS_Subset, FS_CardinalityType
  <2>6. Cardinality(V) <= Retention
    <3> HIDE DEF U, V
    <3> QED BY <2>4, <2>5, QuestBounds
  <2> QED BY <2>1, <2>6 DEF ClaimedClumpsKept
<1> QED BY <1>12, <1>14, <1>15, <1>16, <1>17, <1>19, <1>21, <1>22, <1>25, <1>26, <1>27 DEF QuestInv

LEMMA CommitKeeps ==
    ASSUME QuestInv, NEW k \in Task, CommitCompletion(k)
    PROVE  QuestInv'
<1>1. PICK f : f = task[k]
  OBVIOUS
<1>2. PICK opened : opened = IF OpenRuns(f.quest) = {} THEN Append(runs, NewRun(f.quest)) ELSE runs
  OBVIOUS
<1>3. PICK run : run = CHOOSE r \in DOMAIN opened : opened[r].quest = f.quest
                                                    /\ opened[r].status = "in_progress"
  OBVIOUS
<1>4. PICK id : id = Len(completions) + 1
  OBVIOUS
<1>5. task[k].pc = "write" /\ f.quest \in Quest
  BY <1>1, WriterCarries DEF CommitCompletion
<1>6. WithOpenRun(f.quest, opened, run)
  BY <1>2, <1>3, <1>5, RunIsOpened
<1>7. /\ f.clump # 0 => ClaimValid(f.quest, f.clump, opened[run].since)
      /\ startedAt' = [startedAt EXCEPT ![f.quest] = 0]
      /\ UNCHANGED <<session, spent, commands, standing, reversed, tail>>
  BY <1>1, <1>2, <1>3 DEF CommitCompletion, Without
<1>8. CASE Ignored(f)
  <2>1. /\ runs' = opened /\ task' = [task EXCEPT ![k] = Resume(k)]
        /\ UNCHANGED <<completions, clumps, ticks>>
    BY <1>1, <1>2, <1>8 DEF CommitCompletion
  <2>2. WithOpenRun(f.quest, runs', run)
    BY <1>6, <2>1
  <2> QED BY <1>5, <1>7, <2>1, <2>2, IgnoredKeeps
<1>9. CASE ~Ignored(f)
  <2>1. Written(k, f, opened, run, id)
    BY <1>1, <1>2, <1>3, <1>4, <1>9 DEF CommitCompletion, Written
  <2> QED BY <1>1, <1>4, <1>5, <1>6, <1>7, <1>9, <2>1, WrittenKeeps
<1> QED BY <1>8, <1>9

-----------------------------------------------------------------------------
(* What the watcher gives is counted once.  The filter answers before the   *)
(* tick is published and the probe reads the log again after; a second      *)
(* invariant says what the answer is still worth by then.                   *)

\* Ticks the filter would suppress now; ticks it did suppress; ticks the
\* tracker took no loot from.
Paid == {t \in TickKind : Suppresses(t)}
Hidden == {k \in DOMAIN ticks : ticks[k].suppressed}
NoLoot == {k \in DOMAIN ticks : ticks[k].loot = "none"}
Lines == [k \in DOMAIN ticks |-> ticks[k].tick]
Excused == shifted \union Hidden
Unseen == {"spawned", "journalled"}

\* The answer stands until a quest starts or ends.
FilterHolds ==
    tail.pc = "filtered" /\ tail.tick \in Paid => Len(ticks) + 1 \in shifted \/ tail.suppressed
ProbesHold ==
    \A k \in DOMAIN ticks : task[k].pc \in Unseen /\ Lines[k] \in Paid => k \in Excused

JournalIsLoot ==
    \A k \in DOMAIN ticks : task[k].pc = "journalled" => Lines[k].kind = "loot"

\* A suppressed tick is no loot, and what a clump or a review holds is some.
LootHolds ==
    /\ Hidden \subseteq NoLoot
    /\ \A i \in DOMAIN clumps : clumps[i].tick \notin NoLoot
    /\ \A c \in DOMAIN completions :
          completions[c].reviewed # 0 => completions[c].reviewed \notin NoLoot

\* A confirmed reward on its way is a clump's or a suppressed line's, and so
\* is each that waits behind it.
Tells(k, f, excused) ==
    /\ f.outcome = "confirmed" => IF k = 0 THEN f.clump # 0 ELSE k \in excused
    /\ \A i \in DOMAIN f.rest : f.rest[i].outcome = "confirmed" => k \in excused

FlowsTold == \A k \in Task : FlowOf(k) => Tells(k, task[k], Excused)

CompletionsTold ==
    \A c \in DOMAIN completions : completions[c].outcome = "confirmed" =>
        \/ completions[c].tick \in Excused
        \/ \E i \in DOMAIN clumps : clumps[i].claimed = c
                                    /\ clumps[i].tick = completions[c].tick

WatchInv == /\ FilterHolds /\ ProbesHold /\ JournalIsLoot /\ LootHolds
            /\ FlowsTold /\ CompletionsTold

LEMMA WatchStarts == QuestInit => WatchInv
<1> SUFFICES ASSUME QuestInit PROVE WatchInv
  OBVIOUS
<1>1. /\ DOMAIN ticks = {} /\ DOMAIN clumps = {} /\ DOMAIN completions = {}
      /\ tail.pc = "idle" /\ \A k \in Task : task[k].pc = "idle"
  BY DEF QuestInit, Idle
<1>2. FilterHolds /\ ProbesHold /\ JournalIsLoot /\ LootHolds
  BY <1>1 DEF FilterHolds, ProbesHold, JournalIsLoot, LootHolds, Hidden
<1>3. FlowsTold /\ CompletionsTold
  BY <1>1 DEF FlowsTold, FlowOf, CompletionsTold
<1> QED BY <1>2, <1>3 DEF WatchInv

\* A start, a completion or a cancel excuses the ticks it came between.
LEMMA ShiftCovers ==
    ASSUME WatchInv, Shift, UNCHANGED tail,
           DOMAIN ticks' = DOMAIN ticks, Len(ticks') = Len(ticks),
           Lines' = Lines, Hidden' = Hidden,
           \A k \in DOMAIN ticks : task'[k].pc \in Unseen => task[k].pc = task'[k].pc
    PROVE  FilterHolds' /\ ProbesHold' /\ JournalIsLoot' /\ Excused \subseteq Excused'
<1>0. JournalIsLoot'
  BY DEF WatchInv, JournalIsLoot, Unseen
<1>1. shifted \subseteq shifted'
  BY DEF Shift
<1>2. CASE startedAt' = startedAt
  <2>1. Paid' = Paid
    BY <1>2 DEF Paid, Suppresses, IsStarted, SafelyOwned, Assigned
  <2> QED BY <1>1, <2>1, <1>0 DEF WatchInv, FilterHolds, ProbesHold, Excused
<1>3. CASE startedAt' # startedAt
  <2>1. shifted' = shifted \union Pending
    BY <1>3 DEF Shift
  <2>2. tail.pc = "filtered" => Len(ticks) + 1 \in Pending
    BY DEF Pending
  <2>3. \A k \in DOMAIN ticks : task[k].pc \in Unseen => k \in Pending
    BY DEF Pending, Unseen
  <2> QED BY <2>1, <2>2, <2>3, <1>0 DEF FilterHolds, ProbesHold, Excused
<1> QED BY <1>2, <1>3

LEMMA TellsOn ==
    ASSUME NEW k, NEW f, NEW excused, NEW more, excused \subseteq more, Tells(k, f, excused)
    PROVE  Tells(k, f, more)
BY DEF Tells

\* Excused ticks stay excused, and so do the completions they gave.
LEMMA ToldOn ==
    ASSUME QuestInv, WatchInv, Excused \subseteq Excused',
           DOMAIN completions' = DOMAIN completions,
           \A c \in DOMAIN completions : /\ completions'[c].outcome = completions[c].outcome
                                         /\ completions'[c].tick = completions[c].tick,
           \A i \in DOMAIN clumps : /\ i \in DOMAIN clumps'
                                    /\ clumps'[i].tick = clumps[i].tick
                                    /\ clumps'[i].claimed = clumps[i].claimed
    PROVE  CompletionsTold'
BY DEF WatchInv, CompletionsTold

\* One task moves on while the tables stay.
LEMMA WatchMoves ==
    ASSUME QuestInv, WatchInv, NEW k \in Task, NEW v, task' = [task EXCEPT ![k] = v],
           UNCHANGED <<tail, startedAt, tables, ticks, shifted>>,
           v.pc \in FlowPcs => Tells(k, v, Excused),
           v.pc \in Unseen => task[k].pc = v.pc
    PROVE  WatchInv'
<1>1. /\ task'[k] = v
      /\ \A j \in Task : j # k => task'[j] = task[j]
  BY DEF QuestInv, TasksTyped
<1>2. \A t \in DOMAIN ticks : t \in Task
  BY QuestBounds DEF QuestInv, TablesTyped, Task
<1>3. /\ Lines' = Lines /\ Hidden' = Hidden /\ NoLoot' = NoLoot /\ Excused' = Excused
  BY DEF Lines, Hidden, NoLoot, Excused
<1>4. FilterHolds' /\ ProbesHold' /\ JournalIsLoot'
  <2>1. Shift
    BY DEF Shift
  <2>2. \A t \in DOMAIN ticks : task'[t].pc \in Unseen => task[t].pc = task'[t].pc
    BY <1>1, <1>2
  <2> QED BY <1>3, <2>1, <2>2, ShiftCovers
<1>5. LootHolds'
  BY <1>3 DEF WatchInv, LootHolds, tables
<1>6. FlowsTold'
  BY <1>1, <1>3 DEF WatchInv, FlowsTold, FlowOf, FlowPcs
<1>7. CompletionsTold'
  BY <1>3 DEF WatchInv, CompletionsTold, tables
<1> QED BY <1>4, <1>5, <1>6, <1>7 DEF WatchInv

LEMMA NoneWatched ==
    ASSUME QuestInv, WatchInv, UNCHANGED <<tail, startedAt, tables, ticks, task, shifted>>
    PROVE  WatchInv'
<1>1. 0 \in Task /\ task' = [task EXCEPT ![0] = task[0]]
  BY QuestBounds DEF Task, QuestInv, TasksTyped
<1>2. task[0].pc \in FlowPcs => Tells(0, task[0], Excused)
  BY <1>1 DEF WatchInv, FlowsTold, FlowOf, FlowPcs
<1> QED BY <1>1, <1>2, WatchMoves

\* The next completion of a line is told by what told the whole line.
LEMMA ResumeTells ==
    ASSUME QuestInv, WatchInv, NEW k \in Task, task[k].pc \in FlowPcs,
           Resume(k).pc \in FlowPcs
    PROVE  Tells(k, Resume(k), Excused)
<1>1. task[k] \in Flow /\ Carries(k, task[k], Kinds, Fell) /\ Tells(k, task[k], Excused)
  BY FlowsTyped DEF QuestInv, WatchInv, FlowsCarry, FlowsTold, FlowOf, FlowPcs
<1>2. k # 0
  BY ResumeCarries DEF FlowPcs
<1> DEFINE rest == task[k].rest
<1>3. rest \in Seq(Waiting) /\ rest # <<>>
  BY <1>1 DEF Flow, Resume, Idle, FlowPcs
<1> HIDE DEF rest
<1>4. /\ 1 \in DOMAIN rest /\ Head(rest) = rest[1] /\ Head(rest) \in Waiting
      /\ Tail(rest) \in Seq(Waiting)
      /\ \A i \in DOMAIN Tail(rest) : i + 1 \in DOMAIN rest /\ Tail(rest)[i] = rest[i + 1]
  BY <1>3, TakeFirst
<1>5. PICK w \in Waiting, left \in Seq(Waiting) : w = Head(rest) /\ left = Tail(rest)
  BY <1>4
<1>6. PICK v : v = Resume(k)
  OBVIOUS
<1>7. v = [w EXCEPT !.rest = left]
  BY <1>3, <1>5, <1>6 DEF Resume, rest
<1>8. v.outcome = w.outcome /\ v.rest = left
  BY <1>7, TakenUp
<1>9. \A i \in DOMAIN rest : rest[i].outcome = "confirmed" => k \in Excused
  BY <1>1 DEF Tells, rest
<1> HIDE DEF Excused
<1> QED BY <1>2, <1>4, <1>5, <1>6, <1>8, <1>9 DEF Tells

\* What the steps of a completion carry on, but for its transaction.
LEMMA CompletesWatched ==
    ASSUME QuestInv, WatchInv, NEW k \in Task,
           CheckCompletion(k) \/ ReportStretchClosed(k) \/ AbortCompletion(k)
    PROVE  WatchInv'
<1>1. UNCHANGED <<tail, startedAt, tables, ticks, shifted>>
  BY DEF CheckCompletion, ReportStretchClosed, AbortCompletion
<1>2. CASE AbortCompletion(k)
  BY <1>1, <1>2, WatchMoves DEF AbortCompletion, Idle, FlowPcs, Unseen
<1>3. CASE CheckCompletion(k) \/ ReportStretchClosed(k)
  <2>1. task[k].pc \in FlowPcs /\ task[k] \in Flow
    BY <1>3, FlowsTyped DEF CheckCompletion, ReportStretchClosed, FlowPcs, QuestInv
  <2>2. Tells(k, task[k], Excused)
    BY <2>1 DEF WatchInv, FlowsTold, FlowOf, FlowPcs
  <2>3. CASE task' = [task EXCEPT ![k] = Resume(k)]
    BY <1>1, <2>1, <2>3, ResumeCarries, ResumeTells, WatchMoves DEF Unseen
  <2>4. ASSUME NEW v, task' = [task EXCEPT ![k] = v], v.pc \in FlowPcs,
               v.outcome = task[k].outcome, v.clump = task[k].clump, v.rest = task[k].rest
        PROVE  WatchInv'
    <3>1. Tells(k, v, Excused)
      BY <2>2, <2>4 DEF Tells
    <3> QED BY <1>1, <2>4, <3>1, WatchMoves DEF FlowPcs, Unseen
  <2>5. CASE CheckCompletion(k)
    <3> DEFINE v == [task[k] EXCEPT !.session = session,
                       !.attr = IF task[k].quest \in standing THEN standing ELSE {},
                       !.pc = IF task[k].clump # 0 THEN "write" ELSE "close"]
    <3>1. /\ v.pc \in FlowPcs /\ v.outcome = task[k].outcome
          /\ v.clump = task[k].clump /\ v.rest = task[k].rest
      BY <2>1 DEF Flow, FlowPcs
    <3>2. task' = [task EXCEPT ![k] = IF session # NoSession /\ Completed(session, task[k].quest)
                                      THEN Resume(k) ELSE v]
      BY <2>5 DEF CheckCompletion, QuestInv, TasksTyped
    <3> HIDE DEF v
    <3> QED BY <2>3, <2>4, <3>1, <3>2
  <2>6. CASE ReportStretchClosed(k)
    <3> DEFINE v == [task[k] EXCEPT !.pc = "write"]
    <3>1. /\ v.pc \in FlowPcs /\ v.outcome = task[k].outcome
          /\ v.clump = task[k].clump /\ v.rest = task[k].rest
      BY <2>1 DEF Flow, FlowPcs
    <3>2. task' = [task EXCEPT ![k] = IF task[k].pc = "close" THEN v ELSE Resume(k)]
      BY <2>6 DEF ReportStretchClosed, QuestInv, TasksTyped
    <3> HIDE DEF v
    <3> QED BY <2>3, <2>4, <3>1, <3>2
  <2> QED BY <1>3, <2>5, <2>6
<1> QED BY <1>2, <1>3

\* The filter's answer is what a probe would find now.
LEMMA FilterWatched ==
    ASSUME QuestInv, WatchInv, NEW log \in Chat, FilterTick(log)
    PROVE  WatchInv'
<1> DEFINE t == log[Len(ticks) + 1]
<1>1. tail'.tick = t /\ (tail'.suppressed <=> Suppresses(t))
  BY DEF FilterTick
<1>2. UNCHANGED <<startedAt, tables, ticks, task, shifted>>
  BY DEF FilterTick
<1>3. /\ Paid' = Paid /\ Lines' = Lines /\ Hidden' = Hidden /\ NoLoot' = NoLoot
      /\ Excused' = Excused
  BY <1>2 DEF Paid, Suppresses, IsStarted, SafelyOwned, Assigned, Lines, Hidden, NoLoot, Excused
<1>4. FilterHolds'
  <2> SUFFICES ASSUME t \in Paid PROVE tail'.suppressed
    BY <1>1, <1>3 DEF FilterHolds
  <2> QED BY <1>1 DEF Paid
<1>5. ProbesHold' /\ JournalIsLoot' /\ LootHolds' /\ FlowsTold' /\ CompletionsTold'
  BY <1>2, <1>3 DEF WatchInv, ProbesHold, JournalIsLoot, LootHolds, FlowsTold, FlowOf, CompletionsTold, tables
<1> QED BY <1>4, <1>5 DEF WatchInv

\* The tick goes out with the answer, and its probe starts from there.
LEMMA PublishWatched ==
    ASSUME QuestInv, WatchInv, PublishTick
    PROVE  WatchInv'
<1> DEFINE id == Len(ticks) + 1
           row == [tick |-> tail.tick, suppressed |-> tail.suppressed, session |-> session,
                   stood |-> standing,
                   loot |-> IF session # NoSession /\ ~tail.suppressed THEN "active" ELSE "none"]
<1>1. /\ tail.pc = "filtered" /\ Len(ticks) < MaxTicks
      /\ ticks' = Append(ticks, row) /\ task' = [task EXCEPT ![id] = [pc |-> "spawned"]]
      /\ UNCHANGED <<startedAt, tables, shifted>> /\ tail'.pc = "idle"
  BY DEF PublishTick, QuestInv, SidesTyped
<1>2. row \in TickRow /\ ticks \in Seq(TickRow)
  BY <1>1 DEF QuestInv, SidesTyped, TablesTyped, TickRow
<1>3. Len(ticks) \in Nat /\ DOMAIN ticks = 1 .. Len(ticks) /\ id \in Task \ {0}
  BY <1>1, RowsTyped, QuestBounds DEF QuestInv, Task
<1>4. /\ row.tick = tail.tick /\ (row.suppressed <=> tail.suppressed)
      /\ tail.suppressed => row.loot = "none"
  OBVIOUS
<1> HIDE DEF row
<1>5. /\ DOMAIN ticks' = DOMAIN ticks \union {id} /\ id \notin DOMAIN ticks
      /\ ticks'[id] = row /\ \A t \in DOMAIN ticks : ticks'[t] = ticks[t]
  <2>1. /\ DOMAIN ticks' = 1 .. Len(ticks) + 1 /\ ticks'[Len(ticks) + 1] = row
        /\ \A t \in DOMAIN ticks : ticks'[t] = ticks[t]
    BY <1>1, <1>2, AppendRow
  <2> QED BY <1>3, <2>1
<1>6. /\ task'[id] = [pc |-> "spawned"] /\ \A k \in Task \ {id} : task'[k] = task[k]
  BY <1>1, <1>3 DEF QuestInv, TasksTyped
<1>7. id \in shifted \/ (tail.tick \in Paid => tail.suppressed)
  BY <1>1 DEF WatchInv, FilterHolds
<1> HIDE DEF id
<1>8. /\ Hidden \subseteq Hidden' /\ Hidden' \subseteq Hidden \union {id}
      /\ (id \in Hidden' <=> tail.suppressed)
  BY <1>4, <1>5 DEF Hidden
<1>9. /\ NoLoot \subseteq NoLoot' /\ NoLoot' \subseteq NoLoot \union {id}
      /\ tail.suppressed => id \in NoLoot'
  BY <1>4, <1>5 DEF NoLoot
<1>10. Excused \subseteq Excused'
  BY <1>1, <1>8 DEF Excused
<1>11. FilterHolds'
  BY <1>1 DEF FilterHolds
<1>12. ProbesHold'
  <2>1. Paid' = Paid
    BY <1>1 DEF Paid, Suppresses, IsStarted, SafelyOwned, Assigned
  <2>2. ASSUME NEW k \in DOMAIN ticks, task'[k].pc \in Unseen, Lines'[k] \in Paid
        PROVE  k \in Excused'
    <3>1. k \in Task \ {id}
      BY <1>3, <1>5, QuestBounds DEF QuestInv, TablesTyped, Task
    <3>2. Lines'[k] = Lines[k]
      BY <1>5 DEF Lines
    <3> QED BY <1>6, <1>10, <2>2, <3>1, <3>2 DEF WatchInv, ProbesHold
  <2>3. Lines'[id] \in Paid => id \in Excused'
    <3>1. Lines'[id] = tail.tick
      BY <1>4, <1>5 DEF Lines
    <3> QED BY <1>1, <1>7, <1>8, <3>1 DEF Excused
  <2> QED BY <1>5, <2>1, <2>2, <2>3 DEF ProbesHold
<1>16. JournalIsLoot'
  <2>1. \A k \in DOMAIN ticks : k \in Task \ {id} /\ Lines'[k] = Lines[k]
    BY <1>3, <1>5, QuestBounds DEF QuestInv, TablesTyped, Task, Lines
  <2> QED BY <1>5, <1>6, <2>1 DEF WatchInv, JournalIsLoot
<1>13. LootHolds'
  <2>1. \A i \in DOMAIN clumps : clumps[i].tick \in DOMAIN ticks
    BY DEF QuestInv, Referring
  <2>2. \A c \in DOMAIN completions : completions[c].reviewed # 0 =>
            completions[c].reviewed \in DOMAIN ticks
    BY RowsTyped DEF QuestInv, Referring, CompletionRow, OneReview
  <2>3. id \in Hidden' => id \in NoLoot'
    BY <1>8, <1>9
  <2>4. Hidden' \subseteq NoLoot'
    BY <1>8, <1>9, <2>3 DEF WatchInv, LootHolds
  <2> QED BY <1>1, <1>5, <1>9, <2>1, <2>2, <2>4 DEF WatchInv, LootHolds, tables
<1>14. FlowsTold'
  <2>1. ASSUME NEW k \in Task, FlowOf(k)' PROVE Tells(k, task'[k], Excused')
    <3>1. k # id
      BY <1>6, <2>1 DEF FlowOf
    <3>2. Tells(k, task[k], Excused)
      BY <1>6, <2>1, <3>1 DEF WatchInv, FlowsTold, FlowOf
    <3> QED BY <1>6, <1>10, <3>1, <3>2, TellsOn
  <2> QED BY <2>1 DEF FlowsTold
<1>15. CompletionsTold'
  BY <1>1, <1>10, ToldOn DEF tables
<1> QED BY <1>11, <1>12, <1>13, <1>14, <1>15, <1>16 DEF WatchInv

\* A probe completes a quest from a line the filter would suppress now, so it
\* did, unless a quest started or ended in between.
LEMMA MissionWatched ==
    ASSUME QuestInv, WatchInv, NEW k \in DOMAIN ticks, MissionCompleteCheck(k)
    PROVE  WatchInv'
<1>1. k \in Nat \ {0} /\ k \in Task /\ ticks[k] \in TickRow
  BY RowsTyped, QuestBounds DEF QuestInv, TablesTyped, Task
<1>2. task[k].pc = "spawned" /\ ticks[k].tick.kind = "mission"
      /\ UNCHANGED <<tail, startedAt, tables, ticks, shifted>>
  BY DEF MissionCompleteCheck
<1> DEFINE t == ticks[k].tick
           paid == t.quest \in Named /\ t.units > 0
           outcome == CASE t.quest \notin Named -> "none"
                        [] paid -> "confirmed"
                        [] OTHER -> "unresolved"
           lines == IF paid THEN {k} ELSE {}
           v == Completion(t.quest, outcome, k, lines, 0)
<1>3. task' = [task EXCEPT ![k] = IF ~IsStarted(t.quest) THEN Idle ELSE v]
  BY DEF MissionCompleteCheck
<1>4. CASE ~IsStarted(t.quest)
  BY <1>1, <1>2, <1>3, <1>4, WatchMoves DEF Idle, FlowPcs, Unseen
<1>5. CASE IsStarted(t.quest)
  <2>1. v.outcome = outcome /\ v.rest = <<>> /\ v.pc = "check"
    BY DEF Completion
  <2>2. ASSUME outcome = "confirmed" PROVE k \in Excused
    <3>1. paid
      BY <2>2
    <3>2. t \in TickKind /\ Suppresses(t)
      BY <1>1, <1>2, <1>5, <3>1 DEF TickRow, Suppresses
    <3>3. Lines[k] \in Paid
      BY <3>2 DEF Lines, Paid
    <3> QED BY <1>2, <3>3 DEF WatchInv, ProbesHold, Unseen
  <2> HIDE DEF outcome, v
  <2>3. Tells(k, v, Excused)
    BY <1>1, <2>1, <2>2 DEF Tells
  <2>4. task' = [task EXCEPT ![k] = v]
    BY <1>3, <1>5
  <2> QED BY <1>1, <1>2, <2>1, <2>3, <2>4, WatchMoves DEF Unseen
<1> QED BY <1>4, <1>5

LEMMA SignalWatched ==
    ASSUME QuestInv, WatchInv, NEW k \in DOMAIN ticks, SignalLootCheck(k)
    PROVE  WatchInv'
<1>1. k \in Nat \ {0} /\ k \in Task /\ ticks[k] \in TickRow
  BY RowsTyped, QuestBounds DEF QuestInv, TablesTyped, Task
<1>0. ticks[k].tick.kind = "loot"
  BY DEF SignalLootCheck, WatchInv, JournalIsLoot, Lines
<1>2. task[k].pc = "journalled" /\ UNCHANGED <<tail, startedAt, tables, ticks, shifted>>
  BY DEF SignalLootCheck
<1> DEFINE units == ticks[k].tick.units
           paid == {q \in Assigned(units) : q \in Named => SafelyOwned(units)}
           flow(q) == IF q \in Named THEN Completion(q, "confirmed", k, {k}, 0)
                      ELSE Completion(q, "none", k, {}, 0)
           flows(order) == [i \in DOMAIN order |-> flow(order[i])]
<1>3. PICK order \in Oldest(paid) :
          task' = [task EXCEPT ![k] = IF flows(order) = <<>> THEN Idle
                                      ELSE [Head(flows(order)) EXCEPT !.rest = Tail(flows(order))]]
  BY DEF SignalLootCheck
<1>4. SafelyOwned(units) => k \in Excused
  <2> SUFFICES ASSUME SafelyOwned(units) PROVE k \in Excused
    OBVIOUS
  <2>1. Suppresses(ticks[k].tick) /\ ticks[k].tick \in TickKind
    BY <1>0, <1>1 DEF Suppresses, TickRow
  <2>2. Lines[k] \in Paid
    BY <2>1 DEF Lines, Paid
  <2> QED BY <1>2, <2>2 DEF WatchInv, ProbesHold, Unseen
<1>5. paid \subseteq Quest /\ IsFiniteSet(paid)
  BY QuestKinds, FS_Subset DEF Assigned
<1>6. Cardinality(paid) \in Nat
  BY <1>5, FS_CardinalityType
<1>7. order \in [1 .. Cardinality(paid) -> paid]
  BY DEF Oldest
<1>8. ASSUME NEW q \in paid
      PROVE  /\ flow(q) \in Waiting \cap Flow /\ flow(q).pc = "check"
             /\ flow(q).outcome = "confirmed" => k \in Excused
  <2>1. {k} \in SUBSET Nat /\ {} \in SUBSET Nat /\ {"confirmed", "none"} \subseteq Outcomes
        /\ k \in Nat /\ 0 \in Nat /\ q \in Quest
    BY <1>1, <1>5 DEF Outcomes
  <2>2. CASE q \in Named
    <3>1. flow(q) = Completion(q, "confirmed", k, {k}, 0)
      BY <2>2
    <3> HIDE DEF flow
    <3>2. k \in Excused
      BY <1>4, <2>2
    <3> HIDE DEF paid
    <3> QED BY <2>1, <3>1, <3>2, NewCompletion
  <2>3. CASE q \notin Named
    <3>1. flow(q) = Completion(q, "none", k, {}, 0)
      BY <2>3
    <3> HIDE DEF flow, paid
    <3> QED BY <2>1, <3>1, NewCompletion
  <2> QED BY <2>2, <2>3
<1> DEFINE rows == flows(order)
<1>9. /\ rows \in Seq(Waiting)
      /\ \A i \in DOMAIN rows : /\ rows[i] \in Waiting \cap Flow /\ rows[i].pc = "check"
                                /\ rows[i].outcome = "confirmed" => k \in Excused
  <2> HIDE DEF flow, paid
  <2>1. \A i \in DOMAIN order : order[i] \in paid /\ rows[i] = flow(order[i])
    BY <1>7
  <2>2. \A i \in 1 .. Cardinality(paid) : rows[i] \in Waiting
    BY <1>7, <1>8, <2>1
  <2>3. rows \in [1 .. Cardinality(paid) -> Waiting]
    BY <1>7, <2>2
  <2> QED BY <1>6, <1>7, <1>8, <2>1, <2>3
<1>10. task' = [task EXCEPT ![k] = IF rows = <<>> THEN Idle
                                   ELSE [Head(rows) EXCEPT !.rest = Tail(rows)]]
  BY <1>3
<1> HIDE DEF rows, flows, flow, paid
<1>11. CASE rows = <<>>
  BY <1>1, <1>2, <1>10, <1>11, WatchMoves DEF Idle, FlowPcs, Unseen
<1>12. CASE rows # <<>>
  <2>1. /\ 1 \in DOMAIN rows /\ Head(rows) = rows[1] /\ Tail(rows) \in Seq(Waiting)
        /\ Head(rows) \in Waiting
        /\ \A i \in DOMAIN Tail(rows) : i + 1 \in DOMAIN rows /\ Tail(rows)[i] = rows[i + 1]
    BY <1>9, <1>12, TakeFirst
  <2>2. PICK w \in Waiting, left \in Seq(Waiting) : w = Head(rows) /\ left = Tail(rows)
    BY <2>1
  <2>3. PICK v : v = [w EXCEPT !.rest = left]
    OBVIOUS
  <2>4. v.pc = w.pc /\ v.outcome = w.outcome /\ v.rest = left
    BY <2>3, TakenUp
  <2>5. task' = [task EXCEPT ![k] = v]
    BY <1>10, <1>12, <2>2, <2>3
  <2>6. Tells(k, v, Excused)
    BY <1>1, <1>9, <2>1, <2>2, <2>4 DEF Tells
  <2>7. v.pc = "check"
    BY <1>9, <2>1, <2>2, <2>4
  <2> QED BY <1>1, <1>2, <2>5, <2>6, <2>7, WatchMoves DEF Unseen
<1> QED BY <1>11, <1>12

\* Only loot the tracker took goes into the journal.
LEMMA ClumpWatched ==
    ASSUME QuestInv, WatchInv, NEW k \in DOMAIN ticks, RecordRewardClump(k)
    PROVE  WatchInv'
<1> DEFINE clump == [tick |-> k, claimed |-> 0, pruned |-> FALSE]
           rows == Append(clumps, clump)
<1>1. /\ task[k].pc = "spawned"
      /\ clumps' = clumps \/ (clumps' = Swept(rows) /\ ticks[k].loot # "none")
      /\ task' = [task EXCEPT ![k].pc = "journalled"]
      /\ UNCHANGED <<startedAt, completions, ticks, tail, shifted>>
  BY DEF RecordRewardClump
<1>2. k \in Nat \ {0} /\ k \in Task /\ \A t \in DOMAIN ticks : t \in Task
  BY RowsTyped, QuestBounds DEF QuestInv, TablesTyped, Task
<1>3. /\ task'[k].pc = "journalled" /\ \A j \in Task \ {k} : task'[j] = task[j]
  <2>1. task[k] \in [pc : {"idle", "spawned", "journalled"}]
    BY <1>1, <1>2 DEF QuestInv, TasksTyped, Working, Flow, FlowPcs
  <2>2. [task[k] EXCEPT !.pc = "journalled"].pc = "journalled"
    BY <2>1
  <2>3. task' = [task EXCEPT ![k] = [task[k] EXCEPT !.pc = "journalled"]]
    BY <1>1
  <2> QED BY <1>2, <2>2, <2>3 DEF QuestInv, TasksTyped
<1>4. /\ \A i \in DOMAIN clumps : /\ i \in DOMAIN clumps' /\ clumps'[i].tick = clumps[i].tick
                                  /\ clumps'[i].claimed = clumps[i].claimed
      /\ \A i \in DOMAIN clumps' \ DOMAIN clumps : clumps'[i].tick = k /\ ticks[k].loot # "none"
  <2>1. CASE clumps' = clumps
    BY <2>1
  <2>2. CASE clumps' = Swept(rows) /\ ticks[k].loot # "none"
    <3> DEFINE n == Len(clumps) + 1
    <3>1. clump \in ClumpRow /\ clumps \in Seq(ClumpRow) /\ clump.tick = k
      BY <1>2 DEF ClumpRow, QuestInv, TablesTyped
    <3> HIDE DEF clump
    <3>2. /\ rows \in Seq(ClumpRow) /\ DOMAIN rows = 1 .. n /\ rows[n] = clump
          /\ DOMAIN clumps = 1 .. n - 1 /\ n \in Nat \ {0}
          /\ \A i \in DOMAIN clumps : rows[i] = clumps[i]
      BY <3>1, AppendRow
    <3> HIDE DEF rows
    <3>3. /\ DOMAIN clumps' = DOMAIN rows
          /\ \A i \in DOMAIN rows : /\ clumps'[i].tick = rows[i].tick
                                    /\ clumps'[i].claimed = rows[i].claimed
      BY <2>2, <3>2, SweptRows
    <3>4. DOMAIN rows = DOMAIN clumps \union {n}
      BY <3>2
    <3> HIDE DEF n
    <3> QED BY <2>2, <3>1, <3>2, <3>3, <3>4
  <2> QED BY <1>1, <2>1, <2>2
<1>5. /\ Lines' = Lines /\ Hidden' = Hidden /\ NoLoot' = NoLoot /\ Excused' = Excused
  BY <1>1 DEF Lines, Hidden, NoLoot, Excused
<1>6. FilterHolds' /\ ProbesHold' /\ JournalIsLoot'
  <2>1. FilterHolds'
    BY <1>1, <1>5 DEF WatchInv, FilterHolds, Paid, Suppresses, IsStarted, SafelyOwned, Assigned
  <2>2. Paid' = Paid
    BY <1>1 DEF Paid, Suppresses, IsStarted, SafelyOwned, Assigned
  <2>3. ProbesHold'
    BY <1>1, <1>2, <1>3, <1>5, <2>2 DEF WatchInv, ProbesHold, Unseen
  <2>4. JournalIsLoot'
    <3>1. Lines[k].kind = "loot"
      BY DEF RecordRewardClump, Lines
    <3> QED BY <1>1, <1>2, <1>3, <1>5, <3>1 DEF WatchInv, JournalIsLoot
  <2> QED BY <2>1, <2>3, <2>4
<1>7. LootHolds'
  <2>1. \A i \in DOMAIN clumps' : clumps'[i].tick \notin NoLoot
    BY <1>4 DEF WatchInv, LootHolds, NoLoot
  <2> QED BY <1>1, <1>5, <2>1 DEF WatchInv, LootHolds
<1>8. FlowsTold'
  BY <1>3, <1>5 DEF WatchInv, FlowsTold, FlowOf
<1>9. CompletionsTold'
  BY <1>1, <1>4, <1>5, ToldOn
<1> QED BY <1>6, <1>7, <1>8, <1>9 DEF WatchInv

\* What the commands leave to a later step.
LEMMA CommandsWatched ==
    ASSUME QuestInv, WatchInv, NEW q \in Quest,
           \/ CompleteQuest(q)
           \/ \E undo \in BOOLEAN : CancelQuest(q, undo)
           \/ q \in Manual /\ \E c \in DOMAIN clumps : HandInConfirm(q, c)
           \/ DeclareStretch(q)
    PROVE  WatchInv'
<1>0. UNCHANGED <<tail, startedAt, tables, ticks, shifted>>
  BY DEF CompleteQuest, CancelQuest, HandInConfirm, DeclareStretch
<1>1. 0 \in Task /\ UNCHANGED <<tail, startedAt, tables, ticks, shifted>>
  BY <1>0, QuestBounds DEF Task
<1>2. CASE CompleteQuest(q)
  <2> DEFINE v == Completion(q, IF q \in Named THEN "unresolved" ELSE "none", 0, {}, 0)
  <2>1. v.outcome # "confirmed" /\ v.rest = <<>> /\ v.pc = "check"
    BY DEF Completion
  <2>2. task' = [task EXCEPT ![0] = v]
    BY <1>2 DEF CompleteQuest
  <2> HIDE DEF v
  <2>3. Tells(0, v, Excused)
    BY <2>1 DEF Tells
  <2> QED BY <1>1, <2>1, <2>2, <2>3, WatchMoves DEF Unseen
<1>3. ASSUME NEW undo \in BOOLEAN, CancelQuest(q, undo) PROVE WatchInv'
  <2> DEFINE v == [pc |-> IF undo THEN "undo" ELSE "cancel", quest |-> q]
  <2>1. v.pc \in {"undo", "cancel"} /\ task' = [task EXCEPT ![0] = v]
    BY <1>3 DEF CancelQuest
  <2> HIDE DEF v
  <2> QED BY <1>1, <2>1, WatchMoves DEF FlowPcs, Unseen
<1>4. ASSUME NEW c \in DOMAIN clumps, HandInConfirm(q, c) PROVE WatchInv'
  <2> DEFINE v == Completion(q, "confirmed", clumps[c].tick, {clumps[c].tick}, c)
  <2>1. v.clump = c /\ v.rest = <<>> /\ v.pc = "check"
    BY DEF Completion
  <2>2. task' = [task EXCEPT ![0] = v]
    BY <1>4 DEF HandInConfirm
  <2>3. c # 0
    BY RowsTyped DEF QuestInv
  <2> HIDE DEF v
  <2>4. Tells(0, v, Excused)
    BY <2>1, <2>3 DEF Tells
  <2> QED BY <1>1, <2>1, <2>2, <2>4, WatchMoves DEF Unseen
<1>5. CASE DeclareStretch(q) /\ UNCHANGED task
  BY <1>1, <1>5, NoneWatched
<1>6. CASE task' = [task EXCEPT ![0] = Idle]
  BY <1>1, <1>6, WatchMoves DEF Idle, FlowPcs, Unseen
<1> QED BY <1>2, <1>3, <1>4, <1>5, <1>6 DEF DeclareStretch

\* A start or a cancel: one task moves, and the ticks in between are excused.
LEMMA ShiftWatched ==
    ASSUME QuestInv, WatchInv, NEW k \in Task, NEW v,
           task' = [task EXCEPT ![k] = v], Shift,
           UNCHANGED <<tail, completions, clumps, ticks>>,
           v.pc \in FlowPcs => Tells(k, v, Excused),
           v.pc \in Unseen => task[k].pc = v.pc
    PROVE  WatchInv'
<1>1. /\ task'[k] = v
      /\ \A j \in Task : j # k => task'[j] = task[j]
  BY DEF QuestInv, TasksTyped
<1>2. \A t \in DOMAIN ticks : t \in Task
  BY RowsTyped, QuestBounds DEF QuestInv, TablesTyped, Task
<1>3. /\ Lines' = Lines /\ Hidden' = Hidden /\ NoLoot' = NoLoot
  BY DEF Lines, Hidden, NoLoot
<1>4. FilterHolds' /\ ProbesHold' /\ JournalIsLoot' /\ Excused \subseteq Excused'
  <2>1. \A t \in DOMAIN ticks : task'[t].pc \in Unseen => task[t].pc = task'[t].pc
    BY <1>1, <1>2
  <2> QED BY <1>3, <2>1, ShiftCovers
<1>5. LootHolds'
  BY <1>3 DEF WatchInv, LootHolds
<1>6. FlowsTold'
  <2>1. ASSUME NEW j \in Task, FlowOf(j)' PROVE Tells(j, task'[j], Excused')
    <3>1. Tells(j, task'[j], Excused)
      BY <1>1, <2>1 DEF WatchInv, FlowsTold, FlowOf, FlowPcs
    <3> QED BY <1>4, <3>1, TellsOn
  <2> QED BY <2>1 DEF FlowsTold
<1>7. CompletionsTold'
  BY <1>4, ToldOn
<1> QED BY <1>4, <1>5, <1>6, <1>7 DEF WatchInv

LEMMA StartsWatched ==
    ASSUME QuestInv, WatchInv,
           CancelRun \/ \E q \in Quest, declare \in BOOLEAN : StartQuest(q, declare)
    PROVE  WatchInv'
<1>1. 0 \in Task
  BY QuestBounds DEF Task
<1>2. CASE CancelRun
  BY <1>1, <1>2, ShiftWatched DEF CancelRun, Idle, FlowPcs, Unseen
<1>3. ASSUME NEW q \in Quest, NEW declare \in BOOLEAN, StartQuest(q, declare) PROVE WatchInv'
  <2>1. UNCHANGED <<tail, completions, clumps, ticks>> /\ Shift
    BY <1>3 DEF StartQuest
  <2>2. CASE declare
    <3> DEFINE v == [pc |-> "declare", quest |-> q]
    <3>1. task' = [task EXCEPT ![0] = v] /\ v.pc = "declare"
      BY <1>3, <2>2 DEF StartQuest
    <3> HIDE DEF v
    <3> QED BY <1>1, <2>1, <3>1, ShiftWatched DEF FlowPcs, Unseen
  <2>3. CASE ~declare
    <3>1. task' = [task EXCEPT ![0] = task[0]]
      BY <1>1, <1>3, <2>3 DEF StartQuest, QuestInv, TasksTyped
    <3>2. task[0].pc \in FlowPcs => Tells(0, task[0], Excused)
      BY <1>1 DEF WatchInv, FlowsTold, FlowOf, FlowPcs
    <3> QED BY <1>1, <2>1, <3>1, <3>2, ShiftWatched
  <2> QED BY <2>2, <2>3
<1> QED BY <1>2, <1>3

\* Loot goes back on the books, or off them for a review: what was suppressed
\* stays no loot.
LEMMA LootWatched ==
    ASSUME QuestInv, WatchInv,
           task' = task \/ task' = [task EXCEPT ![0] = Idle],
           UNCHANGED <<startedAt, clumps, tail, shifted>>,
           DOMAIN ticks' = DOMAIN ticks, Len(ticks') = Len(ticks),
           Lines' = Lines, Hidden' = Hidden, NoLoot' = NoLoot,
           DOMAIN completions' = DOMAIN completions,
           \A c \in DOMAIN completions :
              /\ completions'[c].outcome = completions[c].outcome
              /\ completions'[c].tick = completions[c].tick
              /\ completions'[c].reviewed \in {completions[c].reviewed} \union
                                              (DOMAIN ticks \ NoLoot)
    PROVE  WatchInv'
<1>1. Excused' = Excused
  BY DEF Excused
<1>2. /\ \A j \in Task \ {0} : task'[j] = task[j]
      /\ FlowOf(0)' => task'[0] = task[0]
      /\ \A t \in DOMAIN ticks : t \in Task \ {0}
  BY RowsTyped, QuestBounds DEF QuestInv, TasksTyped, TablesTyped, Task, FlowOf, Idle
<1>3. FilterHolds' /\ ProbesHold' /\ JournalIsLoot'
  <2>1. Shift
    BY DEF Shift
  <2> QED BY <1>2, <2>1, ShiftCovers
<1>4. LootHolds'
  BY DEF WatchInv, LootHolds
<1>5. FlowsTold'
  BY <1>1, <1>2 DEF WatchInv, FlowsTold, FlowOf
<1>6. CompletionsTold'
  BY <1>1, ToldOn
<1> QED BY <1>3, <1>4, <1>5, <1>6 DEF WatchInv

LEMMA UndoWatched ==
    ASSUME QuestInv, WatchInv, UndoReward
    PROVE  WatchInv'
<1>1. task' = [task EXCEPT ![0] = Idle] /\ UNCHANGED <<startedAt, completions, clumps, tail, shifted>>
  BY DEF UndoReward
<1>2. CASE UNCHANGED ticks
  <2>1. Lines' = Lines /\ Hidden' = Hidden /\ NoLoot' = NoLoot
    BY <1>2 DEF Lines, Hidden, NoLoot
  <2> QED BY <1>1, <1>2, <2>1, LootWatched
<1>3. CASE ~UNCHANGED ticks
  <2>0. PICK own : own = {c \in DOMAIN completions : completions[c].quest = task[0].quest}
    OBVIOUS
  <2>1. PICK c : c = CHOOSE e \in own : \A d \in own : d <= e
    OBVIOUS
  <2>2. /\ own # {}
        /\ ticks' = [t \in DOMAIN ticks |-> IF t \in OffTheBooks(c)
                                            THEN [ticks[t] EXCEPT !.loot = "active"] ELSE ticks[t]]
    BY <1>3, <2>0, <2>1 DEF UndoReward
  <2>3. c \in DOMAIN completions
    <3>1. Len(completions) \in Nat /\ own \subseteq 1 .. Len(completions)
      BY <2>0, RowsTyped DEF QuestInv
    <3>2. \E x \in own : \A y \in own : y <= x
      BY <2>2, <3>1, MaxExists
    <3> QED BY <2>0, <2>1, <3>2
  <2>4. /\ Len(ticks) \in Nat /\ DOMAIN ticks = 1 .. Len(ticks)
        /\ \A t \in DOMAIN ticks : ticks[t] \in TickRow
    BY RowsTyped DEF QuestInv
  <2>5. PICK off : off = OffTheBooks(c)
    OBVIOUS
  <2>6. \A t \in DOMAIN ticks : t \in off => t \notin NoLoot
    BY <2>3, <2>4, <2>5 DEF OffTheBooks, WatchInv, LootHolds
  <2> DEFINE put(t) == IF t \in off THEN [ticks[t] EXCEPT !.loot = "active"] ELSE ticks[t]
  <2>7. \A t \in DOMAIN ticks :
            /\ put(t) \in TickRow /\ put(t).tick = ticks[t].tick
            /\ (put(t).suppressed <=> ticks[t].suppressed)
            /\ (put(t).loot = "none") <=> (ticks[t].loot = "none")
    BY <2>4, <2>6 DEF TickRow, NoLoot
  <2>8. ticks' = [t \in DOMAIN ticks |-> put(t)]
    BY <2>2, <2>5
  <2> HIDE DEF put
  <2>9. DOMAIN ticks' = DOMAIN ticks /\ Len(ticks') = Len(ticks)
    BY <2>4, <2>7, <2>8, LenProperties
  <2>10. Lines' = Lines /\ Hidden' = Hidden /\ NoLoot' = NoLoot
    BY <2>7, <2>8 DEF Lines, Hidden, NoLoot
  <2> QED BY <1>1, <2>9, <2>10, LootWatched
<1> QED BY <1>2, <1>3

LEMMA ReviewWatched ==
    ASSUME QuestInv, WatchInv, NEW c \in DOMAIN completions, ResolveRewardReview(c)
    PROVE  WatchInv'
<1>1. PICK t : t = completions[c].tick
  OBVIOUS
<1>2. /\ t # 0 /\ ticks[t].loot = "active"
      /\ ticks' = [ticks EXCEPT ![t].loot = "inactive"]
      /\ completions' = [completions EXCEPT ![c].reviewed = t, ![c].lines = @ \union {t}]
      /\ UNCHANGED <<startedAt, clumps, tail, task, shifted>>
  BY <1>1 DEF ResolveRewardReview
<1>3. /\ Len(ticks) \in Nat /\ DOMAIN ticks = 1 .. Len(ticks)
      /\ \A s \in DOMAIN ticks : ticks[s] \in TickRow
      /\ \A d \in DOMAIN completions : completions[d] \in CompletionRow
  BY RowsTyped DEF QuestInv
<1>4. t \in DOMAIN ticks
  BY <1>1, <1>2, <1>3 DEF QuestInv, Referring, CompletionRow
<1> DEFINE row == [ticks[t] EXCEPT !.loot = "inactive"]
           paid == [completions[c] EXCEPT !.reviewed = t, !.lines = @ \union {t}]
<1>5. /\ row.tick = ticks[t].tick /\ (row.suppressed <=> ticks[t].suppressed)
      /\ row.loot = "inactive"
  BY <1>3, <1>4 DEF TickRow
<1>6. /\ paid.outcome = completions[c].outcome /\ paid.tick = completions[c].tick
      /\ paid.reviewed = t
  BY <1>3 DEF CompletionRow
<1>7. ticks' = [ticks EXCEPT ![t] = row] /\ completions' = [completions EXCEPT ![c] = paid]
  BY <1>2
<1> HIDE DEF row, paid
<1>8. DOMAIN ticks' = DOMAIN ticks /\ Len(ticks') = Len(ticks)
  BY <1>3, <1>7, LenProperties
<1>9. Lines' = Lines /\ Hidden' = Hidden /\ NoLoot' = NoLoot /\ t \notin NoLoot
  BY <1>2, <1>4, <1>5, <1>7 DEF Lines, Hidden, NoLoot
<1>10. /\ DOMAIN completions' = DOMAIN completions
       /\ \A d \in DOMAIN completions :
              /\ completions'[d].outcome = completions[d].outcome
              /\ completions'[d].tick = completions[d].tick
              /\ completions'[d].reviewed \in {completions[d].reviewed} \union
                                              (DOMAIN ticks \ NoLoot)
  BY <1>4, <1>6, <1>7, <1>9
<1> QED BY <1>2, <1>8, <1>9, <1>10, LootWatched

\* The transaction of a completion: what it writes was told by its line or is
\* the clump's it claims.
LEMMA WrittenWatched ==
    ASSUME QuestInv, WatchInv, NEW k \in Task, task[k].pc = "write",
           NEW f, f = task[k], NEW run, NEW opened, NEW id, id = Len(completions) + 1,
           f.clump # 0 => clumps[f.clump].claimed = 0,
           Written(k, f, opened, run, id), Shift, UNCHANGED tail
    PROVE  WatchInv'
<1>1. /\ f \in Flow /\ Carries(k, f, Kinds, Fell) /\ f.outcome \in Outcomes /\ f.tick \in Nat
      /\ Tells(k, f, Excused) /\ task[k].pc \in FlowPcs
  BY WriterCarries DEF Flow, WatchInv, FlowsTold, FlowOf, FlowPcs
<1>2. /\ Len(ticks) \in Nat /\ DOMAIN ticks = 1 .. Len(ticks)
      /\ \A t \in DOMAIN ticks : ticks[t] \in TickRow /\ t \in Task
      /\ Len(completions) \in Nat /\ DOMAIN completions = 1 .. Len(completions)
      /\ id \in Nat \ {0} /\ id \notin DOMAIN completions
      /\ \A i \in DOMAIN clumps : clumps[i] \in ClumpRow /\ clumps[i].tick \in DOMAIN ticks
  BY RowsTyped, QuestBounds DEF QuestInv, TablesTyped, Task, Referring
<1>3. /\ DOMAIN completions' = DOMAIN completions \union {id}
      /\ completions'[id].outcome = f.outcome /\ completions'[id].tick = f.tick
      /\ completions'[id].reviewed = 0
      /\ \A c \in DOMAIN completions : completions'[c] = completions[c]
  <2> DEFINE row == [session |-> f.session, quest |-> f.quest, run |-> run,
                     outcome |-> f.outcome, tick |-> f.tick, attr |-> f.attr,
                     lines |-> f.lines, reviewed |-> 0]
  <2>1. row.outcome = f.outcome /\ row.tick = f.tick /\ row.reviewed = 0
    OBVIOUS
  <2>2. completions' = Append(completions, row)
    BY DEF Written
  <2> HIDE DEF row
  <2>3. /\ DOMAIN Append(completions, row) = 1 .. Len(completions) + 1
        /\ Append(completions, row)[Len(completions) + 1] = row
        /\ \A c \in DOMAIN completions : Append(completions, row)[c] = completions[c]
    <3>1. completions \in Seq(CompletionRow \union {row}) /\ row \in CompletionRow \union {row}
      BY <1>2, RowsTyped DEF QuestInv, TablesTyped
    <3> QED BY <3>1, AppendRow
  <2> QED BY <1>2, <2>1, <2>2, <2>3
\* the task goes on
<1>4. /\ \A j \in Task : j # k => task'[j] = task[j]
      /\ task'[k].pc \notin Unseen
      /\ task'[k].pc \in FlowPcs => Tells(k, task'[k], Excused)
  <2>1. CASE task' = [task EXCEPT ![k] = Resume(k)]
    <3>1. task'[k] = Resume(k) /\ \A j \in Task : j # k => task'[j] = task[j]
      BY <2>1 DEF QuestInv, TasksTyped
    <3> QED BY <1>1, <3>1, ResumeCarries, ResumeTells DEF Unseen
  <2>2. CASE task' = [task EXCEPT ![k].pc = "after"]
    <3> DEFINE v == [task[k] EXCEPT !.pc = "after"]
    <3>1. v.pc = "after" /\ v.outcome = f.outcome /\ v.clump = f.clump /\ v.rest = f.rest
      BY <1>1 DEF Flow
    <3>2. task'[k] = v /\ \A j \in Task : j # k => task'[j] = task[j]
      BY <2>2 DEF QuestInv, TasksTyped
    <3> HIDE DEF v
    <3> QED BY <1>1, <3>1, <3>2 DEF Tells, Unseen
  <2> QED BY <2>1, <2>2 DEF Written
\* the clump it claims
<1>5. CASE f.clump = 0
  <2>1. UNCHANGED <<clumps, ticks>>
    BY <1>5 DEF Written
  <2>2. Lines' = Lines /\ Hidden' = Hidden /\ NoLoot' = NoLoot
    BY <2>1 DEF Lines, Hidden, NoLoot
  <2>3. FilterHolds' /\ ProbesHold' /\ JournalIsLoot' /\ Excused \subseteq Excused'
    <3>1. \A t \in DOMAIN ticks : task'[t].pc \in Unseen => task[t].pc = task'[t].pc
      BY <1>2, <1>4
    <3> QED BY <2>1, <2>2, <3>1, ShiftCovers
  <2>4. LootHolds'
    BY <1>3, <2>1, <2>2 DEF WatchInv, LootHolds
  <2>5. FlowsTold'
    <3>1. ASSUME NEW j \in Task, FlowOf(j)' PROVE Tells(j, task'[j], Excused')
      <4>1. Tells(j, task'[j], Excused)
        BY <1>4, <3>1 DEF WatchInv, FlowsTold, FlowOf, FlowPcs
      <4> QED BY <2>3, <4>1, TellsOn
    <3> QED BY <3>1 DEF FlowsTold
  <2>6. f.outcome = "confirmed" => f.tick \in Excused
    BY <1>1, <1>5 DEF Tells, Carries
  <2>7. CompletionsTold'
    BY <1>3, <2>1, <2>3, <2>6 DEF WatchInv, CompletionsTold
  <2> QED BY <2>3, <2>4, <2>5, <2>7 DEF WatchInv
<1>6. CASE f.clump # 0
  <2>1. PICK i : i = f.clump
    OBVIOUS
  <2>2. PICK t : t = clumps[i].tick
    OBVIOUS
  <2>3. /\ i \in DOMAIN clumps /\ f.tick = t /\ t \in DOMAIN ticks /\ t \notin NoLoot
        /\ clumps[i].claimed = 0
    BY <1>1, <1>2, <1>6, <2>1, <2>2 DEF Carries, Fell, WatchInv, LootHolds
  <2> DEFINE row == [ticks[t] EXCEPT !.loot = "inactive"]
             claim == [clumps[i] EXCEPT !.claimed = id]
  <2>4. /\ row.tick = ticks[t].tick /\ (row.suppressed <=> ticks[t].suppressed)
        /\ row.loot = "inactive"
    BY <1>2, <2>3 DEF TickRow
  <2>5. claim.tick = t /\ claim.claimed = id
    BY <1>2, <2>2, <2>3 DEF ClumpRow
  <2>6. ticks' = [ticks EXCEPT ![t] = row] /\ clumps' = [clumps EXCEPT ![i] = claim]
    BY <1>6, <2>1, <2>2 DEF Written
  <2> HIDE DEF row, claim
  <2>7. DOMAIN ticks' = DOMAIN ticks /\ Len(ticks') = Len(ticks)
    BY <1>2, <2>6, LenProperties
  <2>8. Lines' = Lines /\ Hidden' = Hidden /\ NoLoot' = NoLoot
    BY <2>3, <2>4, <2>6 DEF Lines, Hidden, NoLoot
  <2>9. /\ DOMAIN clumps' = DOMAIN clumps /\ clumps'[i].claimed = id
        /\ \A j \in DOMAIN clumps : clumps'[j].tick = clumps[j].tick
                                    /\ (j # i => clumps'[j] = clumps[j])
    BY <2>2, <2>3, <2>5, <2>6
  <2>10. FilterHolds' /\ ProbesHold' /\ JournalIsLoot' /\ Excused \subseteq Excused'
    <3>1. \A u \in DOMAIN ticks : task'[u].pc \in Unseen => task[u].pc = task'[u].pc
      BY <1>2, <1>4
    <3> QED BY <2>7, <2>8, <3>1, ShiftCovers
  <2>11. LootHolds'
    BY <1>3, <2>8, <2>9 DEF WatchInv, LootHolds
  <2>12. FlowsTold'
    <3>1. ASSUME NEW j \in Task, FlowOf(j)' PROVE Tells(j, task'[j], Excused')
      <4>1. Tells(j, task'[j], Excused)
        BY <1>4, <3>1 DEF WatchInv, FlowsTold, FlowOf, FlowPcs
      <4> QED BY <2>10, <4>1, TellsOn
    <3> QED BY <3>1 DEF FlowsTold
  <2>13. CompletionsTold'
    <3>1. ASSUME NEW c \in DOMAIN completions, completions[c].outcome = "confirmed"
          PROVE  \/ completions[c].tick \in Excused'
                 \/ \E j \in DOMAIN clumps' : clumps'[j].claimed = c
                                              /\ clumps'[j].tick = completions[c].tick
      <4>1. CASE completions[c].tick \in Excused
        BY <2>10, <4>1
      <4>2. ASSUME NEW j \in DOMAIN clumps, clumps[j].claimed = c,
                   clumps[j].tick = completions[c].tick
            PROVE  clumps'[j].claimed = c /\ clumps'[j].tick = completions[c].tick
        <5>1. j # i
          BY <1>2, <2>3, <4>2
        <5> QED BY <2>9, <4>2, <5>1
      <4> QED BY <2>9, <3>1, <4>1, <4>2 DEF WatchInv, CompletionsTold
    <3>2. clumps'[i].claimed = id /\ clumps'[i].tick = f.tick /\ i \in DOMAIN clumps'
      BY <2>2, <2>3, <2>9
    <3> QED BY <1>3, <3>1, <3>2 DEF CompletionsTold
  <2> QED BY <2>10, <2>11, <2>12, <2>13 DEF WatchInv
<1> QED BY <1>5, <1>6

LEMMA CommitWatched ==
    ASSUME QuestInv, WatchInv, NEW k \in Task, CommitCompletion(k)
    PROVE  WatchInv'
<1>1. PICK f : f = task[k]
  OBVIOUS
<1>2. PICK opened : opened = IF OpenRuns(f.quest) = {} THEN Append(runs, NewRun(f.quest)) ELSE runs
  OBVIOUS
<1>3. PICK run : run = CHOOSE r \in DOMAIN opened : opened[r].quest = f.quest
                                                    /\ opened[r].status = "in_progress"
  OBVIOUS
<1>4. PICK id : id = Len(completions) + 1
  OBVIOUS
<1>5. /\ task[k].pc = "write" /\ Shift /\ UNCHANGED tail
      /\ f.clump # 0 => clumps[f.clump].claimed = 0
  BY <1>1, <1>2, <1>3 DEF CommitCompletion, ClaimValid
<1>6. CASE Ignored(f)
  <2>1. /\ task' = [task EXCEPT ![k] = Resume(k)]
        /\ UNCHANGED <<completions, clumps, ticks>>
    BY <1>1, <1>2, <1>6 DEF CommitCompletion
  <2>2. /\ Resume(k).pc \in FlowPcs => Tells(k, Resume(k), Excused)
        /\ Resume(k).pc \notin Unseen
    BY <1>5, ResumeCarries, ResumeTells DEF FlowPcs, Unseen
  <2> QED BY <1>5, <2>1, <2>2, ShiftWatched
<1>7. CASE ~Ignored(f)
  <2>1. Written(k, f, opened, run, id)
    BY <1>1, <1>2, <1>3, <1>4, <1>7 DEF CommitCompletion, Written
  <2> QED BY <1>1, <1>4, <1>5, <2>1, WrittenWatched
<1> QED BY <1>6, <1>7

LEMMA WatchStep == QuestInv /\ WatchInv /\ [QuestNext]_questVars => WatchInv'
<1> SUFFICES ASSUME QuestInv, WatchInv, [QuestNext]_questVars PROVE WatchInv'
  OBVIOUS
<1> USE DEF QuestNext
<1>1. CASE Sessions
  <2>1. UNCHANGED <<tail, startedAt, tables, ticks, task, shifted>>
    BY <1>1 DEF Sessions, StartSession, StopSession
  <2> QED BY <2>1, NoneWatched
<1>2. CASE Declares
  BY <1>2, CommandsWatched, StartsWatched DEF Declares
<1>3. CASE Tail1
  BY <1>3, FilterWatched, PublishWatched DEF Tail1
<1>4. CASE Completes
  BY <1>4, CompletesWatched, CommitWatched DEF Completes
<1>5. CASE Probes
  BY <1>5, MissionWatched, ClumpWatched, SignalWatched DEF Probes
<1>6. CASE HandIns
  BY <1>6, CommandsWatched, QuestKinds DEF HandIns
<1>7. CASE Commands
  BY <1>7, CommandsWatched, StartsWatched, UndoWatched, ReviewWatched DEF Commands
<1>8. CASE UNCHANGED questVars
  <2>1. UNCHANGED <<tail, startedAt, tables, ticks, task, shifted>>
    BY <1>8 DEF questVars
  <2> QED BY <2>1, NoneWatched
<1> QED BY <1>1, <1>2, <1>3, <1>4, <1>5, <1>6, <1>7, <1>8

-----------------------------------------------------------------------------
(* The invariant and what it shows.                                        *)

LEMMA QuestStep == QuestInv /\ [QuestNext]_questVars => QuestInv'
<1> SUFFICES ASSUME QuestInv, [QuestNext]_questVars PROVE QuestInv'
  OBVIOUS
<1> USE DEF QuestNext
<1>1. CASE Sessions
  BY <1>1, SessionsKeep
<1>2. CASE Declares
  BY <1>2, DeclareKeeps, StartKeeps DEF Declares
<1>3. CASE Tail1
  BY <1>3, FilterKeeps, PublishKeeps DEF Tail1
<1>4. CASE Completes
  BY <1>4, CheckKeeps, ReportKeeps, CommitKeeps, AbortKeeps DEF Completes
<1>5. CASE Probes
  BY <1>5, MissionKeeps, ClumpKeeps, SignalKeeps DEF Probes
<1>6. CASE HandIns
  BY <1>6, HandInKeeps DEF HandIns
<1>7. CASE Commands
  BY <1>7, CompleteKeeps, CancelKeeps, CancelRunKeeps, UndoKeeps, ReviewKeeps DEF Commands
<1>8. CASE UNCHANGED questVars
  <2>1. SidesTyped'
    BY <1>8 DEF QuestInv, SidesTyped, questVars
  <2> QED BY <1>8, <2>1, NoTaskMoves DEF questVars
<1> QED BY <1>1, <1>2, <1>3, <1>4, <1>5, <1>6, <1>7, <1>8

\* The tables and the actors are what the invariant says, in every behaviour.
THEOREM QuestInvariant == QuestSpec => []QuestInv
BY QuestStarts, QuestStep, PTL DEF QuestSpec

\* A quest in progress has its one open run, a completed run and its
\* completion name each other, and journalled clumps pay only for runs that
\* were under way and are kept until the sweep may take them.
THEOREM QuestBooksAreSound == QuestSpec => []QuestBooksSound
<1>1. QuestInv => QuestTypeOK
  <2> SUFFICES ASSUME QuestInv PROVE QuestTypeOK
    OBVIOUS
  <2>1. startedAt \in [Quest -> 0..Len(runs)]
    <3>1. \A q \in Quest : startedAt[q] \in 0..Len(runs)
      BY RowsTyped DEF QuestInv, OneOpenRun, OpenRuns
    <3> QED BY <3>1 DEF QuestInv, TablesTyped
  <2>2. \A r \in DOMAIN runs :
            /\ runs[r].quest \in Quest /\ runs[r].since \in 0..Len(ticks)
            /\ runs[r].status \in {"in_progress", "completed", "cancelled"}
            /\ runs[r].completion \in 0..Len(completions)
    BY RowsTyped DEF QuestInv, Referring, RunRow
  <2>3. \A c \in DOMAIN completions :
            /\ completions[c].session \in Session \union {NoSession}
            /\ completions[c].lines \subseteq DOMAIN ticks
            /\ completions[c].reviewed \in {0} \union DOMAIN ticks
    BY RowsTyped DEF QuestInv, Referring, CompletionRow, InSession, OneReview
  <2>4. \A t \in DOMAIN ticks : ticks[t].loot \in {"none", "active", "inactive"}
    BY RowsTyped DEF QuestInv, TickRow
  <2>5. DOMAIN task = Task /\ \A k \in Task : FlowOf(k) => task[k].quest \in Quest
    <3>1. \A k \in Task : FlowOf(k) => task[k] \in Flow
      BY FlowsTyped DEF QuestInv, FlowOf, FlowPcs
    <3> QED BY <3>1 DEF QuestInv, TasksTyped, Flow
  <2> QED BY <2>1, <2>2, <2>3, <2>4, <2>5
         DEF QuestTypeOK, QuestInv, SidesTyped, TablesTyped, Referring, InSession
<1>2. QuestInv => StartedHasRun
  <2> SUFFICES ASSUME QuestInv PROVE StartedHasRun
    OBVIOUS
  <2>1. ASSUME NEW q \in Quest PROVE Cardinality(OpenRuns(q)) <= 1
    <3>1. CASE OpenRuns(q) = {}
      BY <3>1, FS_EmptySet
    <3>2. CASE OpenRuns(q) # {}
      <4>1. PICK r \in OpenRuns(q) : OpenRuns(q) = {r}
        BY <3>2 DEF QuestInv, OneOpenRun
      <4> QED BY <4>1, FS_Singleton
    <3> QED BY <3>1, <3>2
  <2> QED BY <2>1 DEF StartedHasRun, QuestInv, OneOpenRun, IsStarted
<1>3. QuestInv => RunsReciprocal /\ ClumpsSound
  BY DEF QuestInv, ClumpsSound
<1>4. QuestInv => QuestBooksSound
  BY <1>1, <1>2, <1>3 DEF QuestBooksSound, RunsConsistent
<1> QED BY <1>4, QuestInvariant, PTL

\* What the filter answered is worth what the invariant says, in every
\* behaviour.
LEMMA WatchHolds == QuestSpec => []WatchInv
BY QuestInvariant, WatchStarts, WatchStep, PTL DEF QuestSpec

\* However many complete a quest at once, it is paid once per session; loot
\* that a hand-in or a review made a reward is off the ordinary loot exactly
\* until that reward is reversed; and a line the watcher gave a quest is not
\* loot as well, unless a quest started or ended between its filter and its
\* probe.
THEOREM RewardsAreGivenOnce == QuestSpec => []RewardsOnce
<1>1. ASSUME QuestInv, WatchInv PROVE WatcherCountsOnce
  <2>1. ASSUME NEW c \in DOMAIN completions \ reversed, completions[c].outcome = "confirmed",
               completions[c].tick \notin shifted
        PROVE  ticks[completions[c].tick].loot # "active"
    <3>1. CASE completions[c].tick \in Hidden
      BY <1>1, <3>1 DEF WatchInv, LootHolds, NoLoot
    <3>2. ASSUME NEW i \in DOMAIN clumps, clumps[i].claimed = c,
                 clumps[i].tick = completions[c].tick
          PROVE  ticks[completions[c].tick].loot # "active"
      <4>1. c # 0
        BY <1>1, RowsTyped DEF QuestInv
      <4>2. (ticks[clumps[i].tick].loot = "active") = (c \in reversed)
        BY <1>1, <3>2, <4>1 DEF QuestInv, ReclassifiedOnce
      <4> QED BY <2>1, <3>2, <4>2
    <3> QED BY <1>1, <2>1, <3>1, <3>2 DEF WatchInv, CompletionsTold, Excused
  <2> QED BY <2>1 DEF WatcherCountsOnce
<1>2. QuestInv /\ WatchInv => RewardsOnce
  BY <1>1 DEF QuestInv, RewardsOnce
<1> QED BY <1>2, QuestInvariant, WatchHolds, PTL

\* A run that ended keeps its end and its completion, whatever is completed,
\* cancelled or undone later.
THEOREM EndedRunsStay == QuestSpec => EndedRunsFinal
<1> DEFINE Final == \A r \in DOMAIN runs : runs[r].status # "in_progress" =>
                       /\ runs'[r].status = runs[r].status
                       /\ runs'[r].completion = runs[r].completion
<1>1. ASSUME QuestInv, QuestNext PROVE Final
  <2>1. CASE UNCHANGED runs
    BY <2>1
  <2>2. ASSUME NEW q \in Quest, NEW declare \in BOOLEAN, StartQuest(q, declare) PROVE Final
    <3>1. NewRun(q) \in RunRow /\ runs \in Seq(RunRow)
      BY <1>1, RowsTyped DEF NewRun, RunRow, QuestInv, TablesTyped
    <3> QED BY <2>2, <3>1, AppendRow DEF StartQuest
  <2>3. CASE CancelRun
    BY <2>3 DEF CancelRun, OpenRuns
  <2>4. ASSUME NEW k \in Task, CommitCompletion(k) PROVE Final
    <3>1. PICK f : f = task[k]
      OBVIOUS
    <3>2. PICK opened : opened = IF OpenRuns(f.quest) = {} THEN Append(runs, NewRun(f.quest)) ELSE runs
      OBVIOUS
    <3>3. PICK run : run = CHOOSE r \in DOMAIN opened : opened[r].quest = f.quest
                                                        /\ opened[r].status = "in_progress"
      OBVIOUS
    <3>4. f.quest \in Quest
      BY <1>1, <2>4, <3>1, WriterCarries DEF CommitCompletion
    <3>5. WithOpenRun(f.quest, opened, run)
      BY <1>1, <3>2, <3>3, <3>4, RunIsOpened
    <3>6. \A r \in DOMAIN runs : runs[r].status # "in_progress" => r # run /\ opened[r] = runs[r]
                                                                  /\ r \in DOMAIN opened
      BY <3>5 DEF WithOpenRun
    <3>7. runs' = opened \/ runs' = CloseRun(opened, run, Len(completions) + 1)
      BY <2>4, <3>1, <3>2, <3>3 DEF CommitCompletion
    <3> QED BY <3>6, <3>7 DEF CloseRun
  <2>5. \/ UNCHANGED runs
        \/ \E q \in Quest, declare \in BOOLEAN : StartQuest(q, declare)
        \/ CancelRun
        \/ \E k \in Task : CommitCompletion(k)
    <3> HIDE DEF Final
    <3>1. Sessions \/ Tail1 \/ HandIns => UNCHANGED runs
      BY DEF Sessions, Tail1, HandIns, StartSession, StopSession, FilterTick, PublishTick,
             HandInConfirm, tables
    <3>2. Probes => UNCHANGED runs
      BY DEF Probes, MissionCompleteCheck, RecordRewardClump, SignalLootCheck, tables
    <3>3. Commands => UNCHANGED runs \/ CancelRun
      BY DEF Commands, CompleteQuest, CancelQuest, UndoReward, ResolveRewardReview, tables
    <3>4. Declares => UNCHANGED runs \/ \E q \in Quest, declare \in BOOLEAN : StartQuest(q, declare)
      BY DEF Declares, DeclareStretch, tables
    <3>5. Completes => UNCHANGED runs \/ \E k \in Task : CommitCompletion(k)
      BY DEF Completes, CheckCompletion, ReportStretchClosed, AbortCompletion, tables
    <3> QED BY <1>1, <3>1, <3>2, <3>3, <3>4, <3>5 DEF QuestNext
  <2> HIDE DEF Final
  <2> QED BY <2>1, <2>2, <2>3, <2>4, <2>5
<1>2. QuestInv /\ [QuestNext]_questVars => [Final]_questVars
  <2> HIDE DEF Final
  <2> QED BY <1>1
<1> QED BY <1>2, QuestInvariant, PTL DEF QuestSpec, EndedRunsFinal
=============================================================================
