-------------------------- MODULE TrackerSession_proofs --------------------------
(***************************************************************************)
(* The session lifecycle, however starts, stops, failures and crashes      *)
(* interleave with the skill tracker, uses the interval engine only        *)
(* through the engine's own transitions.  What the engine's proofs         *)
(* establish therefore holds of the running tracker.                       *)
(*                                                                         *)
(* The second half is about the lifecycle itself.  Its inductive invariant *)
(* says, for every step the actor may be at, whether a session is in       *)
(* memory and what the session rows, the bus and the skill tracker then    *)
(* say of it (OneSession), and what memory holds of the boost while a      *)
(* start opens its intervals one by one (BoostStands); the properties the  *)
(* runs check speak of an idle actor only and are not inductive.           *)
(*                                                                         *)
(* The last part is about the routes a player walks with the tracker on.   *)
(* NavInv says it of every step between two commands: every stop has its   *)
(* place, a live run has one active stop unless a replan or a removal is   *)
(* still to come, and visits follow progress.                              *)
(***************************************************************************)
EXTENDS TrackerSession, Navigation, SessionIntervals_proofs

OpeningOK == opening \in Opening

\* What the actions hand to the engine is a declaration.
LEMMA DeclarationsAreTyped ==
    /\ \A p \in Boost : [kind |-> "modifier", subject |-> p] \in Declaration
    /\ \A l \in Loadout : [kind |-> "protection", subject |-> l] \in Declaration
    /\ Activity \subseteq Declaration
BY SubjectAssumption DEF Declaration, Activity, QuestActivity, SegmentActivity

LEMMA OpeningInit == TrackerInit => OpeningOK
BY DEF TrackerInit, OpeningOK, NoOpening, Opening, MaybeBoost

LEMMA OpeningStep == OpeningOK /\ [TrackerNext]_tracker => OpeningOK'
<1> SUFFICES ASSUME OpeningOK, [TrackerNext]_tracker PROVE OpeningOK'
  OBVIOUS
<1>1. NoOpening \in Opening
  BY DEF NoOpening, Opening, MaybeBoost
<1>2. ASSUME NEW s \in Session, NEW asked \in Opening, StartSession(s, asked) PROVE OpeningOK'
  BY <1>2 DEF StartSession, OpeningOK
<1>3. CASE MintOpening
  BY <1>1, <1>3 DEF MintOpening, OpeningOK
<1>4. CASE OpenOpeningProtection \/ Crash
  BY <1>1, <1>4 DEF OpenOpeningProtection, Crash, OpeningOK
<1>5. CASE UNCHANGED opening
  BY <1>5 DEF OpeningOK
<1>6. CASE StartFails \/ AnnounceStart \/ OpenOpeningBoost \/ Seal \/ SealFails \/ Part
  BY <1>5, <1>6 DEF StartFails, AnnounceStart, OpenOpeningBoost, Seal, SealFails, Part
<1>7. ASSUME NEW then, BeginStop(then) PROVE OpeningOK'
  BY <1>5, <1>7 DEF BeginStop
<1>8. ASSUME NEW a, NEW additive, ActivateActivity(a, additive) PROVE OpeningOK'
  BY <1>5, <1>8 DEF ActivateActivity, Handling
<1>9. ASSUME NEW a, DeactivateActivity(a) PROVE OpeningOK'
  BY <1>5, <1>9 DEF DeactivateActivity, Handling
<1>10. ASSUME NEW p, SetSkillBoost(p) PROVE OpeningOK'
  BY <1>5, <1>10 DEF SetSkillBoost, Handling
<1>11. CASE RecordEvent \/ HearGain \/ RecordGain \/ LoseGain
  BY <1>5, <1>11 DEF RecordEvent, Handling, HearGain, RecordGain, LoseGain, session
<1>12. CASE Boot \/ RecoveryFails \/ Ready
  BY <1>5, <1>12 DEF Boot, RecoveryFails, Ready
<1>13. ASSUME NEW s, RecoverOrphan(s) PROVE OpeningOK'
  BY <1>5, <1>13 DEF RecoverOrphan
<1>14. CASE UNCHANGED tracker
  BY <1>5, <1>14 DEF tracker, session
<1> QED
  BY <1>2, <1>3, <1>4, <1>6, <1>7, <1>8, <1>9, <1>10, <1>11, <1>12, <1>13, <1>14
     DEF TrackerNext

-----------------------------------------------------------------------------
(* Every step of the tracker is a step of the engine, or leaves it alone. *)

LEMMA OpenActivityDrives ==
    ASSUME NEW a \in Activity, NEW additive \in BOOLEAN, OpenActivity(a, additive)
    PROVE  IntervalsNext
<1> DEFINE closes == IF ~additive THEN ActivityKinds
                     ELSE IF a.kind = "quest" THEN {} ELSE {a.kind}
<1>1. a \in Declaration /\ OpenInterval(a, closes)
  BY DeclarationsAreTyped DEF OpenActivity
<1>2. closes \in SUBSET Kind
  BY <1>1, SubjectAssumption DEF ActivityKinds, Declaration
<1> QED BY <1>1, <1>2 DEF IntervalsNext

LEMMA CloseMatchingDrives ==
    ASSUME NEW ids, CloseMatching(ids)
    PROVE  IntervalsNext
BY DEF CloseMatching, IntervalsNext

LEMMA ActivateActivityDrives ==
    ASSUME NEW a \in Activity, NEW additive \in BOOLEAN, ActivateActivity(a, additive)
    PROVE  [IntervalsNext]_engine
BY OpenActivityDrives, CloseMatchingDrives DEF ActivateActivity

LEMMA SetSkillBoostDrives ==
    ASSUME NEW p \in MaybeBoost, SetSkillBoost(p)
    PROVE  [IntervalsNext]_engine
<1>1. CASE p # None
  <2>1. [kind |-> "modifier", subject |-> p] \in Declaration /\ {"modifier"} \in SUBSET Kind
    BY <1>1, DeclarationsAreTyped, SubjectAssumption DEF MaybeBoost
  <2> QED BY <1>1, <2>1 DEF SetSkillBoost, IntervalsNext
<1>2. CASE p = None
  BY <1>2, CloseMatchingDrives DEF SetSkillBoost
<1> QED BY <1>1, <1>2

LEMMA OpeningDrives ==
    ASSUME OpeningOK, MintOpening \/ OpenOpeningBoost \/ OpenOpeningProtection
    PROVE  [IntervalsNext]_engine
<1>1. CASE MintOpening
  BY <1>1 DEF MintOpening, IntervalsNext
<1>2. CASE OpenOpeningBoost
  <2>1. opening.boost = None
        \/ ([kind |-> "modifier", subject |-> opening.boost] \in Declaration)
    BY DeclarationsAreTyped DEF OpeningOK, Opening, MaybeBoost
  <2>2. {"modifier"} \in SUBSET Kind
    BY SubjectAssumption
  <2> QED BY <1>2, <2>1, <2>2 DEF OpenOpeningBoost, IntervalsNext
<1>3. CASE OpenOpeningProtection
  <2>1. opening.loadout = None
        \/ ([kind |-> "protection", subject |-> opening.loadout] \in Declaration)
    BY DeclarationsAreTyped DEF OpeningOK, Opening
  <2>2. {"protection"} \in SUBSET Kind
    BY SubjectAssumption
  <2> QED BY <1>3, <2>1, <2>2 DEF OpenOpeningProtection, IntervalsNext
<1> QED BY <1>1, <1>2, <1>3

LEMMA TrackerStepDrives ==
    OpeningOK /\ [TrackerNext]_tracker => [IntervalsNext]_engine
<1> SUFFICES ASSUME OpeningOK, [TrackerNext]_tracker PROVE [IntervalsNext]_engine
  OBVIOUS
<1>1. ASSUME NEW s \in Session, NEW asked, StartSession(s, asked) PROVE [IntervalsNext]_engine
  BY <1>1 DEF StartSession, IntervalsNext
<1>2. CASE MintOpening \/ OpenOpeningBoost \/ OpenOpeningProtection
  BY <1>2, OpeningDrives
<1>3. ASSUME NEW then, BeginStop(then) PROVE [IntervalsNext]_engine
  BY <1>3 DEF BeginStop, IntervalsNext
<1>4. CASE Part \/ Crash
  BY <1>4 DEF Part, Crash, IntervalsNext
<1>5. ASSUME NEW a \in Activity, NEW additive \in BOOLEAN, ActivateActivity(a, additive)
      PROVE  [IntervalsNext]_engine
  BY <1>5, ActivateActivityDrives
<1>6. ASSUME NEW a \in Activity, DeactivateActivity(a) PROVE [IntervalsNext]_engine
  BY <1>6, CloseMatchingDrives DEF DeactivateActivity
<1>7. ASSUME NEW p \in MaybeBoost, SetSkillBoost(p) PROVE [IntervalsNext]_engine
  BY <1>7, SetSkillBoostDrives
<1>8. CASE RecordEvent
  BY <1>8 DEF RecordEvent, IntervalsNext
<1>9. CASE UNCHANGED engine
  BY <1>9
<1>10. CASE StartFails \/ AnnounceStart \/ Seal \/ SealFails
  BY <1>9, <1>10 DEF StartFails, AnnounceStart, Seal, SealFails
<1>11. CASE HearGain \/ RecordGain \/ LoseGain
  BY <1>9, <1>11 DEF HearGain, RecordGain, LoseGain
<1>12. CASE Boot \/ RecoveryFails \/ Ready
  BY <1>9, <1>12 DEF Boot, RecoveryFails, Ready
<1>13. ASSUME NEW s, RecoverOrphan(s) PROVE [IntervalsNext]_engine
  BY <1>9, <1>13 DEF RecoverOrphan
<1>14. CASE UNCHANGED tracker
  BY <1>9, <1>14 DEF tracker
<1> QED
  BY <1>1, <1>2, <1>3, <1>4, <1>5, <1>6, <1>7, <1>8, <1>10, <1>11, <1>12, <1>13, <1>14
     DEF TrackerNext

\* Starts, stops, declarations, failures, crashes and recoveries together
\* are an execution of the interval engine.
THEOREM TrackerDrivesEngine == TrackerSpec => DrivesEngine
<1>1. TrackerInit => IntervalsInit
  BY DEF TrackerInit
<1>2. TrackerSpec => []OpeningOK
  BY OpeningInit, OpeningStep, PTL DEF TrackerSpec
<1> QED
  BY <1>1, <1>2, TrackerStepDrives, PTL DEF TrackerSpec, DrivesEngine, IntervalsSpec

\* Hence, of the running tracker: the context in force names the standing
\* intervals, memory agrees with the database, and no event is attributed
\* to another session's declarations.
THEOREM TrackerKeepsAttribution ==
    TrackerSpec => [](/\ ContextNamesOpenSet /\ OpenRowsAreStanding
                      /\ ContextsStayInSession /\ StampsStayInSession)
BY TrackerDrivesEngine, EngineInvariant, PTL DEF DrivesEngine, EngineInv

\* ... and what a recorded event says was in force never changes.
THEOREM TrackerImplementsPlay == TrackerSpec => ImplementsDeclaredPlay
BY TrackerDrivesEngine, EngineImplementsPlay, PTL DEF DrivesEngine

-----------------------------------------------------------------------------
(* The life of a session: the inductive invariant *)

\* The tables and memory of the lifecycle, next to the engine's own.
LifecycleTyped ==
    /\ actor \in Steps
    /\ after \in {"reply", "start"}
    /\ opening \in Opening
    /\ listening \in BOOLEAN /\ lapsed \in BOOLEAN
    /\ boost \in Positive \cup {None}
    /\ ended \subseteq recorded
    /\ rowBoost \in [Session -> Positive \cup {None}]
    /\ skill \in Session \cup {NoSession}
    /\ hearing \in Session \cup {NoSession}
    /\ gains \in Seq(GainRow)
    /\ settled \subseteq DOMAIN gains

\* Which steps have a session in memory, and what the rows, the bus and the
\* skill tracker then say of it.
OneSession ==
    /\ actor \in {"announcing", "minting", "boosting", "protecting", "sealing", "parting"}
            => live # NoSession
    /\ actor \in {"starting", "down", "recovering"} => live = NoSession
    /\ live # NoSession => recorded \ ended = (IF actor = "parting" THEN {} ELSE {live})
    /\ live = NoSession /\ actor \in {"idle", "starting"} => recorded \ ended = {}
    /\ \E s \in Session \cup {NoSession} : recorded \ ended \subseteq {s}
    /\ skill = (IF actor = "announcing" THEN NoSession ELSE live)
    /\ listening = (live # NoSession)

\* The positive modifiers that stand.
StandingBoosts == {intervals[i].what.subject : i \in OpenOfKinds({"modifier"})} \cap Positive

\* The boost in memory while a start is opening its intervals one by one.
BoostStands ==
    /\ actor \in {"announcing", "minting", "boosting"} =>
            open = {} /\ ~lapsed /\ boost = PositivePart(opening.boost)
    /\ actor \in {"idle", "protecting"} /\ live # NoSession /\ ~lapsed =>
            {boost} \ {None} = StandingBoosts

TrackerInv == LifecycleTyped /\ OneSession /\ OneStandingPerKind /\ BoostStands

LEMMA InitEstablishesTracker == TrackerInit => TrackerInv
<1> SUFFICES ASSUME TrackerInit PROVE TrackerInv
  OBVIOUS
<1>1. LifecycleTyped
  <2>1. << >> \in Seq(GainRow) /\ DOMAIN << >> = {}
    BY EmptySeq
  <2> QED
    BY <2>1, OpeningInit
       DEF TrackerInit, IntervalsInit, LifecycleTyped, Steps, OpeningOK
<1>2. OneSession /\ OneStandingPerKind /\ BoostStands
  BY DEF TrackerInit, IntervalsInit, OneSession, OneStandingPerKind, BoostStands
<1> QED BY <1>1, <1>2 DEF TrackerInv

-----------------------------------------------------------------------------
(* What the engine's transitions do to the standing intervals *)

LEMMA OpenIntervalStands ==
    ASSUME EngineInv, NEW d \in Declaration, NEW closes, OpenInterval(d, closes)
    PROVE  LET id == Len(intervals) + 1
           IN  /\ id \notin DOMAIN intervals
               /\ open \subseteq DOMAIN intervals
               /\ DOMAIN intervals' = DOMAIN intervals \cup {id}
               /\ open' = (open \ OpenOfKinds(closes)) \cup {id}
               /\ intervals'[id].what = d
               /\ \A i \in DOMAIN intervals :
                    /\ intervals'[i].what = intervals[i].what
                    /\ intervals'[i].ended => intervals[i].ended \/ i \in OpenOfKinds(closes)
<1> DEFINE closing == OpenOfKinds(closes)
           sealed  == EndRows(closing)
           row     == [session |-> live, what |-> d, ended |-> FALSE]
<1>1. /\ live \in Session /\ intervals \in Seq(IntervalRow)
      /\ intervals' = Append(sealed, row)
      /\ open' = (open \ closing) \cup {Len(intervals) + 1}
      /\ open \subseteq DOMAIN intervals
  BY DEF OpenInterval, EngineInv, IntervalsTypeOK
<1>2. row \in IntervalRow /\ row.what = d
  BY <1>1 DEF IntervalRow
<1>3. /\ sealed \in Seq(IntervalRow) /\ Len(sealed) = Len(intervals)
      /\ DOMAIN sealed = DOMAIN intervals
      /\ \A i \in DOMAIN intervals :
            /\ sealed[i].what = intervals[i].what
            /\ sealed[i].ended = (intervals[i].ended \/ i \in closing)
  BY <1>1, EndRowsChangesOnlyEnds
<1> HIDE DEF closing, sealed, row
<1>4. /\ Len(sealed) \in Nat /\ DOMAIN sealed = 1 .. Len(sealed)
      /\ DOMAIN intervals' = 1 .. Len(sealed) + 1
      /\ intervals'[Len(sealed) + 1] = row
      /\ \A i \in DOMAIN sealed : intervals'[i] = sealed[i]
  BY <1>1, <1>2, <1>3, AppendRow
<1>5. /\ Len(intervals) + 1 \notin DOMAIN intervals
      /\ DOMAIN intervals' = DOMAIN intervals \cup {Len(intervals) + 1}
  BY <1>3, <1>4
<1> QED BY <1>1, <1>2, <1>3, <1>4, <1>5 DEF closing

LEMMA CloseMatchingStands ==
    ASSUME EngineInv, NEW ids, CloseMatching(ids)
    PROVE  /\ open' = open \ ids
           /\ DOMAIN intervals' = DOMAIN intervals
           /\ \A i \in DOMAIN intervals : intervals'[i].what = intervals[i].what
BY EndRowsChangesOnlyEnds DEF CloseMatching, EngineInv, IntervalsTypeOK

\* A new interval keeps one standing per kind when whatever it leaves
\* standing of its own kind is another quest.
LEMMA OpeningKeepsOne ==
    ASSUME EngineInv, OneStandingPerKind,
           NEW d \in Declaration, NEW closes, OpenInterval(d, closes),
           \A i \in open \ OpenOfKinds(closes) :
                intervals[i].what.kind = d.kind =>
                    d.kind = "quest" /\ intervals[i].what.subject # d.subject
    PROVE  OneStandingPerKind'
<1> DEFINE id == Len(intervals) + 1
<1>1. /\ id \notin open
      /\ open' = (open \ OpenOfKinds(closes)) \cup {id}
      /\ intervals'[id].what = d
      /\ \A i \in open : intervals'[i].what = intervals[i].what
  BY OpenIntervalStands
<1> HIDE DEF id
<1> SUFFICES ASSUME NEW i \in open', NEW j \in open', i # j,
                    intervals'[i].what.kind = intervals'[j].what.kind
             PROVE  /\ intervals'[i].what.kind = "quest"
                    /\ intervals'[i].what.subject # intervals'[j].what.subject
  BY DEF OneStandingPerKind
<1>2. CASE i \in open /\ j \in open
  BY <1>1, <1>2 DEF OneStandingPerKind
<1>3. CASE i = id /\ j \in open
  BY <1>1, <1>3
<1>4. CASE i \in open /\ j = id
  BY <1>1, <1>4
<1> QED BY <1>1, <1>2, <1>3, <1>4

LEMMA ClosingKeepsOne ==
    ASSUME EngineInv, OneStandingPerKind, NEW ids, CloseMatching(ids)
    PROVE  OneStandingPerKind'
<1>1. /\ open' = open \ ids /\ open \subseteq DOMAIN intervals
      /\ \A i \in DOMAIN intervals : intervals'[i].what = intervals[i].what
  BY CloseMatchingStands DEF EngineInv, IntervalsTypeOK
<1> QED BY <1>1 DEF OneStandingPerKind

\* Opening or closing intervals of other kinds leaves the modifiers alone.
LEMMA OtherKindsKeepBoosts ==
    ASSUME EngineInv, NEW d \in Declaration, NEW closes, OpenInterval(d, closes),
           d.kind # "modifier", "modifier" \notin closes
    PROVE  StandingBoosts' = StandingBoosts
<1> DEFINE id == Len(intervals) + 1
<1>1. /\ id \notin open
      /\ open' = (open \ OpenOfKinds(closes)) \cup {id}
      /\ intervals'[id].what = d
      /\ \A i \in open : intervals'[i].what = intervals[i].what
  BY OpenIntervalStands
<1> HIDE DEF id
<1>2. OpenOfKinds({"modifier"})' = OpenOfKinds({"modifier"})
  BY <1>1 DEF OpenOfKinds
<1>3. OpenOfKinds({"modifier"}) \subseteq open
  BY DEF OpenOfKinds
<1> QED BY <1>1, <1>2, <1>3 DEF StandingBoosts

LEMMA ClosingOthersKeepsBoosts ==
    ASSUME EngineInv, NEW ids, CloseMatching(ids),
           \A i \in ids : intervals[i].what.kind # "modifier"
    PROVE  StandingBoosts' = StandingBoosts
<1>1. /\ open' = open \ ids /\ open \subseteq DOMAIN intervals
      /\ \A i \in DOMAIN intervals : intervals'[i].what = intervals[i].what
  BY CloseMatchingStands DEF EngineInv, IntervalsTypeOK
<1>2. OpenOfKinds({"modifier"})' = OpenOfKinds({"modifier"})
  BY <1>1 DEF OpenOfKinds
<1>3. OpenOfKinds({"modifier"}) \subseteq DOMAIN intervals
  BY <1>1 DEF OpenOfKinds
<1> QED BY <1>1, <1>2, <1>3 DEF StandingBoosts

\* A modifier opened over its kind is the only one that stands.
LEMMA ModifierReplaces ==
    ASSUME EngineInv, NEW p \in Boost,
           OpenInterval([kind |-> "modifier", subject |-> p], {"modifier"})
    PROVE  StandingBoosts' = {p} \cap Positive
<1> DEFINE id == Len(intervals) + 1
           d  == [kind |-> "modifier", subject |-> p]
<1>1. /\ open' = (open \ OpenOfKinds({"modifier"})) \cup {id}
      /\ intervals'[id].what = d
      /\ \A i \in open : intervals'[i].what = intervals[i].what
  BY OpenIntervalStands, DeclarationsAreTyped DEF EngineInv, IntervalsTypeOK
<1> HIDE DEF id
<1>2. OpenOfKinds({"modifier"})' = {id}
  BY <1>1 DEF OpenOfKinds
<1> QED BY <1>1, <1>2 DEF StandingBoosts

LEMMA ModifierOpens ==
    ASSUME EngineInv, OneStandingPerKind, NEW p \in Boost,
           OpenInterval([kind |-> "modifier", subject |-> p], {"modifier"})
    PROVE  OneStandingPerKind'
BY OpeningKeepsOne, DeclarationsAreTyped DEF OpenOfKinds

-----------------------------------------------------------------------------
(* Each step keeps the invariant: first the steps that leave the engine be *)

LEMMA SameEngine ==
    ASSUME OneStandingPerKind, UNCHANGED engine
    PROVE  OneStandingPerKind' /\ StandingBoosts' = StandingBoosts
BY DEF engine, OneStandingPerKind, StandingBoosts, OpenOfKinds

LEMMA ActorStepKeeps ==
    ASSUME TrackerInv, IntervalsTypeOK,
           StartFails \/ AnnounceStart \/ SealFails \/ Boot \/ RecoveryFails \/ Ready
    PROVE  TrackerInv'
<1>1. UNCHANGED engine
  BY DEF StartFails, AnnounceStart, SealFails, Boot, RecoveryFails, Ready
<1>2. LifecycleTyped'
  BY <1>1 DEF TrackerInv, LifecycleTyped, IntervalsTypeOK, Steps, engine, skills,
              StartFails, AnnounceStart, SealFails, Boot, RecoveryFails, Ready
<1>3. OneSession'
  BY <1>1 DEF TrackerInv, LifecycleTyped, OneSession, engine, skills,
              StartFails, AnnounceStart, SealFails, Boot, RecoveryFails, Ready
<1>4. BoostStands'
  BY <1>1, SameEngine
     DEF TrackerInv, OneSession, BoostStands, engine,
         StartFails, AnnounceStart, SealFails, Boot, RecoveryFails, Ready
<1> QED BY <1>1, <1>2, <1>3, <1>4, SameEngine DEF TrackerInv

\* A row is ended once its session has stopped or been found orphaned.
LEMMA SealKeeps ==
    ASSUME TrackerInv, IntervalsTypeOK, Seal
    PROVE  TrackerInv'
<1>1. live \in recorded \ ended
  BY DEF Seal, TrackerInv, OneSession
<1>2. LifecycleTyped'
  BY <1>1 DEF Seal, SealRow, TrackerInv, LifecycleTyped, IntervalsTypeOK, Steps, engine, GainsOf
<1>3. OneSession'
  BY <1>1 DEF Seal, SealRow, TrackerInv, OneSession, engine
<1>4. BoostStands'
  BY DEF Seal, BoostStands
<1> QED BY <1>2, <1>3, <1>4, SameEngine DEF TrackerInv, Seal

LEMMA RecoverKeeps ==
    ASSUME TrackerInv, IntervalsTypeOK, NEW s \in Session, RecoverOrphan(s)
    PROVE  TrackerInv'
<1>1. LifecycleTyped'
  BY DEF RecoverOrphan, SealRow, TrackerInv, LifecycleTyped, IntervalsTypeOK, engine, GainsOf
<1>2. OneSession'
  BY DEF RecoverOrphan, SealRow, TrackerInv, OneSession, engine
<1>3. BoostStands'
  BY DEF RecoverOrphan, BoostStands
<1> QED BY <1>1, <1>2, <1>3, SameEngine DEF TrackerInv, RecoverOrphan

\* What the skill tracker's query finds (skill_tracker.rs:212): the newest of
\* the session's contexts, or none.
LEMMA NewestContext ==
    ASSUME IntervalsTypeOK, NEW s
    PROVE  /\ NewestContextOf(s) \in Nat
           /\ NewestContextOf(s) # NoContext =>
                /\ NewestContextOf(s) \in DOMAIN contexts
                /\ contexts[NewestContextOf(s)].session = s
           /\ \A c \in DOMAIN contexts :
                contexts[c].session = s => c <= NewestContextOf(s)
<1> DEFINE own == {c \in DOMAIN contexts : contexts[c].session = s}
<1>1. Len(contexts) \in Nat /\ DOMAIN contexts = 1 .. Len(contexts)
  BY TablesWellFormed
<1>2. CASE own = {}
  BY <1>2 DEF NewestContextOf, NoContext
<1>3. CASE own # {}
  <2>1. own \in SUBSET (1 .. Len(contexts))
    BY <1>1
  <2>2. NewestContextOf(s) = CHOOSE c \in own : \A other \in own : other <= c
    BY <1>3 DEF NewestContextOf
  <2>3. \E c \in own : \A other \in own : other <= c
    <3> HIDE DEF own
    <3> QED BY <1>1, <1>3, <2>1, MaxExists
  <2>4. NewestContextOf(s) \in own /\ \A other \in own : other <= NewestContextOf(s)
    BY <2>2, <2>3
  <2> QED BY <1>1, <2>4
<1> QED BY <1>2, <1>3

LEMMA SkillStepKeeps ==
    ASSUME TrackerInv, IntervalsTypeOK, HearGain \/ RecordGain \/ LoseGain
    PROVE  TrackerInv'
<1>1. UNCHANGED <<engine, session, skill, settled>>
  BY DEF HearGain, RecordGain, LoseGain
<1>2. hearing' \in Session \cup {NoSession}
  BY DEF HearGain, RecordGain, LoseGain, TrackerInv, LifecycleTyped
<1>3. gains' \in Seq(GainRow) /\ DOMAIN gains \subseteq DOMAIN gains'
  <2>1. CASE RecordGain
    <3> DEFINE row == [session |-> hearing, context |-> NewestContextOf(hearing)]
    <3>1. gains \in Seq(GainRow) /\ row \in GainRow /\ gains' = Append(gains, row)
      BY <2>1, NewestContext, SessionAssumption DEF RecordGain, TrackerInv, LifecycleTyped, GainRow
    <3> HIDE DEF row
    <3>2. /\ gains' \in Seq(GainRow) /\ Len(gains) \in Nat
          /\ DOMAIN gains = 1 .. Len(gains) /\ DOMAIN gains' = 1 .. Len(gains) + 1
      BY <3>1, AppendRow
    <3> QED BY <3>2
  <2>2. CASE HearGain \/ LoseGain
    BY <2>2 DEF HearGain, LoseGain, TrackerInv, LifecycleTyped
  <2> QED BY <2>1, <2>2
<1>4. LifecycleTyped'
  BY <1>1, <1>2, <1>3 DEF TrackerInv, LifecycleTyped, session, engine
<1>5. OneSession' /\ BoostStands'
  BY <1>1, SameEngine DEF TrackerInv, OneSession, BoostStands, session, engine
<1> QED BY <1>1, <1>4, <1>5, SameEngine DEF TrackerInv

-----------------------------------------------------------------------------
(* ... then those that drive it *)

LEMMA StartKeeps ==
    ASSUME TrackerInv, IntervalsTypeOK, NEW s \in Session, NEW asked \in Opening,
           StartSession(s, asked)
    PROVE  TrackerInv'
<1>1. /\ live = NoSession /\ live' = s /\ s \notin recorded /\ recorded' = recorded \cup {s}
      /\ open' = {} /\ intervals' = intervals
      /\ actor' = "announcing" /\ actor \in {"idle", "starting"}
  BY DEF StartSession, Activate, TrackerInv, OneSession
<1>2. PositivePart(asked.boost) \in Positive \cup {None}
  BY DEF PositivePart
<1>3. LifecycleTyped'
  BY <1>1, <1>2 DEF StartSession, TrackerInv, LifecycleTyped, Steps, skills
<1>4. OneSession'
  BY <1>1, SessionAssumption DEF StartSession, TrackerInv, LifecycleTyped, OneSession, skills
<1>5. OneStandingPerKind'
  BY <1>1 DEF OneStandingPerKind
<1>6. BoostStands'
  BY <1>1 DEF StartSession, BoostStands
<1> QED BY <1>3, <1>4, <1>5, <1>6 DEF TrackerInv

\* A declared boost is positive or stands for nothing in the session row.
LEMMA DeclaredBoost ==
    ASSUME NEW p \in MaybeBoost
    PROVE  /\ PositivePart(p) \in Positive \cup {None}
           /\ p = None => PositivePart(p) = None
           /\ p # None => p \in Boost /\ {PositivePart(p)} \ {None} = {p} \cap Positive
BY SubjectAssumption DEF MaybeBoost, PositivePart

LEMMA NothingStands ==
    ASSUME OpenOfKinds({"modifier"}) = {}
    PROVE  StandingBoosts = {}
BY DEF StandingBoosts

\* The three contained writes of a start (session.rs:904-942).
LEMMA OpeningKeeps ==
    ASSUME TrackerInv, EngineInv, EngineInv',
           MintOpening \/ OpenOpeningBoost \/ OpenOpeningProtection
    PROVE  TrackerInv'
<1>1. /\ live # NoSession /\ live \in Session
      /\ UNCHANGED <<live, recorded, after, listening, boost, ended, rowBoost, skills>>
      /\ opening \in Opening
  BY DEF MintOpening, OpenSession, OpenOpeningBoost, OpenOpeningProtection, OpenInterval, engine,
         TrackerInv, LifecycleTyped, OneSession, EngineInv, IntervalsTypeOK
<1>2. NoOpening \in Opening
  BY DEF NoOpening, Opening, MaybeBoost
<1>3. LifecycleTyped'
  BY <1>1, <1>2
     DEF MintOpening, OpenOpeningBoost, OpenOpeningProtection, TrackerInv, LifecycleTyped,
         Steps, skills
<1>4. OneSession'
  BY <1>1 DEF MintOpening, OpenOpeningBoost, OpenOpeningProtection, TrackerInv, OneSession, skills
<1>5. OneStandingPerKind' /\ BoostStands'
  <2>1. CASE MintOpening
    <3>1. open = {} /\ ~lapsed /\ boost = PositivePart(opening.boost)
      BY <2>1 DEF MintOpening, TrackerInv, BoostStands
    <3>2. open' = {} /\ OneStandingPerKind'
      BY <2>1, <3>1 DEF MintOpening, OpenSession, engine, OneStandingPerKind
    <3>3. CASE actor' = "boosting"
      BY <1>1, <2>1, <3>1, <3>2, <3>3 DEF MintOpening, BoostStands
    <3>4. CASE actor' = "idle" /\ UNCHANGED engine /\ lapsed' = (opening.boost # None)
      <4>1. StandingBoosts' = {}
        BY <3>2 DEF StandingBoosts, OpenOfKinds
      <4>2. opening.boost \in MaybeBoost
        BY <1>1 DEF Opening
      <4> QED BY <1>1, <3>1, <3>2, <3>4, <4>1, <4>2, DeclaredBoost DEF BoostStands
    <3> QED BY <2>1, <3>3, <3>4 DEF MintOpening
  <2>2. CASE OpenOpeningBoost
    <3> DEFINE p == opening.boost
    <3>1. open = {} /\ ~lapsed /\ boost = PositivePart(p) /\ p \in MaybeBoost
      BY <1>1, <2>2 DEF OpenOpeningBoost, TrackerInv, BoostStands, Opening
    <3>2. actor' = "protecting" /\ boost' = boost /\ opening' = opening /\ live' = live
      BY <1>1, <2>2 DEF OpenOpeningBoost
    <3>3. CASE UNCHANGED engine /\ (p = None \/ lapsed')
      <4>1. OneStandingPerKind' /\ open' = {}
        BY <3>1, <3>3 DEF engine, OneStandingPerKind
      <4>2. StandingBoosts' = {}
        BY <4>1 DEF StandingBoosts, OpenOfKinds
      <4> QED BY <3>1, <3>2, <3>3, <4>1, <4>2, DeclaredBoost DEF BoostStands
    <3>4. CASE /\ p # None /\ UNCHANGED lapsed
               /\ OpenInterval([kind |-> "modifier", subject |-> p], {"modifier"})
      <4>1. p \in Boost /\ {boost} \ {None} = {p} \cap Positive
        BY <3>1, <3>4, DeclaredBoost
      <4> QED BY <3>2, <3>4, <4>1, ModifierOpens, ModifierReplaces DEF TrackerInv, BoostStands
    <3> QED BY <2>2, <3>3, <3>4 DEF OpenOpeningBoost
  <2>3. CASE OpenOpeningProtection
    <3> DEFINE d == [kind |-> "protection", subject |-> opening.loadout]
    <3>1. /\ actor = "protecting" /\ actor' = "idle"
          /\ boost' = boost /\ lapsed' = lapsed /\ live' = live
      BY <1>1, <2>3 DEF OpenOpeningProtection
    <3>2. CASE UNCHANGED engine
      BY <3>1, <3>2, SameEngine DEF TrackerInv, BoostStands
    <3>3. CASE opening.loadout # None /\ OpenInterval(d, {"protection"})
      <4>1. d \in Declaration /\ d.kind = "protection"
        BY <1>1, <3>3, DeclarationsAreTyped DEF Opening
      <4>2. \A i \in open \ OpenOfKinds({"protection"}) : intervals[i].what.kind # d.kind
        BY <4>1 DEF OpenOfKinds
      <4> HIDE DEF d
      <4>3. OneStandingPerKind'
        BY <3>3, <4>1, <4>2, OpeningKeepsOne DEF TrackerInv
      <4>4. StandingBoosts' = StandingBoosts
        BY <3>3, <4>1, OtherKindsKeepBoosts
      <4> QED BY <3>1, <4>3, <4>4 DEF TrackerInv, BoostStands
    <3> QED BY <2>3, <3>2, <3>3 DEF OpenOpeningProtection
  <2> QED BY <2>1, <2>2, <2>3
<1> QED BY <1>3, <1>4, <1>5 DEF TrackerInv

LEMMA StopKeeps ==
    ASSUME TrackerInv, EngineInv, NEW then \in {"reply", "start"}, BeginStop(then)
    PROVE  TrackerInv'
<1>1. UNCHANGED <<live, recorded>> /\ live # NoSession
  BY DEF BeginStop, CloseSession, engine
<1>2. LifecycleTyped'
  BY <1>1 DEF BeginStop, TrackerInv, LifecycleTyped, Steps, skills
<1>3. OneSession'
  BY <1>1 DEF BeginStop, TrackerInv, OneSession, skills
<1>4. OneStandingPerKind'
  BY SameEngine DEF BeginStop, CloseSession, TrackerInv, OneStandingPerKind
<1>5. BoostStands'
  BY DEF BeginStop, BoostStands
<1> QED BY <1>2, <1>3, <1>4, <1>5 DEF TrackerInv

LEMMA LeaveKeeps ==
    ASSUME TrackerInv, EngineInv, Part \/ Crash
    PROVE  TrackerInv'
<1>1. /\ live' = NoSession /\ UNCHANGED <<recorded, intervals, contexts, stamps>>
      /\ open' = {} \/ open' = open
  BY DEF Part, Crash, Drop, database, engine
<1>2. NoOpening \in Opening
  BY DEF NoOpening, Opening, MaybeBoost
<1>3. LifecycleTyped'
  BY <1>1, <1>2 DEF Part, Crash, TrackerInv, LifecycleTyped, Steps
<1>4. OneSession'
  BY <1>1 DEF Part, Drop, Crash, TrackerInv, OneSession
<1>5. OneStandingPerKind'
  BY <1>1 DEF TrackerInv, OneStandingPerKind
<1>6. BoostStands'
  BY <1>1 DEF Part, Crash, BoostStands
<1> QED BY <1>3, <1>4, <1>5, <1>6 DEF TrackerInv

\* A declaration moves neither the session nor the actor.
LEMMA HandlingKeeps ==
    ASSUME TrackerInv, IntervalsTypeOK, Handling, UNCHANGED <<live, recorded>>,
           boost' \in Positive \cup {None},
           rowBoost' \in [Session -> Positive \cup {None}], lapsed' \in BOOLEAN
    PROVE  LifecycleTyped' /\ OneSession'
BY DEF Handling, TrackerInv, LifecycleTyped, OneSession, skills

LEMMA ActivityDeclares ==
    ASSUME NEW a \in Activity
    PROVE  /\ a \in Declaration
           /\ a.kind \in ActivityKinds
           /\ \A d \in Declaration : d = a <=> d.kind = a.kind /\ d.subject = a.subject
BY DeclarationsAreTyped
   DEF Activity, QuestActivity, SegmentActivity, ActivityKinds, Declaration

LEMMA StandingDeclares ==
    ASSUME IntervalsTypeOK
    PROVE  \A i \in open : intervals[i].what \in Declaration
BY TablesWellFormed DEF IntervalsTypeOK, IntervalRow

LEMMA ActivityKeeps ==
    ASSUME TrackerInv, EngineInv, NEW a \in Activity, NEW additive \in BOOLEAN,
           ActivateActivity(a, additive) \/ DeactivateActivity(a)
    PROVE  TrackerInv'
<1>1. Handling /\ UNCHANGED <<boost, rowBoost, lapsed>>
  BY DEF ActivateActivity, DeactivateActivity
<1>2. /\ \/ UNCHANGED engine
         \/ \E ids : CloseMatching(ids) /\ \A i \in ids : intervals[i].what.kind \in ActivityKinds
         \/ Standing(a) = {} /\ OpenActivity(a, additive)
  <2>1. \A i \in Standing(a) : intervals[i].what.kind \in ActivityKinds
    BY ActivityDeclares DEF Standing
  <2>2. \A i \in OpenOfKinds(ActivityKinds) : intervals[i].what.kind \in ActivityKinds
    BY DEF OpenOfKinds
  <2> QED BY <2>1, <2>2 DEF ActivateActivity, DeactivateActivity
<1>3. UNCHANGED <<live, recorded>>
  BY <1>2 DEF engine, CloseMatching, OpenActivity, OpenInterval
<1>4. LifecycleTyped' /\ OneSession'
  BY <1>1, <1>3, HandlingKeeps DEF TrackerInv, LifecycleTyped, EngineInv
<1>5. "modifier" \notin ActivityKinds
  BY DEF ActivityKinds
<1>6. OneStandingPerKind' /\ StandingBoosts' = StandingBoosts
  <2>1. CASE UNCHANGED engine
    BY <2>1, SameEngine DEF TrackerInv
  <2>2. ASSUME NEW ids, CloseMatching(ids),
               \A i \in ids : intervals[i].what.kind \in ActivityKinds
        PROVE  OneStandingPerKind' /\ StandingBoosts' = StandingBoosts
    BY <1>5, <2>2, ClosingKeepsOne, ClosingOthersKeepsBoosts DEF TrackerInv
  <2>3. CASE Standing(a) = {} /\ OpenActivity(a, additive)
    <3> DEFINE closes == IF ~additive THEN ActivityKinds
                         ELSE IF a.kind = "quest" THEN {} ELSE {a.kind}
    <3>1. OpenInterval(a, closes) /\ a \in Declaration /\ a.kind # "modifier"
          /\ "modifier" \notin closes
      BY <1>5, <2>3, ActivityDeclares DEF OpenActivity
    <3>2. ASSUME NEW i \in open \ OpenOfKinds(closes), intervals[i].what.kind = a.kind
          PROVE  a.kind = "quest" /\ intervals[i].what.subject # a.subject
      <4>1. a.kind \notin closes
        BY <3>2 DEF OpenOfKinds
      <4>2. a.kind = "quest"
        BY <4>1, ActivityDeclares
      <4>3. intervals[i].what # a /\ intervals[i].what \in Declaration
        BY <2>3, StandingDeclares DEF Standing, EngineInv
      <4> QED BY <3>2, <4>2, <4>3, ActivityDeclares
    <3> HIDE DEF closes
    <3>3. OneStandingPerKind'
      BY <3>1, <3>2, OpeningKeepsOne DEF TrackerInv
    <3> QED BY <3>1, <3>3, OtherKindsKeepBoosts
  <2> QED BY <1>2, <2>1, <2>2, <2>3
<1>7. BoostStands'
  BY <1>1, <1>3, <1>6 DEF Handling, TrackerInv, BoostStands
<1> QED BY <1>4, <1>6, <1>7 DEF TrackerInv

LEMMA BoostKeeps ==
    ASSUME TrackerInv, EngineInv, NEW p \in MaybeBoost, SetSkillBoost(p)
    PROVE  TrackerInv'
<1>1. /\ Handling /\ boost' = PositivePart(p) /\ boost' \in Positive \cup {None}
      /\ live \in Session
  BY DeclaredBoost DEF SetSkillBoost, Handling, EngineInv, IntervalsTypeOK
<1>2. rowBoost' \in [Session -> Positive \cup {None}] /\ lapsed' \in BOOLEAN
  BY <1>1 DEF SetSkillBoost, TrackerInv, LifecycleTyped
<1>3. UNCHANGED <<live, recorded>>
  BY DEF SetSkillBoost, OpenInterval, CloseMatching, engine
<1>4. LifecycleTyped' /\ OneSession'
  BY <1>1, <1>2, <1>3, HandlingKeeps DEF EngineInv
<1>5. OneStandingPerKind' /\ (lapsed' \/ {boost'} \ {None} = StandingBoosts')
  <2>1. CASE lapsed' = TRUE /\ UNCHANGED engine
    BY <2>1, SameEngine DEF TrackerInv
  <2>2. CASE p # None /\ OpenInterval([kind |-> "modifier", subject |-> p], {"modifier"})
    <3>1. p \in Boost /\ {boost'} \ {None} = {p} \cap Positive
      BY <1>1, <2>2, DeclaredBoost
    <3> QED BY <2>2, <3>1, ModifierOpens, ModifierReplaces DEF TrackerInv
  <2>3. CASE p = None /\ OpenOfKinds({"modifier"}) = {} /\ UNCHANGED engine
    BY <1>1, <2>3, SameEngine, NothingStands, DeclaredBoost DEF TrackerInv
  <2>4. CASE p = None /\ CloseMatching(OpenOfKinds({"modifier"}))
    <3>1. /\ open' = open \ OpenOfKinds({"modifier"}) /\ open \subseteq DOMAIN intervals
          /\ \A i \in DOMAIN intervals : intervals'[i].what = intervals[i].what
      BY <2>4, CloseMatchingStands DEF EngineInv, IntervalsTypeOK
    <3>2. OpenOfKinds({"modifier"})' = {}
      BY <3>1 DEF OpenOfKinds
    <3>3. StandingBoosts' = {}
      BY <3>2 DEF StandingBoosts
    <3> QED BY <1>1, <2>4, <3>3, ClosingKeepsOne, DeclaredBoost DEF TrackerInv
  <2> QED BY <2>1, <2>2, <2>3, <2>4 DEF SetSkillBoost
<1>6. BoostStands'
  BY <1>1, <1>5 DEF Handling, BoostStands
<1> QED BY <1>4, <1>5, <1>6 DEF TrackerInv

LEMMA RecordKeeps ==
    ASSUME TrackerInv, EngineInv, RecordEvent
    PROVE  TrackerInv'
<1>1. /\ Handling /\ UNCHANGED <<boost, rowBoost, lapsed>>
      /\ UNCHANGED <<live, open, context, recorded, intervals, contexts>>
  BY DEF RecordEvent, StampEvent
<1>2. LifecycleTyped' /\ OneSession'
  BY <1>1, HandlingKeeps DEF TrackerInv, LifecycleTyped, EngineInv
<1>3. OneStandingPerKind' /\ BoostStands'
  BY <1>1 DEF Handling, TrackerInv, OneStandingPerKind, BoostStands, StandingBoosts, OpenOfKinds
<1> QED BY <1>2, <1>3 DEF TrackerInv

LEMMA TrackerStepKeeps ==
    TrackerInv /\ EngineInv /\ EngineInv' /\ [TrackerNext]_tracker => TrackerInv'
<1> SUFFICES ASSUME TrackerInv, EngineInv, EngineInv', [TrackerNext]_tracker
             PROVE  TrackerInv'
  OBVIOUS
<1> USE DEF EngineInv
<1>1. ASSUME NEW s \in Session, NEW asked \in Opening, StartSession(s, asked) PROVE TrackerInv'
  BY <1>1, StartKeeps
<1>2. CASE StartFails \/ AnnounceStart \/ SealFails \/ Boot \/ RecoveryFails \/ Ready
  BY <1>2, ActorStepKeeps
<1>3. CASE MintOpening \/ OpenOpeningBoost \/ OpenOpeningProtection
  BY <1>3, OpeningKeeps
<1>4. ASSUME NEW then \in {"reply", "start"}, BeginStop(then) PROVE TrackerInv'
  BY <1>4, StopKeeps
<1>5. CASE Seal
  BY <1>5, SealKeeps
<1>6. CASE Part \/ Crash
  BY <1>6, LeaveKeeps
<1>7. ASSUME NEW a \in Activity, NEW additive \in BOOLEAN,
             ActivateActivity(a, additive) \/ DeactivateActivity(a)
      PROVE  TrackerInv'
  BY <1>7, ActivityKeeps
<1>8. ASSUME NEW p \in MaybeBoost, SetSkillBoost(p) PROVE TrackerInv'
  BY <1>8, BoostKeeps
<1>9. CASE RecordEvent
  BY <1>9, RecordKeeps
<1>10. CASE HearGain \/ RecordGain \/ LoseGain
  BY <1>10, SkillStepKeeps
<1>11. ASSUME NEW s \in Session, RecoverOrphan(s) PROVE TrackerInv'
  BY <1>11, RecoverKeeps
<1>12. CASE UNCHANGED tracker
  BY <1>12 DEF tracker, engine, session, skills, TrackerInv, LifecycleTyped, OneSession,
               OneStandingPerKind, BoostStands, StandingBoosts, OpenOfKinds
<1> QED
  BY <1>1, <1>2, <1>3, <1>4, <1>5, <1>6, <1>7, <1>8, <1>9, <1>10, <1>11, <1>12 DEF TrackerNext

-----------------------------------------------------------------------------
(* The theorems of the lifecycle *)

\* The engine's invariant and the lifecycle's hold of every behaviour.
THEOREM LifecycleInvariant == TrackerSpec => [](EngineInv /\ TrackerInv)
<1>1. TrackerSpec => []EngineInv
  BY TrackerDrivesEngine, EngineInvariant, PTL DEF DrivesEngine
<1>2. TrackerSpec => []TrackerInv
  BY <1>1, InitEstablishesTracker, TrackerStepKeeps, PTL DEF TrackerSpec
<1> QED BY <1>1, <1>2, PTL

\* Rows, tracker, skill tracker and bus agree on the one session that is
\* live, across failed starts and stops, crashes and recoveries.
THEOREM OneSessionIsLive == TrackerSpec => []OneLiveSession
<1>1. TrackerInv => OneLiveSession
  <2> SUFFICES ASSUME TrackerInv PROVE OneLiveSession
    OBVIOUS
  <2>1. ListenersFollowSession
    BY DEF TrackerInv, OneSession, ListenersFollowSession
  <2>2. PICK s \in Session \cup {NoSession} : recorded \ ended \subseteq {s}
    BY DEF TrackerInv, OneSession
  <2>3. Cardinality(recorded \ ended) <= 1
    <3>1. recorded \ ended = {} \/ recorded \ ended = {s}
      BY <2>2
    <3> QED BY <3>1, FS_EmptySet, FS_Singleton
  <2>4. OneActiveRow
    BY <2>3 DEF TrackerInv, OneSession, OneActiveRow
  <2> QED BY <2>1, <2>4 DEF OneLiveSession
<1> QED BY <1>1, LifecycleInvariant, PTL

\* A modifier, a segment and a loadout stand one at a time, a quest never
\* twice, and the boost a session row mirrors is the one that stands.
THEOREM DeclarationsStaySound == TrackerSpec => []DeclarationsSound
<1>1. EngineInv /\ TrackerInv => DeclarationsSound
  <2> SUFFICES ASSUME EngineInv, TrackerInv PROVE DeclarationsSound
    OBVIOUS
  <2>1. TrackerTypeOK
    BY DEF EngineInv, TrackerInv, LifecycleTyped, TrackerTypeOK
  <2>2. OneStandingPerKind /\ BoostFollowsModifier
    BY DEF TrackerInv, BoostStands, StandingBoosts, BoostFollowsModifier
  <2> QED BY <2>1, <2>2 DEF DeclarationsSound
<1> QED BY <1>1, LifecycleInvariant, PTL

\* A session whose row has ended stays ended and takes no further event.
THEOREM EndedStaysEnded == TrackerSpec => EndedForGood
<1> DEFINE Stays == /\ ended \subseteq ended'
                    /\ \A k \in DOMAIN stamps' \ DOMAIN stamps : stamps'[k].session \notin ended
<1>1. EngineInv /\ TrackerInv /\ [TrackerNext]_tracker => [Stays]_tracker
  <2> SUFFICES ASSUME EngineInv, TrackerInv, TrackerNext PROVE Stays
    OBVIOUS
  <2>1. CASE RecordEvent
    <3> DEFINE row == [session |-> live, context |-> context]
    <3>1. /\ stamps' = Append(stamps, row) /\ ended' = ended
          /\ live # NoSession /\ actor = "idle"
      BY <2>1 DEF RecordEvent, Handling, StampEvent
    <3>2. live \in recorded \ ended
      BY <3>1 DEF TrackerInv, OneSession
    <3>3. row \in StampRow /\ stamps \in Seq(StampRow)
      BY <3>1, TablesWellFormed DEF StampRow, EngineInv, IntervalsTypeOK
    <3> HIDE DEF row
    <3>4. DOMAIN stamps' = DOMAIN stamps \cup {Len(stamps) + 1}
          /\ stamps'[Len(stamps) + 1] = row
      <4>1. /\ Len(stamps) \in Nat /\ DOMAIN stamps = 1 .. Len(stamps)
            /\ DOMAIN stamps' = 1 .. Len(stamps) + 1
            /\ stamps'[Len(stamps) + 1] = row
        BY <3>1, <3>3, AppendRow
      <4> QED BY <4>1
    <3> QED BY <3>1, <3>2, <3>4 DEF row
  <2>2. CASE stamps' = stamps /\ ended \subseteq ended'
    BY <2>2
  <2>3. ASSUME NEW s, NEW asked, StartSession(s, asked) PROVE Stays
    BY <2>2, <2>3 DEF StartSession, Activate
  <2>4. CASE StartFails \/ AnnounceStart \/ SealFails \/ Boot \/ RecoveryFails \/ Ready
    BY <2>2, <2>4 DEF StartFails, AnnounceStart, SealFails, Boot, RecoveryFails, Ready, engine
  <2>5. CASE MintOpening \/ OpenOpeningBoost \/ OpenOpeningProtection
    BY <2>2, <2>5 DEF MintOpening, OpenSession, OpenOpeningBoost, OpenOpeningProtection,
                      OpenInterval, engine
  <2>6. ASSUME NEW then, BeginStop(then) PROVE Stays
    BY <2>2, <2>6 DEF BeginStop, CloseSession, engine
  <2>7. CASE Seal
    BY <2>2, <2>7 DEF Seal, SealRow, engine
  <2>8. CASE Part \/ Crash
    BY <2>2, <2>8 DEF Part, Crash, Drop, database, engine
  <2>9. ASSUME NEW a, NEW additive, ActivateActivity(a, additive) \/ DeactivateActivity(a)
        PROVE  Stays
    BY <2>2, <2>9 DEF ActivateActivity, DeactivateActivity, Handling, OpenActivity, OpenInterval,
                      CloseMatching, engine
  <2>10. ASSUME NEW p, SetSkillBoost(p) PROVE Stays
    BY <2>2, <2>10 DEF SetSkillBoost, Handling, OpenInterval, CloseMatching, engine
  <2>11. CASE HearGain \/ RecordGain \/ LoseGain
    BY <2>2, <2>11 DEF HearGain, RecordGain, LoseGain, engine, session
  <2>12. ASSUME NEW s, RecoverOrphan(s) PROVE Stays
    BY <2>2, <2>12 DEF RecoverOrphan, SealRow, engine
  <2> QED
    BY <2>1, <2>3, <2>4, <2>5, <2>6, <2>7, <2>8, <2>9, <2>10, <2>11, <2>12 DEF TrackerNext
<1> QED BY <1>1, LifecycleInvariant, PTL DEF TrackerSpec, EndedForGood

\* The context in force is the one the skill tracker's query finds, since a
\* context in force is always the newest row.
LEMMA QueryFindsContextInForce ==
    ASSUME EngineInv, context # NoContext
    PROVE  NewestContextOf(live) = context
<1>1. /\ context \in DOMAIN contexts /\ contexts[context].session = live
      /\ context = Len(contexts)
  BY TablesWellFormed
     DEF EngineInv, IntervalsTypeOK, ContextNamesOpenSet, CurrentContextIsNewest, NoContext
<1>2. context <= NewestContextOf(live)
  BY <1>1, NewestContext DEF EngineInv
<1>3. NewestContextOf(live) \in DOMAIN contexts
  BY <1>1, <1>2, NewestContext, TablesWellFormed DEF EngineInv, NoContext
<1> QED BY <1>1, <1>2, <1>3, TablesWellFormed DEF EngineInv

\* A gain the skill tracker records for the live session carries the very
\* context the tracker stamps its own events with.
THEOREM GainsAgreeWithEvents == TrackerSpec => GainsStampedLikeEvents
<1> DEFINE Stamped == actor = "idle" /\ context # NoContext /\ hearing = live /\ gains' # gains
                        => gains'[Len(gains')].context = context
<1>1. EngineInv /\ TrackerInv /\ [TrackerNext]_tracker => [Stamped]_tracker
  <2> SUFFICES ASSUME EngineInv, TrackerInv, TrackerNext,
                      context # NoContext, hearing = live, gains' # gains
               PROVE  gains'[Len(gains')].context = context
    OBVIOUS
  <2>1. RecordGain
    BY DEF TrackerNext, StartSession, StartFails, AnnounceStart, MintOpening, OpenOpeningBoost,
           OpenOpeningProtection, BeginStop, Seal, SealFails, Part, ActivateActivity,
           DeactivateActivity, SetSkillBoost, Handling, RecordEvent, HearGain, LoseGain, Crash,
           Boot, RecoverOrphan, RecoveryFails, Ready, skills
  <2> DEFINE row == [session |-> hearing, context |-> NewestContextOf(hearing)]
  <2>2. gains \in Seq(GainRow) /\ row \in GainRow /\ gains' = Append(gains, row)
    BY <2>1, NewestContext DEF RecordGain, EngineInv, TrackerInv, LifecycleTyped, GainRow
  <2>3. row.context = context
    BY QueryFindsContextInForce
  <2> HIDE DEF row
  <2>4. Len(gains') = Len(gains) + 1 /\ gains'[Len(gains) + 1] = row
    BY <2>2, AppendRow
  <2> QED BY <2>3, <2>4
<1> QED BY <1>1, LifecycleInvariant, PTL DEF TrackerSpec, GainsStampedLikeEvents

\* No step of the tracker ends a stretch of an activity and opens another of
\* the same activity.
THEOREM StretchesStayWhole == TrackerSpec => StretchNeverSplit
<1> DEFINE Whole ==
        \A i \in DOMAIN intervals, j \in DOMAIN intervals' :
            intervals[i].what = intervals'[j].what /\ intervals[i].what \in Activity
                /\ ~intervals[i].ended /\ intervals'[i].ended
            => j \in DOMAIN intervals
<1>1. EngineInv /\ TrackerInv /\ [TrackerNext]_tracker => [Whole]_tracker
  <2> SUFFICES ASSUME EngineInv, TrackerInv, TrackerNext PROVE Whole
    OBVIOUS
  <2>1. CASE DOMAIN intervals' = DOMAIN intervals
    BY <2>1
  <2>2. ASSUME NEW d \in Declaration, NEW closes, OpenInterval(d, closes),
               d \in Activity => Standing(d) = {}
        PROVE  Whole
    <3> SUFFICES ASSUME NEW i \in DOMAIN intervals, NEW j \in DOMAIN intervals',
                        intervals[i].what = intervals'[j].what, intervals[i].what \in Activity,
                        ~intervals[i].ended, intervals'[i].ended, j \notin DOMAIN intervals
                 PROVE  FALSE
      OBVIOUS
    <3>1. intervals'[j].what = d /\ i \in OpenOfKinds(closes)
      BY <2>2, OpenIntervalStands
    <3>2. i \in Standing(d)
      BY <3>1 DEF OpenOfKinds, Standing
    <3> QED BY <2>2, <3>1, <3>2
  <2>3. ASSUME NEW ids, CloseMatching(ids) PROVE Whole
    BY <2>1, <2>3, CloseMatchingStands
  <2>4. CASE UNCHANGED engine
    BY <2>1, <2>4 DEF engine
  <2>5. ASSUME NEW s, NEW asked, StartSession(s, asked) PROVE Whole
    BY <2>1, <2>5 DEF StartSession, Activate
  <2>6. CASE MintOpening
    BY <2>1, <2>4, <2>6 DEF MintOpening, OpenSession
  <2>7. \A d \in Activity : d.kind \in {"quest", "segment"}
    BY ActivityDeclares DEF ActivityKinds
  <2>8. ASSUME NEW d \in Declaration, NEW closes, OpenInterval(d, closes),
               d.kind \in {"modifier", "protection"}
        PROVE  Whole
    BY <2>2, <2>7, <2>8
  <2>9. opening \in Opening
    BY DEF TrackerInv, LifecycleTyped
  <2>10. CASE OpenOpeningBoost
    <3> DEFINE d == [kind |-> "modifier", subject |-> opening.boost]
    <3>1. opening.boost = None \/ (d \in Declaration /\ d.kind = "modifier")
      BY <2>9, DeclarationsAreTyped DEF Opening, MaybeBoost
    <3>2. UNCHANGED engine \/ (opening.boost # None /\ OpenInterval(d, {"modifier"}))
      BY <2>10 DEF OpenOpeningBoost
    <3> HIDE DEF d
    <3> QED BY <2>4, <2>8, <3>1, <3>2
  <2>11. CASE OpenOpeningProtection
    <3> DEFINE d == [kind |-> "protection", subject |-> opening.loadout]
    <3>1. opening.loadout = None \/ (d \in Declaration /\ d.kind = "protection")
      BY <2>9, DeclarationsAreTyped DEF Opening
    <3>2. UNCHANGED engine \/ (opening.loadout # None /\ OpenInterval(d, {"protection"}))
      BY <2>11 DEF OpenOpeningProtection
    <3> HIDE DEF d
    <3> QED BY <2>4, <2>8, <3>1, <3>2
  <2>12. ASSUME NEW then, BeginStop(then) PROVE Whole
    <3>1. CASE CloseSession
      BY <2>1, <3>1, EndRowsChangesOnlyEnds DEF CloseSession, EngineInv, IntervalsTypeOK
    <3> QED BY <2>4, <2>12, <3>1 DEF BeginStop
  <2>13. CASE Part \/ Crash
    BY <2>1, <2>4, <2>13 DEF Part, Crash, Drop, database
  <2>14. ASSUME NEW a \in Activity, NEW additive \in BOOLEAN, ActivateActivity(a, additive)
         PROVE  Whole
    <3>1. CASE Standing(a) = {} /\ OpenActivity(a, additive)
      BY <2>2, <3>1, ActivityDeclares DEF OpenActivity
    <3> QED BY <2>3, <2>4, <2>14, <3>1 DEF ActivateActivity
  <2>15. ASSUME NEW a, DeactivateActivity(a) PROVE Whole
    BY <2>3, <2>4, <2>15 DEF DeactivateActivity
  <2>16. ASSUME NEW p \in MaybeBoost, SetSkillBoost(p) PROVE Whole
    <3> DEFINE d == [kind |-> "modifier", subject |-> p]
    <3>1. p # None => d \in Declaration /\ d.kind = "modifier"
      BY DeclarationsAreTyped, DeclaredBoost
    <3>2. \/ UNCHANGED engine
          \/ p # None /\ OpenInterval(d, {"modifier"})
          \/ CloseMatching(OpenOfKinds({"modifier"}))
      BY <2>16 DEF SetSkillBoost
    <3> HIDE DEF d
    <3> QED BY <2>3, <2>4, <2>8, <3>1, <3>2
  <2>17. CASE RecordEvent
    BY <2>1, <2>17 DEF RecordEvent, StampEvent
  <2>18. CASE \/ StartFails \/ AnnounceStart \/ Seal \/ SealFails \/ HearGain \/ RecordGain
              \/ LoseGain \/ Boot \/ RecoveryFails \/ Ready
    BY <2>4, <2>18 DEF StartFails, AnnounceStart, Seal, SealFails, HearGain, RecordGain, LoseGain,
                       Boot, RecoveryFails, Ready
  <2>19. ASSUME NEW s, RecoverOrphan(s) PROVE Whole
    BY <2>4, <2>19 DEF RecoverOrphan
  <2> HIDE DEF Whole
  <2> QED
    BY <2>5, <2>6, <2>10, <2>11, <2>12, <2>13, <2>14, <2>15, <2>16, <2>17, <2>18, <2>19
       DEF TrackerNext
<1> QED BY <1>1, LifecycleInvariant, PTL DEF TrackerSpec, StretchNeverSplit

-----------------------------------------------------------------------------
(***************************************************************************)
(* Navigation: the inductive invariant of a route.                         *)
(***************************************************************************)

StopStatus == {"active", "pending", "visited", "skipped"}
Run == [id : Nat, status : {"active", "ended", "completed"}, order : Seq(Pin), done : Seq(Pin),
        stop : UNION {[D -> StopStatus] : D \in SUBSET Pin}]
Visit == [pin : Pin, old : BOOLEAN]

\* Every stop of a run has one place in its order, and what is done was visited or skipped.
Listed(run) ==
    /\ IsInjective(run.order) /\ Range(run.order) = DOMAIN run.stop
    /\ IsInjective(run.done) /\ Range(run.done) = With(run, {"visited", "skipped"})

Book(run) == run \in Run /\ Listed(run)

NavTypeOK ==
    /\ Book(route)
    /\ pins \in SUBSET Pin /\ cooled \in SUBSET Pin /\ visits \in Seq(Visit)
    /\ proposal \in {NoProposal} \cup [run : Nat, pin : Pin]
    /\ routeLive \in BOOLEAN /\ replanning \in BOOLEAN
    /\ removing \in {NoPin} \cup (Pin \ pins) /\ skewed \in SUBSET Nat

OneActive(run) == \E a \in Pin : With(run, {"active"}) = {a}

\* What a live run claims that no undo has skewed: its stops are on the map, but for
\* the pin that is being removed, and none of them cools down; one of them is active
\* unless a replan is still to come or the removal is.
Walkable ==
    Live /\ route.id \notin skewed
    => /\ Open(route) \subseteq pins \cup {removing}
       /\ Open(route) \cap Cooling(visits) = {}
       /\ removing \notin Open(route) => Open(route) # {}
       /\ removing \notin Open(route) /\ ~replanning => OneActive(route)

\* What was visited are the stops done as visited, in the order they were done.
VisitedPins(V) == [k \in DOMAIN V |-> V[k].pin]
Follows(V, run) == VisitedPins(V) = Selected(run.done, With(run, {"visited"}))

\* The inductive invariant.
NavInv ==
    /\ NavTypeOK
    /\ Live => routeLive
    /\ Walkable
    /\ route.id > 0 /\ route.id \notin skewed => Follows(visits, route)

\* What a run's record holds.
LEMMA RunFields ==
    ASSUME NEW run, Book(run)
    PROVE  /\ run.id \in Nat /\ run.status \in {"active", "ended", "completed"}
           /\ run.order \in Seq(Pin) /\ run.done \in Seq(Pin)
           /\ DOMAIN run.stop \in SUBSET Pin /\ run.stop \in [DOMAIN run.stop -> StopStatus]
           /\ run = [id |-> run.id, status |-> run.status, order |-> run.order,
                     done |-> run.done, stop |-> run.stop]
           /\ IsInjective(run.order) /\ Range(run.order) = DOMAIN run.stop
           /\ IsInjective(run.done) /\ Range(run.done) = With(run, {"visited", "skipped"})
<1>1. run \in Run /\ Listed(run)
  BY DEF Book
<1>2. PICK D \in SUBSET Pin : run.stop \in [D -> StopStatus]
  BY <1>1 DEF Run
<1>3. DOMAIN run.stop \in SUBSET Pin /\ run.stop \in [DOMAIN run.stop -> StopStatus]
  BY <1>2
<1>4. /\ run.id \in Nat /\ run.status \in {"active", "ended", "completed"}
      /\ run.order \in Seq(Pin) /\ run.done \in Seq(Pin)
      /\ run = [id |-> run.id, status |-> run.status, order |-> run.order,
                done |-> run.done, stop |-> run.stop]
  BY <1>1 DEF Run
<1> QED BY <1>1, <1>3, <1>4 DEF Listed

\* Where the completed stops are.
LEMMA StopSets ==
    ASSUME NEW run, Book(run)
    PROVE  /\ Open(run) \in SUBSET Pin /\ Open(run) \cap Range(run.done) = {}
           /\ Open(run) \cup Range(run.done) = DOMAIN run.stop
           /\ With(run, {"visited"}) \subseteq Range(run.done)
           /\ With(run, {"active"}) \subseteq Open(run) /\ With(run, {"pending"}) \subseteq Open(run)
<1>1. DOMAIN run.stop \in SUBSET Pin /\ run.stop \in [DOMAIN run.stop -> StopStatus]
      /\ Range(run.done) = With(run, {"visited", "skipped"})
  BY RunFields
<1> QED BY <1>1 DEF Open, With, StopStatus

\* A run of the parts of another with other stops.
Parts(run, D) ==
    /\ run.id \in Nat /\ run.status \in {"active", "ended", "completed"}
    /\ run.order \in Seq(Pin) /\ run.done \in Seq(Pin)
    /\ D \in SUBSET Pin /\ run.stop \in [D -> StopStatus]
    /\ IsInjective(run.order) /\ Range(run.order) = D
    /\ IsInjective(run.done) /\ Range(run.done) = {p \in D : run.stop[p] \in {"visited", "skipped"}}
    /\ run = [id |-> run.id, status |-> run.status, order |-> run.order,
              done |-> run.done, stop |-> run.stop]

\* A record with these parts is the book of a run.
LEMMA BookOf ==
    ASSUME NEW r, NEW D, Parts(r, D)
    PROVE  Book(r)
<1>1. r.stop \in UNION {[X -> StopStatus] : X \in SUBSET Pin}
  BY DEF Parts
<1>2. r \in Run
  <2>1. /\ r.id \in Nat /\ r.status \in {"active", "ended", "completed"}
        /\ r.order \in Seq(Pin) /\ r.done \in Seq(Pin)
        /\ r = [id |-> r.id, status |-> r.status, order |-> r.order, done |-> r.done, stop |-> r.stop]
    BY DEF Parts
  <2> QED BY <1>1, <2>1 DEF Run
<1>3. DOMAIN r.stop = D
  BY DEF Parts
<1>4. Listed(r)
  BY <1>3 DEF Listed, With, Parts
<1> QED BY <1>2, <1>4 DEF Book

\* The first stop in order with a property, if there is one.
LEMMA FirstFound ==
    ASSUME NEW run, Book(run), NEW S
    PROVE  \/ FirstOf(run, S) = NoPin /\ S \cap DOMAIN run.stop = {}
           \/ FirstOf(run, S) \in S \cap DOMAIN run.stop /\ FirstOf(run, S) # NoPin
<1>1. run.order \in Seq(Pin) /\ Range(run.order) = DOMAIN run.stop /\ DOMAIN run.stop \in SUBSET Pin
  BY RunFields
<1>2. PICK found : found = Selected(run.order, S)
  OBVIOUS
<1>3. found \in Seq(Pin) /\ Range(found) = S \cap DOMAIN run.stop
  BY <1>1, <1>2, SelectedRange
<1>4. CASE found = << >>
  <2>1. Range(found) = {}
    BY <1>4 DEF Range
  <2> QED BY <1>2, <1>3, <1>4, <2>1 DEF FirstOf
<1>5. CASE found # << >>
  <2>1. 1 \in DOMAIN found /\ Head(found) = found[1]
    BY <1>3, <1>5, TakeFirst
  <2>2. Head(found) \in Range(found)
    BY <2>1 DEF Range
  <2>3. FirstOf(run, S) = Head(found)
    BY <1>2, <1>5 DEF FirstOf
  <2> QED BY <1>1, <1>3, <2>2, <2>3, PinAssumption
<1> QED BY <1>4, <1>5

\* A stop walked to or skipped is the last one done.
LEMMA CompletedRun ==
    ASSUME NEW run, Book(run), NEW p \in Open(run), NEW how \in {"visited", "skipped"},
           NEW r, r = Completed(run, p, how)
    PROVE  /\ Book(r)
           /\ r.id = run.id /\ r.status = run.status /\ r.order = run.order
           /\ r.done = Append(run.done, p) /\ p \notin Range(run.done)
           /\ DOMAIN r.stop = DOMAIN run.stop /\ r.stop[p] = how
           /\ \A q \in DOMAIN run.stop : q # p => r.stop[q] = run.stop[q]
<1>1. /\ run.id \in Nat /\ run.status \in {"active", "ended", "completed"}
      /\ run.order \in Seq(Pin) /\ run.done \in Seq(Pin)
      /\ DOMAIN run.stop \in SUBSET Pin /\ run.stop \in [DOMAIN run.stop -> StopStatus]
      /\ run = [id |-> run.id, status |-> run.status, order |-> run.order,
                done |-> run.done, stop |-> run.stop]
      /\ IsInjective(run.order) /\ Range(run.order) = DOMAIN run.stop
      /\ IsInjective(run.done) /\ Range(run.done) = With(run, {"visited", "skipped"})
  BY RunFields
<1>2. p \in Pin /\ p \notin Range(run.done) /\ p \in DOMAIN run.stop
  BY StopSets DEF Open, With
<1>3. PICK stop, done : stop = [run.stop EXCEPT ![p] = how] /\ done = Append(run.done, p)
  OBVIOUS
<1>4. r = [id |-> run.id, status |-> run.status, order |-> run.order, done |-> done, stop |-> stop]
  BY <1>1, <1>3 DEF Completed
<1>5. /\ stop \in [DOMAIN run.stop -> StopStatus] /\ stop[p] = how
      /\ \A q \in DOMAIN run.stop : q # p => stop[q] = run.stop[q]
  BY <1>1, <1>2, <1>3 DEF StopStatus
<1>6. done \in Seq(Pin) /\ Range(done) = Range(run.done) \cup {p} /\ IsInjective(done)
  BY <1>1, <1>2, <1>3, AppendRange
<1>7. Range(done) = {q \in DOMAIN run.stop : stop[q] \in {"visited", "skipped"}}
  BY <1>1, <1>2, <1>5, <1>6 DEF With
<1>8. Parts(r, DOMAIN run.stop)
  BY <1>1, <1>4, <1>5, <1>6, <1>7 DEF Parts
<1>9. Book(r)
  BY <1>8, BookOf
<1> QED BY <1>2, <1>3, <1>4, <1>5, <1>9

\* The next pending stop becomes active; without one the run is completed.
LEMMA ActivatedRun ==
    ASSUME NEW run, Book(run), NEW r, r = activate_next_or_complete(run)
    PROVE  /\ Book(r)
           /\ r.id = run.id /\ r.done = run.done /\ DOMAIN r.stop = DOMAIN run.stop
           /\ \/ r.status = "completed" /\ r.stop = run.stop
              \/ /\ r.status = run.status
                 /\ \E q \in With(run, {"pending"}) :
                        /\ r.stop[q] = "active"
                        /\ \A x \in DOMAIN run.stop : x # q => r.stop[x] = run.stop[x]
<1>1. /\ run.id \in Nat /\ run.status \in {"active", "ended", "completed"}
      /\ run.order \in Seq(Pin) /\ run.done \in Seq(Pin)
      /\ DOMAIN run.stop \in SUBSET Pin /\ run.stop \in [DOMAIN run.stop -> StopStatus]
      /\ run = [id |-> run.id, status |-> run.status, order |-> run.order,
                done |-> run.done, stop |-> run.stop]
      /\ IsInjective(run.order) /\ Range(run.order) = DOMAIN run.stop
      /\ IsInjective(run.done) /\ Range(run.done) = With(run, {"visited", "skipped"})
  BY RunFields
<1>2. PICK next : next = FirstOf(run, With(run, {"pending"}))
  OBVIOUS
<1>3. CASE next = NoPin
  <2>1. r = [run EXCEPT !.status = "completed"]
    BY <1>2, <1>3 DEF activate_next_or_complete
  <2>2. r = [id |-> run.id, status |-> "completed", order |-> run.order, done |-> run.done,
             stop |-> run.stop]
    BY <1>1, <2>1
  <2>3. Range(run.done) = {q \in DOMAIN run.stop : run.stop[q] \in {"visited", "skipped"}}
    BY <1>1 DEF With
  <2>4. Parts(r, DOMAIN run.stop)
    BY <1>1, <2>2, <2>3 DEF Parts
  <2>5. Book(r)
    BY <2>4, BookOf
  <2> QED BY <2>2, <2>5
<1>4. CASE next # NoPin
  <2>1. next \in With(run, {"pending"})
    BY <1>2, <1>4, FirstFound
  <2>2. next \in DOMAIN run.stop /\ run.stop[next] = "pending"
    BY <2>1 DEF With
  <2>3. PICK stop : stop = [run.stop EXCEPT ![next] = "active"]
    OBVIOUS
  <2>4. r = [run EXCEPT !.stop = [run.stop EXCEPT ![next] = "active"]]
    BY <1>2, <1>4 DEF activate_next_or_complete
  <2>5. r = [id |-> run.id, status |-> run.status, order |-> run.order, done |-> run.done,
             stop |-> stop]
    BY <1>1, <2>3, <2>4
  <2>6. /\ stop \in [DOMAIN run.stop -> StopStatus] /\ stop[next] = "active"
        /\ \A q \in DOMAIN run.stop : q # next => stop[q] = run.stop[q]
    BY <1>1, <2>2, <2>3 DEF StopStatus
  <2>7. Range(run.done) = {q \in DOMAIN run.stop : stop[q] \in {"visited", "skipped"}}
    BY <1>1, <2>2, <2>6 DEF With
  <2>8. Parts(r, DOMAIN run.stop)
    BY <1>1, <2>5, <2>6, <2>7 DEF Parts
  <2>9. Book(r)
    BY <2>8, BookOf
  <2> QED BY <2>1, <2>5, <2>6, <2>9
<1> QED BY <1>3, <1>4

\* What is done stays as it is.
SameProgress(r, run) ==
    /\ r.id = run.id /\ r.done = run.done
    /\ \A q \in Range(run.done) : r.stop[q] = run.stop[q]
    /\ With(r, {"visited"}) = With(run, {"visited"})

\* p is done, and nothing else has changed of what is done.
Proceeds(r, run, p, how) ==
    /\ r.id = run.id /\ r.done = Append(run.done, p) /\ p \notin Range(run.done)
    /\ r.stop[p] = how /\ \A q \in Range(run.done) : r.stop[q] = run.stop[q]
    /\ With(r, {"visited"}) = With(run, {"visited"}) \cup (IF how = "visited" THEN {p} ELSE {})

\* A stop is done and the next is activated.
LEMMA VisitedRun ==
    ASSUME NEW run, Book(run), NEW p \in Open(run), NEW how \in {"visited", "skipped"},
           NEW r, r = activate_next_or_complete(Completed(run, p, how))
    PROVE  /\ Book(r) /\ Proceeds(r, run, p, how)
           /\ Open(r) = Open(run) \ {p}
           /\ r.status \in {run.status, "completed"}
           /\ r.status # "completed" =>
                  \E q \in Open(r) : With(r, {"active"}) = (With(run, {"active"}) \ {p}) \cup {q}
<1>1. PICK c : c = Completed(run, p, how)
  OBVIOUS
<1>2. /\ Book(c)
      /\ c.id = run.id /\ c.status = run.status /\ c.order = run.order
      /\ c.done = Append(run.done, p) /\ p \notin Range(run.done)
      /\ DOMAIN c.stop = DOMAIN run.stop /\ c.stop[p] = how
      /\ \A q \in DOMAIN run.stop : q # p => c.stop[q] = run.stop[q]
  BY <1>1, CompletedRun
<1>3. r = activate_next_or_complete(c)
  BY <1>1
<1>4. /\ Book(r)
      /\ r.id = c.id /\ r.done = c.done /\ DOMAIN r.stop = DOMAIN c.stop
      /\ \/ r.status = "completed" /\ r.stop = c.stop
         \/ /\ r.status = c.status
            /\ \E q \in With(c, {"pending"}) :
                   /\ r.stop[q] = "active"
                   /\ \A x \in DOMAIN c.stop : x # q => r.stop[x] = c.stop[x]
  BY <1>2, <1>3, ActivatedRun
<1>5. Range(run.done) = With(run, {"visited", "skipped"})
  BY RunFields
<1>6. p \in DOMAIN run.stop /\ run.stop[p] \in {"active", "pending"}
  BY DEF Open, With
<1>7. CASE r.status = "completed" /\ r.stop = c.stop
  BY <1>2, <1>4, <1>5, <1>6, <1>7 DEF Proceeds, Open, With
<1>8. ASSUME r.status = c.status, NEW q \in With(c, {"pending"}), r.stop[q] = "active",
             \A x \in DOMAIN c.stop : x # q => r.stop[x] = c.stop[x]
      PROVE  /\ Proceeds(r, run, p, how)
             /\ Open(r) = Open(run) \ {p}
             /\ q \in Open(r) /\ With(r, {"active"}) = (With(run, {"active"}) \ {p}) \cup {q}
  <2>1. q \in DOMAIN run.stop /\ c.stop[q] = "pending" /\ q # p /\ run.stop[q] = "pending"
    BY <1>2, <1>8 DEF With
  <2>2. /\ DOMAIN r.stop = DOMAIN run.stop /\ r.stop[p] = how /\ r.stop[q] = "active"
        /\ \A x \in DOMAIN run.stop : x # p /\ x # q => r.stop[x] = run.stop[x]
    BY <1>2, <1>4, <1>6, <1>8, <2>1
  <2>3. Proceeds(r, run, p, how)
    BY <1>2, <1>4, <1>5, <1>6, <2>1, <2>2 DEF Proceeds, With
  <2>4. Open(r) = Open(run) \ {p}
    BY <1>6, <2>1, <2>2 DEF Open, With
  <2>5. With(r, {"active"}) = (With(run, {"active"}) \ {p}) \cup {q}
    BY <1>6, <2>1, <2>2 DEF With
  <2>6. q \in Open(r)
    BY <2>1, <2>2 DEF Open, With
  <2> QED BY <2>3, <2>4, <2>5, <2>6
<1> QED BY <1>2, <1>4, <1>7, <1>8

\* Whatever order the open stops get, they are the same stops and one of them is active.
LEMMA PlannedRun ==
    ASSUME NEW run, Book(run), Targets(run) # {}, NEW r \in replan_locked(run)
    PROVE  /\ Book(r) /\ SameProgress(r, run) /\ r.status = run.status
           /\ Open(r) = Open(run)
           /\ Open(run) \subseteq pins => OneActive(r)
<1>1. /\ run.id \in Nat /\ run.status \in {"active", "ended", "completed"}
      /\ run.order \in Seq(Pin) /\ run.done \in Seq(Pin)
      /\ DOMAIN run.stop \in SUBSET Pin /\ run.stop \in [DOMAIN run.stop -> StopStatus]
      /\ run = [id |-> run.id, status |-> run.status, order |-> run.order,
                done |-> run.done, stop |-> run.stop]
      /\ IsInjective(run.order) /\ Range(run.order) = DOMAIN run.stop
      /\ IsInjective(run.done) /\ Range(run.done) = With(run, {"visited", "skipped"})
  BY RunFields
<1>2. PICK T : T = Targets(run)
  OBVIOUS
<1>3. T \in SUBSET Pin /\ T # {} /\ T \subseteq Open(run) /\ T \cap Range(run.done) = {}
      /\ T \subseteq DOMAIN run.stop
  BY <1>2, StopSets DEF Targets
<1>4. IsFiniteSet(T)
  BY <1>3, PinAssumption, FS_Subset
<1>5. PICK planned : planned \in SetToSeqs(T) /\ r = Replanned(run, planned)
  BY <1>2 DEF replan_locked
<1>6. planned \in Seq(T) /\ IsInjective(planned) /\ Range(planned) = T /\ planned # << >>
  <2>1. /\ planned \in [1 .. Cardinality(T) -> T]
        /\ \A i, j \in 1 .. Cardinality(T) : i # j => planned[i] # planned[j]
    BY <1>5 DEF SetToSeqs
  <2> QED BY <1>3, <1>4, <2>1, SequencesOfSet
<1>7. PICK h : h = Head(planned)
  OBVIOUS
<1>8. h \in T
  BY <1>6, <1>7, TakeFirst
<1>9. PICK D, left : D = DOMAIN run.stop \ (T \cup Range(run.done)) /\ left = Selected(run.order, D)
  OBVIOUS
<1>10. left \in Seq(Pin) /\ Range(left) = D /\ IsInjective(left)
  BY <1>1, <1>9, SelectedRange
<1>11. planned \in Seq(Pin)
  BY <1>3, <1>6, SeqMonotonic
<1>12. PICK first : first = run.done \o planned
  OBVIOUS
<1>o. PICK order : order = first \o left
  OBVIOUS
<1>13. first \in Seq(Pin) /\ Range(first) = Range(run.done) \cup T /\ IsInjective(first)
  BY <1>1, <1>3, <1>6, <1>11, <1>12, ConcatRange
<1>14. order \in Seq(Pin) /\ Range(order) = DOMAIN run.stop /\ IsInjective(order)
  <2>1. Range(first) \cap Range(left) = {}
    BY <1>9, <1>10, <1>13
  <2>2. order \in Seq(Pin) /\ Range(order) = Range(first) \cup Range(left) /\ IsInjective(order)
    BY <1>10, <1>13, <1>o, <2>1, ConcatRange
  <2>3. Range(run.done) \subseteq DOMAIN run.stop
    BY <1>1 DEF With
  <2> QED BY <1>3, <1>9, <1>10, <1>13, <2>2, <2>3
<1>15. PICK stop : stop = [p \in DOMAIN run.stop |-> IF p \notin T THEN run.stop[p]
                                                    ELSE IF p = h THEN "active" ELSE "pending"]
  OBVIOUS
<1>16. r = [run EXCEPT !.order = order, !.stop = stop]
  BY <1>5, <1>6, <1>7, <1>9, <1>12, <1>15, <1>o DEF Replanned
<1>17. r = [id |-> run.id, status |-> run.status, order |-> order, done |-> run.done, stop |-> stop]
  BY <1>1, <1>16
<1>18. stop \in [DOMAIN run.stop -> StopStatus]
  BY <1>1, <1>15 DEF StopStatus
<1>19. /\ \A p \in DOMAIN run.stop : p \notin T => stop[p] = run.stop[p]
       /\ stop[h] = "active"
       /\ \A p \in T : p # h => stop[p] = "pending"
       /\ \A p \in T : run.stop[p] \in {"active", "pending"}
  BY <1>3, <1>8, <1>15 DEF Open, With
<1>20. Range(run.done) = {p \in DOMAIN run.stop : stop[p] \in {"visited", "skipped"}}
  BY <1>1, <1>3, <1>19 DEF With
<1>21. Parts(r, DOMAIN run.stop)
  BY <1>1, <1>14, <1>17, <1>18, <1>20 DEF Parts
<1>22. Book(r)
  BY <1>21, BookOf
<1>23. r.stop = stop /\ r.id = run.id /\ r.done = run.done /\ r.status = run.status
  BY <1>17
<1>24. DOMAIN stop = DOMAIN run.stop
  BY <1>18
<1>25. SameProgress(r, run)
  BY <1>1, <1>3, <1>19, <1>23, <1>24 DEF SameProgress, With
<1>26. Open(r) = Open(run)
  BY <1>3, <1>19, <1>23, <1>24 DEF Open, With
<1>27. ASSUME Open(run) \subseteq pins PROVE OneActive(r)
  <2>1. T = Open(run)
    BY <1>2, <1>27 DEF Targets
  <2>2. With(r, {"active"}) = {h}
    BY <1>3, <1>8, <1>19, <1>23, <1>24, <2>1 DEF Open, With
  <2> QED BY <1>3, <1>8, <2>2 DEF OneActive
<1> QED BY <1>22, <1>23, <1>25, <1>26, <1>27

\* Replanned, or completed when nothing is in sight.
LEMMA PlannedOrComplete ==
    ASSUME NEW run, Book(run), NEW r \in replan_or_complete(run)
    PROVE  /\ Book(r) /\ SameProgress(r, run) /\ r.status \in {run.status, "completed"}
           /\ Open(r) = Open(run)
           /\ r.status # "completed" => Targets(run) # {}
           /\ r.status # "completed" /\ Open(run) \subseteq pins => OneActive(r)
<1>1. CASE Targets(run) # {}
  <2>1. r \in replan_locked(run)
    BY <1>1 DEF replan_or_complete
  <2> QED BY <1>1, <2>1, PlannedRun
<1>2. CASE Targets(run) = {}
  <2>1. r = [run EXCEPT !.status = "completed"]
    BY <1>2 DEF replan_or_complete
  <2>2. /\ run.id \in Nat /\ run.status \in {"active", "ended", "completed"}
        /\ run.order \in Seq(Pin) /\ run.done \in Seq(Pin)
        /\ DOMAIN run.stop \in SUBSET Pin /\ run.stop \in [DOMAIN run.stop -> StopStatus]
        /\ run = [id |-> run.id, status |-> run.status, order |-> run.order,
                  done |-> run.done, stop |-> run.stop]
        /\ IsInjective(run.order) /\ Range(run.order) = DOMAIN run.stop
        /\ IsInjective(run.done) /\ Range(run.done) = With(run, {"visited", "skipped"})
    BY RunFields
  <2>3. r = [id |-> run.id, status |-> "completed", order |-> run.order, done |-> run.done,
             stop |-> run.stop]
    BY <2>1, <2>2
  <2>4. Parts(r, DOMAIN run.stop)
    BY <2>2, <2>3 DEF Parts, With
  <2>5. Book(r)
    BY <2>4, BookOf
  <2>6. SameProgress(r, run) /\ Open(r) = Open(run)
    BY <2>3 DEF SameProgress, Open, With
  <2> QED BY <2>3, <2>5, <2>6
<1> QED BY <1>1, <1>2

KeptOf(run, p) == [run EXCEPT !.order = Selected(@, DOMAIN run.stop \ {p}),
                              !.stop = Restrict(@, DOMAIN @ \ {p})]

\* A run without a stop that was open.
LEMMA KeptRun ==
    ASSUME NEW run, Book(run), NEW p \in Open(run),
           NEW r, r = KeptOf(run, p)
    PROVE  /\ Book(r) /\ SameProgress(r, run) /\ r.status = run.status
           /\ Open(r) = Open(run) \ {p}
<1>1. /\ run.id \in Nat /\ run.status \in {"active", "ended", "completed"}
      /\ run.order \in Seq(Pin) /\ run.done \in Seq(Pin)
      /\ DOMAIN run.stop \in SUBSET Pin /\ run.stop \in [DOMAIN run.stop -> StopStatus]
      /\ run = [id |-> run.id, status |-> run.status, order |-> run.order,
                done |-> run.done, stop |-> run.stop]
      /\ IsInjective(run.order) /\ Range(run.order) = DOMAIN run.stop
      /\ IsInjective(run.done) /\ Range(run.done) = With(run, {"visited", "skipped"})
  BY RunFields
<1>2. PICK D, order, stop : /\ D = DOMAIN run.stop \ {p} /\ order = Selected(run.order, D)
                            /\ stop = [q \in D |-> run.stop[q]]
  OBVIOUS
<1>3. order \in Seq(Pin) /\ Range(order) = D /\ IsInjective(order)
  BY <1>1, <1>2, SelectedRange
<1>4. stop \in [D -> StopStatus] /\ DOMAIN stop = D /\ \A q \in D : stop[q] = run.stop[q]
  BY <1>1, <1>2
<1>5. r = [id |-> run.id, status |-> run.status, order |-> order, done |-> run.done, stop |-> stop]
  <2>1. r = [run EXCEPT !.order = order, !.stop = stop]
    BY <1>2 DEF KeptOf, Restrict
  <2> QED BY <1>1, <2>1
<1>6. run.stop[p] \in {"active", "pending"}
  BY DEF Open, With
<1>7. Range(run.done) = {q \in D : stop[q] \in {"visited", "skipped"}}
  BY <1>1, <1>2, <1>4, <1>6 DEF With
<1>8. Parts(r, D)
  <2>1. D \in SUBSET Pin
    BY <1>1, <1>2
  <2> QED BY <1>1, <1>3, <1>4, <1>5, <1>7, <2>1 DEF Parts
<1>9. Book(r)
  BY <1>8, BookOf
<1>10. r.stop = stop /\ r.id = run.id /\ r.done = run.done /\ r.status = run.status
  BY <1>5
<1>11. SameProgress(r, run)
  BY <1>1, <1>2, <1>4, <1>6, <1>10 DEF SameProgress, With
<1>12. Open(r) = Open(run) \ {p}
  BY <1>2, <1>4, <1>10 DEF Open, With
<1> QED BY <1>9, <1>10, <1>11, <1>12

\* A visit more is a visited pin more.
LEMMA PinsOfVisits ==
    ASSUME NEW V \in Seq(Visit)
    PROVE  /\ VisitedPins(V) \in Seq(Pin) /\ Len(VisitedPins(V)) = Len(V)
           /\ VisitedPins(<< >>) = << >>
           /\ \A v \in Visit : VisitedPins(Append(V, v)) = Append(VisitedPins(V), v.pin)
<1>1. PICK n \in Nat : n = Len(V)
  BY LenProperties
<1>2. DOMAIN V = 1 .. n /\ \A k \in 1 .. n : V[k] \in Visit /\ V[k].pin \in Pin
  <2>1. DOMAIN V = 1 .. n /\ \A k \in 1 .. n : V[k] \in Visit
    BY <1>1, LenProperties, ElementOfSeq
  <2> QED BY <2>1 DEF Visit
<1>3. PICK P : P = VisitedPins(V)
  OBVIOUS
<1>4. P \in [1 .. n -> Pin] /\ \A k \in 1 .. n : P[k] = V[k].pin
  BY <1>2, <1>3 DEF VisitedPins
<1>5. P \in Seq(Pin)
  BY <1>4
<1>6. Len(P) = n
  BY <1>4, <1>5, LenProperties
<1>7. VisitedPins(<< >>) = << >>
  BY DEF VisitedPins
<1>8. ASSUME NEW v \in Visit PROVE VisitedPins(Append(V, v)) = Append(P, v.pin)
  <2>0. v.pin \in Pin
    BY DEF Visit
  <2>1. PICK W, Q : W = Append(V, v) /\ Q = Append(P, v.pin)
    OBVIOUS
  <2>2. DOMAIN W = 1 .. n + 1 /\ W[n + 1] = v /\ \A k \in 1 .. n : W[k] = V[k]
    BY <1>1, <1>2, <2>1, AppendRow
  <2>3. Q \in Seq(Pin) /\ DOMAIN Q = 1 .. n + 1 /\ Q[n + 1] = v.pin /\ \A k \in 1 .. n : Q[k] = P[k]
    <3>1. DOMAIN P = 1 .. n
      BY <1>4
    <3> QED BY <1>5, <1>6, <2>0, <2>1, <3>1, AppendRow
  <2>4. \A k \in 1 .. n + 1 : k \in 1 .. n \/ k = n + 1
    OBVIOUS
  <2>5. \A k \in 1 .. n + 1 : Q[k] = W[k].pin
    BY <1>4, <2>2, <2>3, <2>4
  <2>6. PICK m \in Nat : m = n + 1
    OBVIOUS
  <2>7. Q = [k \in 1 .. m |-> Q[k]]
    <3>1. Q \in [1 .. Len(Q) -> Pin]
      BY <2>3, LenProperties
    <3> QED BY <2>3, <2>6, <3>1
  <2>8. VisitedPins(W) = [k \in 1 .. m |-> W[k].pin]
    BY <2>2, <2>6 DEF VisitedPins
  <2>9. VisitedPins(W) = Q
    BY <2>5, <2>6, <2>7, <2>8
  <2> QED BY <2>1, <2>9
<1> QED BY <1>1, <1>3, <1>5, <1>6, <1>7, <1>8

\* Without the last visit, the pins visited before.
LEMMA FrontOfVisits ==
    ASSUME NEW V \in Seq(Visit), V # << >>
    PROVE  /\ SubSeq(V, 1, Len(V) - 1) \in Seq(Visit)
           /\ \A S \in Seq(Pin), p \in Pin :
                  VisitedPins(V) = Append(S, p) => VisitedPins(SubSeq(V, 1, Len(V) - 1)) = S
<1>1. PICK F \in Seq(Visit), v \in Visit : F = SubSeq(V, 1, Len(V) - 1) /\ V = Append(F, v)
  BY FrontAndLast
<1>2. PICK P : P = VisitedPins(F)
  OBVIOUS
<1>3. VisitedPins(V) = Append(P, v.pin) /\ P \in Seq(Pin)
  BY <1>1, <1>2, PinsOfVisits
<1>4. PICK q \in Pin : q = v.pin
  BY DEF Visit
<1>5. ASSUME NEW S \in Seq(Pin), NEW p \in Pin, VisitedPins(V) = Append(S, p) PROVE P = S
  <2>1. Append(P, q) = Append(S, p)
    BY <1>3, <1>4, <1>5
  <2> QED BY <1>3, <2>1, AppendInjective
<1> QED BY <1>1, <1>2, <1>5

\* The same visits and the same progress.
LEMMA FollowsSame ==
    ASSUME NEW V, NEW run, NEW r, SameProgress(r, run), Follows(V, run)
    PROVE  Follows(V, r)
BY DEF SameProgress, Follows

\* One more visit, and one more stop done.
LEMMA FollowsVisited ==
    ASSUME NEW V \in Seq(Visit), NEW run, Book(run), NEW p \in Pin, NEW r,
           Proceeds(r, run, p, "visited"), Follows(V, run)
    PROVE  Follows(Append(V, [pin |-> p, old |-> FALSE]), r)
<1>1. PICK W : W = With(run, {"visited"})
  OBVIOUS
<1>2. run.done \in Seq(Pin) /\ r.done = Append(run.done, p) /\ p \notin Range(run.done)
      /\ With(r, {"visited"}) = W \cup {p}
  BY <1>1, RunFields DEF Proceeds
<1>3. Selected(r.done, W \cup {p}) = Append(Selected(run.done, W \cup {p}), p)
  <2>1. PICK U : U = W \cup {p}
    OBVIOUS
  <2>2. run.done \in Seq(Pin) /\ p \in U
    BY <1>2, <2>1
  <2>3. Selected(Append(run.done, p), U) = IF p \in U THEN Append(Selected(run.done, U), p)
                                                     ELSE Selected(run.done, U)
    BY <2>2, SelectedOfAppend
  <2> QED BY <1>2, <2>1, <2>2, <2>3
<1>4. Selected(run.done, W \cup {p}) = Selected(run.done, W)
  <2>1. (W \cup {p}) \cap Range(run.done) = W \cap Range(run.done)
    BY <1>2
  <2> QED BY <1>2, <2>1, SelectedSame
<1>5. VisitedPins(V) = Selected(run.done, W)
  BY <1>1 DEF Follows
<1>6. PICK v : v = [pin |-> p, old |-> FALSE]
  OBVIOUS
<1>7. v \in Visit /\ v.pin = p
  BY <1>6 DEF Visit
<1>8. VisitedPins(Append(V, v)) = Append(VisitedPins(V), p)
  BY <1>7, PinsOfVisits
<1>9. VisitedPins(Append(V, v)) = Selected(r.done, With(r, {"visited"}))
  BY <1>2, <1>3, <1>4, <1>5, <1>8
<1> QED BY <1>6, <1>9 DEF Follows

\* One more stop skipped.
LEMMA FollowsSkipped ==
    ASSUME NEW V, NEW run, Book(run), NEW p \in Pin, NEW r,
           Proceeds(r, run, p, "skipped"), Follows(V, run)
    PROVE  Follows(V, r)
<1>1. PICK W : W = With(run, {"visited"})
  OBVIOUS
<1>2. run.done \in Seq(Pin) /\ r.done = Append(run.done, p) /\ p \notin Range(run.done)
      /\ With(r, {"visited"}) = W /\ W \subseteq Range(run.done)
  BY <1>1, RunFields, StopSets DEF Proceeds
<1>3. Selected(r.done, W) = Selected(run.done, W)
  BY <1>2, SelectedOfAppend
<1> QED BY <1>1, <1>2, <1>3 DEF Follows

\* The last stop done is open again, and its visit is gone.
LEMMA FollowsReopened ==
    ASSUME NEW V \in Seq(Visit), NEW run, Book(run), NEW D \in Seq(Pin), NEW p \in Pin,
           run.done = Append(D, p), p \notin Range(D), Follows(V, run),
           NEW r, r.done = D, With(r, {"visited"}) = With(run, {"visited"}) \ {p}
    PROVE  /\ run.stop[p] = "visited" => V # << >> /\ Follows(SubSeq(V, 1, Len(V) - 1), r)
           /\ run.stop[p] # "visited" => Follows(V, r)
<1>1. PICK W, X : W = With(run, {"visited"}) /\ X = W \ {p}
  OBVIOUS
<1>2. Selected(run.done, W) = IF p \in W THEN Append(Selected(D, W), p) ELSE Selected(D, W)
  BY SelectedOfAppend
<1>3. Selected(D, W) = Selected(D, X)
  <2>1. W \cap Range(D) = X \cap Range(D)
    BY <1>1
  <2> QED BY <2>1, SelectedSame
<1>4. VisitedPins(V) = Selected(run.done, W)
  BY <1>1 DEF Follows
<1>5. p \in DOMAIN run.stop
  <2>1. p \in Range(run.done)
    BY AppendRange
  <2>2. Range(run.done) = With(run, {"visited", "skipped"})
    BY RunFields
  <2> QED BY <2>1, <2>2 DEF With
<1>6. p \in W <=> run.stop[p] = "visited"
  BY <1>1, <1>5 DEF With
<1>7. ASSUME run.stop[p] # "visited" PROVE Follows(V, r)
  BY <1>1, <1>2, <1>3, <1>4, <1>6, <1>7 DEF Follows
<1>8. ASSUME run.stop[p] = "visited" PROVE V # << >> /\ Follows(SubSeq(V, 1, Len(V) - 1), r)
  <2>1. PICK S : S = Selected(D, W)
    OBVIOUS
  <2>2. S \in Seq(Pin)
    BY <2>1, SelectedRange
  <2>3. VisitedPins(V) = Append(S, p)
    BY <1>2, <1>4, <1>6, <1>8, <2>1
  <2>4. V # << >>
    <3>1. Append(S, p) # << >>
      BY <2>2, AppendRange
    <3>2. VisitedPins(<< >>) = << >>
      BY PinsOfVisits
    <3> QED BY <2>3, <3>1, <3>2
  <2>5. VisitedPins(SubSeq(V, 1, Len(V) - 1)) = S
    BY <2>2, <2>3, <2>4, FrontOfVisits
  <2>6. Follows(SubSeq(V, 1, Len(V) - 1), r)
    BY <1>1, <1>3, <2>1, <2>5 DEF Follows
  <2> QED BY <2>4, <2>6
<1> QED BY <1>7, <1>8

\* A stop done, without activating another.
LEMMA DoneRun ==
    ASSUME NEW run, Book(run), NEW p \in Open(run), NEW how \in {"visited", "skipped"},
           NEW r, r = Completed(run, p, how)
    PROVE  /\ Book(r) /\ Proceeds(r, run, p, how)
           /\ Open(r) = Open(run) \ {p} /\ r.status = run.status
<1>1. /\ Book(r)
      /\ r.id = run.id /\ r.status = run.status /\ r.order = run.order
      /\ r.done = Append(run.done, p) /\ p \notin Range(run.done)
      /\ DOMAIN r.stop = DOMAIN run.stop /\ r.stop[p] = how
      /\ \A q \in DOMAIN run.stop : q # p => r.stop[q] = run.stop[q]
  BY CompletedRun
<1>2. Range(run.done) = With(run, {"visited", "skipped"})
  BY RunFields
<1>3. p \in DOMAIN run.stop /\ run.stop[p] \in {"active", "pending"}
  BY DEF Open, With
<1>4. Proceeds(r, run, p, how)
  BY <1>1, <1>2, <1>3 DEF Proceeds, With
<1>5. Open(r) = Open(run) \ {p}
  BY <1>1, <1>3 DEF Open, With
<1> QED BY <1>1, <1>4, <1>5

\* The last stop done is the active one again.
ReopenedOf(run, p) ==
    [run EXCEPT !.status = "active", !.done = Front(@),
                !.stop = [q \in DOMAIN @ |-> IF q = p THEN "active"
                                             ELSE IF @[q] = "active" THEN "pending"
                                             ELSE @[q]]]

Reopens(r, run) ==
    /\ Book(r) /\ r.id = run.id /\ r.status = "active"
    /\ r.done = Front(run.done) /\ r.done \in Seq(Pin) /\ Last(run.done) \in Pin
    /\ run.done = Append(r.done, Last(run.done)) /\ Last(run.done) \notin Range(r.done)
    /\ Last(run.done) \in Open(r) /\ With(r, {"active"}) = {Last(run.done)}
    /\ With(r, {"visited"}) = With(run, {"visited"}) \ {Last(run.done)}
    /\ r.stop[Last(run.done)] = "active"
    /\ \A q \in Range(r.done) : r.stop[q] = run.stop[q]

\* Undo reopens the stop done last.
LEMMA ReopenedRun ==
    ASSUME NEW run, Book(run), run.done # << >>, NEW r, r = ReopenedOf(run, Last(run.done))
    PROVE  Reopens(r, run)
<1>1. /\ run.id \in Nat /\ run.status \in {"active", "ended", "completed"}
      /\ run.order \in Seq(Pin) /\ run.done \in Seq(Pin)
      /\ DOMAIN run.stop \in SUBSET Pin /\ run.stop \in [DOMAIN run.stop -> StopStatus]
      /\ run = [id |-> run.id, status |-> run.status, order |-> run.order,
                done |-> run.done, stop |-> run.stop]
      /\ IsInjective(run.order) /\ Range(run.order) = DOMAIN run.stop
      /\ IsInjective(run.done) /\ Range(run.done) = With(run, {"visited", "skipped"})
  BY RunFields
<1>2. PICK D \in Seq(Pin), p \in Pin :
          /\ D = SubSeq(run.done, 1, Len(run.done) - 1) /\ p = run.done[Len(run.done)]
          /\ run.done = Append(D, p) /\ Range(run.done) = Range(D) \cup {p}
          /\ (IsInjective(run.done) => IsInjective(D) /\ p \notin Range(D))
  <2>1. PICK done : done = run.done
    OBVIOUS
  <2>2. done \in Seq(Pin) /\ done # << >>
    BY <1>1, <2>1
  <2>3. \E D \in Seq(Pin), p \in Pin :
            /\ D = SubSeq(done, 1, Len(done) - 1) /\ p = done[Len(done)]
            /\ done = Append(D, p) /\ Range(done) = Range(D) \cup {p}
            /\ (IsInjective(done) => IsInjective(D) /\ p \notin Range(D))
    BY <2>2, FrontAndLast
  <2> QED BY Zenon, <2>1, <2>3
<1>3. D = Front(run.done) /\ p = Last(run.done) /\ IsInjective(D) /\ p \notin Range(D)
  BY <1>1, <1>2 DEF Front, Last
<1>4. p \in DOMAIN run.stop /\ run.stop[p] \in {"visited", "skipped"}
  BY <1>1, <1>2 DEF With
<1>5. PICK stop : stop = [q \in DOMAIN run.stop |-> IF q = p THEN "active"
                                                   ELSE IF run.stop[q] = "active" THEN "pending"
                                                   ELSE run.stop[q]]
  OBVIOUS
<1>6. r = [id |-> run.id, status |-> "active", order |-> run.order, done |-> D, stop |-> stop]
  <2>1. r = [run EXCEPT !.status = "active", !.done = D, !.stop = stop]
    BY <1>3, <1>5 DEF ReopenedOf
  <2> QED BY <1>1, <2>1
<1>7. stop \in [DOMAIN run.stop -> StopStatus] /\ DOMAIN stop = DOMAIN run.stop
  BY <1>1, <1>5 DEF StopStatus
<1>8. /\ stop[p] = "active"
      /\ \A q \in DOMAIN run.stop : q # p =>
             /\ stop[q] # "active"
             /\ run.stop[q] \in {"visited", "skipped"} => stop[q] = run.stop[q]
             /\ stop[q] \in {"visited", "skipped"} => stop[q] = run.stop[q]
  BY <1>4, <1>5
<1>9. Range(D) = With(run, {"visited", "skipped"}) \ {p}
  BY <1>1, <1>2, <1>3
<1>10. Range(D) = {q \in DOMAIN run.stop : stop[q] \in {"visited", "skipped"}}
  <2>1. \A q \in DOMAIN run.stop : q # p =>
            (stop[q] \in {"visited", "skipped"} <=> run.stop[q] \in {"visited", "skipped"})
    BY <1>8
  <2>2. stop[p] \notin {"visited", "skipped"}
    BY <1>8
  <2> QED BY <1>9, <2>1, <2>2 DEF With
<1>11. r.id = run.id /\ r.status = "active" /\ r.order = run.order /\ r.done = D /\ r.stop = stop
  BY <1>6
<1>12. Book(r)
  <2>1. Parts(r, DOMAIN run.stop)
    BY <1>1, <1>3, <1>6, <1>7, <1>10, <1>11 DEF Parts
  <2> QED BY <2>1, BookOf
<1>13. With(r, {"active"}) = {p} /\ p \in Open(r)
  BY <1>4, <1>7, <1>8, <1>11 DEF Open, With
<1>14. With(r, {"visited"}) = With(run, {"visited"}) \ {p}
  <2>1. \A q \in DOMAIN run.stop : q # p => (stop[q] = "visited" <=> run.stop[q] = "visited")
    BY <1>8
  <2>2. stop[p] # "visited"
    BY <1>8
  <2> QED BY <1>7, <1>11, <2>1, <2>2 DEF With
<1>15. \A q \in Range(D) : stop[q] = run.stop[q]
  BY <1>8, <1>9 DEF With
<1> QED BY <1>2, <1>3, <1>8, <1>11, <1>12, <1>13, <1>14, <1>15 DEF Reopens

\* A new run.
StartedOf(id, S, planned) ==
    [id |-> id, status |-> "active", order |-> planned, done |-> << >>,
     stop |-> [p \in S |-> IF p = Head(planned) THEN "active" ELSE "pending"]]

\* A run that starts has its stops once each, none of them done.
LEMMA StartedRun ==
    ASSUME NEW id \in Nat, NEW S \in SUBSET Pin, S # {}, NEW planned \in SetToSeqs(S),
           NEW r, r = StartedOf(id, S, planned)
    PROVE  Book(r) /\ r.id = id /\ Open(r) = S /\ OneActive(r) /\ Follows(<< >>, r)
<1>1. IsFiniteSet(S)
  BY PinAssumption, FS_Subset
<1>2. planned \in Seq(S) /\ IsInjective(planned) /\ Range(planned) = S /\ planned # << >>
  <2>1. /\ planned \in [1 .. Cardinality(S) -> S]
        /\ \A i, j \in 1 .. Cardinality(S) : i # j => planned[i] # planned[j]
    BY DEF SetToSeqs
  <2> QED BY <1>1, <2>1, SequencesOfSet
<1>3. PICK h : h = Head(planned)
  OBVIOUS
<1>4. h \in S /\ planned \in Seq(Pin)
  BY <1>2, <1>3, TakeFirst, SeqMonotonic
<1>5. PICK stop : stop = [p \in S |-> IF p = h THEN "active" ELSE "pending"]
  OBVIOUS
<1>6. r = [id |-> id, status |-> "active", order |-> planned, done |-> << >>, stop |-> stop]
  BY <1>3, <1>5 DEF StartedOf
<1>7. r.id = id /\ r.status = "active" /\ r.order = planned /\ r.done = << >> /\ r.stop = stop
  BY <1>6
<1>8. /\ stop \in [S -> StopStatus] /\ DOMAIN stop = S /\ stop[h] = "active"
      /\ \A p \in S : p # h => stop[p] = "pending"
  BY <1>4, <1>5 DEF StopStatus
<1>9. Range(<< >>) = {} /\ IsInjective(<< >>) /\ << >> \in Seq(Pin)
  BY DEF Range, IsInjective
<1>10. {p \in S : stop[p] \in {"visited", "skipped"}} = {}
  BY <1>8
<1>11. Book(r)
  <2>1. Parts(r, S)
    BY <1>2, <1>4, <1>6, <1>7, <1>8, <1>9, <1>10 DEF Parts
  <2> QED BY <2>1, BookOf
<1>12. Open(r) = S /\ With(r, {"active"}) = {h}
  BY <1>4, <1>7, <1>8 DEF Open, With
<1>13. OneActive(r)
  BY <1>4, <1>12 DEF OneActive
<1>14. Follows(<< >>, r)
  <2>1. Selected(r.done, With(r, {"visited"})) = << >>
    BY <1>7, SelectedOfEmpty
  <2>2. VisitedPins(<< >>) = << >>
    BY DEF VisitedPins
  <2> QED BY <2>1, <2>2 DEF Follows
<1> QED BY <1>7, <1>11, <1>12, <1>13, <1>14

\* What a step may do to what is done.
Moved ==
    \/ route'.id # route.id
    \/ SameProgress(route', route)
    \/ \E p \in Pin, how \in {"visited", "skipped"} : Proceeds(route', route, p, how)
    \/ /\ route.done # << >> /\ route'.done = Front(route.done)
       /\ \A p \in Range(route'.done) : route'.stop[p] = route.stop[p]
       /\ Live' /\ route'.stop[Last(route.done)] = "active"

LEMMA NavFacts ==
    ASSUME NavInv
    PROVE  /\ Book(route) /\ route.id \in Nat
           /\ pins \in SUBSET Pin /\ cooled \in SUBSET Pin /\ visits \in Seq(Visit)
           /\ removing \notin pins
           /\ Open(route) \in SUBSET Pin /\ NoPin \notin Pin
BY StopSets, RunFields, PinAssumption DEF NavInv, NavTypeOK

LEMMA SameRunStays ==
    ASSUME NEW run, Book(run) PROVE SameProgress(run, run)
BY DEF SameProgress

\* The route is the run it was, whatever its status: what is done stays.
LEMMA RouteStays ==
    ASSUME NavInv, route' = route PROVE Book(route') /\ Moved
BY SameRunStays DEF NavInv, NavTypeOK, Moved

\* A visit puts its pin on cooldown.
LEMMA CoolingOfVisit ==
    ASSUME NEW V \in Seq(Visit), NEW p \in Pin
    PROVE  /\ Append(V, [pin |-> p, old |-> FALSE]) \in Seq(Visit)
           /\ Recent(Append(V, [pin |-> p, old |-> FALSE])) = Recent(V) \cup {p}
<1>1. PICK v, W : v = [pin |-> p, old |-> FALSE] /\ W = Append(V, v)
  OBVIOUS
<1>2. v \in Visit /\ v.pin = p /\ ~v.old
  BY <1>1 DEF Visit
<1>3. /\ W \in Seq(Visit) /\ DOMAIN V = 1 .. Len(V) /\ DOMAIN W = 1 .. Len(V) + 1
      /\ W[Len(V) + 1] = v /\ \A i \in DOMAIN V : W[i] = V[i]
      /\ Len(V) \in Nat
  BY <1>1, <1>2, AppendRow
<1>4. \A i \in DOMAIN W : i \in DOMAIN V \/ i = Len(V) + 1
  BY <1>3
<1>5. Len(V) + 1 \in DOMAIN W /\ \A i \in DOMAIN V : i \in DOMAIN W
  BY <1>3
<1>6. Recent(W) = Recent(V) \cup {p}
  BY <1>2, <1>3, <1>4, <1>5 DEF Recent
<1> QED BY <1>1, <1>3, <1>6

\* Nothing of the route changes but what is beside it.
StepTypes ==
    /\ pins' \in SUBSET Pin /\ cooled' \in SUBSET Pin
    /\ proposal' \in {NoProposal} \cup [run : Nat, pin : Pin]
    /\ routeLive' \in BOOLEAN /\ replanning' \in BOOLEAN
    /\ removing' \in {NoPin} \cup (Pin \ pins') /\ skewed' \in SUBSET Nat

\* A stop in sight is done and the next activated.  While a replan is still to come
\* the stop may be any; otherwise it is the active one.
StopDone(p, how) ==
    /\ Live /\ p \in Open(route) \cap pins
    /\ route' = activate_next_or_complete(Completed(route, p, how))
    /\ ~replanning' => ~replanning /\ p \in With(route, {"active"})
    /\ route'.status # "completed" /\ routeLive => routeLive'
    /\ visits' = IF how = "visited" THEN Append(visits, [pin |-> p, old |-> FALSE]) ELSE visits
    /\ UNCHANGED <<pins, cooled, removing, skewed>>

\* A stop done in whatever way keeps the invariant.
LEMMA StopDoneStep ==
    ASSUME NavInv, StepTypes, NEW p, NEW how \in {"visited", "skipped"}, StopDone(p, how)
    PROVE  NavInv' /\ Moved
<1>1. /\ Book(route) /\ route.id \in Nat
      /\ pins \in SUBSET Pin /\ cooled \in SUBSET Pin /\ visits \in Seq(Visit)
      /\ removing \notin pins /\ Open(route) \in SUBSET Pin
  BY NavFacts
<1>2. p \in Open(route) /\ p \in pins /\ p \in Pin /\ p # removing
  BY <1>1 DEF StopDone
<1>3. PICK r : r = route'
  OBVIOUS
<1>4. /\ Book(r) /\ Proceeds(r, route, p, how)
      /\ Open(r) = Open(route) \ {p}
      /\ r.status \in {route.status, "completed"}
      /\ r.status # "completed" =>
             \E q \in Open(r) : With(r, {"active"}) = (With(route, {"active"}) \ {p}) \cup {q}
  <2>1. r = activate_next_or_complete(Completed(route, p, how))
    BY <1>3 DEF StopDone
  <2> QED BY <1>1, <1>2, <2>1, VisitedRun
<1>5. r.id = route.id
  BY <1>4 DEF Proceeds
<1>6. visits' \in Seq(Visit) /\ Recent(visits') \subseteq Recent(visits) \cup {p}
  BY <1>1, <1>2, CoolingOfVisit DEF StopDone
<1>7. NavTypeOK'
  BY <1>3, <1>4, <1>6 DEF NavTypeOK, StepTypes, Book, Run, Listed, With
<1>8. Live' => routeLive' /\ Live
  BY <1>3 DEF NavInv, StopDone, Live
<1>9. Walkable'
  <2> SUFFICES ASSUME Live', r.id \notin skewed'
               PROVE  /\ Open(r) \subseteq pins' \cup {removing'}
                      /\ Open(r) \cap Cooling(visits)' = {}
                      /\ removing' \notin Open(r) => Open(r) # {}
                      /\ removing' \notin Open(r) /\ ~replanning' => OneActive(r)
    BY <1>3 DEF Walkable, Open, OneActive, With
  <2>1. UNCHANGED <<pins, cooled, removing, skewed>>
    BY DEF StopDone
  <2>2. /\ Open(route) \subseteq pins \cup {removing}
        /\ Open(route) \cap Cooling(visits) = {}
        /\ removing \notin Open(route) /\ ~replanning => OneActive(route)
    BY <1>5, <1>8, <2>1 DEF NavInv, Walkable
  <2>3. Cooling(visits)' \subseteq Cooling(visits) \cup {p}
    BY <1>6, <2>1 DEF Cooling, Recent
  <2>4. r.status # "completed"
    BY <1>3 DEF Live
  <2>5. PICK q \in Open(r) : With(r, {"active"}) = (With(route, {"active"}) \ {p}) \cup {q}
    BY <1>4, <2>4
  <2>6. ASSUME removing' \notin Open(r), ~replanning' PROVE OneActive(r)
    <3>1. removing \notin Open(route)
      BY <1>2, <1>4, <2>1, <2>6
    <3>2. ~replanning /\ p \in With(route, {"active"})
      BY <2>6 DEF StopDone
    <3>3. PICK a \in Pin : With(route, {"active"}) = {a}
      BY <2>2, <3>1, <3>2 DEF OneActive
    <3>4. With(r, {"active"}) = {q} /\ q \in Pin
      BY <1>1, <1>4, <2>5, <3>2, <3>3
    <3> QED BY <3>4 DEF OneActive
  <2> QED BY <1>4, <2>1, <2>2, <2>3, <2>5, <2>6
<1>10. route'.id > 0 /\ route'.id \notin skewed' => Follows(visits', route')
  <2> SUFFICES ASSUME r.id > 0, r.id \notin skewed' PROVE Follows(visits', r)
    BY <1>3
  <2>1. Follows(visits, route)
    BY <1>5 DEF NavInv, StopDone
  <2>2. CASE how = "visited"
    <3>1. visits' = Append(visits, [pin |-> p, old |-> FALSE])
      BY <2>2 DEF StopDone
    <3> QED BY <1>1, <1>2, <1>4, <2>1, <2>2, <3>1, FollowsVisited
  <2>3. CASE how # "visited"
    <3>1. visits' = visits /\ how = "skipped"
      BY <2>3 DEF StopDone
    <3> QED BY <1>1, <1>2, <1>4, <2>1, <3>1, FollowsSkipped
  <2> QED BY <2>2, <2>3
<1>11. Moved
  BY <1>2, <1>3, <1>4 DEF Moved
<1> QED BY <1>7, <1>8, <1>9, <1>10, <1>11 DEF NavInv, Follows, VisitedPins, With

LEMMA ActiveStopFound ==
    ASSUME NavInv, active_stop # NoPin
    PROVE  active_stop \in With(route, {"active"}) /\ active_stop \in Open(route) \cap pins
<1>1. Book(route)
  BY NavFacts
<1>2. active_stop \in With(route, {"active"}) \cap pins
  BY <1>1, FirstFound DEF active_stop
<1> QED BY <1>1, <1>2, StopSets

\* The route and its visits stay; of what is beside them only what is named may change.
BesideRoute ==
    /\ route' = route /\ visits' = visits /\ skewed' = skewed
    /\ Live => routeLive'
    /\ Live /\ route.id \notin skewed =>
           /\ Open(route) \subseteq pins' \cup {removing'}
           /\ Open(route) \cap cooled' = {}
           /\ removing' \notin Open(route) => removing \notin Open(route)
           /\ replanning' = replanning

\* A step beside the route keeps what is said of it.
LEMMA BesideRouteStep ==
    ASSUME NavInv, StepTypes, BesideRoute
    PROVE  NavInv' /\ Moved
<1>1. NavTypeOK'
  BY DEF NavInv, NavTypeOK, StepTypes, BesideRoute, Book, Listed, With
<1>2. Live' <=> Live
  BY DEF BesideRoute, Live
<1>3. Walkable'
  <2> SUFFICES ASSUME Live, route.id \notin skewed
               PROVE  /\ Open(route) \subseteq pins' \cup {removing'}
                      /\ Open(route) \cap Cooling(visits)' = {}
                      /\ removing' \notin Open(route) => Open(route) # {}
                      /\ removing' \notin Open(route) /\ ~replanning' => OneActive(route)
    BY <1>2 DEF Walkable, Open, OneActive, With, BesideRoute
  <2>1. /\ Open(route) \cap Cooling(visits) = {}
        /\ removing \notin Open(route) => Open(route) # {}
        /\ removing \notin Open(route) /\ ~replanning => OneActive(route)
    BY DEF NavInv, Walkable
  <2>2. Cooling(visits)' \subseteq Cooling(visits) \cup cooled'
    BY DEF Cooling, Recent, BesideRoute
  <2> QED BY <2>1, <2>2 DEF BesideRoute
<1>4. route'.id > 0 /\ route'.id \notin skewed' => Follows(visits', route')
  BY DEF NavInv, BesideRoute
<1>5. Moved
  BY RouteStays DEF BesideRoute
<1> QED BY <1>1, <1>2, <1>3, <1>4, <1>5 DEF NavInv, Follows, VisitedPins, With, BesideRoute

LEMMA TypesNow == ASSUME NavInv PROVE
    /\ pins \in SUBSET Pin /\ cooled \in SUBSET Pin
    /\ proposal \in {NoProposal} \cup [run : Nat, pin : Pin]
    /\ routeLive \in BOOLEAN /\ replanning \in BOOLEAN
    /\ removing \in {NoPin} \cup (Pin \ pins) /\ skewed \in SUBSET Nat
BY DEF NavInv, NavTypeOK

LEMMA ActiveDoneStep ==
    ASSUME NavInv, StepTypes, Idle, Live, active_stop # NoPin, NEW how \in {"visited", "skipped"},
           Land(activate_next_or_complete(Completed(route, active_stop, how))),
           visits' = IF how = "visited" THEN Append(visits, [pin |-> active_stop, old |-> FALSE]) ELSE visits,
           UNCHANGED <<pins, cooled, removing, skewed>>
    PROVE  NavInv' /\ Moved
<1>1. active_stop \in With(route, {"active"}) /\ active_stop \in Open(route) \cap pins
  BY ActiveStopFound
<1>2. PICK p : p = active_stop
  OBVIOUS
<1>3. StopDone(p, how)
  BY <1>1, <1>2 DEF StopDone, Land, Idle
<1> QED BY <1>3, StopDoneStep

LEMMA MarkVisitedStep == ASSUME NavInv, mark_visited PROVE NavInv' /\ Moved
<1>1. StepTypes
  BY TypesNow DEF mark_visited, StepTypes, Land
<1>2. /\ Idle /\ Live /\ active_stop # NoPin /\ UNCHANGED <<pins, cooled, removing, skewed>>
      /\ Land(activate_next_or_complete(Completed(route, active_stop, "visited")))
      /\ visits' = Append(visits, [pin |-> active_stop, old |-> FALSE])
  BY DEF mark_visited, Record, Visited
<1> QED BY <1>1, <1>2, ActiveDoneStep

LEMMA SkipStep == ASSUME NavInv, skip PROVE NavInv' /\ Moved
<1>1. StepTypes
  BY TypesNow DEF skip, StepTypes, Land
<1>2. /\ Idle /\ Live /\ active_stop # NoPin /\ UNCHANGED <<pins, cooled, removing, skewed>>
      /\ Land(activate_next_or_complete(Completed(route, active_stop, "skipped")))
      /\ visits' = visits
  BY DEF skip
<1> QED BY <1>1, <1>2, ActiveDoneStep

LEMMA AttachStep == ASSUME NavInv, attach_pending_harvest PROVE NavInv' /\ Moved
<1>1. StepTypes
  BY TypesNow DEF attach_pending_harvest, StepTypes
<1>2. BesideRoute
  BY DEF attach_pending_harvest, BesideRoute, NavInv, Walkable, Cooling
<1> QED BY <1>1, <1>2, BesideRouteStep

LEMMA ResolveStep ==
    ASSUME NavInv, NEW confirm \in BOOLEAN, resolve_harvest(confirm) PROVE NavInv' /\ Moved
<1>1. StepTypes
  BY TypesNow DEF resolve_harvest, StepTypes, Land
<1>2. CASE confirm /\ Live /\ proposal = [run |-> route.id, pin |-> active_stop]
  <2>1. /\ Idle /\ UNCHANGED <<pins, cooled, removing, skewed>>
        /\ Land(activate_next_or_complete(Completed(route, active_stop, "visited")))
        /\ visits' = Append(visits, [pin |-> active_stop, old |-> FALSE])
    BY <1>2 DEF resolve_harvest, Record, Visited
  <2>2. active_stop # NoPin
    <3>1. proposal \in [run : Nat, pin : Pin]
      BY TypesNow DEF resolve_harvest
    <3> QED BY <1>2, <3>1, NavFacts
  <2> QED BY <1>1, <1>2, <2>1, <2>2, ActiveDoneStep
<1>3. CASE ~(confirm /\ Live /\ proposal = [run |-> route.id, pin |-> active_stop])
  <2>1. BesideRoute
    BY <1>3 DEF resolve_harvest, BesideRoute, NavInv, Walkable, Cooling
  <2> QED BY <1>1, <2>1, BesideRouteStep
<1> QED BY <1>2, <1>3

LEMMA HarvestStep ==
    ASSUME NavInv, NEW near \in SUBSET pins, on_harvest(near) PROVE NavInv' /\ Moved
<1>0. Idle /\ routeLive /\ Live /\ UNCHANGED <<pins, cooled, removing, skewed>>
  BY DEF on_harvest
<1>f. near \in SUBSET Pin /\ NoPin \notin Pin
  BY NavFacts
<1>1. CASE HarvestAtActive(near)
  <2>1. StepTypes
    BY <1>0, <1>1, TypesNow DEF HarvestAtActive, StepTypes, Land
  <2>2. active_stop # NoPin
    BY <1>1, <1>f DEF HarvestAtActive
  <2>3. /\ Land(activate_next_or_complete(Completed(route, active_stop, "visited")))
        /\ visits' = Append(visits, [pin |-> active_stop, old |-> FALSE])
    BY <1>1 DEF HarvestAtActive, Record, Visited
  <2> QED BY <1>0, <2>1, <2>2, <2>3, ActiveDoneStep
<1>2. CASE HarvestOutOfOrder(near)
  <2>1. StepTypes
    BY <1>0, <1>2, TypesNow DEF HarvestOutOfOrder, StepTypes
  <2>2. PICK p \in Targets(route) : Record(p) /\ route' = Visited(p)
    BY <1>2 DEF HarvestOutOfOrder
  <2>3. StopDone(p, "visited")
    BY <1>0, <1>2, <2>2 DEF StopDone, HarvestOutOfOrder, Record, Visited, Targets
  <2> QED BY <2>1, <2>3, StopDoneStep
<1>3. CASE HarvestFar(near)
  <2>1. StepTypes
    <3>1. active_stop \in Pin
      BY <1>3, ActiveStopFound, NavFacts DEF HarvestFar
    <3>2. proposal' \in {NoProposal} \cup [run : Nat, pin : Pin]
      BY <1>3, <3>1, NavFacts DEF HarvestFar
    <3> QED BY <1>0, <1>3, <3>2, TypesNow DEF HarvestFar, StepTypes
  <2>2. BesideRoute
    BY <1>0, <1>3 DEF HarvestFar, BesideRoute, NavInv, Walkable, Cooling
  <2> QED BY <2>1, <2>2, BesideRouteStep
<1> QED BY <1>1, <1>2, <1>3 DEF on_harvest

LEMMA DeletePinStep == ASSUME NavInv, NEW p \in Pin, DeletePin(p) PROVE NavInv' /\ Moved
<1>1. StepTypes
  BY TypesNow DEF DeletePin, StepTypes
<1>2. removing = NoPin /\ NoPin \notin Open(route)
  BY NavFacts DEF DeletePin
<1>3. BesideRoute
  BY <1>2, NavFacts DEF DeletePin, BesideRoute, NavInv, Walkable, Cooling
<1> QED BY <1>1, <1>3, BesideRouteStep

LEMMA TimePassesStep == ASSUME NavInv, TimePasses PROVE NavInv' /\ Moved
<1>1. StepTypes
  BY TypesNow DEF TimePasses, StepTypes
<1>2. visits \in Seq(Visit) /\ DOMAIN visits = 1 .. Len(visits) /\ Len(visits) \in Nat
      /\ \A k \in DOMAIN visits : visits[k] \in Visit
  BY NavFacts, LenProperties, ElementOfSeq
<1>3. /\ DOMAIN visits' = DOMAIN visits
      /\ \A k \in DOMAIN visits : visits'[k] \in Visit /\ visits'[k].pin = visits[k].pin /\ visits'[k].old
  BY <1>2 DEF TimePasses, Visit
<1>4. visits' \in Seq(Visit)
  BY <1>2, <1>3 DEF TimePasses
<1>5. VisitedPins(visits') = VisitedPins(visits)
  BY <1>3 DEF VisitedPins
<1>6. Recent(visits') = {} /\ cooled' = {}
  BY <1>3 DEF Recent, TimePasses
<1>7. Cooling(visits)' = {}
  BY <1>6 DEF Cooling, Recent
<1>8. UNCHANGED <<pins, route, proposal, routeLive, replanning, removing, skewed>>
  BY DEF TimePasses
<1>9. NavTypeOK'
  BY <1>1, <1>4, <1>8 DEF NavInv, NavTypeOK, StepTypes, Book, Listed, With
<1>10. Walkable'
  BY <1>7, <1>8 DEF NavInv, Walkable, Live, Open, With, OneActive
<1>11. route'.id > 0 /\ route'.id \notin skewed' => Follows(visits', route')
  BY <1>5, <1>8 DEF NavInv, Follows
<1>12. Moved
  BY <1>8, RouteStays
<1> QED BY <1>8, <1>9, <1>10, <1>11, <1>12 DEF NavInv, Follows, VisitedPins, With, Live

\* Another run, or the run changed by a replan: what is left to show for it.
OtherRoute ==
    /\ Book(route') /\ visits' \in Seq(Visit) /\ (Live' => routeLive')
    /\ Live' /\ route'.id \notin skewed' =>
           /\ Open(route') \subseteq pins' \cup {removing'}
           /\ Open(route') \cap (cooled' \cup Recent(visits')) = {}
           /\ removing' \notin Open(route') => ~replanning' /\ OneActive(route')
    /\ route'.id > 0 /\ route'.id \notin skewed' => Follows(visits', route')

\* A step that replaces the route owes all of the invariant anew.
LEMMA OtherRouteStep == ASSUME StepTypes, OtherRoute PROVE NavInv'
<1>1. NavTypeOK'
  BY DEF NavTypeOK, StepTypes, OtherRoute, Book, Listed, With
<1>2. ASSUME Book(route'), OneActive(route') PROVE Open(route') # {}
  BY <1>2, StopSets DEF OneActive
<1>3. Walkable'
  <2> SUFFICES ASSUME Live', route'.id \notin skewed'
               PROVE  /\ Open(route') \subseteq pins' \cup {removing'}
                      /\ Open(route') \cap Cooling(visits)' = {}
                      /\ removing' \notin Open(route') => Open(route') # {}
                      /\ removing' \notin Open(route') /\ ~replanning' => OneActive(route')
    BY DEF Walkable, Open, OneActive, With
  <2>1. /\ Open(route') \subseteq pins' \cup {removing'}
        /\ Open(route') \cap (cooled' \cup Recent(visits')) = {}
        /\ removing' \notin Open(route') => ~replanning' /\ OneActive(route')
    BY DEF OtherRoute
  <2>2. Cooling(visits)' = cooled' \cup Recent(visits')
    BY DEF Cooling, Recent
  <2> QED BY <1>2, <2>1, <2>2 DEF OtherRoute
<1> QED BY <1>1, <1>3 DEF NavInv, OtherRoute, Follows, VisitedPins, With

LEMMA EndedRun ==
    ASSUME NEW run, Book(run), NEW r, r = [run EXCEPT !.status = "ended"]
    PROVE  Book(r) /\ SameProgress(r, run) /\ r.status = "ended"
<1>1. /\ run.id \in Nat /\ run.status \in {"active", "ended", "completed"}
      /\ run.order \in Seq(Pin) /\ run.done \in Seq(Pin)
      /\ DOMAIN run.stop \in SUBSET Pin /\ run.stop \in [DOMAIN run.stop -> StopStatus]
      /\ run = [id |-> run.id, status |-> run.status, order |-> run.order,
                done |-> run.done, stop |-> run.stop]
      /\ IsInjective(run.order) /\ Range(run.order) = DOMAIN run.stop
      /\ IsInjective(run.done) /\ Range(run.done) = With(run, {"visited", "skipped"})
  BY RunFields
<1>2. r = [id |-> run.id, status |-> "ended", order |-> run.order, done |-> run.done,
           stop |-> run.stop]
  BY <1>1
<1>3. Parts(r, DOMAIN run.stop)
  BY <1>1, <1>2 DEF Parts, With
<1>4. Book(r)
  BY <1>3, BookOf
<1>5. SameProgress(r, run)
  BY <1>2 DEF SameProgress, With
<1> QED BY <1>2, <1>4, <1>5

LEMMA EndedStep ==
    ASSUME NavInv, StepTypes, route' = Ended, visits' = visits, skewed' = skewed
    PROVE  NavInv' /\ Moved
<1>1. Book(route) /\ visits \in Seq(Visit)
  BY NavFacts
<1>2. Book(route') /\ SameProgress(route', route) /\ route'.status = "ended"
  BY <1>1, EndedRun DEF Ended
<1>3. route'.id > 0 /\ route'.id \notin skewed' => Follows(visits', route')
  <2> SUFFICES ASSUME route'.id > 0, route'.id \notin skewed' PROVE Follows(visits, route')
    OBVIOUS
  <2>1. Follows(visits, route)
    BY <1>2 DEF NavInv, SameProgress
  <2> QED BY <1>2, <2>1, FollowsSame
<1>4. ~Live'
  BY <1>2 DEF Live
<1>5. OtherRoute
  BY <1>1, <1>2, <1>3, <1>4 DEF OtherRoute
<1>6. NavInv'
  BY <1>5, OtherRouteStep
<1> QED BY <1>2, <1>6 DEF Moved

LEMMA EndStep == ASSUME NavInv, end PROVE NavInv' /\ Moved
<1>1. StepTypes
  BY TypesNow DEF end, StepTypes
<1> QED BY <1>1, EndedStep DEF end

LEMMA RestartStep == ASSUME NavInv, Restart PROVE NavInv' /\ Moved
<1>1. StepTypes
  BY TypesNow DEF Restart, StepTypes
<1> QED BY <1>1, EndedStep DEF Restart

LEMMA StartStep == ASSUME NavInv, NEW S \in SUBSET pins, start(S) PROVE NavInv' /\ Moved
<1>1. /\ Book(route) /\ route.id \in Nat /\ pins \in SUBSET Pin /\ cooled \in SUBSET Pin
      /\ visits \in Seq(Visit) /\ removing \notin pins
  BY NavFacts
<1>2. S \in SUBSET Pin /\ S # {} /\ S \subseteq pins \ Cooling(visits) /\ ~replanning
  BY <1>1 DEF start, Idle
<1>3. PICK planned \in SetToSeqs(S) : route' = StartedOf(route.id + 1, S, planned)
  BY DEF start, StartedOf
<1>4. Book(route') /\ route'.id = route.id + 1 /\ Open(route') = S /\ OneActive(route')
      /\ Follows(<< >>, route')
  <2>1. route.id + 1 \in Nat
    BY <1>1
  <2> QED BY <1>2, <1>3, <2>1, StartedRun
<1>5. /\ routeLive' = TRUE /\ visits' = << >> /\ cooled' = Cooling(visits)
      /\ UNCHANGED <<pins, proposal, replanning, removing, skewed>>
  BY DEF start
<1>6. Cooling(visits) \in SUBSET Pin
  <2>1. \A k \in DOMAIN visits : visits[k].pin \in Pin
    <3>1. \A k \in DOMAIN visits : visits[k] \in Visit
      BY <1>1, LenProperties, ElementOfSeq
    <3> QED BY <3>1 DEF Visit
  <2> QED BY <1>1, <2>1 DEF Cooling, Recent
<1>7. StepTypes
  BY <1>5, <1>6, TypesNow DEF StepTypes
<1>8. visits' \in Seq(Visit) /\ Recent(visits') = {}
  BY <1>5 DEF Recent
<1>9. OtherRoute
  BY <1>1, <1>2, <1>4, <1>5, <1>8 DEF OtherRoute
<1>10. NavInv'
  BY <1>7, <1>9, OtherRouteStep
<1>11. route'.id # route.id
  BY <1>1, <1>4
<1> QED BY <1>10, <1>11 DEF Moved

LEMMA ReplanStep == ASSUME NavInv, Replan PROVE NavInv' /\ Moved
<1>1. /\ Book(route) /\ visits \in Seq(Visit) /\ Open(route) \in SUBSET Pin
  BY NavFacts
<1>2. replanning /\ ~replanning' /\ replanning' \in BOOLEAN
      /\ UNCHANGED <<pins, cooled, visits, proposal, routeLive, removing, skewed>>
  BY DEF Replan
<1>3. StepTypes
  BY <1>2, TypesNow DEF StepTypes
<1>4. CASE Targets(route) = {}
  <2>1. route' = route
    BY <1>4 DEF Replan
  <2>2. ASSUME Live', route'.id \notin skewed' PROVE removing \in Open(route)
    <3>1. Open(route) \subseteq pins \cup {removing} /\ (removing \notin Open(route) => Open(route) # {})
      BY <1>2, <2>1, <2>2 DEF NavInv, Walkable, Live
    <3> QED BY <1>4, <3>1 DEF Targets
  <2>3. OtherRoute
    <3>1. Live' <=> Live
      BY <2>1 DEF Live
    <3> QED BY <1>1, <1>2, <2>1, <2>2, <3>1 DEF OtherRoute, NavInv, Walkable, Cooling
  <2> QED BY <1>3, <2>1, <2>3, OtherRouteStep, RouteStays
<1>5. CASE Targets(route) # {}
  <2>1. route' \in replan_locked(route)
    BY <1>5 DEF Replan
  <2>2. PICK r : r = route'
    OBVIOUS
  <2>3. /\ Book(r) /\ SameProgress(r, route) /\ r.status = route.status
        /\ Open(r) = Open(route)
        /\ Open(route) \subseteq pins => OneActive(r)
    BY <1>1, <1>5, <2>1, <2>2, PlannedRun
  <2>4. r.id = route.id
    BY <2>3 DEF SameProgress
  <2>5. ASSUME r.id > 0, r.id \notin skewed PROVE Follows(visits, r)
    <3>1. Follows(visits, route)
      BY <2>4, <2>5 DEF NavInv
    <3> QED BY <2>3, <3>1, FollowsSame
  <2>6. Live' <=> Live
    BY <2>2, <2>3 DEF Live
  <2>7. OtherRoute
    BY <1>1, <1>2, <2>2, <2>3, <2>4, <2>5, <2>6 DEF OtherRoute, NavInv, Walkable, Cooling
  <2>8. NavInv'
    BY <1>3, <2>7, OtherRouteStep
  <2> QED BY <2>2, <2>3, <2>8 DEF Moved
<1> QED BY <1>4, <1>5

\* What is done stays done when the rest is replanned.
LEMMA ProceedsOn ==
    ASSUME NEW run, Book(run), NEW p \in Pin, NEW how, NEW a, Proceeds(a, run, p, how),
           NEW r, SameProgress(r, a)
    PROVE  Proceeds(r, run, p, how)
<1>1. run.done \in Seq(Pin) /\ a.done = Append(run.done, p)
  BY RunFields DEF Proceeds
<1>2. Range(a.done) = Range(run.done) \cup {p}
  BY <1>1, AppendRange
<1> QED BY <1>2 DEF SameProgress, Proceeds

LEMMA CooldownStep ==
    ASSUME NavInv, NEW p \in Pin, cooldown_pin(p) PROVE NavInv' /\ Moved
<1>1. /\ Book(route) /\ visits \in Seq(Visit) /\ Open(route) \in SUBSET Pin /\ removing \notin pins
  BY NavFacts
<1>2. /\ ~replanning /\ p \in pins /\ cooled' = cooled \cup {p}
      /\ UNCHANGED <<pins, visits, proposal, replanning, removing, skewed>>
  BY DEF cooldown_pin, Idle
<1>3. StepTypes
  BY <1>2, TypesNow DEF StepTypes, cooldown_pin, Land
<1>4. CASE ~(Live /\ p \in Targets(route))
  <2>1. route' = route /\ routeLive' = routeLive
    BY <1>4 DEF cooldown_pin
  <2>2. Live => p \notin Open(route)
    BY <1>2, <1>4 DEF Targets
  <2>3. BesideRoute
    BY <1>2, <2>1, <2>2 DEF BesideRoute, NavInv, Walkable, Cooling
  <2> QED BY <1>3, <2>3, BesideRouteStep
<1>5. CASE Live /\ p \in Targets(route)
  <2>1. PICK skipped :
           /\ skipped = IF p = active_stop
                      THEN activate_next_or_complete(Completed(route, p, "skipped"))
                      ELSE Completed(route, p, "skipped")
           /\ \E run \in replan_or_complete(skipped) : Land(run)
    BY <1>5 DEF cooldown_pin
  <2>2. p \in Open(route) /\ p \in pins /\ p # removing
    BY <1>1, <1>2, <1>5 DEF Targets
  <2>3. /\ Book(skipped) /\ Proceeds(skipped, route, p, "skipped") /\ Open(skipped) = Open(route) \ {p}
        /\ skipped.status \in {route.status, "completed"}
    <3>1. CASE p = active_stop
      <4>1. skipped = activate_next_or_complete(Completed(route, p, "skipped"))
        BY <2>1, <3>1
      <4> QED BY <1>1, <2>2, <4>1, VisitedRun
    <3>2. CASE p # active_stop
      <4>1. skipped = Completed(route, p, "skipped")
        BY <2>1, <3>2
      <4> QED BY <1>1, <2>2, <4>1, DoneRun
    <3> QED BY <3>1, <3>2
  <2>4. PICK run \in replan_or_complete(skipped) : Land(run)
    BY <2>1
  <2>5. /\ Book(run) /\ SameProgress(run, skipped) /\ run.status \in {skipped.status, "completed"}
        /\ Open(run) = Open(skipped)
        /\ run.status # "completed" /\ Open(skipped) \subseteq pins => OneActive(run)
    BY <2>3, <2>4, PlannedOrComplete
  <2>6. Proceeds(run, route, p, "skipped")
    BY <1>1, <2>2, <2>3, <2>5, ProceedsOn
  <2>7. ASSUME run.id > 0, run.id \notin skewed PROVE Follows(visits, run)
    <3>1. Follows(visits, route)
      BY <2>6, <2>7 DEF NavInv, Proceeds
    <3> QED BY <1>1, <2>6, <3>1, FollowsSkipped
  <2>8. route' = run /\ routeLive' = (routeLive /\ run.status # "completed")
    BY <2>4 DEF Land
  <2>9. Live' => run.status # "completed"
    BY <2>8 DEF Live
  <2>10. run.id = route.id
    BY <2>6 DEF Proceeds
  <2>11. Live' /\ run.id \notin skewed =>
             /\ Open(run) \subseteq pins \cup {removing}
             /\ Open(run) \cap (cooled' \cup Recent(visits)) = {}
             /\ removing \notin Open(run) => OneActive(run)
    <3> SUFFICES ASSUME Live', run.id \notin skewed
                 PROVE  /\ Open(run) \subseteq pins \cup {removing}
                        /\ Open(run) \cap (cooled' \cup Recent(visits)) = {}
                        /\ removing \notin Open(run) => OneActive(run)
      OBVIOUS
    <3>1. Open(route) \subseteq pins \cup {removing} /\ Open(route) \cap Cooling(visits) = {}
      BY <1>5, <2>10 DEF NavInv, Walkable
    <3>2. Open(run) = Open(route) \ {p}
      BY <2>3, <2>5
    <3>3. ASSUME removing \notin Open(run) PROVE OneActive(run)
      <4>1. Open(skipped) \subseteq pins
        BY <2>2, <2>5, <3>1, <3>2, <3>3
      <4> QED BY <2>5, <2>9, <4>1
    <3> QED BY <1>2, <3>1, <3>2, <3>3 DEF Cooling
  <2>12. routeLive
    BY <1>5 DEF NavInv
  <2>13. OtherRoute
    BY <1>1, <1>2, <2>5, <2>7, <2>8, <2>9, <2>11, <2>12 DEF OtherRoute
  <2>14. NavInv'
    BY <1>3, <2>13, OtherRouteStep
  <2> QED BY <2>6, <2>8, <2>14 DEF Moved
<1> QED BY <1>4, <1>5

LEMMA PinRemovedStep == ASSUME NavInv, replan_after_pin_removed PROVE NavInv' /\ Moved
<1>1. /\ Book(route) /\ visits \in Seq(Visit) /\ Open(route) \in SUBSET Pin /\ removing \notin pins
      /\ NoPin \notin Pin
  BY NavFacts
<1>2. /\ ~replanning /\ removing' = NoPin
      /\ UNCHANGED <<pins, cooled, visits, proposal, replanning, skewed>>
  BY DEF replan_after_pin_removed, Idle
<1>3. StepTypes
  BY <1>2, TypesNow DEF StepTypes, replan_after_pin_removed, Land
<1>4. CASE ~(Live /\ removing \in Open(route))
  <2>1. route' = route /\ routeLive' = routeLive
    BY <1>4 DEF replan_after_pin_removed
  <2>2. BesideRoute
    BY <1>1, <1>2, <1>4, <2>1 DEF BesideRoute, NavInv, Walkable, Cooling
  <2> QED BY <1>3, <2>2, BesideRouteStep
<1>5. CASE Live /\ removing \in Open(route)
  <2>1. PICK p : p = removing
    OBVIOUS
  <2>2. PICK kept : kept = KeptOf(route, p)
    OBVIOUS
  <2>3. /\ Book(kept) /\ SameProgress(kept, route) /\ kept.status = route.status
        /\ Open(kept) = Open(route) \ {p}
    BY <1>1, <1>5, <2>1, <2>2, KeptRun
  <2>4. PICK run \in replan_or_complete(kept) : Land(run)
    BY <1>5, <2>1, <2>2 DEF replan_after_pin_removed, KeptOf
  <2>5. /\ Book(run) /\ SameProgress(run, kept) /\ run.status \in {kept.status, "completed"}
        /\ Open(run) = Open(kept)
        /\ run.status # "completed" /\ Open(kept) \subseteq pins => OneActive(run)
    BY <2>3, <2>4, PlannedOrComplete
  <2>6. SameProgress(run, route)
    BY <2>3, <2>5 DEF SameProgress
  <2>7. ASSUME run.id > 0, run.id \notin skewed PROVE Follows(visits, run)
    <3>1. Follows(visits, route)
      BY <2>6, <2>7 DEF NavInv, SameProgress
    <3> QED BY <2>6, <3>1, FollowsSame
  <2>8. route' = run /\ routeLive' = (routeLive /\ run.status # "completed")
    BY <2>4 DEF Land
  <2>9. Live' => run.status # "completed"
    BY <2>8 DEF Live
  <2>10. run.id = route.id
    BY <2>6 DEF SameProgress
  <2>11. Live' /\ run.id \notin skewed =>
             /\ Open(run) \subseteq pins
             /\ Open(run) \cap (cooled \cup Recent(visits)) = {}
             /\ OneActive(run)
    <3> SUFFICES ASSUME Live', run.id \notin skewed
                 PROVE  /\ Open(run) \subseteq pins
                        /\ Open(run) \cap (cooled \cup Recent(visits)) = {}
                        /\ OneActive(run)
      OBVIOUS
    <3>1. Open(route) \subseteq pins \cup {p} /\ Open(route) \cap Cooling(visits) = {}
      BY <1>5, <2>1, <2>10 DEF NavInv, Walkable
    <3>2. Open(run) = Open(route) \ {p}
      BY <2>3, <2>5
    <3>3. OneActive(run)
      BY <2>5, <2>9, <3>1, <3>2
    <3> QED BY <3>1, <3>2, <3>3 DEF Cooling
  <2>12. routeLive
    BY <1>5 DEF NavInv
  <2>13. OtherRoute
    BY <1>1, <1>2, <2>5, <2>7, <2>8, <2>9, <2>11, <2>12 DEF OtherRoute
  <2>14. NavInv'
    BY <1>3, <2>13, OtherRouteStep
  <2> QED BY <2>6, <2>8, <2>14 DEF Moved
<1> QED BY <1>4, <1>5

\* Undo takes the last visit and the last stop done together.
LEMMA UndoStep == ASSUME NavInv, undo PROVE NavInv' /\ Moved
<1>1. /\ Book(route) /\ visits \in Seq(Visit) /\ Open(route) \in SUBSET Pin /\ removing \notin pins
      /\ NoPin \notin Pin /\ route.id \in Nat
  BY NavFacts
<1>2. /\ ~replanning /\ routeLive' = TRUE
      /\ UNCHANGED <<pins, cooled, proposal, replanning, removing>>
  BY DEF undo, Idle
<1>3. CASE route.done = << >>
  <2>1. UNCHANGED <<route, visits, skewed>>
    BY <1>3 DEF undo
  <2>2. StepTypes
    BY <1>2, <2>1, TypesNow DEF StepTypes
  <2>3. BesideRoute
    BY <1>2, <2>1 DEF BesideRoute, NavInv, Walkable, Cooling
  <2> QED BY <2>2, <2>3, BesideRouteStep
<1>4. CASE route.done # << >>
  <2>1. PICK p, left, r : /\ p = Last(route.done)
                          /\ left = IF visits = << >> THEN visits ELSE Front(visits)
                          /\ r = ReopenedOf(route, p)
    OBVIOUS
  <2>2. PICK odd : odd = (\/ ~(Open(r) \subseteq pins)
                          \/ Open(r) \cap Cooling(left) # {}
                          \/ route.stop[p] = "skipped" /\ visits # << >>)
    OBVIOUS
  <2>3. /\ route' = r /\ visits' = left
        /\ skewed' = IF odd THEN skewed \cup {route.id} ELSE skewed
    BY <1>4, <2>1, <2>2 DEF undo, ReopenedOf
  <2>4. /\ Book(r) /\ r.id = route.id /\ r.status = "active"
        /\ r.done = Front(route.done) /\ r.done \in Seq(Pin) /\ p \in Pin
        /\ route.done = Append(r.done, p) /\ p \notin Range(r.done)
        /\ p \in Open(r) /\ With(r, {"active"}) = {p}
        /\ With(r, {"visited"}) = With(route, {"visited"}) \ {p}
        /\ r.stop[p] = "active"
        /\ \A q \in Range(r.done) : r.stop[q] = route.stop[q]
    <3>1. Book(route) /\ r = ReopenedOf(route, Last(route.done))
      BY <1>1, <2>1
    <3>2. p = Last(route.done)
      BY <2>1
    <3>3. Reopens(r, route)
      BY <1>4, <3>1, ReopenedRun
    <3> QED BY <3>2, <3>3 DEF Reopens
  <2>5. skewed' \in SUBSET Nat
    BY <1>1, <2>3, TypesNow
  <2>6. StepTypes
    BY <1>2, <2>5, TypesNow DEF StepTypes
  <2>7. left \in Seq(Visit)
    <3>1. CASE visits = << >>
      BY <1>1, <2>1, <3>1
    <3>2. CASE visits # << >>
      <4>1. SubSeq(visits, 1, Len(visits) - 1) \in Seq(Visit)
        BY <1>1, <3>2, FrontOfVisits
      <4> QED BY <2>1, <3>2, <4>1 DEF Front
    <3> QED BY <3>1, <3>2
  <2>8. ASSUME r.id \notin skewed'
        PROVE  /\ route.id \notin skewed /\ Open(r) \subseteq pins /\ Open(r) \cap Cooling(left) = {}
               /\ (route.stop[p] = "skipped" => visits = << >>)
    BY <2>2, <2>3, <2>4, <2>8
  <2>9. ASSUME r.id > 0, r.id \notin skewed' PROVE Follows(left, r)
    <3>1. Follows(visits, route)
      BY <2>4, <2>8, <2>9 DEF NavInv
    <3>2. /\ route.stop[p] = "visited" => visits # << >> /\ Follows(SubSeq(visits, 1, Len(visits) - 1), r)
          /\ route.stop[p] # "visited" => Follows(visits, r)
      BY <1>1, <2>4, <3>1, FollowsReopened
    <3>3. CASE route.stop[p] = "visited"
      BY <2>1, <3>2, <3>3 DEF Front
    <3>4. CASE route.stop[p] # "visited"
      <4>1. route.stop[p] = "skipped"
        <5>1. p \in Range(route.done)
          <6>1. r.done \in Seq(Pin) /\ p \in Pin /\ route.done = Append(r.done, p)
            BY <2>4
          <6>2. Range(Append(r.done, p)) = Range(r.done) \cup {p}
            BY <6>1, AppendRange
          <6> QED BY <6>1, <6>2
        <5>2. Range(route.done) = With(route, {"visited", "skipped"})
          BY <1>1, RunFields
        <5> QED BY <3>4, <5>1, <5>2 DEF With
      <4>2. visits = << >>
        BY <2>8, <2>9, <4>1
      <4> QED BY <2>1, <3>2, <3>4, <4>2
    <3> QED BY <3>3, <3>4
  <2>10. OneActive(r)
    BY <2>4 DEF OneActive
  <2>11. OtherRoute
    BY <1>2, <2>3, <2>4, <2>7, <2>8, <2>9, <2>10 DEF OtherRoute, Cooling
  <2>12. NavInv'
    BY <2>6, <2>11, OtherRouteStep
  <2>13. Live'
    BY <2>3, <2>4 DEF Live
  <2> QED BY <1>4, <2>1, <2>3, <2>4, <2>12, <2>13 DEF Moved
<1> QED BY <1>3, <1>4

\* Before the first route there is none.
LEMMA NavInitInv == NavInit => NavInv
<1> SUFFICES ASSUME NavInit PROVE NavInv
  OBVIOUS
<1>1. /\ pins = Pin /\ route = NoRoute /\ visits = << >> /\ cooled = {} /\ proposal = NoProposal
      /\ routeLive = FALSE /\ replanning = FALSE /\ removing = NoPin /\ skewed = {}
  BY DEF NavInit
<1>2. Range(<< >>) = {} /\ IsInjective(<< >>) /\ << >> \in Seq(Pin) /\ << >> \in [{} -> StopStatus]
      /\ DOMAIN << >> = {} /\ << >> \in Seq(Visit)
  BY DEF Range, IsInjective
<1>3. Parts(route, {})
  BY <1>1, <1>2 DEF Parts, NoRoute
<1>4. Book(route)
  BY <1>3, BookOf
<1>5. NavTypeOK
  BY <1>1, <1>2, <1>4 DEF NavTypeOK
<1>6. ~Live /\ route.id = 0
  BY <1>1 DEF Live, NoRoute
<1> QED BY <1>5, <1>6 DEF NavInv, Walkable

\* Every command, harvest, deletion and restart keeps the invariant.
LEMMA NavStep == NavInv /\ [NavNext]_navVars => NavInv' /\ (Moved \/ UNCHANGED navVars)
<1> SUFFICES ASSUME NavInv, [NavNext]_navVars PROVE NavInv' /\ (Moved \/ UNCHANGED navVars)
  OBVIOUS
<1>1. CASE UNCHANGED navVars
  <2>1. StepTypes
    BY <1>1, TypesNow DEF navVars, StepTypes
  <2>2. BesideRoute
    BY <1>1 DEF navVars, BesideRoute, NavInv, Walkable, Cooling
  <2> QED BY <1>1, <2>1, <2>2, BesideRouteStep
<1>2. CASE NavNext
  <2>1. ASSUME NEW S \in SUBSET pins, start(S) PROVE NavInv' /\ Moved
    BY <2>1, StartStep
  <2>2. ASSUME NEW near \in SUBSET pins, on_harvest(near) PROVE NavInv' /\ Moved
    BY <2>2, HarvestStep
  <2>3. ASSUME NEW p \in Pin, cooldown_pin(p) PROVE NavInv' /\ Moved
    BY <2>3, CooldownStep
  <2>4. ASSUME NEW p \in Pin, DeletePin(p) PROVE NavInv' /\ Moved
    BY <2>4, DeletePinStep
  <2>5. ASSUME NEW confirm \in BOOLEAN, resolve_harvest(confirm) PROVE NavInv' /\ Moved
    BY <2>5, ResolveStep
  <2>6. attach_pending_harvest => NavInv' /\ Moved
    BY AttachStep
  <2>7. mark_visited => NavInv' /\ Moved
    BY MarkVisitedStep
  <2>8. skip => NavInv' /\ Moved
    BY SkipStep
  <2>9. Replan => NavInv' /\ Moved
    BY ReplanStep
  <2>10. replan_after_pin_removed => NavInv' /\ Moved
    BY PinRemovedStep
  <2>11. undo => NavInv' /\ Moved
    BY UndoStep
  <2>12. end => NavInv' /\ Moved
    BY EndStep
  <2>13. Restart => NavInv' /\ Moved
    BY RestartStep
  <2>14. TimePasses => NavInv' /\ Moved
    BY TimePassesStep
  <2> QED BY <1>2, <2>1, <2>2, <2>3, <2>4, <2>5, <2>6, <2>7, <2>8, <2>9, <2>10, <2>11, <2>12,
             <2>13, <2>14 DEF NavNext
<1> QED BY <1>1, <1>2

\* Between commands the invariant says what the runs check.
LEMMA NavInvSound == NavInv => RouteSound
<1> SUFFICES ASSUME NavInv PROVE RouteSound
  OBVIOUS
<1>1. Book(route) /\ Open(route) \in SUBSET Pin /\ NoPin \notin Pin
  BY NavFacts
<1>2. StopsListedOnce
  BY <1>1 DEF StopsListedOnce, Book, Listed
<1>3. VisitsFollowProgress
  BY DEF VisitsFollowProgress, NavInv, Follows, VisitedPins
<1>4. RouteHasTarget
  <2> SUFFICES ASSUME Live, Idle, removing = NoPin, route.id \notin skewed
               PROVE  /\ routeLive
                      /\ Cardinality(With(route, {"active"})) = 1
                      /\ Open(route) \subseteq pins
                      /\ Open(route) \cap Cooling(visits) = {}
    BY DEF RouteHasTarget
  <2>1. /\ Open(route) \subseteq pins \cup {removing}
        /\ Open(route) \cap Cooling(visits) = {}
        /\ removing \notin Open(route) /\ ~replanning => OneActive(route)
    BY DEF NavInv, Walkable
  <2>2. OneActive(route)
    BY <1>1, <2>1 DEF Idle
  <2>3. PICK a : With(route, {"active"}) = {a}
    BY <2>2 DEF OneActive
  <2>4. Cardinality(With(route, {"active"})) = 1
    BY <2>3, FS_Singleton
  <2> QED BY <1>1, <2>1, <2>4 DEF NavInv
<1> QED BY <1>2, <1>3, <1>4 DEF RouteSound

\* The books of a route agree, in whatever order visits, skips, cooldowns, deleted pins,
\* undos and restarts come: every stop is listed once, visits and progress agree, and
\* between two commands a live route has exactly one stop to walk to, which is on the map
\* and not on cooldown.
THEOREM RoutesSound == NavSpec => []RouteSound
<1>1. NavInv /\ [NavNext]_navVars => NavInv'
  BY NavStep
<1> QED BY <1>1, NavInitInv, NavInvSound, PTL DEF NavSpec

\* A sequence is a prefix of itself and of itself with one element more.
LEMMA PrefixOfAppend ==
    ASSUME NEW E, NEW q \in Seq(E), NEW x \in E
    PROVE  IsPrefix(q, q) /\ IsPrefix(q, Append(q, x))
<1>1. PICK n, t : n = Len(q) /\ t = Append(q, x)
  OBVIOUS
<1>2. n \in Nat /\ Len(t) = n + 1
  BY <1>1, AppendRow
<1>3. SubSeq(q, 1, n) = q
  BY <1>1, SubSeqFull
<1>4. SubSeq(t, 1, n) = q
  <2>1. SubSeq(t, 1, Len(t) - 1) = q
    BY <1>1, FrontOfAppend
  <2>2. Len(t) - 1 = n
    BY <1>2
  <2> QED BY <2>1, <2>2
<1> QED BY <1>1, <1>2, <1>3, <1>4 DEF IsPrefix

\* What a step may do to progress is what ProgressKept allows.
LEMMA MovedKeepsProgress ==
    ASSUME NavInv, Moved \/ UNCHANGED navVars, route'.id = route.id
    PROVE  \/ IsPrefix(route.done, route'.done)
              /\ \A p \in Range(route.done) : route'.stop[p] = route.stop[p]
           \/ /\ route.done # << >> /\ route'.done = Front(route.done)
              /\ \A p \in Range(route'.done) : route'.stop[p] = route.stop[p]
              /\ Live' /\ route'.stop[Last(route.done)] = "active"
<1>1. route.done \in Seq(Pin)
  BY NavFacts, RunFields
<1>2. IsPrefix(route.done, route.done)
  <2>1. PICK n : n = Len(route.done)
    OBVIOUS
  <2>2. n \in Nat
    BY <1>1, <2>1, LenProperties
  <2> QED BY <2>1, <2>2 DEF IsPrefix
<1>3. CASE UNCHANGED navVars
  BY <1>2, <1>3 DEF navVars
<1>4. CASE SameProgress(route', route)
  BY <1>2, <1>4 DEF SameProgress
<1>5. ASSUME NEW p \in Pin, NEW how, Proceeds(route', route, p, how)
      PROVE  IsPrefix(route.done, route'.done)
             /\ \A q \in Range(route.done) : route'.stop[q] = route.stop[q]
  BY <1>1, <1>5, PrefixOfAppend DEF Proceeds
<1> QED BY <1>3, <1>4, <1>5 DEF Moved

\* No step of a route (a replan, a removal, a restart) forgets a stop that was walked to or
\* skipped or changes how it was done, except undo, which reopens the last one.
THEOREM ProgressIsKept == NavSpec => ProgressKept
<1>1. NavInv /\ [NavNext]_navVars => NavInv'
  BY NavStep
<1>2. NavInv /\ [NavNext]_navVars =>
        [route'.id = route.id =>
         \/ IsPrefix(route.done, route'.done)
            /\ \A p \in Range(route.done) : route'.stop[p] = route.stop[p]
         \/ /\ route.done # << >> /\ route'.done = Front(route.done)
            /\ \A p \in Range(route'.done) : route'.stop[p] = route.stop[p]
            /\ Live' /\ route'.stop[Last(route.done)] = "active"]_navVars
  BY NavStep, MovedKeepsProgress
<1> QED BY <1>1, <1>2, NavInitInv, PTL DEF NavSpec, ProgressKept
=============================================================================
