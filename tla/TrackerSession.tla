------------------------------ MODULE TrackerSession ------------------------------
(***************************************************************************)
(* The life of a tracking session: the tracker actor (tracker/actor.rs,    *)
(* tracker/session.rs, tracker/persistence.rs) driving the interval        *)
(* engine, beside the skill tracker (skill_tracker.rs), which hears the    *)
(* session events but records gains on the chat watcher's thread.          *)
(*                                                                         *)
(* The actor owns its state and handles one message at a time, so a        *)
(* declaration is one action.  Starting and stopping a session take        *)
(* several commits and publishes, between which the skill tracker and a    *)
(* crash can fall: each of those is an action, and "actor" says which      *)
(* comes next.  Every database write may fail; the code contains some      *)
(* failures and returns early on others, and the model follows it.         *)
(*                                                                         *)
(* Protection declarations, and everything else a session records besides  *)
(* the context stamp of its events, are outside this module.               *)
(***************************************************************************)
EXTENDS SessionIntervals, FiniteSets

CONSTANTS
    Quest,     \* quests that can be declared
    Segment,   \* segment names, case-folded
    Boost,     \* declarable modifier magnitudes, zero included
    Positive,  \* the magnitudes above zero
    Loadout,   \* protection loadouts
    None,      \* an option that is absent
    MaxGains   \* bound on skill gains

ASSUME SubjectAssumption ==
    /\ {"modifier", "segment", "quest", "protection"} \subseteq Kind
    /\ Quest \cup Segment \cup Boost \cup Loadout \subseteq Subject
    /\ Positive \subseteq Boost
    /\ None \notin Subject
    /\ MaxGains \in Nat

VARIABLES
    actor,      \* what the actor's task does next
    after,      \* what a stop under way goes on to: "reply" or "start"
    opening,    \* the boost and loadout a start under way will open with
    listening,  \* whether the bus forwarders are subscribed
    boost,      \* facets.skill_boost_percent of the live session
    lapsed,     \* the boost moved in memory and no interval followed it
    ended,      \* sessions whose row has is_active = 0
    rowBoost,   \* skill_boost_percent of the session rows
    skill,      \* the skill tracker's session, None when inactive
    hearing,    \* the session captured for the gain being recorded
    gains,      \* skill_gains
    settled     \* the gains counted in the rollups of ended sessions

session == <<actor, after, opening, listening, boost, lapsed, ended, rowBoost>>
skills  == <<skill, hearing, gains, settled>>
tracker == <<engine, session, skills>>

MaybeBoost == Boost \cup {None}
Opening    == [boost : MaybeBoost, loadout : Loadout \cup {None}]
NoOpening  == [boost |-> None, loadout |-> None]
GainRow    == [session : Session, context : Nat]

Steps == {"idle", "announcing", "minting", "boosting", "protecting",
          "sealing", "parting", "starting", "down", "recovering"}

TrackerTypeOK ==
    /\ IntervalsTypeOK
    /\ actor \in Steps
    /\ after \in {"reply", "start"}
    /\ opening \in Opening
    /\ listening \in BOOLEAN /\ lapsed \in BOOLEAN
    /\ boost \in Positive \cup {None}
    /\ ended \subseteq recorded
    /\ rowBoost \in [Session -> Positive \cup {None}]
    /\ skill \in Session \cup {NoSession}
    /\ hearing \in Session \cup {NoSession}
    /\ gains \in Seq(GainRow)
    /\ settled \subseteq DOMAIN gains

\* The session row's scalar holds a positive magnitude or nothing; a declared
\* zero lives on the interval alone.
PositivePart(p) == IF p \in Positive THEN p ELSE None

GainsOf(s) == {k \in DOMAIN gains : gains[k].session = s}

\* Stop and recovery end the row, write the summary and recompute the rollup
\* cells in one transaction.
SealRow(s) ==
    /\ ended' = ended \cup {s}
    /\ settled' = settled \cup GainsOf(s)

TrackerInit ==
    /\ IntervalsInit
    /\ actor = "idle" /\ after = "reply" /\ opening = NoOpening
    /\ listening = FALSE
    /\ boost = None /\ lapsed = FALSE
    /\ ended = {} /\ rowBoost = [s \in Session |-> None]
    /\ skill = NoSession /\ hearing = NoSession
    /\ gains = << >> /\ settled = {}

-----------------------------------------------------------------------------
(* Starting *)

\* start_session up to the SessionStarted publish: the row first, so that a
\* failed insert leaves the tracker idle, then memory and the forwarders.
\* It runs when no session is live, or once the prior one has stopped.
StartSession(s, asked) ==
    /\ actor = "starting" \/ (actor = "idle" /\ live = NoSession)
    /\ Activate(s)
    /\ opening' = asked
    /\ boost' = PositivePart(asked.boost)
    /\ rowBoost' = [rowBoost EXCEPT ![s] = PositivePart(asked.boost)]
    /\ lapsed' = FALSE
    /\ listening' = TRUE
    /\ actor' = "announcing"
    /\ UNCHANGED <<after, ended, skills>>

\* A definition read or the row insert failed: the error returns and the
\* tracker is idle.
StartFails ==
    /\ actor = "starting"
    /\ actor' = "idle"
    /\ UNCHANGED <<engine, after, opening, listening, boost, lapsed, ended, rowBoost, skills>>

\* SessionStarted reaches the skill tracker before any context is minted.
AnnounceStart ==
    /\ actor = "announcing"
    /\ skill' = live
    /\ actor' = "minting"
    /\ UNCHANGED <<engine, after, opening, listening, boost, lapsed, ended, rowBoost,
                   hearing, gains, settled>>

\* The opening context, then the opening modifier and protection intervals.
\* Each write is contained: without a context the two opens are skipped,
\* without the modifier the protection still opens.
MintOpening ==
    /\ actor = "minting"
    /\ \/ OpenSession /\ actor' = "boosting" /\ UNCHANGED <<lapsed, opening>>
       \/ /\ actor' = "idle"
          /\ lapsed' = (opening.boost # None)
          /\ opening' = NoOpening
          /\ UNCHANGED engine
    /\ UNCHANGED <<after, listening, boost, ended, rowBoost, skills>>

OpenOpeningBoost ==
    /\ actor = "boosting"
    /\ actor' = "protecting"
    /\ IF opening.boost = None
       THEN UNCHANGED <<engine, lapsed>>
       ELSE \/ /\ OpenInterval([kind |-> "modifier", subject |-> opening.boost], {"modifier"})
               /\ UNCHANGED lapsed
            \/ lapsed' = TRUE /\ UNCHANGED engine
    /\ UNCHANGED <<after, opening, listening, boost, ended, rowBoost, skills>>

OpenOpeningProtection ==
    /\ actor = "protecting"
    /\ actor' = "idle"
    /\ opening' = NoOpening
    /\ IF opening.loadout = None
       THEN UNCHANGED engine
       ELSE \/ OpenInterval([kind |-> "protection", subject |-> opening.loadout],
                            {"protection"})
            \/ UNCHANGED engine
    /\ UNCHANGED <<after, listening, boost, lapsed, ended, rowBoost, skills>>

-----------------------------------------------------------------------------
(* Stopping *)

\* stop_session begins by closing the standing intervals and ignores a
\* failure of that write; "start" is the stop a start on a live session
\* performs first.
BeginStop(then) ==
    /\ actor = "idle"
    /\ live # NoSession
    /\ CloseSession \/ UNCHANGED engine
    /\ actor' = "sealing"
    /\ after' = then
    /\ UNCHANGED <<opening, listening, boost, lapsed, ended, rowBoost, skills>>

\* Mutant: the actor returns once the row has ended, keeping the session.
SealAndReturn ==
    /\ actor = "sealing"
    /\ SealRow(live)
    /\ rowBoost' = [rowBoost EXCEPT ![live] = boost]
    /\ actor' = "idle"
    /\ UNCHANGED <<engine, after, opening, listening, boost, lapsed, skill, hearing, gains>>

\* The stop transaction commits: the row ends, the boost re-lands from
\* memory, and the summary and rollups are written.
Seal ==
    /\ actor = "sealing"
    /\ SealRow(live)
    /\ rowBoost' = [rowBoost EXCEPT ![live] = boost]
    /\ actor' = "parting"
    /\ UNCHANGED <<engine, after, opening, listening, boost, lapsed, skill, hearing, gains>>

\* The stop transaction fails: the error returns and the session stays.
SealFails ==
    /\ actor = "sealing"
    /\ actor' = "idle"
    /\ after' = "reply"
    /\ lapsed' = TRUE
    /\ UNCHANGED <<engine, opening, listening, boost, ended, rowBoost, skills>>

\* Mutant: the session identifier is cleared, the interval state is not.
PartKeepingIntervals ==
    /\ actor = "parting"
    /\ live' = NoSession
    /\ UNCHANGED <<open, context, recorded, intervals, contexts, stamps>>
    /\ listening' = FALSE
    /\ skill' = NoSession
    /\ boost' = None
    /\ lapsed' = FALSE
    /\ actor' = IF after = "start" THEN "starting" ELSE "idle"
    /\ after' = "reply"
    /\ UNCHANGED <<opening, ended, rowBoost, hearing, gains, settled>>

\* The forwarders go, SessionStopped reaches the skill tracker, and the
\* ActiveSession is dropped.
Part ==
    /\ actor = "parting"
    /\ Drop
    /\ listening' = FALSE
    /\ skill' = NoSession
    /\ boost' = None
    /\ lapsed' = FALSE
    /\ actor' = IF after = "start" THEN "starting" ELSE "idle"
    /\ after' = "reply"
    /\ UNCHANGED <<opening, ended, rowBoost, hearing, gains, settled>>

-----------------------------------------------------------------------------
(* Declarations and events of a live session *)

ActivityKinds == {"quest", "segment"}

QuestActivity(q)   == [kind |-> "quest", subject |-> q]
SegmentActivity(n) == [kind |-> "segment", subject |-> n]
Activity == {QuestActivity(q) : q \in Quest} \cup {SegmentActivity(n) : n \in Segment}

\* The actor takes a message for a live session that touches only what the
\* engine and the session facets hold.
Handling ==
    /\ actor = "idle"
    /\ live # NoSession
    /\ UNCHANGED <<actor, after, opening, listening, ended, skills>>

\* Mutant: an additive segment stacks like a quest does.
OpenActivityStacking(a, additive) ==
    OpenInterval(a, IF additive THEN {} ELSE ActivityKinds)

\* A new activity: exclusive seals every standing activity, additive seals
\* only a standing segment, and only when the activity is a segment.
OpenActivity(a, additive) ==
    LET closes == IF ~additive THEN ActivityKinds
                  ELSE IF a.kind = "quest" THEN {} ELSE {a.kind}
    IN  OpenInterval(a, closes)

\* Mutant: a standing activity is closed and opened again.
ActivateActivityAfresh(a, additive) ==
    /\ Handling
    /\ OpenActivity(a, additive) \/ UNCHANGED engine
    /\ UNCHANGED <<boost, rowBoost, lapsed>>

\* activate_activity.  A standing activity never grows a second stretch: the
\* additive declaration does nothing, the exclusive one ends the others.  A
\* write that fails leaves the declaration unrecorded.
ActivateActivity(a, additive) ==
    /\ Handling
    /\ IF Standing(a) = {}
       THEN OpenActivity(a, additive) \/ UNCHANGED engine
       ELSE LET others == OpenOfKinds(ActivityKinds) \ Standing(a)
            IN  (~additive /\ CloseMatching(others)) \/ UNCHANGED engine
    /\ UNCHANGED <<boost, rowBoost, lapsed>>

\* deactivate_activity: ends the one activity, or does nothing.
DeactivateActivity(a) ==
    /\ Handling
    /\ CloseMatching(Standing(a)) \/ UNCHANGED engine
    /\ UNCHANGED <<boost, rowBoost, lapsed>>

\* set_skill_boost.  The facet moves whatever happens; the row's mirror and
\* the interval are two separate contained writes.
SetSkillBoost(p) ==
    /\ Handling
    /\ boost' = PositivePart(p)
    /\ rowBoost' \in {rowBoost, [rowBoost EXCEPT ![live] = PositivePart(p)]}
    /\ \/ /\ IF p # None
             THEN OpenInterval([kind |-> "modifier", subject |-> p], {"modifier"})
             ELSE IF OpenOfKinds({"modifier"}) = {}
             THEN UNCHANGED engine
             ELSE CloseMatching(OpenOfKinds({"modifier"}))
          /\ lapsed' = FALSE
       \/ lapsed' = TRUE /\ UNCHANGED engine

\* A combat, loot or healing event is handled and its row written.
RecordEvent ==
    /\ Handling
    /\ StampEvent
    /\ UNCHANGED <<boost, rowBoost, lapsed>>

-----------------------------------------------------------------------------
(* The skill tracker, on the chat watcher's thread *)

\* on_skill_gain captures the session under the lock...
HearGain ==
    /\ skill # NoSession
    /\ hearing = NoSession
    /\ Len(gains) < MaxGains
    /\ hearing' = skill
    /\ UNCHANGED <<engine, session, skill, gains, settled>>

\* Mutant: the query takes the session's first context.
OldestContextOf(s) ==
    LET own == {c \in DOMAIN contexts : contexts[c].session = s}
    IN  IF own = {} THEN NoContext
        ELSE CHOOSE c \in own : \A other \in own : c <= other

NewestContextOf(s) ==
    LET own == {c \in DOMAIN contexts : contexts[c].session = s}
    IN  IF own = {} THEN NoContext
        ELSE CHOOSE c \in own : \A other \in own : other <= c

\* ...and inserts the row later, stamped with the newest context the
\* database holds for that session.
RecordGain ==
    /\ hearing # NoSession
    /\ gains' = Append(gains, [session |-> hearing, context |-> NewestContextOf(hearing)])
    /\ hearing' = NoSession
    /\ UNCHANGED <<engine, session, skill, settled>>

\* A codex suppression swallows the gain, or one of its writes fails.
LoseGain ==
    /\ hearing # NoSession
    /\ hearing' = NoSession
    /\ UNCHANGED <<engine, session, skill, gains, settled>>

-----------------------------------------------------------------------------
(* Crash and recovery *)

\* The process dies: memory is lost, the tables stay.
Crash ==
    /\ actor # "down"
    /\ Drop \/ (live = NoSession /\ UNCHANGED engine)
    /\ actor' = "down" /\ after' = "reply" /\ opening' = NoOpening
    /\ listening' = FALSE
    /\ boost' = None /\ lapsed' = FALSE
    /\ skill' = NoSession /\ hearing' = NoSession
    /\ UNCHANGED <<ended, rowBoost, gains, settled>>

Boot ==
    /\ actor = "down"
    /\ actor' = "recovering"
    /\ UNCHANGED <<engine, after, opening, listening, boost, lapsed, ended, rowBoost, skills>>

\* recover_orphaned_sessions closes each session left open in a transaction
\* of its own; the interval rows are not touched.
RecoverOrphan(s) ==
    /\ actor = "recovering"
    /\ s \in recorded \ ended
    /\ SealRow(s)
    /\ UNCHANGED <<engine, actor, after, opening, listening, boost, lapsed, rowBoost,
                   skill, hearing, gains>>

\* Mutant: the constructor ignores a recovery that failed.
RecoveryIgnored ==
    /\ actor = "recovering"
    /\ actor' = "idle"
    /\ UNCHANGED <<engine, after, opening, listening, boost, lapsed, ended, rowBoost, skills>>

\* A read or a transaction of the recovery failed: the constructor reports
\* it and the application does not compose.
RecoveryFails ==
    /\ actor = "recovering"
    /\ actor' = "down"
    /\ UNCHANGED <<engine, after, opening, listening, boost, lapsed, ended, rowBoost, skills>>

Ready ==
    /\ actor = "recovering"
    /\ recorded = ended
    /\ actor' = "idle"
    /\ UNCHANGED <<engine, after, opening, listening, boost, lapsed, ended, rowBoost, skills>>

-----------------------------------------------------------------------------
TrackerNext ==
    \/ \E s \in Session, asked \in Opening : StartSession(s, asked)
    \/ StartFails
    \/ AnnounceStart
    \/ MintOpening
    \/ OpenOpeningBoost
    \/ OpenOpeningProtection
    \/ \E then \in {"reply", "start"} : BeginStop(then)
    \/ Seal
    \/ SealFails
    \/ Part
    \/ \E a \in Activity, additive \in BOOLEAN : ActivateActivity(a, additive)
    \/ \E a \in Activity : DeactivateActivity(a)
    \/ \E p \in MaybeBoost : SetSkillBoost(p)
    \/ RecordEvent
    \/ HearGain
    \/ RecordGain
    \/ LoseGain
    \/ Crash
    \/ Boot
    \/ \E s \in Session : RecoverOrphan(s)
    \/ RecoveryFails
    \/ Ready

TrackerSpec == TrackerInit /\ [][TrackerNext]_tracker

-----------------------------------------------------------------------------
(* Safety *)

\* At most one session row is ever active, across failed stops, restarts
\* and crashes: it is the live session's, or the one a crash orphaned.
OneActiveRow ==
    LET active == recorded \ ended
    IN  /\ Cardinality(active) <= 1
        /\ live # NoSession => active = (IF actor = "parting" THEN {} ELSE {live})
        /\ actor \in {"idle", "starting"} /\ live = NoSession => active = {}

\* A modifier, a segment and a protection loadout stand one at a time and no
\* quest has two stretches, whatever mix of exclusive and additive
\* declarations and failed writes led here.
OneStandingPerKind ==
    \A i, j \in open :
        LET a == intervals[i].what
            b == intervals[j].what
        IN  i # j /\ a.kind = b.kind => a.kind = "quest" /\ a.subject # b.subject

\* The tracker and the skill tracker name the same session whenever the
\* actor is between messages, and a live session is never deaf to the bus.
ListenersFollowSession ==
    actor = "idle" => skill = live /\ listening = (live # NoSession)

\* The boost the session row mirrors is the positive part of the modifier
\* that stands, as long as the interval write of a declaration landed.
BoostFollowsModifier ==
    live # NoSession /\ actor = "idle" /\ ~lapsed =>
        {boost} \ {None} =
            {intervals[i].what.subject : i \in OpenOfKinds({"modifier"})} \cap Positive

\* What a declaration may leave behind, whichever of its writes failed.
DeclarationsSound == TrackerTypeOK /\ OneStandingPerKind /\ BoostFollowsModifier

\* One session is live wherever one looks: in the rows, in the tracker, in the
\* skill tracker and on the bus.
OneLiveSession == OneActiveRow /\ ListenersFollowSession

(* Action properties *)

\* Switching activities never splits a stretch in two: no step ends an
\* activity's interval and opens another for the same activity.
StretchNeverSplit ==
    [][\A i \in DOMAIN intervals, j \in DOMAIN intervals' :
            intervals[i].what = intervals'[j].what /\ intervals[i].what \in Activity
                /\ ~intervals[i].ended /\ intervals'[i].ended
            => j \in DOMAIN intervals]_tracker

\* A gain recorded while the tracker is between messages carries the very
\* context the tracker holds in memory.
GainsStampedLikeEvents ==
    [][actor = "idle" /\ context # NoContext /\ hearing = live /\ gains' # gains
            => gains'[Len(gains')].context = context]_tracker

\* Once its row has ended a session takes no further event of the tracker,
\* and it never becomes active again.
EndedForGood ==
    [][/\ ended \subseteq ended'
       /\ \A k \in DOMAIN stamps' \ DOMAIN stamps : stamps'[k].session \notin ended]_tracker

\* The lifecycle uses the engine as the engine's own specification allows,
\* so what holds of every engine behaviour holds of the tracker's.
DrivesEngine == IntervalsSpec

-----------------------------------------------------------------------------
(* What the repository states and the code does not do *)

\* intervals.rs:237: the context is "None only before the session's opening
\* context has been minted".
ContextOnceMinted ==
    live # NoSession /\ actor = "idle" /\ (\E c \in DOMAIN contexts : contexts[c].session = live)
        => context # NoContext

=============================================================================
