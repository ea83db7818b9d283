----------------------------- MODULE KeystrokeClaims -----------------------------
(***************************************************************************)
(* One keyboard hook, four consumers.  SharedKeystrokeSource               *)
(* (keystroke_source.rs) counts claims over the single operating-system    *)
(* hook and attaches it for the first and detaches it for the last.  Its   *)
(* consumers claim and release it in four different ways:                  *)
(*                                                                         *)
(*   hotbar      (hotbar_listener.rs) reconciles two flags on two threads, *)
(*               the settings command's and the tracker's, without a lock; *)
(*   spacebar    (spacebar_capture_listener.rs) reconciles two flags under *)
(*               a transition lock;                                        *)
(*   confirm     (coord_capture.rs) follows a calibration flow moved by    *)
(*               commands and by the confirming keypresses;                *)
(*   navigation  (navigation.rs) claims blindly, whether or not the hook   *)
(*               attached, under its operation lock.                       *)
(*                                                                         *)
(* Every load, store and source call of an unlocked reconcile is a step of *)
(* its own.  Keystrokes themselves are left out, but for the presses that  *)
(* move the calibration.                                                   *)
(***************************************************************************)
EXTENDS Naturals, FiniteSets

CONSTANTS
    Thread,    \* the threads of this instance, among AllThreads
    MaxClaims  \* bound on the claims held at once

AllThreads == {"settings", "session", "skill", "research", "calibrate", "enter", "route"}

ASSUME ThreadAssumption == Thread \subseteq AllThreads /\ MaxClaims \in Nat

VARIABLES
    count,    \* SharedKeystrokeSource.active
    hooked,   \* the hook is attached
    running,  \* source_running (navigation: input_claimed) of each consumer
    pc,       \* where each thread is in its reconcile
    lock,     \* the thread holding the spacebar's transition lock, or "free"
    flag,     \* hooks_enabled, session_active, skill_enabled, research_enabled
    enabled,  \* the confirm listener's enabled flag
    phase,    \* the calibration flow
    crossed,  \* consumers whose unlocked reconciles have ever overlapped
    blind     \* a claim that never attached has been released

claims == <<count, hooked, running, pc, lock, flag, enabled, phase, crossed, blind>>

Consumer == {"hotbar", "spacebar", "confirm", "navigation"}

Of(t) == CASE t \in {"settings", "session"} -> "hotbar"
           [] t \in {"skill", "research"}   -> "spacebar"
           [] t \in {"calibrate", "enter"}  -> "confirm"
           [] t = "route"                   -> "navigation"

Flags == {"settings", "session", "skill", "research"}
Pcs   == {"idle", "decide", "arm", "disarm", "mayStart", "mayStop", "start", "stop", "on", "off",
          "pressed"}

ClaimsTypeOK ==
    /\ count \in Nat
    /\ hooked = (count > 0)
    /\ running \in [Consumer -> BOOLEAN]
    /\ pc \in [Thread -> Pcs]
    /\ lock \in Thread \cup {"free"}
    /\ flag \in [Flags -> BOOLEAN]
    /\ enabled \in BOOLEAN
    /\ phase \in {"idle", "first", "second"}
    /\ crossed \subseteq Consumer
    /\ blind \in BOOLEAN

ClaimsInit ==
    /\ count = 0 /\ hooked = FALSE
    /\ running = [c \in Consumer |-> FALSE]
    /\ pc = [t \in Thread |-> "idle"]
    /\ lock = "free"
    /\ flag = [f \in Flags |-> FALSE]
    /\ enabled = FALSE /\ phase = "idle"
    /\ crossed = {} /\ blind = FALSE

-----------------------------------------------------------------------------
(* The shared source: each call is atomic under its own lock *)

\* SharedKeystrokeSource::start, and what it returns.
SourceStart(attached) ==
    /\ count < MaxClaims
    /\ count > 0 => attached
    /\ count' = IF attached THEN count + 1 ELSE count
    /\ hooked' = attached

\* SharedKeystrokeSource::stop.
SourceStop ==
    /\ count' = IF count = 0 THEN 0 ELSE count - 1
    /\ hooked' = (count > 1)

-----------------------------------------------------------------------------
(* Claiming and releasing with a flag of one's own *)

\* A confirming press that has yet to reach the flow is not in its section.
Resting        == {"idle", "pressed"}
Idle(c)        == \A t \in Thread : Of(t) = c => pc[t] \in Resting
Goto(t, place) == pc' = [pc EXCEPT ![t] = place]

\* The thread enters an unlocked section of its consumer.
Enter(t, place) ==
    /\ pc[t] \in Resting
    /\ Goto(t, place)
    /\ crossed' = IF Idle(Of(t)) THEN crossed ELSE crossed \cup {Of(t)}

\* Mutant: a start does not look at whether the source already runs.
ChecksAlways(t) ==
    /\ pc[t] \in {"mayStart", "mayStop"}
    /\ IF pc[t] = "mayStart" THEN Goto(t, "start")
       ELSE IF running[Of(t)] THEN Goto(t, "stop") ELSE Goto(t, "idle")
    /\ UNCHANGED <<count, hooked, running, lock, flag, enabled, phase, crossed, blind>>

\* start_source and stop_source look at source_running first...
Checks(t) ==
    /\ pc[t] \in {"mayStart", "mayStop"}
    /\ IF pc[t] = "mayStart"
       THEN IF running[Of(t)] THEN Goto(t, "idle") ELSE Goto(t, "start")
       ELSE IF running[Of(t)] THEN Goto(t, "stop") ELSE Goto(t, "idle")
    /\ UNCHANGED <<count, hooked, running, lock, flag, enabled, phase, crossed, blind>>

\* ...then call the source...
Starts(t) ==
    /\ pc[t] = "start"
    /\ \E attached \in BOOLEAN :
           SourceStart(attached) /\ Goto(t, IF attached THEN "on" ELSE "off")
    /\ UNCHANGED <<running, lock, flag, enabled, phase, crossed, blind>>

Stops(t) ==
    /\ pc[t] = "stop" /\ Of(t) # "spacebar"
    /\ SourceStop
    /\ Goto(t, "off")
    /\ UNCHANGED <<running, lock, flag, enabled, phase, crossed, blind>>

\* ...and store the outcome; the spacebar then leaves its lock.
Marks(t) ==
    /\ pc[t] \in {"on", "off"}
    /\ running' = [running EXCEPT ![Of(t)] = (pc[t] = "on")]
    /\ Goto(t, "idle")
    /\ lock' = IF lock = t THEN "free" ELSE lock
    /\ UNCHANGED <<count, hooked, flag, enabled, phase, crossed, blind>>

-----------------------------------------------------------------------------
(* The hotbar: the settings command and the tracker's session events *)

HotbarSets(t, value) ==
    /\ t \in {"settings", "session"} \cap Thread
    /\ t = "session" => flag[t] # value
    /\ flag' = [flag EXCEPT ![t] = value]
    /\ Enter(t, "decide")
    /\ UNCHANGED <<count, hooked, running, lock, enabled, phase, blind>>

\* reconcile: the toggle and the session together decide.
HotbarDecides(t) ==
    /\ pc[t] = "decide" /\ Of(t) = "hotbar"
    /\ Goto(t, IF flag["settings"] /\ flag["session"] THEN "mayStart" ELSE "mayStop")
    /\ UNCHANGED <<count, hooked, running, lock, flag, enabled, phase, crossed, blind>>

-----------------------------------------------------------------------------
(* The spacebar: the overlay toggle and the research consumer *)

\* Under the lock, setting the value it has already returns at once.
SpaceSets(t, value) ==
    /\ t \in {"skill", "research"} \cap Thread
    /\ pc[t] = "idle" /\ lock = "free"
    /\ lock' = t
    /\ flag[t] # value
    /\ flag' = [flag EXCEPT ![t] = value]
    /\ Goto(t, "decide")
    /\ UNCHANGED <<count, hooked, running, enabled, phase, crossed, blind>>

\* reconcile_source: the source runs while either consumer needs it.  Before
\* a stop the callbacks are made inert.
SpaceDecides(t) ==
    LET desired == flag["skill"] \/ flag["research"]
    IN  /\ pc[t] = "decide" /\ Of(t) = "spacebar"
        /\ Goto(t, IF desired /\ ~running["spacebar"] THEN "start"
                   ELSE IF ~desired /\ running["spacebar"] THEN "stop" ELSE "idle")
        /\ running' = [running EXCEPT !["spacebar"] = @ /\ desired]
        /\ lock' = IF desired = running["spacebar"] THEN "free" ELSE lock
        /\ UNCHANGED <<count, hooked, flag, enabled, phase, crossed, blind>>

SpaceStops(t) ==
    /\ pc[t] = "stop" /\ Of(t) = "spacebar"
    /\ SourceStop
    /\ Goto(t, "idle")
    /\ lock' = IF lock = t THEN "free" ELSE lock
    /\ UNCHANGED <<running, flag, enabled, phase, crossed, blind>>

-----------------------------------------------------------------------------
(* The calibration flow and its confirm listener *)

\* calibration_start (or restart) and calibration_cancel move the flow, and
\* flip the listener after releasing the flow's lock.
CalibrationMoves(to) ==
    /\ "calibrate" \in Thread
    /\ phase' = to
    /\ Enter("calibrate", IF to = "idle" THEN "disarm" ELSE "arm")
    /\ UNCHANGED <<count, hooked, running, lock, flag, enabled, blind>>

\* A press passes the listener's gates and gets a thread of its own.
EnterPressed ==
    /\ "enter" \in Thread /\ pc["enter"] = "idle"
    /\ running["confirm"] /\ enabled /\ phase # "idle"
    /\ Goto("enter", "pressed")
    /\ UNCHANGED <<count, hooked, running, lock, flag, enabled, phase, crossed, blind>>

\* Mutant: the finished flow leaves the listener armed.
OnConfirmStayingArmed(to) ==
    /\ "enter" \in Thread /\ pc["enter"] = "pressed"
    /\ phase = "idle" => to = "idle"
    /\ phase' = to
    /\ Goto("enter", "idle")
    /\ UNCHANGED <<count, hooked, running, lock, flag, enabled, crossed, blind>>

\* on_confirm on that thread: the first corner, a second corner too small to
\* keep, or the end of the flow (kept, not persisted, or without a cursor),
\* which disarms after releasing the flow's lock.  A flow that was cancelled
\* meanwhile stays idle.
OnConfirm(to) ==
    /\ "enter" \in Thread /\ pc["enter"] = "pressed"
    /\ phase = "idle" => to = "idle"
    /\ phase' = to
    /\ \/ to = "idle" /\ Enter("enter", "disarm")
       \/ (to = "second" \/ phase = "idle") /\ Goto("enter", "idle") /\ UNCHANGED crossed
    /\ UNCHANGED <<count, hooked, running, lock, flag, enabled, blind>>

\* set_enabled swaps the flag and returns if it had that value.
ConfirmSets(t) ==
    /\ pc[t] \in {"arm", "disarm"}
    /\ enabled' = (pc[t] = "arm")
    /\ Goto(t, IF enabled' = enabled THEN "idle"
               ELSE IF enabled' THEN "mayStart" ELSE "mayStop")
    /\ UNCHANGED <<count, hooked, running, lock, flag, phase, crossed, blind>>

-----------------------------------------------------------------------------
(* Navigation *)

\* claim_input: the claim is recorded whatever the source answered.
RouteClaims ==
    /\ "route" \in Thread
    /\ ~running["navigation"]
    /\ running' = [running EXCEPT !["navigation"] = TRUE]
    /\ \E attached \in BOOLEAN :
           SourceStart(attached) /\ Goto("route", IF attached THEN "on" ELSE "off")
    /\ UNCHANGED <<lock, flag, enabled, phase, crossed, blind>>

\* release_input_if_idle, when the route has ended; "pc" only remembers
\* whether the claim had attached.
RouteReleases ==
    /\ "route" \in Thread
    /\ running["navigation"]
    /\ running' = [running EXCEPT !["navigation"] = FALSE]
    /\ SourceStop
    /\ blind' = (blind \/ (pc["route"] = "off" /\ count > 0))
    /\ Goto("route", "idle")
    /\ UNCHANGED <<lock, flag, enabled, phase, crossed>>

-----------------------------------------------------------------------------
ClaimsNext ==
    \/ \E t \in Thread, value \in BOOLEAN : HotbarSets(t, value) \/ SpaceSets(t, value)
    \/ \E t \in Thread : \/ HotbarDecides(t) \/ SpaceDecides(t) \/ SpaceStops(t)
                         \/ ConfirmSets(t)
                         \/ Of(t) # "navigation"
                            /\ (Checks(t) \/ Starts(t) \/ Stops(t) \/ Marks(t))
    \/ \E to \in {"idle", "first"} : CalibrationMoves(to)
    \/ EnterPressed
    \/ \E to \in {"idle", "second"} : OnConfirm(to)
    \/ RouteClaims
    \/ RouteReleases

ClaimsSpec == ClaimsInit /\ [][ClaimsNext]_claims

-----------------------------------------------------------------------------
(* Properties *)

Settled == \A c \in Consumer \ {"navigation"} : Idle(c)

\* The consumers holding a claim: navigation's counts when it attached.
Claimants == {c \in Consumer : /\ running[c]
                               /\ c = "navigation" => pc["route"] = "on"}

\* However starts, failed attaches and stops of the four consumers
\* interleave, the source counts exactly the listeners that run on it, as
\* long as no unlocked reconcile overlapped another and no navigation claim
\* that never attached was released (start, stop, keystroke_source.rs).
ClaimsAreCounted ==
    /\ ClaimsTypeOK
    /\ (Settled /\ crossed = {} /\ ~blind) => count = Cardinality(Claimants)

\* The spacebar's lock does what reconcile_source says of it: its two
\* consumers cannot race a double start or a stop of a source that does not
\* run, and outside the lock the source runs only while one of them is on.
SpacebarExact ==
    LET inside == {t \in Thread : Of(t) = "spacebar" /\ pc[t] # "idle"}
    IN  /\ Cardinality(inside) <= 1
        /\ inside = {} => (running["spacebar"] => flag["skill"] \/ flag["research"])
        /\ \A t \in inside : pc[t] \in {"start", "stop"} => ~running["spacebar"]

\* When its reconciles never overlapped, a hotbar that runs has its
\* capability on and a session live, however many toggles and sessions came
\* before (reconcile, hotbar_listener.rs).
HotbarFollowsGate ==
    (Idle("hotbar") /\ "hotbar" \notin crossed)
        => (running["hotbar"] => flag["settings"] /\ flag["session"])

\* When its transitions never overlapped, the confirm listener is enabled
\* exactly while a calibration flow is live, through restarts, cancels,
\* abandoned and finished flows (set_listener_enabled, coord_capture.rs).
ConfirmFollowsFlow ==
    (Idle("confirm") /\ "confirm" \notin crossed) => (enabled = (phase # "idle"))

\* Each listener runs only as far as its own gate allows: the spacebar under
\* its lock, the hotbar and the confirmation when their reconciles never
\* overlapped (reconcile_source, reconcile, set_listener_enabled).
GatesFollowed == SpacebarExact /\ HotbarFollowsGate /\ ConfirmFollowsFlow

\* The claims on the shared source are counted, and each claim is one its
\* consumer's gate allows.
ClaimsSound == ClaimsAreCounted /\ GatesFollowed
=============================================================================
