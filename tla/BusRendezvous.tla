------------------------------ MODULE BusRendezvous ------------------------------
(***************************************************************************)
(* Who waits for whom.  The event bus (event_bus.rs) calls subscribers on  *)
(* the publisher's thread, and the two actors, the tracker                 *)
(* (tracker/actor.rs) and the quest service (quests/actor.rs), answer a    *)
(* forwarded event only when they have absorbed it: publishing is a        *)
(* rendezvous.  Around them run the chat watcher's thread                  *)
(* (chatlog_watcher.rs), the hotbar's resolve worker (hotbar_listener.rs), *)
(* the completion probes spawned on the runtime, and the user's commands.  *)
(*                                                                         *)
(* Each of these is a process that waits on at most one actor.  Payloads   *)
(* are dropped: an event keeps its publisher, the chat tick it came from   *)
(* and the session it was meant for.  What the actors do with an event is  *)
(* in the modules of their own state.                                      *)
(***************************************************************************)
EXTENDS Naturals, Sequences, FiniteSets

CONSTANTS
    Session,     \* session identifiers, never reused
    NoSession,   \* no session
    Probe,       \* completion tasks on the runtime
    Nobody,      \* waiting for no one
    MaxTicks,    \* bound on flushed chat ticks
    MaxPresses,  \* bound on hotbar presses
    MaxStops     \* bound on stop commands

ASSUME SessionAssumption == NoSession \notin Session
ASSUME BoundAssumption == MaxTicks \in Nat /\ MaxPresses \in Nat /\ MaxStops \in Nat

VARIABLES
    live,        \* the tracker's session
    subscribed,  \* whether the tracker's bus forwarders are registered
    inbox,       \* the tracker's message channel
    announcing,  \* lifecycle events a command under way has still to publish
    told,        \* the first of them has been published to the quest service
    caller,      \* who gets the reply of that command
    desk,        \* the quest service's message channel
    questOn,     \* the session its watch holds
    waiting,     \* the actor each process waits for, or Nobody
    tick,        \* number of chat ticks flushed
    todo,        \* what is left of the current tick's flush
    carrying,    \* its publish has the subscriber snapshot, not yet called
    probes,      \* the tick each spawned probe completes, 0 when idle
    gate,        \* active_session_id of the hotbar gate
    intent,      \* the resolve worker's request
    used,        \* presses and stops so far, and the sessions started
    absorbed     \* what the tracker has absorbed, in order

trackerVars == <<live, subscribed, inbox, announcing, told, caller, absorbed>>
questVars   == <<desk, questOn>>
watchVars   == <<tick, todo, carrying>>
hotbarVars  == <<gate, intent>>
bus == <<trackerVars, questVars, watchVars, hotbarVars, probes, used, waiting>>

Actor   == {"tracker", "quest"}
Client  == {"watcher", "hotbar", "user"} \cup Probe
Process == Actor \cup Client

ASSUME ProcessAssumption ==
    /\ Client \cap Actor = {} /\ Nobody \notin Process
    /\ Probe \cap {"watcher", "hotbar", "user"} = {}

Started(s) == [what |-> "started", session |-> s]
Stopped(s) == [what |-> "stopped", session |-> s]
Lifecycle  == {Started(s) : s \in Session} \cup {Stopped(s) : s \in Session}

\* A message of the tracker: commands, stretch closes and forwarded events.
Message == [kind : {"start", "stop", "close", "event", "intent"},
            from : Process, tick : Nat, session : Session \cup {NoSession}]
Absorbed == [kind : {"close", "event", "intent"}, from : Process, tick : Nat,
             meant : Session \cup {NoSession}, live : Session \cup {NoSession}]

NoIntent == [step |-> "none", session |-> NoSession]

BusTypeOK ==
    /\ live \in Session \cup {NoSession}
    /\ subscribed \in BOOLEAN /\ told \in BOOLEAN /\ carrying \in BOOLEAN
    /\ inbox \in Seq(Message)
    /\ announcing \in Seq(Lifecycle)
    /\ caller \in Process
    /\ desk \in Seq([kind : {"filter", "mission", "started", "stopped"},
                     from : Process, session : Session \cup {NoSession}])
    /\ questOn \in Session \cup {NoSession}
    /\ waiting \in [Process -> Actor \cup {Nobody}]
    /\ tick \in Nat
    /\ todo \in Seq({"filter", "event", "mission", "probe"})
    /\ probes \in [Probe -> Nat]
    /\ gate \in Session \cup {NoSession}
    /\ intent = NoIntent \/
       intent \in [step : {"queued", "matched", "carrying"}, session : Session]
    /\ absorbed \in Seq(Absorbed)

BusInit ==
    /\ live = NoSession /\ subscribed = FALSE
    /\ inbox = << >> /\ announcing = << >> /\ told = FALSE /\ caller = "user"
    /\ desk = << >> /\ questOn = NoSession
    /\ waiting = [p \in Process |-> Nobody]
    /\ tick = 0 /\ todo = << >> /\ carrying = FALSE
    /\ probes = [p \in Probe |-> 0]
    /\ gate = NoSession /\ intent = NoIntent
    /\ used = [presses |-> 0, stops |-> 0, sessions |-> {}]
    /\ absorbed = << >>

-----------------------------------------------------------------------------
(* The rendezvous: enqueue, then wait for the actor's reply. *)

Free(p)        == waiting[p] = Nobody
Wait(p, actor) == waiting' = [waiting EXCEPT ![p] = actor]
Reply(p)       == waiting' = [waiting EXCEPT ![p] = Nobody]

AskTracker(p, kind, n, s) ==
    /\ inbox' = Append(inbox, [kind |-> kind, from |-> p, tick |-> n, session |-> s])
    /\ Wait(p, "tracker")

AskQuest(p, kind, s) ==
    /\ desk' = Append(desk, [kind |-> kind, from |-> p, session |-> s])
    /\ Wait(p, "quest")

-----------------------------------------------------------------------------
(* The tracker's task *)

\* Between messages the task takes the next one.
Taking ==
    /\ announcing = << >>
    /\ inbox # << >>
    /\ inbox' = Tail(inbox)

Absorb(m) ==
    absorbed' = Append(absorbed, [kind |-> m.kind, from |-> m.from, tick |-> m.tick,
                                  meant |-> m.session, live |-> live])

\* A chat event is handled by whatever session is live; an intent only by
\* the session it was pressed in.
Accepts(m) == live # NoSession /\ (m.kind = "intent" => m.session = live)

\* Mutant: a refused event returns before the reply is sent.
TakeEventSilently ==
    LET m == Head(inbox)
    IN  /\ Taking
        /\ m.kind \in {"event", "intent", "close"}
        /\ IF Accepts(m) THEN Absorb(m) /\ Reply(m.from)
           ELSE UNCHANGED <<absorbed, waiting>>
        /\ UNCHANGED <<live, subscribed, announcing, told, caller,
                       questVars, watchVars, hotbarVars, probes, used>>

\* A forwarded event or a stretch close: one dispatch, then the reply.  An
\* event the session does not accept is dropped, and answered all the same.
TakeEvent ==
    LET m == Head(inbox)
    IN  /\ Taking
        /\ m.kind \in {"event", "intent", "close"}
        /\ IF Accepts(m) THEN Absorb(m) ELSE UNCHANGED absorbed
        /\ Reply(m.from)
        /\ UNCHANGED <<live, subscribed, announcing, told, caller,
                       questVars, watchVars, hotbarVars, probes, used>>

\* A start or a stop: a start on a live session stops it first, a stop with
\* no session has nothing to do, and the stop or the start may fail before
\* it publishes.
TakeCommand ==
    LET m == Head(inbox)
        stopping == IF live = NoSession THEN << >> ELSE <<Stopped(live)>>
        starting == IF m.kind = "start" THEN <<Started(m.session)>> ELSE << >>
    IN  /\ Taking
        /\ m.kind \in {"start", "stop"}
        /\ announcing' \in {<< >>, stopping, stopping \o starting}
        /\ IF announcing' = << >> THEN Reply(m.from) ELSE UNCHANGED waiting
        /\ caller' = m.from
        /\ UNCHANGED <<live, subscribed, told, absorbed,
                       questVars, watchVars, hotbarVars, probes, used>>

\* Publish a lifecycle event.  Before Started the session is in memory and
\* the forwarders are registered; before Stopped they are removed.  The
\* quest service comes first in the registry, and the tracker waits for it.
Announce ==
    LET e == Head(announcing)
    IN  /\ announcing # << >> /\ ~told
        /\ told' = TRUE
        /\ subscribed' = (e.what = "started")
        /\ live' = IF e.what = "started" THEN e.session ELSE live
        /\ AskQuest("tracker", e.what, e.session)
        /\ UNCHANGED <<inbox, announcing, caller, absorbed, questOn,
                       watchVars, hotbarVars, probes, used>>

\* Mutant: the hotbar keeps the session that has stopped.
AnnouncedGateKept ==
    LET e == Head(announcing)
    IN  /\ told /\ Free("tracker")
        /\ told' = FALSE
        /\ announcing' = Tail(announcing)
        /\ gate' = IF e.what = "started" THEN e.session ELSE gate
        /\ live' = IF e.what = "started" THEN live ELSE NoSession
        /\ IF announcing' = << >> THEN Reply(caller) ELSE UNCHANGED waiting
        /\ UNCHANGED <<subscribed, inbox, caller, absorbed, intent, questVars,
                       watchVars, probes, used>>

\* The hotbar listener hears it next, on the tracker's task; a stopped
\* session is then dropped, and the last publish ends the command.
Announced ==
    LET e == Head(announcing)
    IN  /\ told /\ Free("tracker")
        /\ told' = FALSE
        /\ announcing' = Tail(announcing)
        /\ gate' = IF e.what = "started" THEN e.session ELSE NoSession
        /\ live' = IF e.what = "started" THEN live ELSE NoSession
        /\ IF announcing' = << >> THEN Reply(caller) ELSE UNCHANGED waiting
        /\ UNCHANGED <<subscribed, inbox, caller, absorbed, intent, questVars,
                       watchVars, probes, used>>

TrackerStep == TakeEvent \/ TakeCommand \/ Announce \/ Announced

-----------------------------------------------------------------------------
(* The quest service's task *)

\* Mutant: the reward filter completes the quest on the spot, and so waits
\* for the tracker to close its stretch.
QuestCompletesInFilter ==
    LET m == Head(desk)
    IN  /\ desk # << >> /\ Free("quest")
        /\ desk' = Tail(desk)
        /\ questOn' = CASE m.kind = "started" -> m.session
                        [] m.kind = "stopped" -> NoSession
                        [] OTHER -> questOn
        /\ IF m.kind = "filter"
           THEN /\ inbox' = Append(inbox, [kind |-> "close", from |-> "quest",
                                           tick |-> tick, session |-> NoSession])
                /\ waiting' = [waiting EXCEPT !["quest"] = "tracker", ![m.from] = Nobody]
           ELSE Reply(m.from) /\ UNCHANGED inbox
        /\ UNCHANGED <<live, subscribed, announcing, told, caller, absorbed,
                       watchVars, hotbarVars, probes, used>>

\* A lifecycle event moves the watch, a received mission may start a quest,
\* a filter only reads: none of them waits for anyone but the database.
QuestTakes ==
    LET m == Head(desk)
    IN  /\ desk # << >> /\ Free("quest")
        /\ desk' = Tail(desk)
        /\ questOn' = CASE m.kind = "started" -> m.session
                        [] m.kind = "stopped" -> NoSession
                        [] OTHER -> questOn
        /\ Reply(m.from)
        /\ UNCHANGED <<trackerVars, watchVars, hotbarVars, probes, used>>

-----------------------------------------------------------------------------
(* The chat watcher's thread *)

\* Mutant: the probe is fired as soon as the filter has answered.
FlushOrderProbeFirst(looted, received, completes) ==
    <<"filter">>
    \o (IF looted \/ completes THEN <<"probe">> ELSE << >>)
    \o (IF looted THEN <<"event">> ELSE << >>)
    \o (IF received THEN <<"mission">> ELSE << >>)
    \o <<"event">>

\* The order of a flush: the reward filters answer before anything is
\* published, the loot group, the received missions and the settled-tick
\* boundary follow, and a completion or a loot probe comes last.
FlushOrder(looted, received, completes) ==
    <<"filter">>
    \o (IF looted THEN <<"event">> ELSE << >>)
    \o (IF received THEN <<"mission">> ELSE << >>)
    \o <<"event">>
    \o (IF looted \/ completes THEN <<"probe">> ELSE << >>)

FlushTick ==
    /\ todo = << >> /\ Free("watcher")
    /\ tick < MaxTicks
    /\ tick' = tick + 1
    /\ \E looted, received, completes \in BOOLEAN :
           todo' = FlushOrder(looted, received, completes)
    /\ UNCHANGED <<carrying, trackerVars, questVars, hotbarVars, probes, used, waiting>>

WatcherAt(step) ==
    /\ Free("watcher") /\ todo # << >> /\ Head(todo) = step

\* The filter, and a received mission, are answered by the quest service.
WatcherAsksQuest ==
    /\ \E kind \in {"filter", "mission"} :
           WatcherAt(kind) /\ AskQuest("watcher", kind, NoSession)
    /\ todo' = Tail(todo)
    /\ UNCHANGED <<tick, carrying, questOn, trackerVars, hotbarVars, probes, used>>

\* publish takes its snapshot of the subscribers under the lock...
WatcherSnapshots ==
    /\ WatcherAt("event") /\ ~carrying
    /\ IF subscribed THEN carrying' = TRUE /\ UNCHANGED todo
       ELSE todo' = Tail(todo) /\ UNCHANGED carrying
    /\ UNCHANGED <<tick, trackerVars, questVars, hotbarVars, probes, used, waiting>>

\* ...and calls them after releasing it.
WatcherDelivers ==
    /\ carrying
    /\ carrying' = FALSE
    /\ todo' = Tail(todo)
    /\ AskTracker("watcher", "event", tick, NoSession)
    /\ UNCHANGED <<tick, live, subscribed, announcing, told, caller, absorbed, questVars,
                   hotbarVars, probes, used>>

\* The probe is spawned on the runtime and not waited for.
WatcherProbes ==
    /\ WatcherAt("probe")
    /\ todo' = Tail(todo)
    /\ \E p \in Probe : probes[p] = 0 /\ probes' = [probes EXCEPT ![p] = tick]
    /\ UNCHANGED <<tick, carrying, trackerVars, questVars, hotbarVars, used, waiting>>

WatcherStep == WatcherAsksQuest \/ WatcherSnapshots \/ WatcherDelivers \/ WatcherProbes

\* A completion closes the quest's stretch, from a task of its own.
ProbeCloses(p) ==
    /\ probes[p] # 0 /\ Free(p)
    /\ probes' = [probes EXCEPT ![p] = 0]
    /\ AskTracker(p, "close", probes[p], NoSession)
    /\ UNCHANGED <<live, subscribed, announcing, told, caller, absorbed, questVars,
                   watchVars, hotbarVars, used>>

-----------------------------------------------------------------------------
(* The hotbar: the hook's callback queues, the worker resolves *)

Press ==
    /\ intent = NoIntent /\ gate # NoSession
    /\ used.presses < MaxPresses
    /\ used' = [used EXCEPT !.presses = @ + 1]
    /\ intent' = [step |-> "queued", session |-> gate]
    /\ UNCHANGED <<gate, trackerVars, questVars, watchVars, probes, waiting>>

\* The worker compares the session, then publishes in two steps of its own.
IntentMatches ==
    /\ intent.step = "queued" /\ Free("hotbar")
    /\ intent' = IF gate = intent.session THEN [intent EXCEPT !.step = "matched"] ELSE NoIntent
    /\ UNCHANGED <<gate, trackerVars, questVars, watchVars, probes, used, waiting>>

IntentSnapshots ==
    /\ intent.step = "matched"
    /\ intent' = IF subscribed THEN [intent EXCEPT !.step = "carrying"] ELSE NoIntent
    /\ UNCHANGED <<gate, trackerVars, questVars, watchVars, probes, used, waiting>>

IntentDelivers ==
    /\ intent.step = "carrying" /\ Free("hotbar")
    /\ AskTracker("hotbar", "intent", 0, intent.session)
    /\ intent' = NoIntent
    /\ UNCHANGED <<gate, live, subscribed, announcing, told, caller, absorbed, questVars,
                   watchVars, probes, used>>

HotbarStep == IntentMatches \/ IntentSnapshots \/ IntentDelivers

-----------------------------------------------------------------------------
(* The user's commands *)

Command ==
    /\ Free("user")
    /\ \/ \E s \in Session \ used.sessions :
              /\ AskTracker("user", "start", 0, s)
              /\ used' = [used EXCEPT !.sessions = @ \cup {s}]
       \/ /\ used.stops < MaxStops
          /\ AskTracker("user", "stop", 0, NoSession)
          /\ used' = [used EXCEPT !.stops = @ + 1]
    /\ UNCHANGED <<live, subscribed, announcing, told, caller, absorbed, questVars,
                   watchVars, hotbarVars, probes>>

BusNext ==
    \/ TrackerStep
    \/ QuestTakes
    \/ FlushTick
    \/ WatcherStep
    \/ \E p \in Probe : ProbeCloses(p)
    \/ Press
    \/ HotbarStep
    \/ Command

BusSpec == BusInit /\ [][BusNext]_bus

-----------------------------------------------------------------------------
(* Properties *)

\* No set of processes waits on itself, so no rendezvous can block for good:
\* the tracker waits for the quest service while it announces, and the quest
\* service must then never wait for the tracker (quests/actor.rs:13).
NoWaitCycle ==
    ~ \E P \in (SUBSET Process) \ {{}} : \A p \in P : waiting[p] \in P

\* "A bus publisher returning from publish has always meant the quest flow
\* fully absorbed the event" (quests/actor.rs:8), and the same of the
\* tracker: a process that waits for nobody has nothing left in an inbox.
AbsorbedOnReturn ==
    \A p \in Process : Free(p) =>
        /\ \A k \in DOMAIN inbox : inbox[k].from # p
        /\ \A k \in DOMAIN desk : desk[k].from # p

\* Between messages the quest service and the hotbar hold the session the
\* tracker holds: neither can attribute to a session that has been left.
FollowersAgree ==
    /\ BusTypeOK
    /\ announcing = << >> => questOn = live /\ gate = live

\* An intent is applied only to the session it was pressed in, although the
\* worker's check, the snapshot and the delivery are three separate steps
\* with starts and stops between them.
IntentInItsSession ==
    \A k \in DOMAIN absorbed :
        absorbed[k].kind = "intent" => absorbed[k].meant = absorbed[k].live

\* A completion closes its stretch only after the tracker has absorbed the
\* events of the completing tick (chatlog_watcher.rs:848).
CloseAfterOwnTick ==
    \A i, j \in DOMAIN absorbed :
        absorbed[i].kind = "close" /\ absorbed[j].kind = "event"
            /\ absorbed[i].tick = absorbed[j].tick => j < i

\* The tracker's task has a step to take that waits for nobody, and the quest
\* service's.
TrackerCanGoOn == IF announcing = << >> THEN inbox # << >> ELSE told => Free("tracker")
QuestCanGoOn   == desk # << >> /\ Free("quest")

\* Whoever waits is being served.  Its call is in the inbox of the actor it
\* waits for, or is the command in that actor's hands; and the actor can go on,
\* or is itself waiting for the quest service, which can: no message is lost or
\* dropped unanswered, whichever session it finds (tracker/actor.rs:346).
WaitsAreServed ==
    \A p \in Process :
        /\ waiting[p] = "quest" =>
               /\ \E k \in DOMAIN desk : desk[k].from = p
               /\ QuestCanGoOn
        /\ waiting[p] = "tracker" =>
               /\ \/ \E k \in DOMAIN inbox : inbox[k].from = p
                  \/ announcing # << >> /\ caller = p
               /\ TrackerCanGoOn \/ (waiting["tracker"] = "quest" /\ QuestCanGoOn)

\* No rendezvous can stop the program: nobody waits in a circle, and whoever is
\* waited for has a step to take (tracker/actor.rs:346).
WaitsSound == NoWaitCycle /\ WaitsAreServed

\* Every publish and every command returns: whatever is in flight, the
\* actor that is waited for answers.
EveryCallReturns ==
    \A p \in Process : waiting[p] # Nobody ~> waiting[p] = Nobody

\* A publisher that returned has been absorbed, and between messages the quest
\* service and the hotbar hold the tracker's session (quests/actor.rs:8).
CallsAbsorbed == AbsorbedOnReturn /\ FollowersAgree

\* Intents count in the session they were pressed in, and a completion closes
\* its stretch after its own tick was absorbed (chatlog_watcher.rs:848).
AttributedInPlace == IntentInItsSession /\ CloseAfterOwnTick
=============================================================================
