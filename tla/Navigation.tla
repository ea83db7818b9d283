----------------------------- MODULE Navigation -----------------------------
(***************************************************************************)
(* Map routes (navigation.rs, and map_pin_delete of eo-api/maps.rs).  A run *)
(* is an ordered list of trees; reaching one writes a visit, whose cooldown *)
(* keeps the tree out of the next route, and moves on.  Every operation     *)
(* holds one lock from its first read to its last write, but pins are       *)
(* deleted beside it, an arrival out of order is two transactions, and the  *)
(* process may die in between: then the run is ended at the next start.     *)
(*                                                                          *)
(* A start ends every other run, and only the run last touched is ever      *)
(* revived: of navigation_runs the latest is kept.  Where the player stands *)
(* is the set of trees within reach, a route may take any order, and an     *)
(* operation that moves the position only (update_position, a mark out of   *)
(* tolerance) changes nothing here.  The claim on the keyboard hook, which  *)
(* follows routeLive, is KeystrokeClaims'.                                  *)
(***************************************************************************)
EXTENDS Integers, Sequences, FiniteSets, SequencesExt, Selection

CONSTANTS
    Pin, NoPin,
    MaxUpsets,   \* bound: routes started and pins deleted, together
    MaxCooled    \* bound: cooldowns set on the map while they last

ASSUME PinAssumption == NoPin \notin Pin /\ IsFiniteSet(Pin)

VARIABLES
    pins,       \* map_pins
    route,      \* the latest run: `order` is the stops' ordinals, `done` the
                \* completed ones by completed_at, `stop` their status
    visits,     \* map_pin_visits of the run, oldest first
    cooled,     \* the pins that a visit of another run, or one set on the map,
                \* keeps on cooldown: of those rows nothing else is read
    proposal,   \* pending_harvest: the run and stop proposed for a far harvest
    routeLive,  \* route_live, and with it input_claimed
    replanning, \* an out-of-order arrival is not replanned yet
    removing,   \* the pin deleted and not yet dropped from the route
    skewed      \* history: runs that an undo brought back with a deleted or a
                \* cooling stop, or whose skip it undid with another stop's visit

navVars == <<pins, route, visits, cooled, proposal, routeLive, replanning, removing, skewed>>

NoRoute    == [id |-> 0, status |-> "ended", order |-> << >>, done |-> << >>, stop |-> << >>]
NoProposal == [run |-> 0, pin |-> NoPin]

Upsets == route.id + Cardinality(Pin \ pins)

Idle == ~replanning             \* the operation lock is free
Live == route.status = "active" \* load_live_run finds it

-----------------------------------------------------------------------------
(* Reading a run.  load_run joins map_pins: a stop whose pin was deleted is  *)
(* there for the transactions and not for what reads the run.               *)

With(run, statuses) == {p \in DOMAIN run.stop : run.stop[p] \in statuses}
Open(run)    == With(run, {"active", "pending"})
Targets(run) == Open(run) \cap pins

FirstOf(run, S) ==
    LET found == Selected(run.order, S)
    IN  IF found = << >> THEN NoPin ELSE Head(found)

active_stop == FirstOf(route, With(route, {"active"}) \cap pins)

\* The pins visited in the last two hours.
Recent(V)  == {V[k].pin : k \in {j \in DOMAIN V : ~V[j].old}}
Cooling(V) == cooled \cup Recent(V)

-----------------------------------------------------------------------------
(* Changing a run.                                                          *)

Completed(run, p, how) ==
    [run EXCEPT !.stop = [@ EXCEPT ![p] = how], !.done = Append(@, p)]

activate_next_or_complete(run) ==
    LET next == FirstOf(run, With(run, {"pending"}))
    IN  IF next = NoPin THEN [run EXCEPT !.status = "completed"]
        ELSE [run EXCEPT !.stop = [@ EXCEPT ![next] = "active"]]

\* Mutant: whatever was not visited is on the route again.
ReplannedUnvisited(run, planned) ==
    LET back == Range(planned) \cup With(run, {"skipped"})
    IN  [run EXCEPT
           !.order = run.done \o planned,
           !.stop = [p \in DOMAIN @ |-> IF p \notin back THEN @[p]
                                        ELSE IF p = Head(planned) THEN "active" ELSE "pending"]]

\* replan_locked: the completed stops first, then the new route, then what no
\* pin stands for any more.
Replanned(run, planned) ==
    [run EXCEPT
       !.order = run.done \o planned
                 \o Selected(@, DOMAIN run.stop \ (Range(planned) \cup Range(run.done))),
       !.stop = [p \in DOMAIN @ |-> IF p \notin Range(planned) THEN @[p]
                                    ELSE IF p = Head(planned) THEN "active" ELSE "pending"]]

\* The runs a replan may leave, whatever the position makes the best order.
replan_locked(run) == {Replanned(run, planned) : planned \in SetToSeqs(Targets(run))}

\* Mutant: a route that ran out of stops stays live.
ReplanAlways(run) == IF Targets(run) = {} THEN {run} ELSE replan_locked(run)

replan_or_complete(run) ==
    IF Targets(run) = {} THEN {[run EXCEPT !.status = "completed"]} ELSE replan_locked(run)

\* A completed route releases the hook.
Land(run) == route' = run /\ routeLive' = (routeLive /\ run.status # "completed")

Record(p) == visits' = Append(visits, [pin |-> p, old |-> FALSE])

\* A stop visited and the next one activated.
Visited(p) == activate_next_or_complete(Completed(route, p, "visited"))

-----------------------------------------------------------------------------
(* The operations.                                                          *)

start(S) ==
    /\ Idle /\ Upsets < MaxUpsets
    /\ S # {} /\ S \subseteq pins \ Cooling(visits)
    /\ \E planned \in SetToSeqs(S) :
         route' = [id |-> route.id + 1, status |-> "active", order |-> planned, done |-> << >>,
                   stop |-> [p \in S |-> IF p = Head(planned) THEN "active" ELSE "pending"]]
    /\ routeLive' = TRUE
    /\ visits' = << >> /\ cooled' = Cooling(visits)
    /\ UNCHANGED <<pins, proposal, replanning, removing, skewed>>

\* attach_pending_harvest, by a snapshot or a position update: a proposal that
\* does not name the active stop any more is dropped.
attach_pending_harvest ==
    /\ route.status # "ended" /\ proposal # NoProposal
    /\ ~Live \/ proposal # [run |-> route.id, pin |-> active_stop]
    /\ proposal' = NoProposal
    /\ UNCHANGED <<pins, cooled, route, visits, routeLive, replanning, removing, skewed>>

\* Within tolerance, or confirmed.
mark_visited ==
    /\ Idle /\ Live /\ active_stop # NoPin
    /\ Record(active_stop)
    /\ Land(Visited(active_stop))
    /\ UNCHANGED <<pins, cooled, proposal, replanning, removing, skewed>>

skip ==
    /\ Idle /\ Live /\ active_stop # NoPin
    /\ Land(activate_next_or_complete(Completed(route, active_stop, "skipped")))
    /\ UNCHANGED <<pins, cooled, visits, proposal, replanning, removing, skewed>>

\* The active tree first, then the only one within reach.
HarvestAtActive(near) ==
    /\ active_stop \in near
    /\ Record(active_stop) /\ Land(Visited(active_stop))
    /\ UNCHANGED <<proposal, replanning>>

\* Out of order: visited and activated in one transaction, replanned in the
\* next.  A route completed by the first keeps the hook.
HarvestOutOfOrder(near) ==
    /\ active_stop \notin near
    /\ \E p \in Targets(route) :
         /\ near \cap Targets(route) = {p}
         /\ Record(p) /\ route' = Visited(p)
    /\ replanning' = TRUE
    /\ UNCHANGED <<proposal, routeLive>>

\* No tree within reach: the active one is proposed.
HarvestFar(near) ==
    /\ near \cap Targets(route) = {} /\ active_stop # NoPin
    /\ proposal' = [run |-> route.id, pin |-> active_stop]
    /\ UNCHANGED <<route, visits, routeLive, replanning>>

\* on_harvest.  A swing repeated on the spot, one among several trees that are
\* not the active one and one that proves no arrival move the position only.
on_harvest(near) ==
    /\ Idle /\ routeLive /\ Live
    /\ HarvestAtActive(near) \/ HarvestOutOfOrder(near) \/ HarvestFar(near)
    /\ UNCHANGED <<pins, cooled, removing, skewed>>

\* With no stop in sight the plan is empty and nothing is reordered.
Replan ==
    /\ replanning /\ replanning' = FALSE
    /\ IF Targets(route) = {} THEN route' = route ELSE route' \in replan_locked(route)
    /\ UNCHANGED <<pins, cooled, visits, proposal, routeLive, removing, skewed>>

\* map_pin_cooldown.  A stop of the live route is skipped in a transaction of
\* its own and the rest replanned.
cooldown_pin(p) ==
    LET skipped == Completed(route, p, "skipped")
        after   == IF p = active_stop THEN activate_next_or_complete(skipped) ELSE skipped
    IN  /\ Idle /\ p \in pins /\ Cardinality(cooled \cup {p}) <= MaxCooled
        /\ cooled' = cooled \cup {p}
        /\ IF Live /\ p \in Targets(route)
           THEN \E run \in replan_or_complete(after) : Land(run)
           ELSE UNCHANGED <<route, routeLive>>
        /\ UNCHANGED <<pins, visits, proposal, replanning, removing, skewed>>

\* map_pin_delete: the pin's row goes at once, whatever holds the lock ...
DeletePin(p) ==
    /\ p \in pins /\ removing = NoPin
    /\ Upsets < MaxUpsets
    /\ pins' = pins \ {p} /\ removing' = p
    /\ UNCHANGED <<cooled, route, visits, proposal, routeLive, replanning, skewed>>

\* ... and its open stop when the lock is free.
replan_after_pin_removed ==
    LET kept == [route EXCEPT !.order = Selected(@, DOMAIN route.stop \ {removing}),
                              !.stop = Restrict(@, DOMAIN @ \ {removing})]
    IN  /\ Idle /\ removing # NoPin /\ removing' = NoPin
        /\ IF Live /\ removing \in Open(route)
           THEN \E run \in replan_or_complete(kept) : Land(run)
           ELSE UNCHANGED <<route, routeLive>>
        /\ UNCHANGED <<pins, cooled, visits, proposal, replanning, skewed>>

resolve_harvest(confirm) ==
    /\ Idle /\ proposal # NoProposal /\ proposal' = NoProposal
    /\ IF confirm /\ Live /\ proposal = [run |-> route.id, pin |-> active_stop]
       THEN Record(active_stop) /\ Land(Visited(active_stop))
       ELSE UNCHANGED <<route, visits, routeLive>>
    /\ UNCHANGED <<pins, cooled, replanning, removing, skewed>>

\* The last stop done is the active one again and the latest visit of the run
\* is deleted.  The run is live again, and so is the hook, which it is also
\* when there was nothing to undo.
undo ==
    LET p        == Last(route.done)
        left     == IF visits = << >> THEN visits ELSE Front(visits)
        reopened == [route EXCEPT
                       !.status = "active", !.done = Front(@),
                       !.stop = [q \in DOMAIN @ |-> IF q = p THEN "active"
                                                    ELSE IF @[q] = "active" THEN "pending"
                                                    ELSE @[q]]]
        odd      == \/ ~(Open(reopened) \subseteq pins)
                    \/ Open(reopened) \cap Cooling(left) # {}
                    \/ route.stop[p] = "skipped" /\ visits # << >>
    IN  /\ Idle /\ route # NoRoute
        /\ routeLive' = TRUE
        /\ IF route.done = << >> THEN UNCHANGED <<route, visits, skewed>>
           ELSE /\ route' = reopened /\ visits' = left
                /\ skewed' = IF odd THEN skewed \cup {route.id} ELSE skewed
        /\ UNCHANGED <<pins, cooled, proposal, replanning, removing>>

Ended == [route EXCEPT !.status = "ended"]

end ==
    /\ Idle
    /\ route' = Ended /\ routeLive' = FALSE
    /\ UNCHANGED <<pins, cooled, visits, proposal, replanning, removing, skewed>>

\* The process dies and starts again: end_lingering_runs.
Restart ==
    /\ route' = Ended /\ routeLive' = FALSE
    /\ proposal' = NoProposal /\ replanning' = FALSE /\ removing' = NoPin
    /\ UNCHANGED <<pins, cooled, visits, skewed>>

\* Two hours: the cooldown of every visit so far is over.
TimePasses ==
    /\ Cooling(visits) # {} /\ cooled' = {}
    /\ visits' = [k \in DOMAIN visits |-> [visits[k] EXCEPT !.old = TRUE]]
    /\ UNCHANGED <<pins, route, proposal, routeLive, replanning, removing, skewed>>

-----------------------------------------------------------------------------
NavInit ==
    /\ pins = Pin /\ route = NoRoute /\ visits = << >> /\ cooled = {} /\ proposal = NoProposal
    /\ routeLive = FALSE /\ replanning = FALSE /\ removing = NoPin /\ skewed = {}

NavNext ==
    \/ \E S \in SUBSET pins : start(S)
    \/ attach_pending_harvest
    \/ mark_visited
    \/ skip
    \/ \E near \in SUBSET pins : on_harvest(near)
    \/ Replan
    \/ \E p \in Pin : cooldown_pin(p)
    \/ \E p \in Pin : DeletePin(p)
    \/ replan_after_pin_removed
    \/ \E confirm \in BOOLEAN : resolve_harvest(confirm)
    \/ undo
    \/ end
    \/ Restart
    \/ TimePasses

NavSpec == NavInit /\ [][NavNext]_navVars

-----------------------------------------------------------------------------
(* Properties.                                                              *)

\* A live route is one to walk: the hook is claimed for it, exactly one stop
\* is active, every stop left stands for a pin on the map, and none is a tree
\* still cooling down.
RouteHasTarget ==
    Live /\ Idle /\ removing = NoPin /\ route.id \notin skewed
    => /\ routeLive
       /\ Cardinality(With(route, {"active"})) = 1
       /\ Open(route) \subseteq pins
       /\ Open(route) \cap Cooling(visits) = {}

\* The visits on record for the run are its visited stops, in the order they
\* were reached: no swing, confirmation, cooldown, replan or undo writes one
\* twice, loses one or leaves one behind.
VisitsFollowProgress ==
    route.id > 0 /\ route.id \notin skewed
    => [k \in DOMAIN visits |-> visits[k].pin]
       = Selected(route.done, With(route, {"visited"}))

\* Every stop has one place in the order, whatever replans renumbered, and the
\* stops done are the ones visited or skipped.
StopsListedOnce ==
    /\ IsInjective(route.order) /\ Range(route.order) = DOMAIN route.stop
    /\ IsInjective(route.done) /\ Range(route.done) = With(route, {"visited", "skipped"})

\* The books of a route (start, replan_locked, undo, cooldown_pin, the pin's
\* removal and the transactions of an arrival) agree with each other.
RouteSound == RouteHasTarget /\ VisitsFollowProgress /\ StopsListedOnce

\* Progress is undone one stop at a time: whatever a step reopens or drops of
\* the stops done is the last one done, and what is done stays in its order.
ProgressKept ==
    [][route'.id = route.id =>
         \/ IsPrefix(route.done, route'.done)
            /\ \A p \in Range(route.done) : route'.stop[p] = route.stop[p]
         \/ /\ route.done # << >> /\ route'.done = Front(route.done)
            /\ \A p \in Range(route'.done) : route'.stop[p] = route.stop[p]
            /\ Live' /\ route'.stop[Last(route.done)] = "active"]_navVars
=============================================================================
