------------------------- MODULE ProtectionEvidence -------------------------
(***************************************************************************)
(* What armour and plates cost (protection.rs, tracker/session.rs           *)
(* set_protection and declare_whole_session_protection, tracker/combat.rs). *)
(* Every hit a session takes is evidence, stamped with the setup that       *)
(* stands.  A cost, read at the terminal long after, is shared over the     *)
(* evidence it matches and claims it, layer by layer: a limited set costs   *)
(* what two readings of its value differ by, an unlimited one what its      *)
(* repair cost.  A session that tracks one setup for its whole length may   *)
(* name it while it runs or after it ended; evidence a cost has claimed     *)
(* stays with the setup that was standing then.                             *)
(*                                                                          *)
(* The tracker's actor and the protection service write the same tables:    *)
(* a declaration reads whether anything is settled and opens its interval   *)
(* afterwards, and the service may settle something in between.  Costs are  *)
(* whole units; the shares of contexts inside a session, names and markup   *)
(* are left out.                                                            *)
(***************************************************************************)
EXTENDS Integers, Sequences, FiniteSets, FiniteSetsExt

CONSTANTS
    SessionId, Absent,
    Armour, Plates,     \* protection sets
    Limited,            \* those priced by readings; the others by repairs
    Loadout,            \* setups: [armour, plates], either may be Absent
    MaxHits, MaxSetups, MaxCosts, MaxValue

Layer == Armour \union Plates

ASSUME LayersAssumption ==
    /\ Armour \cap Plates = {} /\ Limited \subseteq Layer /\ Absent \notin Layer
    /\ \A l \in Loadout : l.armour \in Armour \union {Absent} /\ l.plates \in Plates \union {Absent}

VARIABLES
    tracked,     \* the session the tracker records, or Absent
    closed,      \* sessions that ended
    bySegment,   \* track_protection_by_segment of each session
    setups,      \* protection intervals of all sessions, in order of their ids
    standing,    \* the interval that is open in the tracker's memory, 0 if none
    declaring,   \* a declaration between its read and its write
    hits,        \* protection_defence_events: session and interval (0: none)
    claims,      \* protection_cost_evidence: window, layer (Absent: all) and hit
    windows,     \* protection_cost_windows with their allocations
    reading,     \* the last of protection_observations of each limited set
    armourCost   \* tracking_sessions.armour_cost

trackerVars == <<tracked, closed, standing, declaring>>
evidenceVars == <<setups, hits>>
costVars == <<claims, windows, reading, armourCost>>
protectionVars == <<trackerVars, bySegment, evidenceVars, costVars>>

-----------------------------------------------------------------------------
(* Evidence and what claims it.                                            *)

HitsOf(s) == {h \in DOMAIN hits : hits[h].session = s}
Claimed(h) == \E c \in claims : c.hit = h
Settled(s) == \E h \in HitsOf(s) : Claimed(h)
Owed(s) == {h \in HitsOf(s) : ~Claimed(h)}

\* The layers that stood when a hit was taken.
Worn(h) ==
    IF hits[h].setup = 0 THEN {}
    ELSE {setups[hits[h].setup].loadout.armour, setups[hits[h].setup].loadout.plates} \ {Absent}

\* Mutant: a repair of all layers is forgotten when a layer is priced.
EligibleByLayer(sets, after, upto) ==
    {h \in DOMAIN hits :
        /\ h > after /\ h <= upto
        /\ IF sets = {} THEN ~Claimed(h)
           ELSE /\ Worn(h) \cap sets # {}
                /\ ~\E c \in claims : c.hit = h /\ c.layer \in sets}

\* read_eligible_evidence: `sets` is empty for the combined repair.
Eligible(sets, after, upto) ==
    {h \in DOMAIN hits :
        /\ h > after /\ h <= upto
        /\ IF sets = {} THEN ~Claimed(h)
           ELSE /\ Worn(h) \cap sets # {}
                /\ ~\E c \in claims : c.hit = h /\ c.layer \in sets \union {Absent}}

\* The rows a window writes for its evidence.
ClaimRows(w, sets, found) ==
    IF sets = {} THEN [window : {w}, layer : {Absent}, hit : found]
    ELSE {c \in [window : {w}, layer : sets, hit : found] : c.layer \in Worn(c.hit)}

\* Each session's share by hits; the last one takes the remainder.
Share(cost, found, s) == (cost * Cardinality(found \cap HitsOf(s))) \div Cardinality(found)

\* Mutant: every session is paid its own share and the remainder is lost.
AllocationRounded(cost, found, last) ==
    [s \in {hits[h].session : h \in found} |-> Share(cost, found, s)]

\* The last session's share is what the others leave.
Allocation(cost, found, last) ==
    LET takers == {hits[h].session : h \in found}
        before == MapThenSumSet(LAMBDA s : Share(cost, found, s), takers \ {last})
    IN  [s \in takers |-> IF s = last THEN cost - before ELSE Share(cost, found, s)]

\* create_cost_window: without evidence the window stays pending.
CreateCostWindow(sets, after, upto, cost) ==
    LET found == Eligible(sets, after, upto)
        w == Len(windows) + 1
    IN  \E last \in IF found = {} THEN {Absent} ELSE {hits[h].session : h \in found} :
          LET shares == IF found = {} THEN << >> ELSE Allocation(cost, found, last)
          IN  /\ windows' = Append(windows, [cost |-> cost, shares |-> shares,
                                             booked |-> found # {}])
              /\ claims' = claims \union ClaimRows(w, sets, found)
              /\ armourCost' = [s \in SessionId |->
                     armourCost[s] + (IF s \in DOMAIN shares THEN shares[s] ELSE 0)]

\* create_unpriced_reset_window: a reset consumes the evidence unpriced.
CreateResetWindow(set, after, upto) ==
    LET found == Eligible({set}, after, upto)
        w == Len(windows) + 1
    IN  /\ IF found = {} THEN UNCHANGED <<windows, claims>>
           ELSE /\ windows' = Append(windows, [cost |-> 0, shares |-> << >>, booked |-> FALSE])
                /\ claims' = claims \union ClaimRows(w, {set}, found)
        /\ UNCHANGED armourCost

-----------------------------------------------------------------------------
(* The tracker.                                                            *)

Recording == tracked # Absent /\ declaring = Absent

\* open_interval of kind protection.
OpenSetup(s, loadout) ==
    /\ setups' = Append(setups, [session |-> s, loadout |-> loadout])
    /\ standing' = Len(setups) + 1

\* `selected` is the loadout chosen at the time, which a session attributed by
\* segment opens with.
StartSession(s, selected) ==
    /\ tracked = Absent /\ s \notin closed
    /\ tracked' = s
    /\ IF bySegment[s] /\ selected # Absent
       THEN Len(setups) < MaxSetups /\ OpenSetup(s, selected)
       ELSE standing' = 0 /\ UNCHANGED setups
    /\ UNCHANGED <<closed, declaring, bySegment, hits, costVars>>

\* on_combat: a hit taken or deflected.
TakeHit ==
    /\ Recording /\ Len(hits) < MaxHits
    /\ hits' = Append(hits, [session |-> tracked, setup |-> standing])
    /\ UNCHANGED <<trackerVars, bySegment, setups, costVars>>

\* set_protection, for a session attributed by segment.
SetProtection(loadout) ==
    /\ Recording /\ bySegment[tracked] /\ Len(setups) < MaxSetups
    /\ OpenSetup(tracked, loadout)
    /\ UNCHANGED <<tracked, closed, declaring, bySegment, hits, costVars>>

\* declare_whole_session_protection up to the read of what is settled.
BeginDeclare(loadout) ==
    /\ Recording /\ ~bySegment[tracked] /\ Len(setups) < MaxSetups
    /\ standing # 0 => setups[standing].loadout # loadout
    /\ declaring' = [loadout |-> loadout, settled |-> Settled(tracked)]
    /\ UNCHANGED <<tracked, closed, standing, bySegment, evidenceVars, costVars>>

\* Mutant: the whole session's evidence is adopted.
AdoptedByAll(s, setup) ==
    [h \in DOMAIN hits |-> IF h \in HitsOf(s) THEN [hits[h] EXCEPT !.setup = setup] ELSE hits[h]]

\* adopting_unsettled_defence, and the back-stamp of a late assignment.
Adopted(s, setup) ==
    [h \in DOMAIN hits |-> IF h \in Owed(s) THEN [hits[h] EXCEPT !.setup = setup] ELSE hits[h]]

FinishDeclare ==
    /\ declaring # Absent
    /\ OpenSetup(tracked, declaring.loadout)
    /\ hits' = IF declaring.settled THEN hits ELSE Adopted(tracked, Len(setups) + 1)
    /\ declaring' = Absent
    /\ UNCHANGED <<tracked, closed, bySegment, costVars>>

\* The interval's transaction failed.
DeclareFails ==
    /\ declaring # Absent
    /\ declaring' = Absent
    /\ UNCHANGED <<tracked, closed, standing, bySegment, evidenceVars, costVars>>

\* A stop, or a crash (also inside a declaration) and the recovery after it.
EndSession(crash) ==
    /\ tracked # Absent /\ (~crash => declaring = Absent)
    /\ tracked' = Absent /\ closed' = closed \union {tracked}
    /\ standing' = 0 /\ declaring' = Absent
    /\ UNCHANGED <<bySegment, evidenceVars, costVars>>

-----------------------------------------------------------------------------
(* The protection service.                                                 *)

\* assign_session_loadout: the first interval of the session, if it has one,
\* is renamed, unless a cost was settled; otherwise one is made and takes the
\* evidence that is still owed a cost.
FirstSetup(s) == CHOOSE i \in DOMAIN setups :
    setups[i].session = s /\ \A j \in DOMAIN setups : setups[j].session = s => i <= j

HasSetup(s) == \E i \in DOMAIN setups : setups[i].session = s

RenameSetup(s, loadout) ==
    /\ HasSetup(s)
    /\ setups[FirstSetup(s)].loadout # loadout => ~Settled(s)
    /\ setups' = [setups EXCEPT ![FirstSetup(s)].loadout = loadout]
    /\ UNCHANGED hits

AttachSetup(s, loadout) ==
    /\ ~HasSetup(s) /\ Owed(s) # {} /\ Len(setups) < MaxSetups
    /\ setups' = Append(setups, [session |-> s, loadout |-> loadout])
    /\ hits' = Adopted(s, Len(setups) + 1)

AssignSessionLoadout(s, loadout) ==
    /\ s \in closed /\ ~bySegment[s]
    /\ RenameSetup(s, loadout) \/ AttachSetup(s, loadout)
    /\ UNCHANGED <<trackerVars, bySegment, costVars>>

\* confirm_observation: the first reading is a baseline, a lower one closes a
\* window of what was consumed, a higher one must be a reset.
ConfirmObservation(set, value, reset) ==
    LET previous == reading[set]
    IN  /\ Len(windows) < MaxCosts
        /\ previous # Absent /\ ~reset => value <= previous.value
        /\ reading' = [reading EXCEPT ![set] = [value |-> value, cursor |-> Len(hits)]]
        /\ IF previous = Absent THEN UNCHANGED <<windows, claims, armourCost>>
           ELSE IF reset THEN CreateResetWindow(set, previous.cursor, Len(hits))
           ELSE CreateCostWindow({set}, previous.cursor, Len(hits), previous.value - value)
        /\ UNCHANGED <<trackerVars, bySegment, evidenceVars>>

\* confirm_repair_cost for an armour, plates, both or unnamed sets.
ConfirmRepair(sets, cost) ==
    /\ Len(windows) < MaxCosts
    /\ Cardinality(sets \cap Armour) <= 1 /\ Cardinality(sets \cap Plates) <= 1
    /\ CreateCostWindow(sets, 0, Len(hits), cost)
    /\ UNCHANGED <<trackerVars, bySegment, evidenceVars, reading>>

-----------------------------------------------------------------------------
ProtectionInit ==
    /\ tracked = Absent /\ closed = {} /\ standing = 0 /\ declaring = Absent
    /\ bySegment \in [SessionId -> BOOLEAN]
    /\ setups = << >> /\ hits = << >>
    /\ claims = {} /\ windows = << >>
    /\ reading = [s \in Limited |-> Absent]
    /\ armourCost = [s \in SessionId |-> 0]

ProtectionNext ==
    \/ \E s \in SessionId, l \in Loadout \union {Absent} : StartSession(s, l)
    \/ TakeHit
    \/ \E l \in Loadout : SetProtection(l) \/ BeginDeclare(l)
    \/ FinishDeclare \/ DeclareFails
    \/ \E crash \in BOOLEAN : EndSession(crash)
    \/ \E s \in SessionId, l \in Loadout : AssignSessionLoadout(s, l)
    \/ \E set \in Limited, value \in 0..MaxValue, reset \in BOOLEAN :
           ConfirmObservation(set, value, reset)
    \/ \E sets \in SUBSET (Layer \ Limited), cost \in 1..MaxValue : ConfirmRepair(sets, cost)

ProtectionSpec == ProtectionInit /\ [][ProtectionNext]_protectionVars

-----------------------------------------------------------------------------
(* Properties.                                                             *)

ProtectionTypeOK ==
    /\ tracked \in SessionId \union {Absent} /\ closed \subseteq SessionId
    /\ standing \in 0 .. Len(setups)
    /\ \A h \in DOMAIN hits : hits[h].setup \in 0 .. Len(setups)
    /\ \A c \in claims : c.hit \in DOMAIN hits /\ c.window \in DOMAIN windows

\* A hit pays for a layer once, whichever readings, repairs, resets and
\* declarations came in which order: never the same layer twice, never a layer
\* next to a cost that took all of them, and only layers it was taken in.
LayersPayOnce ==
    /\ ProtectionTypeOK
    /\ \A c \in claims :
        /\ c.layer = Absent \/ c.layer \in Worn(c.hit)
        /\ \A d \in claims \ {c} :
              d.hit = c.hit => Absent \notin {c.layer, d.layer} /\ c.layer # d.layer

\* Nothing of a cost is lost or invented: what a window allocates is its cost,
\* and a session carries what the windows allocated to it.
CostsFullyAllocated ==
    /\ \A w \in DOMAIN windows :
        LET shares == windows[w].shares
        IN  /\ windows[w].booked =>
                   MapThenSumSet(LAMBDA s : shares[s], DOMAIN shares) = windows[w].cost
            /\ DOMAIN shares = IF windows[w].booked
                               THEN {hits[c.hit].session : c \in {d \in claims : d.window = w}}
                               ELSE {}
    /\ \A s \in SessionId :
        armourCost[s] = MapThenSumSet(LAMBDA w : windows[w].shares[s],
                                      {w \in DOMAIN windows : s \in DOMAIN windows[w].shares})

\* Every hit pays for a layer once and every cost is paid in full: what the
\* terminal charged reaches the sessions that wore the sets, once.
CostsReachSessions == LayersPayOnce /\ CostsFullyAllocated

\* What a settled cost bought never moves: a claimed hit keeps the layers it
\* was worn under through every later declaration and assignment, and its
\* session's other hits cannot be renamed away from under it.
SettledStays ==
    [][\A h \in DOMAIN hits : Claimed(h) => Worn(h)' = Worn(h)]_protectionVars
=============================================================================
