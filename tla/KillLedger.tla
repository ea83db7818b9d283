----------------------------- MODULE KillLedger -----------------------------
(***************************************************************************)
(* Shots, kills and what they cost (tracker/combat.rs, weapons.rs, loot.rs, *)
(* persistence.rs): a shot is attributed to a tool and added to the cost    *)
(* phase of that tool at its present price; a loot group that is not a      *)
(* duplicate turns the accumulator into a kill and a fresh accumulator; the *)
(* kill is written in a transaction whose failure is contained.  A stop     *)
(* prices what is left over as dangling cost.                               *)
(*                                                                          *)
(* Prices are whole units: a tool costs 1 plus one for every enhancer slot  *)
(* that still holds enhancers.  Damage, crits and mob stamps are left out.  *)
(***************************************************************************)
EXTENDS LedgerSession, FiniteSets, FiniteSetsExt, Functions

CONSTANTS Tool,        \* weapons with a profile in the equipment library
          Slots,       \* damage-enhancer slots of a weapon
          Group,       \* loot groups: [print, wood, rebate]
          MaxShots, MaxGroups, MaxArrivals, MaxActs

ASSUME KillAssumption ==
    /\ None \notin Tool /\ None \notin Int /\ Slots \in Nat
    /\ \A group \in Group : {group.rebate, group.wood} \subseteq BOOLEAN
    /\ None \notin [print : {group.print : group \in Group}, at : Nat]

VARIABLES
    trifecta,    \* config: attribute by damage and not by hotbar
    profiles,    \* the attributor has the trifecta's damage profiles
    hand,        \* weapons.hotbar_tool
    lastTool,    \* weapons.last_offensive_tool
    priced,      \* weapons.active_key: the tool a break applies to
    filled,      \* enhancer_states: slots that hold enhancers, None before
                 \* the weapon was first priced
    acc,         \* accumulator.tool_stats: cost phase -> shots
    kills,       \* session.kills
    lastLoot,    \* last_loot: fingerprint and instant
    rows,        \* kills, kill_tool_stats and kill_loot_items, by kill
    dangling,    \* tracking_sessions.dangling_cost
    ledger,      \* enhancer rebate entries, by amount
    pending,     \* kills whose rows a quest reclassified, still to reconcile
    flipped,     \* (history) kills whose loot the user flipped meanwhile
    untagged,    \* (history) kills whose global tag failed to be written
    spent,       \* (history) price of every shot when it was fired
    fired,       \* (history) shots
    arrivals,    \* (history) loot groups in the order they came, and whether each
                 \* was kept or taken for a duplicate
    acts         \* (bound) hotbar presses, breaks, settings, globals,
                 \* reclassifications

weapons == <<hand, lastTool, priced, filled>>
config == <<trifecta, profiles>>
tables == <<rows, dangling, ledger>>
lootVars == <<lastLoot, arrivals>>
killOwn == <<config, weapons, acc, kills, lootVars, tables, pending, flipped, untagged,
             spent, fired, acts>>
killVars == <<killOwn, sessionVars>>

-----------------------------------------------------------------------------
(* Cost phases.                                                            *)

Phase == [tool : Tool \union {None}, cost : Nat, seen : BOOLEAN]

\* The entry of shots whose tool is unknown.
Unknown == [tool |-> None, cost |-> 0, seen |-> FALSE]

AddShots(stats, phase, n) ==
    [p \in DOMAIN stats \union {phase} |->
        (IF p \in DOMAIN stats THEN stats[p] ELSE 0) + (IF p = phase THEN n ELSE 0)]

Shots(stats) == MapThenSumSet(LAMBDA p : stats[p], DOMAIN stats)
Cost(stats) == MapThenSumSet(LAMBDA p : stats[p] * p.cost, DOMAIN stats)

\* ensure_weapon_state: a weapon first priced has every slot filled.
FilledOf(tool) == IF filled[tool] = None THEN Slots ELSE filled[tool]
CurrentCost(tool) == 1 + FilledOf(tool)
Ensured(tool) == [filled EXCEPT ![tool] = FilledOf(tool)]

-----------------------------------------------------------------------------
(* Shots and hotbar.                                                       *)

\* record_offensive_shot: `match` is the attributor's answer to the damage, or
\* None; a countered shot has no damage to match.
Attributed(match, countered) ==
    IF ~trifecta THEN hand
    ELSE IF countered THEN lastTool
    ELSE IF profiles THEN match ELSE None

OnCombat(match, countered) ==
    /\ Live /\ fired < MaxShots
    /\ LET tool == Attributed(match, countered)
           phase == IF tool = None THEN Unknown
                    ELSE [tool |-> tool, cost |-> CurrentCost(tool), seen |-> TRUE]
       IN  /\ acc' = AddShots(acc, phase, 1)
           /\ spent' = spent + phase.cost
           /\ IF tool = None
              THEN UNCHANGED <<lastTool, priced, filled>>
              ELSE lastTool' = tool /\ priced' = tool /\ filled' = Ensured(tool)
    /\ fired' = fired + 1
    /\ UNCHANGED <<config, hand, kills, lootVars, tables, pending, flipped, untagged,
                   acts, sessionVars>>

\* on_tool_changed: the shots of the unknown tool are priced as the tool that
\* was just identified, in a phase without evidence.
Folded(tool) ==
    IF Unknown \notin DOMAIN acc THEN acc
    ELSE AddShots(Restrict(acc, DOMAIN acc \ {Unknown}),
                  [tool |-> tool, cost |-> CurrentCost(tool), seen |-> FALSE],
                  acc[Unknown])

OnToolChanged(tool) ==
    /\ Live /\ acts < MaxActs
    /\ acts' = acts + 1
    /\ IF trifecta THEN UNCHANGED <<weapons, acc, spent>>
       ELSE /\ hand' = tool /\ priced' = tool /\ filled' = Ensured(tool)
            /\ acc' = Folded(tool)
            /\ spent' = spent + (IF Unknown \in DOMAIN acc
                                 THEN acc[Unknown] * CurrentCost(tool) ELSE 0)
            /\ UNCHANGED lastTool
    /\ UNCHANGED <<config, kills, lootVars, tables, pending, flipped, untagged, fired,
                   sessionVars>>

\* on_enhancer_break for an item that matches the active weapon: set_total
\* spreads what remains over the slots.
OnEnhancerBreak(remaining) ==
    /\ Live /\ acts < MaxActs
    /\ priced # None /\ filled[priced] # None /\ Slots > 0
    /\ acts' = acts + 1
    /\ filled' = [filled EXCEPT ![priced] = IF remaining < Slots THEN remaining ELSE Slots]
    /\ UNCHANGED <<config, hand, lastTool, priced, acc, kills, lootVars, tables, pending,
                   flipped, untagged, spent, fired, sessionVars>>

\* The settings are saved; the tracker hears of it in a message of its own.
WriteConfig ==
    /\ Live /\ acts < MaxActs
    /\ acts' = acts + 1
    /\ trifecta' = ~trifecta
    /\ UNCHANGED <<profiles, weapons, acc, kills, lootVars, tables, pending, flipped,
                   untagged, spent, fired, sessionVars>>

\* reload_config after any settings change: outside trifecta it resets the
\* weapon runtime but the hotbar's tool, also in the middle of a hunt; in
\* trifecta it loads the profiles and forgets the active weapon.
ReloadConfig ==
    /\ Live /\ (trifecta = profiles => acts < MaxActs)
    /\ acts' = IF trifecta = profiles THEN acts + 1 ELSE acts
    /\ profiles' = trifecta
    /\ priced' = None
    /\ IF trifecta THEN UNCHANGED <<lastTool, filled>>
       ELSE lastTool' = None /\ filled' = [t \in Tool |-> None]
    /\ UNCHANGED <<trifecta, hand, acc, kills, lootVars, tables, pending, flipped,
                   untagged, spent, fired, sessionVars>>

-----------------------------------------------------------------------------
(* Loot.                                                                   *)

DedupWindow == 2

\* The same fingerprint inside the window; an instant before the last one is
\* inside it too.
Duplicate(group) ==
    /\ lastLoot # None
    /\ lastLoot.print = group.print
    /\ now < lastLoot.at + DedupWindow

\* kill_tool_stats is unique per kill, tool, cost and evidence; INSERT OR
\* REPLACE keeps the last of equal keys.
RowKey(p) == <<p.tool, p.cost, p.seen>>

StatRows(stats) ==
    [key \in {RowKey(p) : p \in DOMAIN stats} |->
        stats[CHOOSE p \in DOMAIN stats : RowKey(p) = key]]

KillRow(kill) == [stats |-> StatRows(kill.stats), cost |-> Cost(kill.stats),
                  loot |-> kill.loot, rebate |-> kill.rebate, global |-> FALSE]

\* on_loot past the dedup guard: a wood group is HarvestSwings' and leaves the
\* accumulator alone; any other takes it.  persist_kill may fail silently.
TakesShots(group) == ~group.wood

Arrived(group, kept) ==
    /\ Live /\ Len(arrivals) < MaxArrivals
    /\ arrivals' = Append(arrivals, [print |-> group.print, wood |-> group.wood,
                                     at |-> now, kept |-> kept])

\* Mutant: a duplicate opens the window anew.
DropLootSliding(group) ==
    /\ Duplicate(group)
    /\ Arrived(group, FALSE)
    /\ lastLoot' = [print |-> group.print, at |-> now]
    /\ UNCHANGED <<config, weapons, acc, kills, tables, pending, flipped, untagged, spent,
                   fired, acts, sessionVars>>

\* on_loot's dedup guard: a duplicate goes nowhere and leaves the window where
\* the group it repeats put it.
DropLoot(group) ==
    /\ Duplicate(group)
    /\ Arrived(group, FALSE)
    /\ UNCHANGED <<config, weapons, acc, kills, lastLoot, tables, pending, flipped, untagged,
                   spent, fired, acts, sessionVars>>

OnLoot(group) ==
    /\ Len(kills) < MaxGroups
    /\ ~Duplicate(group)
    /\ Arrived(group, TRUE)
    /\ lastLoot' = [print |-> group.print, at |-> now]
    /\ IF TakesShots(group)
       THEN LET kill == [stats |-> acc, loot |-> "active", rebate |-> group.rebate,
                         global |-> FALSE]
            IN  /\ kills' = Append(kills, kill)
                /\ acc' = << >>
                /\ \/ rows' = [k \in DOMAIN rows \union {Len(kills) + 1} |->
                                 IF k \in DOMAIN rows THEN rows[k] ELSE KillRow(kill)]
                   \/ UNCHANGED rows
       ELSE UNCHANGED <<kills, acc, rows>>
    /\ UNCHANGED <<config, weapons, dangling, ledger, pending, flipped, untagged, spent,
                   fired, acts, sessionVars>>

\* on_global: the newest kill, if the global followed it closely, is tagged in
\* memory; the row follows in a transaction that may fail.
OnGlobal ==
    /\ Live /\ kills # << >> /\ acts < MaxActs
    /\ acts' = acts + 1
    /\ LET k == Len(kills)
       IN  /\ ~kills[k].global
           /\ kills' = [kills EXCEPT ![k].global = TRUE]
           /\ \/ /\ rows' = [i \in DOMAIN rows |->
                               IF i = k THEN [rows[i] EXCEPT !.global = TRUE] ELSE rows[i]]
                 /\ UNCHANGED untagged
              \/ untagged' = untagged \union {k} /\ UNCHANGED rows
    /\ UNCHANGED <<config, weapons, acc, lootVars, dangling, ledger, pending, flipped,
                   spent, fired, sessionVars>>

\* A hand-in or its reversal moves the active flag of a kill's loot and then
\* asks the tracker to reconcile that source; a user's flip does not ask.
Reclassify(k, asks) ==
    /\ status # "down" /\ acts < MaxActs
    /\ acts' = acts + 1
    /\ rows' = [rows EXCEPT ![k].loot = IF @ = "active" THEN "inactive" ELSE "active"]
    /\ IF asks THEN k \notin pending /\ pending' = pending \union {k} /\ UNCHANGED flipped
       ELSE k \notin flipped /\ flipped' = flipped \union {k} /\ UNCHANGED pending
    /\ UNCHANGED <<config, weapons, acc, kills, lootVars, dangling, ledger, untagged, spent,
                   fired, sessionVars>>

\* reconcile_loot_source: the memory of a live session takes what the rows say.
ReconcileLootSource(k) ==
    /\ k \in pending
    /\ pending' = pending \ {k}
    /\ flipped' = flipped \ {k}
    /\ kills' = IF Live THEN [kills EXCEPT ![k].loot = rows[k].loot] ELSE kills
    /\ UNCHANGED <<config, weapons, acc, lootVars, tables, untagged, spent, fired, acts,
                   sessionVars>>

-----------------------------------------------------------------------------
(* The end of the session.                                                 *)

Rebates == {k \in DOMAIN rows : rows[k].rebate /\ rows[k].loot = "active"}
BookRebate == ledger' = IF Rebates = {} THEN ledger ELSE Append(ledger, Cardinality(Rebates))

StopKills ==
    /\ Seal
    /\ dangling' = Cost(acc)
    /\ BookRebate
    /\ UNCHANGED <<config, weapons, acc, kills, lootVars, rows, pending, flipped, untagged,
                   spent, fired, acts>>

CrashKills ==
    /\ Crash
    /\ pending' = {}       \* the reconciles were messages to the dead tracker
    /\ UNCHANGED <<config, weapons, acc, kills, lootVars, tables, flipped, untagged, spent,
                   fired, acts>>

\* Recovery books the rebate; the accumulator is gone.
RecoverKills ==
    /\ RecoverRow
    /\ BookRebate
    /\ UNCHANGED <<config, weapons, acc, kills, lootVars, rows, dangling, pending, flipped,
                   untagged, spent, fired, acts>>

\* Time tells apart only groups inside the window of the last one.
ElapseKills ==
    /\ Elapse /\ lastLoot # None /\ now < lastLoot.at + DedupWindow
    /\ UNCHANGED <<config, weapons, acc, kills, lootVars, tables, pending, flipped, untagged,
                   spent, fired, acts>>

-----------------------------------------------------------------------------
KillsInit ==
    /\ SessionInit
    /\ trifecta \in BOOLEAN /\ profiles = trifecta
    /\ hand = None /\ lastTool = None /\ priced = None
    /\ filled = [t \in Tool |-> None]
    /\ acc = << >> /\ kills = << >> /\ lastLoot = None /\ arrivals = << >>
    /\ rows = << >> /\ dangling = 0 /\ ledger = << >>
    /\ pending = {} /\ flipped = {} /\ untagged = {}
    /\ spent = 0 /\ fired = 0 /\ acts = 0

KillsNext ==
    \/ \E match \in Tool \union {None}, countered \in BOOLEAN : OnCombat(match, countered)
    \/ \E tool \in Tool : OnToolChanged(tool)
    \/ \E remaining \in 0..Slots : OnEnhancerBreak(remaining)
    \/ WriteConfig \/ ReloadConfig
    \/ \E group \in Group : OnLoot(group) \/ DropLoot(group)
    \/ OnGlobal
    \/ \E k \in DOMAIN rows, asks \in BOOLEAN : Reclassify(k, asks)
    \/ \E k \in pending : ReconcileLootSource(k)
    \/ StopKills \/ CrashKills \/ RecoverKills \/ ElapseKills

KillsSpec == KillsInit /\ [][KillsNext]_killVars

-----------------------------------------------------------------------------
(* Properties.                                                             *)

KillsTypeOK ==
    /\ DOMAIN acc \subseteq Phase
    /\ hand \in Tool \union {None} /\ priced \in Tool \union {None}
    /\ \A t \in Tool : filled[t] \in 0..Slots \union {None}
    /\ DOMAIN rows \subseteq DOMAIN kills
    /\ pending \union flipped \subseteq DOMAIN rows

\* Kills that never reached the tables.
Lost == DOMAIN kills \ DOMAIN rows

\* Every shot is in exactly one kill or still in the accumulator, at the price
\* in force when it was fired (or when its tool was identified), whatever
\* duplicates, wood, breaks, switches and settings came in between; a stopped
\* session's rows and its dangling cost add up to the same, but for kills that
\* could not be written, and its rebate is booked at most once.
CostAddsUp ==
    /\ KillsTypeOK
    /\ LET sum(ids) == MapThenSumSet(LAMBDA k : Cost(kills[k].stats), ids)
           shots == MapThenSumSet(LAMBDA k : Shots(kills[k].stats), DOMAIN kills)
           stored == MapThenSumSet(LAMBDA k : rows[k].cost, DOMAIN rows)
       IN  /\ shots + Shots(acc) = fired
           /\ sum(DOMAIN kills) + Cost(acc) = spent
           /\ status = "stopped" => stored + sum(Lost) + dangling = spent
           /\ status = "recovered" => dangling = 0
    /\ Len(ledger) <= 1 /\ (ledger # << >> => Ended)

\* A kill in the tables carries every cost phase of the kill in memory, its tag
\* and its loot, but for writes that failed and reclassifications the tracker
\* has not been told of yet.  The rows are keyed on tool, price and evidence
\* (migration 0049), so phases of one tool stand side by side; persist_kill's
\* comment (persistence.rs:81-85) still says the last one written wins.
RowsCarryKills ==
    \A k \in DOMAIN rows :
        /\ MapThenSumSet(LAMBDA key : rows[k].stats[key], DOMAIN rows[k].stats)
             = Shots(kills[k].stats)
        /\ rows[k].cost = Cost(kills[k].stats)
        /\ k \notin untagged => rows[k].global = kills[k].global
        /\ Live /\ k \notin pending \union flipped => rows[k].loot = kills[k].loot

\* A group is dropped exactly when the last group kept before it has its print
\* and came less than the window earlier, so a run of repeats is not carried on
\* by its own duplicates; every group kept is one kill, or one swing if it is
\* wood, whatever else happened in between.
GroupsCountedOnce ==
    /\ \A i \in DOMAIN arrivals :
          ~arrivals[i].kept <=>
             \E j \in 1 .. i - 1 :
                 /\ arrivals[j].kept /\ arrivals[j].print = arrivals[i].print
                 /\ arrivals[i].at < arrivals[j].at + DedupWindow
                 /\ \A k \in j + 1 .. i - 1 : ~arrivals[k].kept
    /\ Len(kills) = Cardinality({i \in DOMAIN arrivals : arrivals[i].kept /\ ~arrivals[i].wood})

\* What the kill ledger shows of a session: its costs add up, in memory and in
\* the tables, the tables hold what the kills in memory hold, and every group
\* of loot that is not a repeat is counted once.
KillsSound == CostAddsUp /\ RowsCarryKills /\ GroupsCountedOnce
=============================================================================
