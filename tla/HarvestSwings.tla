--------------------------- MODULE HarvestSwings ---------------------------
(***************************************************************************)
(* Harvesting swings and what they are stamped with (tracker/harvest.rs,    *)
(* loot.rs, persistence.rs).  The hotbar only says which tool the player    *)
(* last pressed; a board in the loot proves which tree was cut.  Board      *)
(* evidence against the hotbar is a mismatch: the swing takes the tool the  *)
(* guardrail names for that tree, and so do the swings without evidence     *)
(* just before it.  The yield tier of a swing without evidence is inferred  *)
(* from boards close to it, before or after.  Each swing, each pass over    *)
(* tools and each pass over tiers is written in a transaction of its own    *)
(* whose failure is contained.                                              *)
(*                                                                          *)
(* A swing's cost is its tool's and is left out; shavings and a failed      *)
(* swing carry no evidence and are stamped alike.                           *)
(***************************************************************************)
EXTENDS LedgerSession

CONSTANTS HarvestTool, Tier,
          Guardrails,   \* tools configured for the tiers, None where there is none
          MaxSwings, MaxEquips, MaxFailures

ASSUME SwingAssumption ==
    /\ Guardrails \subseteq [Tier -> HarvestTool \union {None}]
    /\ None \notin {"board", "inferred"}

VARIABLES
    belief,      \* harvest_tool: the tool last pressed
    guardrail,   \* the tool configured for each tier
    mismatch,    \* guardrail_mismatch.tree_size
    floor,       \* harvest_press_floor
    swings,      \* session.harvests
    swingRows,   \* harvest_events, by swing
    stale,       \* (history) swings with a correction that was not written
    equips,      \* (bound) presses and settings
    failures     \* (bound) transactions that failed

harvestOwn == <<belief, guardrail, mismatch, floor, swings, swingRows, stale,
                equips, failures>>
harvestVars == <<harvestOwn, sessionVars>>

-----------------------------------------------------------------------------
(* The windows: GUARDRAIL_RETRO_WINDOW_SECONDS and                          *)
(* HARVEST_YIELD_WINDOW_SECONDS are both 30 seconds, two steps of the clock. *)

Window == 2

Board(swing) == swing.source = "board"

\* guardrail_intent: the tool for the tree the boards prove, if one is set.
Intent(evidence) == IF evidence = None THEN None ELSE guardrail[evidence]

\* guarded_harvest_swing_cost and no_evidence_swing_cost.
ToolFor(evidence) ==
    IF Intent(evidence) # None THEN Intent(evidence)
    ELSE IF evidence = None /\ mismatch # None /\ guardrail[mismatch] # None
         THEN guardrail[mismatch]
    ELSE belief

Mismatch(evidence) ==
    IF Intent(evidence) = None THEN mismatch
    ELSE IF belief = Intent(evidence) THEN None ELSE evidence

\* Mutant: the press floor is forgotten.
RunBelowFloor ==
    {i \in DOMAIN swings :
        \A j \in i .. Len(swings) :
            /\ ~Board(swings[j])
            /\ (IF j = Len(swings) THEN now ELSE swings[j + 1].at) - swings[j].at <= Window}

\* restamp_preceding_no_evidence_swings: the unbroken run of swings without
\* evidence, above the floor, each within the window of the next.
Run == {i \in floor + 1 .. Len(swings) :
            \A j \in i .. Len(swings) :
                /\ ~Board(swings[j])
                /\ (IF j = Len(swings) THEN now ELSE swings[j + 1].at) - swings[j].at <= Window}

RestampTools(evidence, tool) ==
    IF Intent(evidence) = None \/ Mismatch(evidence) = None THEN {}
    ELSE {i \in Run : swings[i].tool # tool}

\* Mutant: a board from before the last press is taken too.
InferredTierAcross(tool) ==
    LET reach(i) == \A j \in i .. Len(swings) : now - swings[j].at <= Window
                                                /\ swings[j].tool = tool
        boards == {i \in DOMAIN swings : Board(swings[i]) /\ reach(i)}
    IN  IF boards = {} THEN None
        ELSE swings[CHOOSE i \in boards : \A j \in boards : j <= i].tier

\* yield_for_no_evidence: the nearest board reached from the end without
\* leaving the window or the tool.
InferredTier(tool) ==
    LET reach(i) == \A j \in i .. Len(swings) : now - swings[j].at <= Window
                                                /\ swings[j].tool = tool
        boards == {i \in floor + 1 .. Len(swings) : Board(swings[i]) /\ reach(i)}
    IN  IF boards = {} THEN None
        ELSE swings[CHOOSE i \in boards : \A j \in boards : j <= i].tier

\* restamp_preceding_yield_tiers over `seq`, the swings as the tool pass left
\* them: the swings without evidence just before a board take its tier, unless
\* the nearest board before them says another.
TierAfter(seq, i, tool, tier) ==
    LET before == {j \in floor + 1 .. i - 1 : /\ seq[j].tool = tool /\ Board(seq[j])
                                              /\ seq[i].at - seq[j].at <= Window}
        nearest == CHOOSE j \in before : \A k \in before : k <= j
    IN  IF before # {} /\ seq[nearest].tier # tier THEN None ELSE tier

RestampTiers(seq, tool, tier) ==
    {i \in floor + 1 .. Len(seq) :
        /\ \A j \in i .. Len(seq) : /\ now - seq[j].at <= Window
                                    /\ seq[j].tool = tool /\ ~Board(seq[j])
        /\ seq[i].tier # TierAfter(seq, i, tool, tier)}

-----------------------------------------------------------------------------
(* A swing: on_loot of a wood group, and on_harvest_fail.                   *)

WithTools(seq, ids, tool) ==
    [i \in DOMAIN seq |-> IF i \in ids THEN [seq[i] EXCEPT !.tool = tool] ELSE seq[i]]

WithTier(swing, tier) ==
    [swing EXCEPT !.tier = tier, !.source = IF tier = None THEN None ELSE "inferred"]

WithTiers(seq, ids, tool, tier) ==
    [i \in DOMAIN seq |-> IF i \in ids THEN WithTier(seq[i], TierAfter(seq, i, tool, tier))
                          ELSE seq[i]]

\* persist_harvest, persist_harvest_restamps, persist_harvest_yield_restamps:
\* `done` names the transactions that committed.
Persisted(id, swing, tools, tiers, after, done) ==
    [i \in DOMAIN swingRows \union (IF "swing" \in done THEN {id} ELSE {}) |->
        IF i = id THEN swing
        ELSE LET row == swingRows[i]
                 tooled == IF "tools" \in done /\ i \in tools
                           THEN [row EXCEPT !.tool = after[i].tool] ELSE row
             IN  IF "tiers" \in done /\ i \in tiers /\ ~Board(row)
                 THEN [tooled EXCEPT !.tier = after[i].tier, !.source = after[i].source]
                 ELSE tooled]

Writes(tools, tiers) == {"swing"} \union (IF tools = {} THEN {} ELSE {"tools"})
                                  \union (IF tiers = {} THEN {} ELSE {"tiers"})

Swing(evidence) ==
    /\ Live /\ Len(swings) < MaxSwings
    /\ LET tool == ToolFor(evidence)
           tools == RestampTools(evidence, tool)
           tooled == WithTools(swings, tools, tool)
           tiers == IF evidence = None THEN {} ELSE RestampTiers(tooled, tool, evidence)
           after == WithTiers(tooled, tiers, tool, evidence)
           tier == IF evidence # None THEN evidence ELSE InferredTier(tool)
           swing == [at |-> now, tool |-> tool, tier |-> tier, regime |-> floor,
                     source |-> IF evidence # None THEN "board"
                                ELSE IF tier = None THEN None ELSE "inferred"]
           id == Len(swings) + 1
       IN  \E failed \in SUBSET Writes(tools, tiers) :
             /\ failures + (IF failed = {} THEN 0 ELSE 1) <= MaxFailures
             /\ failures' = failures + (IF failed = {} THEN 0 ELSE 1)
             /\ swings' = Append(after, swing)
             /\ swingRows' = Persisted(id, swing, tools, tiers, after,
                                       Writes(tools, tiers) \ failed)
             /\ stale' = stale \union (IF "tools" \in failed THEN tools ELSE {})
                               \union (IF "tiers" \in failed THEN tiers ELSE {})
    /\ mismatch' = Mismatch(evidence)
    /\ UNCHANGED <<belief, guardrail, floor, equips, sessionVars>>

-----------------------------------------------------------------------------
(* The hotbar and the settings.                                             *)

\* on_harvest_tool_changed, and on_tool_changed for a weapon (None) while the
\* hotbar attributes the shots: the press clears the mismatch and is as far
\* back as a later pass may reach.
OnEquip(tool) ==
    /\ Live /\ equips < MaxEquips
    /\ equips' = equips + 1
    /\ belief' = IF tool = None THEN belief ELSE tool
    /\ mismatch' = None
    /\ floor' = Len(swings)
    /\ UNCHANGED <<guardrail, swings, swingRows, stale, failures, sessionVars>>

\* on_tool_changed for a weapon in trifecta mode, which returns before either;
\* on_heal_tool_changed and a consumable's intent, which touch neither.  The
\* mode is the configuration's and is read at each press.
OnEquipUnsynced ==
    /\ Live /\ equips < MaxEquips
    /\ equips' = equips + 1
    /\ UNCHANGED <<belief, guardrail, mismatch, floor, swings, swingRows, stale, failures,
                   sessionVars>>

\* reload_config: the guardrail is resolved anew, in the middle of anything.
ReloadGuardrail ==
    /\ Live /\ equips < MaxEquips
    /\ equips' = equips + 1
    /\ guardrail' \in Guardrails \ {guardrail}
    /\ UNCHANGED <<belief, mismatch, floor, swings, swingRows, stale, failures,
                   sessionVars>>

ElapseSwings ==
    /\ Elapse /\ swings # << >>
    /\ UNCHANGED harvestOwn

-----------------------------------------------------------------------------
SwingsInit ==
    /\ SessionInit
    /\ belief \in HarvestTool \union {None}      \* it outlives the session
    /\ guardrail \in Guardrails
    /\ mismatch = None /\ floor = 0
    /\ swings = << >> /\ swingRows = << >> /\ stale = {}
    /\ equips = 0 /\ failures = 0

SwingsNext ==
    \/ \E evidence \in Tier \union {None} : Swing(evidence)
    \/ \E tool \in HarvestTool \union {None} : OnEquip(tool)
    \/ OnEquipUnsynced \/ ReloadGuardrail \/ ElapseSwings

SwingsSpec == SwingsInit /\ [][SwingsNext]_harvestVars

-----------------------------------------------------------------------------
(* Properties.                                                             *)

\* No correction reaches a swing with evidence of its own, or one from before
\* the last press that re-syncs the belief (a harvesting tool, or a weapon
\* outside trifecta mode), in memory or in the tables: both were validated
\* apart from the belief that is being corrected.  The press of a weapon in
\* trifecta mode, of a healer and of a consumable hold no correction back, which
\* harvest.rs:24-27 and combat.rs:355-358 say of every press of the hotbar.
EvidenceStands ==
    [][/\ \A i \in DOMAIN swings :
             swings'[i] # swings[i] => ~Board(swings[i]) /\ swings[i].regime = floor
       /\ \A i \in DOMAIN swingRows :
             swingRows'[i] # swingRows[i] => ~Board(swingRows[i])
                                            /\ swingRows[i].regime = floor]_harvestVars

\* An inferred tier is a tier some board proved, in the same stretch between
\* two presses that re-sync the belief and within the window of the swing,
\* however often tools and tiers were corrected since; rows say what memory
\* says but for corrections that failed to be written.
InferredIsBacked ==
    /\ \A i \in DOMAIN swings : swings[i].source = "inferred" =>
          \E j \in DOMAIN swings :
              /\ Board(swings[j]) /\ swings[j].tier = swings[i].tier
              /\ swings[j].regime = swings[i].regime
              /\ swings[j].at - swings[i].at \in -Window .. Window
    /\ DOMAIN swingRows \subseteq DOMAIN swings
    /\ \A i \in DOMAIN swingRows \ stale : swingRows[i] = swings[i]
=============================================================================
