------------------------- MODULE MCRewardsAndStock -------------------------
(***************************************************************************)
(* What play earned and what became of it: the quest lifecycle and the     *)
(* stock ledger, explored one at a time, for a confirmed reward reaches the *)
(* stock ledger only as a recorded row like any other loot.                *)
(***************************************************************************)
EXTENDS QuestLifecycle, MCStockLedger, TLC

CONSTANTS sig, man

VARIABLE part   \* the half this behaviour looks at

\* A marker alone on its line, and a mission line whose reward is missing: the
\* two ticks whose evidence is still open when they have been published.
Marker == [kind |-> "loot", units |-> 1]
Unpaid == [kind |-> "mission", quest |-> sig, units |-> 0]
TwoLogs == {<<Marker, Marker>>, <<Unpaid>>}

\* At most two actors between a read and a write: every pair is explored.
TwoAtATime ==
    Cardinality({k \in Task : task[k].pc # "idle"})
        + (IF tail.pc = "idle" THEN 0 ELSE 1) <= 2

\* Five commands around one tick, or four around both.
FiveCommands == Len(ticks') = 2 => commands' <= 4

\* Three operations on undisturbed stock, or two on any loot around an edit.
Operations(n) == Len(facts') <= n

RewardsInit ==
    /\ QuestInit /\ SInit
    /\ part \in {"quests", "stock", "edited", "gear"}
    /\ part \in {"quests", "gear"} => loot = {}
    /\ part = "stock" => loot = Recorded

RewardsNext ==
    /\ UNCHANGED part
    /\ \/ part = "quests" /\ QuestNext /\ FiveCommands /\ UNCHANGED svars
       \/ /\ part = "stock" /\ (LootNext \/ ListingNext) /\ edits' = 0
          /\ UNCHANGED questVars
       \/ /\ part = "edited" /\ (LootNext \/ ListingNext) /\ Operations(2)
          /\ UNCHANGED questVars
       \/ /\ part = "gear" /\ (EquipmentNext \/ ListingNext)
          /\ UNCHANGED questVars

RewardsSpec == RewardsInit /\ [][RewardsNext]_<<questVars, svars, part>>
=============================================================================
