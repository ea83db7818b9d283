--------------------------- MODULE MCSessionBooks ---------------------------
(***************************************************************************)
(* The three ledgers of a session, the skill trail and the skill scan,      *)
(* explored one at a time: none reads what another writes.                 *)
(***************************************************************************)
EXTENDS KillLedger, HarvestSwings, HealingLedger, SkillLedger, SkillScan, TLC

CONSTANTS p, q, small, large

VARIABLE part   \* the ledger this behaviour looks at

bookVars == <<killVars, harvestVars, healVars, skillVars, scanVars, part>>

\* A creature whose loot holds a rebate, and a tree.
Groups == {[print |-> "creature", wood |-> FALSE, rebate |-> TRUE],
           [print |-> "tree", wood |-> TRUE, rebate |-> FALSE]}

\* Both trees have a tool of their own, or only the small one has.
Configured == {[small |-> p, large |-> q], [small |-> p, large |-> None]}
SmallAndMaybeLarge ==
    {[t \in Tier |-> IF t = small THEN c.small ELSE c.large] : c \in Configured}

Weapons == Permutations(Tool)

BooksInit ==
    /\ part \in {"kills", "swings", "heals", "skills", "scan"}
    /\ KillsInit /\ SwingsInit /\ HealingInit
    /\ SkillInit /\ ScanInit
    /\ part # "kills" => ~trifecta
    /\ part # "scan" => \A n \in Pages : wanted <= n
    /\ part # "swings" => belief = None /\ \A t \in Tier : guardrail[t] # None

\* A third group, the one a duplicate might carry the window on to, leaves one
\* act; two acts, as a break and a settings change, have two groups.
ThreeGroupsOrTwoActs == Len(arrivals') + acts' <= 4

OtherBooks == <<skillVars, scanVars, part>>
SessionLedgers == <<killVars, harvestOwn, healOwn, part>>

KillsPart  == part = "kills" /\ KillsNext /\ ThreeGroupsOrTwoActs
              /\ UNCHANGED <<harvestOwn, healOwn, OtherBooks>>
SwingsPart == part = "swings" /\ SwingsNext /\ UNCHANGED <<killOwn, healOwn, OtherBooks>>
HealsPart  == part = "heals" /\ HealingNext /\ UNCHANGED <<killOwn, harvestOwn, OtherBooks>>
SkillsPart == part = "skills" /\ SkillNext /\ UNCHANGED <<SessionLedgers, scanVars>>
ScanPart   == part = "scan" /\ ScanNext /\ UNCHANGED <<SessionLedgers, skillVars>>

BooksNext == KillsPart \/ SwingsPart \/ HealsPart \/ SkillsPart \/ ScanPart

BooksSpec == BooksInit /\ [][BooksNext]_bookVars
=============================================================================
