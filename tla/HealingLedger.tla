--------------------------- MODULE HealingLedger ---------------------------
(***************************************************************************)
(* Healing outputs and paid activations (tracker/healing.rs).  A healer     *)
(* press opens an intent, a heal in the chat log may confirm it and is then *)
(* paid, belong to an effect that still runs, or cost nothing.  Press and   *)
(* line come from two producers: a line that came first waits in a short    *)
(* tail for the press that explains it.  Each decision is one transaction;  *)
(* memory follows when it committed, and a stop writes the cost in memory   *)
(* over the row.                                                            *)
(*                                                                          *)
(* One step of the clock is the delivery tail of 1.25 seconds; the one      *)
(* second of damage correlation and the 0.05 of tolerance are inside a      *)
(* step.  A use costs one unit.                                             *)
(***************************************************************************)
EXTENDS LedgerSession, FiniteSets

CONSTANTS Healer,
          Direct,       \* healers with a direct heal
          Lasting,      \* healers whose effect ticks on
          Reload,       \* reload time of a healer, in steps
          EffectTime,   \* how long an effect lasts, in steps
          MaxHeals, MaxIntents

\* A negative reload counts as none.
ASSUME HealingAssumption == Reload \in Nat /\ None \notin Int

VARIABLES
    intent,        \* the healer in hand and when it was pressed
    recent,        \* recent_intent: the one closed last
    effects,       \* effect_windows
    lastUse,       \* last_activation
    unpaid,        \* pending_outputs
    lastDamage,    \* instant of the last damage dealt
    lifesteal,     \* what the weapon's life steal would heal, None if unknown
    cost,          \* active.heal_cost
    costRow,       \* tracking_sessions.heal_cost
    uses,          \* healing_activations
    outputs,       \* healing_outputs
    heals, intents \* (bounds)

runtime == <<intent, recent, effects, lastUse, unpaid, lastDamage, lifesteal, cost>>
healTables == <<costRow, uses, outputs>>
healOwn == <<runtime, healTables, heals, intents>>
healVars == <<healOwn, sessionVars>>

\* What a heal can look like: inside a direct heal's range, inside a tick's,
\* or below the direct range, as a heal capped by full health is.
Amount == {"direct", "tick", "low"}

DeliveryTail == 1

-----------------------------------------------------------------------------
(* HealingRuntime.                                                         *)

\* prune, at an instant t.
Pruned(t) ==
    [effects |-> {e \in effects : e.until + DeliveryTail >= t},
     unpaid |-> {o \in unpaid : t - outputs[o].at <= DeliveryTail},
     recent |-> IF recent # None /\ t - recent.closed > DeliveryTail THEN None ELSE recent]

\* candidate: the healer in hand, or the one put away within the tail.
Candidate(t) ==
    IF intent # None /\ intent.at <= t THEN intent
    ELSE LET late == Pruned(t).recent
         IN  IF late # None /\ late.at <= t /\ t <= late.closed + DeliveryTail THEN late ELSE None

ActivationMatch(healer, amount) ==
    \/ healer \in Direct /\ amount = "direct"
    \/ healer \notin Direct /\ healer \in Lasting /\ amount = "tick"

CooldownReady(healer, t) == lastUse[healer] # None => t - lastUse[healer] >= Reload

DamageCorrelated(amount, t) ==
    lastDamage = t /\ (lifesteal = None \/ lifesteal = amount)

MatchingEffects(amount, t) ==
    {e \in Pruned(t).effects : amount = "tick" /\ e.from <= t /\ t <= e.until + DeliveryTail}

-----------------------------------------------------------------------------
(* persist_healing_decision.                                               *)

\* An activation in its transaction; `o` is the output it confirms.
Activation(it, o, t) ==
    /\ costRow' = costRow + 1
    /\ uses' = Append(uses, [healer |-> it.healer, at |-> t, pressed |-> it.at,
                             closed |-> it.closed, output |-> o])
    /\ cost' = cost + 1
    /\ lastUse' = [lastUse EXCEPT ![it.healer] = t]

EffectOf(it, t) ==
    IF it.healer \in Lasting THEN {[use |-> Len(uses) + 1, from |-> t, until |-> t + EffectTime]}
    ELSE {}

\* The transaction of a decision failed: a warning, and nothing else.
DecisionFails(t) ==
    /\ effects' = Pruned(t).effects /\ unpaid' = Pruned(t).unpaid
    /\ recent' = Pruned(t).recent
    /\ UNCHANGED <<lastUse, cost, healTables>>

\* on_self_heal: a fresh press with a matching heal, then a running effect,
\* then a held healer with a matching or a capped heal, then nothing paid.
OnSelfHeal(amount) ==
    LET it == Candidate(now)
        direct == it # None /\ ActivationMatch(it.healer, amount)
                            /\ CooldownReady(it.healer, now)
        fresh == direct /\ now - it.at <= DeliveryTail
        capped == /\ it # None /\ ~DamageCorrelated(amount, now)
                  /\ it.healer \in Direct /\ amount = "low"
                  /\ CooldownReady(it.healer, now)
        ticking == MatchingEffects(amount, now)
        pays == fresh \/ (ticking = {} /\ (direct \/ capped))
        o == Len(outputs) + 1
    IN  /\ Live /\ heals < MaxHeals
        /\ heals' = heals + 1
        /\ \/ DecisionFails(now)
           \/ /\ pays
              /\ Activation(it, o, now)
              /\ outputs' = Append(outputs, [at |-> now, amount |-> amount, use |-> Len(uses) + 1])
              /\ effects' = Pruned(now).effects \union EffectOf(it, now)
              /\ unpaid' = Pruned(now).unpaid /\ recent' = Pruned(now).recent
           \/ /\ ~pays
              /\ outputs' = Append(outputs,
                    [at |-> now, amount |-> amount,
                     use |-> IF Cardinality(ticking) = 1
                             THEN (CHOOSE e \in ticking : TRUE).use ELSE 0])
              /\ effects' = Pruned(now).effects /\ recent' = Pruned(now).recent
              /\ unpaid' = Pruned(now).unpaid \union (IF ticking = {} THEN {o} ELSE {})
              /\ UNCHANGED <<costRow, uses, cost, lastUse>>
        /\ UNCHANGED <<intent, lastDamage, lifesteal, intents, sessionVars>>

-----------------------------------------------------------------------------
(* on_hotbar_intent: the press happened at t, possibly before lines that    *)
(* were handled already.                                                    *)

Closed(t) == IF intent = None THEN Pruned(t).recent ELSE [intent EXCEPT !.closed = t]

\* Mutant: the order of press and heal is not looked at.
ExplainedEither(it) ==
    {o \in Pruned(it.at).unpaid :
        /\ ActivationMatch(it.healer, outputs[o].amount)
        /\ CooldownReady(it.healer, outputs[o].at)}

\* reconcile_pending_heal: the newest waiting heal the press explains.
Explained(it) ==
    {o \in Pruned(it.at).unpaid :
        /\ it.at <= outputs[o].at /\ outputs[o].at - it.at <= DeliveryTail
        /\ ActivationMatch(it.healer, outputs[o].amount)
        /\ CooldownReady(it.healer, outputs[o].at)}

PressHealer(healer, t) ==
    /\ Live /\ intents < MaxIntents /\ t \in {now - 1, now} /\ t >= 0
    /\ intents' = intents + 1
    /\ LET it == [healer |-> healer, at |-> t, closed |-> None]
           waiting == Explained(it)
           o == CHOOSE x \in waiting : \A y \in waiting : y <= x
       IN  /\ intent' = it
           /\ recent' = Pruned(t).recent
           /\ \/ /\ effects' = Pruned(t).effects /\ unpaid' = Pruned(t).unpaid
                 /\ UNCHANGED <<cost, lastUse, healTables>>   \* nothing waits, or it failed
              \/ /\ waiting # {}
                 /\ Activation(it, o, outputs[o].at)
                 /\ outputs' = [outputs EXCEPT ![o].use = Len(uses) + 1]
                 /\ effects' = Pruned(t).effects \union EffectOf(it, outputs[o].at)
                 /\ unpaid' = Pruned(t).unpaid \ {o}
    /\ UNCHANGED <<lastDamage, lifesteal, heals, sessionVars>>

\* A weapon, a harvesting tool, a consumable, or a healer without a profile,
\* whose press also forgets the intent it closed.
PressOther(kind, t) ==
    /\ Live /\ intents < MaxIntents /\ t \in {now - 1, now} /\ t >= 0
    /\ intents' = intents + 1
    /\ intent' = None
    /\ recent' = IF kind = "unprofiled" THEN None ELSE Closed(t)
    /\ IF kind = "weapon" THEN lifesteal' \in {None, "low"} ELSE UNCHANGED lifesteal
    /\ effects' = Pruned(t).effects /\ unpaid' = Pruned(t).unpaid
    /\ UNCHANGED <<lastUse, lastDamage, cost, healTables, heals, sessionVars>>

NoteDamage ==
    /\ Live /\ lastDamage # now /\ heals < MaxHeals
    /\ lastDamage' = now
    /\ UNCHANGED <<intent, recent, effects, lastUse, unpaid, lifesteal, cost, healTables,
                   heals, intents, sessionVars>>

-----------------------------------------------------------------------------
\* stop_session writes the cost it holds.
StopHealing ==
    /\ Seal /\ costRow' = cost
    /\ UNCHANGED <<runtime, uses, outputs, heals, intents>>

CrashHealing == Crash /\ UNCHANGED <<runtime, healTables, heals, intents>>
RecoverHealing == RecoverRow /\ UNCHANGED <<runtime, healTables, heals, intents>>
ElapseHealing == Elapse /\ UNCHANGED <<runtime, healTables, heals, intents>>

HealingInit ==
    /\ SessionInit
    /\ intent = None /\ recent = None /\ effects = {} /\ unpaid = {}
    /\ lastUse = [h \in Healer |-> None]
    /\ lastDamage = None /\ lifesteal = None
    /\ cost = 0 /\ costRow = 0 /\ uses = << >> /\ outputs = << >>
    /\ heals = 0 /\ intents = 0

HealingNext ==
    \/ \E amount \in Amount : OnSelfHeal(amount)
    \/ \E healer \in Healer, t \in 0..MaxTime : PressHealer(healer, t)
    \/ \E kind \in {"weapon", "other", "unprofiled"}, t \in 0..MaxTime : PressOther(kind, t)
    \/ NoteDamage
    \/ StopHealing \/ CrashHealing \/ RecoverHealing \/ ElapseHealing

HealingSpec == HealingInit /\ [][HealingNext]_healVars

-----------------------------------------------------------------------------
(* Properties.                                                             *)

\* The row's healing cost is that of its activations at every moment, also in
\* a session that was stopped or that died between any two steps, and a live
\* session holds the same in memory.
HealCostIsUses ==
    /\ costRow = Len(uses)
    /\ Live => cost = costRow
    /\ costRow >= 0 /\ DOMAIN lastUse = Healer

\* Every paid use was pressed: its heal came at or after a press of that
\* healer and no later than the tail after it was put away, uses of one healer
\* are a reload apart, and no heal is paid twice, in whatever order presses and
\* lines arrived and whichever transactions failed.
UsesArePressed ==
    \A u \in DOMAIN uses :
        /\ uses[u].pressed <= uses[u].at
        /\ uses[u].closed # None => uses[u].at <= uses[u].closed + DeliveryTail
        /\ outputs[uses[u].output].at = uses[u].at
        /\ \A v \in DOMAIN uses \ {u} :
              /\ uses[v].output # uses[u].output
              /\ uses[v].healer = uses[u].healer =>
                    uses[v].at - uses[u].at \notin -(Reload - 1) .. Reload - 1

\* What the healing ledger shows of a session: it costs what its activations
\* cost, and each of them was pressed and is paid once.
HealsSound == HealCostIsUses /\ UsesArePressed
=============================================================================
