------------------------ MODULE SessionBooks_proofs -------------------------
(***************************************************************************)
(* What is booked while a session is played: shots and kills, harvesting   *)
(* swings, healing outputs and activations, the skill trail with the       *)
(* codex, and the skill scan, for any number of events, claims, pages and  *)
(* threads.                                                                *)
(*                                                                         *)
(* Each part has an inductive invariant of its own, which adds to what the *)
(* runs check where the intermediate states stand: what a kill's row has   *)
(* of the kill in memory, which boards an inferred tier may still be       *)
(* corrected by, which activations a late heal may still join, which       *)
(* points and ranks a call between its reads and its writes has already    *)
(* earned, which worker owes which frame.                                  *)
(***************************************************************************)
EXTENDS KillLedger, HarvestSwings, HealingLedger, SkillLedger, SkillScan,
        ModelLemmas

-----------------------------------------------------------------------------
(* Shots, kills and what they cost.                                        *)

\* What an accumulator or a kill keeps: shots by cost phase.
Stats == {s \in UNION {[D -> Nat] : D \in SUBSET Phase} : IsFiniteSet(DOMAIN s)}
KillRecord == [stats : Stats, loot : {"active", "inactive"}, rebate : BOOLEAN, global : BOOLEAN]

ShotsIn(ks, ids) == MapThenSumSet(LAMBDA k : Shots(ks[k].stats), ids)
CostIn(ks, ids) == MapThenSumSet(LAMBDA k : Cost(ks[k].stats), ids)

\* A row of the kills table.
IsRow(row) ==
    /\ row = [stats |-> row.stats, cost |-> row.cost, loot |-> row.loot,
              rebate |-> row.rebate, global |-> row.global]
    /\ row.loot \in {"active", "inactive"} /\ row.rebate \in BOOLEAN

KillsTyped ==
    /\ status \in {"live", "stopped", "down", "recovered"}
    /\ acc \in Stats /\ kills \in Seq(KillRecord)
    /\ {hand, lastTool, priced} \subseteq Tool \union {None}
    /\ filled \in [Tool -> 0..Slots \union {None}]
    /\ DOMAIN rows \subseteq DOMAIN kills /\ \A k \in DOMAIN rows : IsRow(rows[k])
    /\ pending \union flipped \subseteq DOMAIN rows

\* Until the session stops, nothing is dangling; until it has ended, no rebate
\* is booked.
KillsCounted ==
    /\ ShotsIn(kills, DOMAIN kills) + Shots(acc) = fired
    /\ CostIn(kills, DOMAIN kills) + Cost(acc) = spent
    /\ dangling = IF status = "stopped" THEN Cost(acc) ELSE 0
    /\ ledger = << >> \/ (Len(ledger) = 1 /\ Ended)

\* What a row has of its kill; a kill whose tag could not be written, and one
\* whose loot the tracker has yet to reconcile, excepted.
RowAgrees(row, kill, tagged, told) ==
    /\ SumOf(row.stats, DOMAIN row.stats) = Shots(kill.stats)
    /\ row.cost = Cost(kill.stats)
    /\ tagged => row.global = kill.global
    /\ told => row.loot = kill.loot

RowsAgree ==
    \A k \in DOMAIN rows :
        RowAgrees(rows[k], kills[k], k \notin untagged, Live /\ k \notin pending \union flipped)

KillInv == KillsTyped /\ KillsCounted /\ RowsAgree

\* The groups that came; the guard remembers the last one that was kept.
ArrivalRecord == [print : {group.print : group \in Group}, wood : BOOLEAN, at : Nat, kept : BOOLEAN]

LastKept(j) == arrivals[j].kept /\ \A k \in DOMAIN arrivals : k > j => ~arrivals[k].kept

Remembered ==
    \/ lastLoot = None /\ \A i \in DOMAIN arrivals : ~arrivals[i].kept
    \/ \E j \in DOMAIN arrivals :
          LastKept(j) /\ lastLoot = [print |-> arrivals[j].print, at |-> arrivals[j].at]

\* Whether the i-th group repeats the last one kept before it.
Repeats(as, i) ==
    \E j \in 1 .. i - 1 :
        /\ as[j].kept /\ as[j].print = as[i].print
        /\ as[i].at < as[j].at + DedupWindow
        /\ \A k \in j + 1 .. i - 1 : ~as[k].kept

KeptCreatures == {i \in DOMAIN arrivals : arrivals[i].kept /\ ~arrivals[i].wood}

LootInv ==
    /\ now \in Nat /\ arrivals \in Seq(ArrivalRecord)
    /\ Remembered
    /\ \A i \in DOMAIN arrivals : ~arrivals[i].kept <=> Repeats(arrivals, i)
    /\ Len(kills) = Cardinality(KeptCreatures)

-----------------------------------------------------------------------------
(* Shots and costs are sums.                                               *)

LEMMA StatsParts ==
    ASSUME NEW stats \in Stats
    PROVE  /\ IsFiniteSet(DOMAIN stats) /\ DOMAIN stats \subseteq Phase
           /\ \A p \in DOMAIN stats : stats[p] \in Nat /\ p.cost \in Nat
           /\ stats = [p \in DOMAIN stats |-> stats[p]]
BY DEF Stats, Phase

LEMMA MakesStats ==
    ASSUME NEW D \in SUBSET Phase, IsFiniteSet(D), NEW stats \in [D -> Nat]
    PROVE  stats \in Stats
BY DEF Stats

Weighed(stats) == [p \in DOMAIN stats |-> stats[p] * p.cost]

LEMMA ShotsIsSum ==
    ASSUME NEW stats \in Stats
    PROVE  /\ IntValued(stats, DOMAIN stats) /\ Shots(stats) = SumOf(stats, DOMAIN stats)
           /\ Shots(stats) \in Nat
<1>1. Shots(stats) = SumOf(stats, DOMAIN stats)
  BY Zenon DEF Shots, SumOf
<1> QED BY <1>1, StatsParts, SumOfNaturals

LEMMA ProductIsNat == ASSUME NEW a \in Nat, NEW b \in Nat PROVE a * b \in Nat
OBVIOUS

LEMMA CostIsSum ==
    ASSUME NEW stats \in Stats
    PROVE  /\ IntValued(Weighed(stats), DOMAIN stats)
           /\ Cost(stats) = SumOf(Weighed(stats), DOMAIN stats)
           /\ Cost(stats) \in Nat
<1> DEFINE D == DOMAIN stats
           g == Weighed(stats)
           F(it) == it = [t \in SUBSET D |-> IF t = {} THEN 0
                            ELSE stats[Chosen(t)] * Chosen(t).cost + it[t \ {Chosen(t)}]]
           f == CHOOSE it : F(it)
<1>0. IsFiniteSet(D) /\ \A p \in D : g[p] = stats[p] * p.cost /\ g[p] \in Nat
  BY StatsParts, ProductIsNat DEF Weighed
<1>00. IntValued(g, D) /\ SumOf(g, D) \in Nat
  <2> HIDE DEF g, D
  <2> QED BY <1>0, SumOfNaturals
<1>1. Cost(stats) = f[D]
  BY Zenon DEF Cost, MapThenSumSet, MapThenFoldSet, Chosen
<1> HIDE DEF g, D
<1>2. \A t \in SUBSET D : t # {} => g[Chosen(t)] = stats[Chosen(t)] * Chosen(t).cost
  BY <1>0, ChosenIsMember
<1>3. ASSUME NEW it PROVE F(it) <=> IsFold(it, g, D)
  BY <1>2 DEF IsFold
<1>4. F(f)
  <2>1. \E it : F(it)
    BY <1>00, <1>3, FoldExists
  <2> QED BY <2>1
<1> HIDE DEF f
<1>5. IsFold(f, g, D)
  BY <1>3, <1>4
<1>6. Cost(stats) = SumOf(g, D)
  BY <1>00, <1>1, <1>5, FoldIsSum
<1> QED BY <1>00, <1>6 DEF g, D

\* The shots and the cost of each kill.
ShotsBy(ks) == [k \in DOMAIN ks |-> Shots(ks[k].stats)]
CostBy(ks) == [k \in DOMAIN ks |-> Cost(ks[k].stats)]

LEMMA KillsFinite ==
    ASSUME NEW ks \in Seq(KillRecord)
    PROVE  /\ IsFiniteSet(DOMAIN ks) /\ DOMAIN ks = 1 .. Len(ks) /\ Len(ks) \in Nat
           /\ \A k \in DOMAIN ks : ks[k] \in KillRecord
<1>1. DOMAIN ks = 1 .. Len(ks) /\ Len(ks) \in Nat
  BY LenProperties
<1>2. IsFiniteSet(1 .. Len(ks))
  BY <1>1, FS_Interval
<1> QED BY <1>1, <1>2, ElementOfSeq

LEMMA ShotsInIsSum ==
    ASSUME NEW ks \in Seq(KillRecord), NEW ids \in SUBSET DOMAIN ks
    PROVE  /\ IntValued(ShotsBy(ks), ids) /\ ShotsIn(ks, ids) = SumOf(ShotsBy(ks), ids)
           /\ ShotsIn(ks, ids) \in Nat
<1> DEFINE g == ShotsBy(ks)
           F(it) == it = [t \in SUBSET ids |-> IF t = {} THEN 0
                            ELSE Shots(ks[Chosen(t)].stats) + it[t \ {Chosen(t)}]]
           f == CHOOSE it : F(it)
<1>0. IsFiniteSet(ids) /\ \A k \in ids : g[k] = Shots(ks[k].stats) /\ g[k] \in Nat
  <2>2. IsFiniteSet(ids)
    BY KillsFinite, FS_Subset
  <2>3. \A k \in ids : ks[k].stats \in Stats
    BY KillsFinite DEF KillRecord
  <2> QED BY <2>2, <2>3, ShotsIsSum DEF ShotsBy
<1>00. IntValued(g, ids) /\ SumOf(g, ids) \in Nat
  <2> HIDE DEF g
  <2> QED BY <1>0, SumOfNaturals
<1>1. ShotsIn(ks, ids) = f[ids]
  BY Zenon DEF ShotsIn, MapThenSumSet, MapThenFoldSet, Chosen
<1> HIDE DEF g
<1>2. \A t \in SUBSET ids : t # {} => g[Chosen(t)] = Shots(ks[Chosen(t)].stats)
  BY <1>0, ChosenIsMember
<1>3. ASSUME NEW it PROVE F(it) <=> IsFold(it, g, ids)
  BY <1>2 DEF IsFold
<1>4. F(f)
  <2>1. \E it : F(it)
    BY <1>00, <1>3, FoldExists
  <2> QED BY <2>1
<1> HIDE DEF f
<1>5. IsFold(f, g, ids)
  BY <1>3, <1>4
<1>6. ShotsIn(ks, ids) = SumOf(g, ids)
  BY <1>00, <1>1, <1>5, FoldIsSum
<1> QED BY <1>00, <1>6 DEF g

LEMMA CostInIsSum ==
    ASSUME NEW ks \in Seq(KillRecord), NEW ids \in SUBSET DOMAIN ks
    PROVE  /\ IntValued(CostBy(ks), ids) /\ CostIn(ks, ids) = SumOf(CostBy(ks), ids)
           /\ CostIn(ks, ids) \in Nat
<1> DEFINE g == CostBy(ks)
           F(it) == it = [t \in SUBSET ids |-> IF t = {} THEN 0
                            ELSE Cost(ks[Chosen(t)].stats) + it[t \ {Chosen(t)}]]
           f == CHOOSE it : F(it)
<1>0. IsFiniteSet(ids) /\ \A k \in ids : g[k] = Cost(ks[k].stats) /\ g[k] \in Nat
  <2>2. IsFiniteSet(ids)
    BY KillsFinite, FS_Subset
  <2>3. \A k \in ids : ks[k].stats \in Stats
    BY KillsFinite DEF KillRecord
  <2> QED BY <2>2, <2>3, CostIsSum DEF CostBy
<1>00. IntValued(g, ids) /\ SumOf(g, ids) \in Nat
  <2> HIDE DEF g
  <2> QED BY <1>0, SumOfNaturals
<1>1. CostIn(ks, ids) = f[ids]
  BY Zenon DEF CostIn, MapThenSumSet, MapThenFoldSet, Chosen
<1> HIDE DEF g
<1>2. \A t \in SUBSET ids : t # {} => g[Chosen(t)] = Cost(ks[Chosen(t)].stats)
  BY <1>0, ChosenIsMember
<1>3. ASSUME NEW it PROVE F(it) <=> IsFold(it, g, ids)
  BY <1>2 DEF IsFold
<1>4. F(f)
  <2>1. \E it : F(it)
    BY <1>00, <1>3, FoldExists
  <2> QED BY <2>1
<1> HIDE DEF f
<1>5. IsFold(f, g, ids)
  BY <1>3, <1>4
<1>6. CostIn(ks, ids) = SumOf(g, ids)
  BY <1>00, <1>1, <1>5, FoldIsSum
<1> QED BY <1>00, <1>6 DEF g

-----------------------------------------------------------------------------
(* Shots that are added, priced anew or written.                           *)

LEMMA SumOfRaised ==
    ASSUME NEW g, NEW h, NEW D, IntValued(g, D), NEW p, NEW n \in Int,
           \A x \in D \ {p} : h[x] = g[x],
           h[p] = (IF p \in D THEN g[p] ELSE 0) + n
    PROVE  IntValued(h, D \union {p}) /\ SumOf(h, D \union {p}) = SumOf(g, D) + n
<1> DEFINE E == D \ {p}
<1>1. IntValued(g, E) /\ SumOf(g, E) \in Int
  BY IntValuedParts, SumIsInt
<1>2. IntValued(h, E) /\ SumOf(h, E) = SumOf(g, E)
  <2> HIDE DEF E
  <2> QED BY <1>1, SumOfAgrees DEF E
<1>3. h[p] \in Int
  BY DEF IntValued
<1>4. p \notin E /\ E \union {p} = D \union {p}
  OBVIOUS
<1>5. IntValued(h, D \union {p}) /\ SumOf(h, D \union {p}) = h[p] + SumOf(h, E)
  <2> HIDE DEF E
  <2>1. IntValued(h, E \union {p}) /\ SumOf(h, E \union {p}) = h[p] + SumOf(h, E)
    BY <1>2, <1>3, <1>4, SumOfAdd
  <2> QED BY <1>4, <2>1
<1>6. CASE p \in D
  <2>1. SumOf(g, D) = g[p] + SumOf(g, E)
    BY <1>6, SumOfRemove
  <2>2. g[p] \in Int
    BY <1>6 DEF IntValued
  <2> QED BY <1>1, <1>2, <1>5, <1>6, <2>1, <2>2
<1>7. CASE p \notin D
  <2>1. E = D
    BY <1>7
  <2>2. SumOf(g, E) = SumOf(g, D) /\ h[p] = n
    BY <1>7, <2>1
  <2> HIDE DEF E
  <2> QED BY <1>1, <1>2, <1>5, <2>2
<1> QED BY <1>6, <1>7

LEMMA WeighSums ==
    ASSUME NEW a \in Nat, NEW n \in Nat, NEW c \in Nat
    PROVE  (a + n) * c = a * c + n * c /\ (0 + n) * c = 0 + n * c /\ (a + 0) * c = a * c
OBVIOUS

LEMMA ShotsAdded ==
    ASSUME NEW stats \in Stats, NEW phase \in Phase, NEW n \in Nat
    PROVE  /\ AddShots(stats, phase, n) \in Stats
           /\ Shots(AddShots(stats, phase, n)) = Shots(stats) + n
           /\ Cost(AddShots(stats, phase, n)) = Cost(stats) + n * phase.cost
<1> DEFINE D == DOMAIN stats
           new == AddShots(stats, phase, n)
<1>1. IsFiniteSet(D) /\ D \in SUBSET Phase /\ \A p \in D : stats[p] \in Nat /\ p.cost \in Nat
  BY StatsParts
<1>2. IsFiniteSet(D \union {phase}) /\ D \union {phase} \in SUBSET Phase /\ phase.cost \in Nat
  <2>1. IsFiniteSet(D \union {phase})
    BY <1>1, FS_AddElement
  <2> QED BY <1>1, <2>1 DEF Phase
<1>3. /\ DOMAIN new = D \union {phase}
      /\ \A p \in D \ {phase} : new[p] = stats[p] + 0
      /\ new[phase] = (IF phase \in D THEN stats[phase] ELSE 0) + n
  BY DEF AddShots
<1>4. new \in [D \union {phase} -> Nat]
  BY <1>1 DEF AddShots
<1>5. new \in Stats
  <2> HIDE DEF new, D
  <2> QED BY <1>2, <1>4, MakesStats
<1>6. Shots(new) = Shots(stats) + n
  <2>1. \A p \in D \ {phase} : new[p] = stats[p]
    BY <1>1, <1>3
  <2>2. IntValued(stats, D)
    BY ShotsIsSum
  <2>3. new[phase] = (IF phase \in D THEN stats[phase] ELSE 0) + n
    BY <1>3
  <2>4. n \in Int
    OBVIOUS
  <2> HIDE DEF new, D
  <2>5. ASSUME NEW g, NEW h, IntValued(g, D), \A x \in D \ {phase} : h[x] = g[x],
               h[phase] = (IF phase \in D THEN g[phase] ELSE 0) + n
        PROVE  SumOf(h, D \union {phase}) = SumOf(g, D) + n
    BY <2>4, <2>5, SumOfRaised
  <2>6. SumOf(new, D \union {phase}) = SumOf(stats, D) + n
    BY <2>1, <2>2, <2>3, <2>5
  <2> QED BY <1>3, <1>5, <2>6, ShotsIsSum DEF D
<1>7. Cost(new) = Cost(stats) + n * phase.cost
  <2> DEFINE g == Weighed(stats)
             h == Weighed(new)
  <2>1. \A p \in D \union {phase} : h[p] = new[p] * p.cost
    BY <1>3 DEF Weighed
  <2>2. \A p \in D : g[p] = stats[p] * p.cost
    BY DEF Weighed
  <2>3. IntValued(g, D)
    BY CostIsSum
  <2>4. n * phase.cost \in Int
    BY <1>2, ProductIsNat
  <2> HIDE DEF new, D, g, h
  <2>5. \A p \in D \ {phase} : h[p] = g[p]
    BY <1>1, <1>3, <2>1, <2>2, WeighSums
  <2>6. h[phase] = (IF phase \in D THEN g[phase] ELSE 0) + n * phase.cost
    <3>1. CASE phase \in D
      <4>1. h[phase] = (stats[phase] + n) * phase.cost
        BY <1>3, <2>1, <3>1
      <4>2. h[phase] = stats[phase] * phase.cost + n * phase.cost
        BY <1>1, <1>2, <3>1, <4>1, WeighSums
      <4> QED BY <2>2, <3>1, <4>2
    <3>2. CASE phase \notin D
      <4>1. h[phase] = (0 + n) * phase.cost
        BY <1>3, <2>1, <3>2
      <4> QED BY <1>2, <3>2, <4>1, WeighSums
    <3> QED BY <3>1, <3>2
  <2>7. SumOf(h, D \union {phase}) = SumOf(g, D) + n * phase.cost
    BY <2>3, <2>4, <2>5, <2>6, SumOfRaised
  <2> QED BY <1>3, <1>5, <2>7, CostIsSum DEF D, g, h
<1> QED BY <1>5, <1>6, <1>7

Without(stats, free) == Restrict(stats, DOMAIN stats \ {free})

\* A phase without cost leaves with its shots alone.
LEMMA ShotsTaken ==
    ASSUME NEW stats \in Stats, NEW free \in DOMAIN stats, free.cost = 0
    PROVE  /\ Without(stats, free) \in Stats
           /\ Shots(Without(stats, free)) = Shots(stats) - stats[free]
           /\ Cost(Without(stats, free)) = Cost(stats)
<1> DEFINE D == DOMAIN stats
           E == D \ {free}
           rest == Restrict(stats, E)
<1>1. IsFiniteSet(D) /\ D \in SUBSET Phase /\ \A p \in D : stats[p] \in Nat /\ p.cost \in Nat
  BY StatsParts
<1>2. DOMAIN rest = E /\ \A p \in E : rest[p] = stats[p]
  BY DEF Restrict
<1>3. rest \in Stats
  <2>1. IsFiniteSet(E) /\ E \in SUBSET Phase
    BY <1>1, FS_Subset
  <2>2. rest \in [E -> Nat]
    BY <1>1 DEF Restrict
  <2> HIDE DEF rest, E
  <2> QED BY <2>1, <2>2, MakesStats
<1>4. Shots(rest) = Shots(stats) - stats[free]
  <2>1. IntValued(rest, E) /\ Shots(rest) = SumOf(rest, E)
    BY <1>2, <1>3, ShotsIsSum
  <2>2. SumOf(stats, D) = stats[free] + SumOf(stats, E)
    BY ShotsIsSum, SumOfRemove
  <2> HIDE DEF rest, E
  <2>3. IntValued(stats, E) /\ SumOf(rest, E) = SumOf(stats, E)
    BY <1>2, <2>1, SumOfAgrees
  <2>4. SumOf(stats, E) \in Int /\ stats[free] \in Int
    BY <1>1, <2>3, SumIsInt
  <2> QED BY <2>1, <2>2, <2>3, <2>4, ShotsIsSum
<1>5. Cost(rest) = Cost(stats)
  <2> DEFINE g == Weighed(stats)
             h == Weighed(rest)
  <2>1. IntValued(h, E) /\ Cost(rest) = SumOf(h, E)
    BY <1>2, <1>3, CostIsSum
  <2>2. IntValued(g, D) /\ Cost(stats) = SumOf(g, D)
    BY CostIsSum
  <2>3. \A p \in E : h[p] = g[p]
    BY <1>2 DEF Weighed
  <2>4. g[free] = 0
    BY <1>1 DEF Weighed
  <2>5. E \in SUBSET D /\ \A p \in D \ E : p = free
    OBVIOUS
  <2> HIDE DEF g, h, D, E, rest
  <2>6. SumOf(h, E) = SumOf(g, E)
    BY <2>1, <2>3, SumOfAgrees
  <2>7. SumOf(g, D) = SumOf(g, E)
    <3>1. \A p \in D \ E : g[p] = 0
      BY <2>4, <2>5
    <3> QED BY <2>2, <2>5, <3>1, SumOfSupport
  <2> QED BY <2>1, <2>2, <2>6, <2>7
<1> QED BY <1>3, <1>4, <1>5 DEF Without

LEMMA NothingShot == << >> \in Stats /\ Shots(<< >>) = 0 /\ Cost(<< >>) = 0
<1>1. << >> \in Stats
  <2>1. << >> \in [{} -> Nat]
    OBVIOUS
  <2> QED BY <2>1, FS_EmptySet, MakesStats
<1>2. DOMAIN << >> = {}
  OBVIOUS
<1> QED BY <1>1, <1>2, ShotsIsSum, CostIsSum, SumOfEmpty

\* The rows of one kill carry every shot of it, whatever phases it has.
LEMMA RowsOfStats ==
    ASSUME NEW stats \in Stats
    PROVE  SumOf(StatRows(stats), DOMAIN StatRows(stats)) = Shots(stats)
<1> DEFINE D == DOMAIN stats
           R == DOMAIN StatRows(stats)
           f == [p \in D |-> RowKey(p)]
           g == StatRows(stats)
<1>1. \A p \in D, q \in D : RowKey(p) = RowKey(q) => p = q
  BY StatsParts DEF RowKey, Phase
<1>2. \A p \in D : f[p] \in R /\ g[f[p]] = stats[p]
  <2> TAKE p \in D
  <2>1. f[p] \in R /\ g[f[p]] = stats[CHOOSE q \in D : RowKey(q) = RowKey(p)]
    BY DEF StatRows
  <2>2. (CHOOSE q \in D : RowKey(q) = RowKey(p)) = p
    BY <1>1
  <2> QED BY <2>1, <2>2
<1>3. \A r \in R : \E p \in D : r = f[p]
  BY DEF StatRows
<1>4. \A p \in D, q \in D : f[p] = f[q] => p = q
  BY <1>1
<1>5. IntValued(stats, D) /\ Shots(stats) = SumOf(stats, D)
  BY ShotsIsSum
<1> HIDE DEF D, R, f, g
<1>6. IntValued(g, R) /\ SumOf(g, R) = SumOf(stats, D)
  BY <1>2, <1>3, <1>4, <1>5, SumOfRenamed
<1> QED BY <1>5, <1>6 DEF R, g

\* A kill more is its shots and its cost more.
LEMMA KillAdded ==
    ASSUME NEW ks \in Seq(KillRecord), NEW kill \in KillRecord
    PROVE  /\ ShotsIn(Append(ks, kill), DOMAIN Append(ks, kill))
                 = ShotsIn(ks, DOMAIN ks) + Shots(kill.stats)
           /\ CostIn(Append(ks, kill), DOMAIN Append(ks, kill))
                 = CostIn(ks, DOMAIN ks) + Cost(kill.stats)
<1> DEFINE more == Append(ks, kill)
           D == DOMAIN ks
           new == Len(ks) + 1
<1>1. /\ more \in Seq(KillRecord) /\ DOMAIN more = D \union {new} /\ new \notin D
      /\ more[new] = kill /\ \A k \in D : more[k] = ks[k]
  BY AppendRow
<1>2. kill.stats \in Stats /\ \A k \in D : k \in DOMAIN more
  BY <1>1 DEF KillRecord
<1>3. ShotsIn(more, DOMAIN more) = ShotsIn(ks, D) + Shots(kill.stats)
  <2> DEFINE g == ShotsBy(ks)
             h == ShotsBy(more)
  <2>1. /\ \A k \in D : g[k] = h[k]
        /\ h[new] = Shots(kill.stats)
    BY <1>1 DEF ShotsBy
  <2>2. IntValued(g, D) /\ SumOf(g, D) \in Nat /\ ShotsIn(ks, D) = SumOf(g, D)
    BY ShotsInIsSum
  <2>3. ShotsIn(more, DOMAIN more) = SumOf(h, DOMAIN more)
    BY <1>1, ShotsInIsSum
  <2> HIDE DEF g, h, more, D, new
  <2>4. IntValued(h, D) /\ SumOf(g, D) = SumOf(h, D)
    BY <2>1, <2>2, SumOfAgrees
  <2>5. Shots(kill.stats) \in Int
    BY <1>2, ShotsIsSum
  <2>6. IntValued(h, D \union {new}) /\ SumOf(h, D \union {new}) = h[new] + SumOf(h, D)
    BY <1>1, <2>1, <2>4, <2>5, SumOfAdd
  <2> QED BY <1>1, <2>1, <2>2, <2>3, <2>4, <2>5, <2>6
<1>4. CostIn(more, DOMAIN more) = CostIn(ks, D) + Cost(kill.stats)
  <2> DEFINE g == CostBy(ks)
             h == CostBy(more)
  <2>1. /\ \A k \in D : g[k] = h[k]
        /\ h[new] = Cost(kill.stats)
    BY <1>1 DEF CostBy
  <2>2. IntValued(g, D) /\ SumOf(g, D) \in Nat /\ CostIn(ks, D) = SumOf(g, D)
    BY CostInIsSum
  <2>3. CostIn(more, DOMAIN more) = SumOf(h, DOMAIN more)
    BY <1>1, CostInIsSum
  <2> HIDE DEF g, h, more, D, new
  <2>4. IntValued(h, D) /\ SumOf(g, D) = SumOf(h, D)
    BY <2>1, <2>2, SumOfAgrees
  <2>5. Cost(kill.stats) \in Int
    BY <1>2, CostIsSum
  <2>6. IntValued(h, D \union {new}) /\ SumOf(h, D \union {new}) = h[new] + SumOf(h, D)
    BY <1>1, <2>1, <2>4, <2>5, SumOfAdd
  <2> QED BY <1>1, <2>1, <2>2, <2>3, <2>4, <2>5, <2>6
<1> QED BY <1>3, <1>4

\* What else happens to a kill leaves its shots and its cost.
LEMMA KillsRetagged ==
    ASSUME NEW ks \in Seq(KillRecord), NEW tagged \in Seq(KillRecord),
           DOMAIN tagged = DOMAIN ks,
           \A k \in DOMAIN ks : tagged[k].stats = ks[k].stats
    PROVE  /\ ShotsIn(tagged, DOMAIN tagged) = ShotsIn(ks, DOMAIN ks)
           /\ CostIn(tagged, DOMAIN tagged) = CostIn(ks, DOMAIN ks)
<1>1. ShotsBy(tagged) = ShotsBy(ks) /\ CostBy(tagged) = CostBy(ks)
  BY DEF ShotsBy, CostBy
<1> QED BY <1>1, ShotsInIsSum, CostInIsSum

\* What the rows of a table cost.
StoredIn(table) == MapThenSumSet(LAMBDA k : table[k].cost, DOMAIN table)

\* With the kills that never reached the table, that is what all kills cost.
LEMMA StoredAndLost ==
    ASSUME NEW ks \in Seq(KillRecord), NEW table, DOMAIN table \subseteq DOMAIN ks,
           \A k \in DOMAIN table : table[k].cost = Cost(ks[k].stats)
    PROVE  StoredIn(table) + CostIn(ks, DOMAIN ks \ DOMAIN table) = CostIn(ks, DOMAIN ks)
<1> DEFINE S == DOMAIN table
           D == DOMAIN ks
           g == CostBy(ks)
           F(it) == it = [t \in SUBSET S |-> IF t = {} THEN 0
                            ELSE table[Chosen(t)].cost + it[t \ {Chosen(t)}]]
           f == CHOOSE it : F(it)
<1>1. IntValued(g, D) /\ CostIn(ks, D) = SumOf(g, D)
  BY ShotsInIsSum, CostInIsSum
<1>2. IntValued(g, D \ S) /\ CostIn(ks, D \ S) = SumOf(g, D \ S)
  BY CostInIsSum
<1>3. \A k \in S : g[k] = table[k].cost
  BY DEF CostBy
<1>4. IntValued(g, S)
  <2>1. S \in SUBSET D
    OBVIOUS
  <2> HIDE DEF g, S, D
  <2> QED BY <1>1, <2>1, IntValuedParts
<1>5. StoredIn(table) = f[S]
  BY Zenon DEF StoredIn, MapThenSumSet, MapThenFoldSet, Chosen
<1>6. S \subseteq D
  OBVIOUS
<1> HIDE DEF g, S, D
<1>7. \A t \in SUBSET S : t # {} => g[Chosen(t)] = table[Chosen(t)].cost
  BY <1>3, ChosenIsMember
<1>8. ASSUME NEW it PROVE F(it) <=> IsFold(it, g, S)
  BY <1>7 DEF IsFold
<1>9. F(f)
  <2>1. \E it : F(it)
    BY <1>4, <1>8, FoldExists
  <2> QED BY <2>1
<1> HIDE DEF f
<1>10. IsFold(f, g, S)
  BY <1>8, <1>9
<1>11. StoredIn(table) = SumOf(g, S)
  BY <1>4, <1>5, <1>10, FoldIsSum
<1>12. SumOf(g, S \union (D \ S)) = SumOf(g, S) + SumOf(g, D \ S)
  <2>1. S \cap (D \ S) = {}
    OBVIOUS
  <2> QED BY <1>2, <1>4, <2>1, SumOfParts
<1>13. S \union (D \ S) = D
  BY <1>6
<1>14. StoredIn(table) + CostIn(ks, D \ S) = CostIn(ks, D)
  BY <1>1, <1>2, <1>11, <1>12, <1>13
<1> QED BY <1>14 DEF S, D

-----------------------------------------------------------------------------
(* The invariant says what the runs check.                                 *)

LEMMA RowsCarry == RowsAgree <=> RowsCarryKills
BY Zenon DEF RowsAgree, RowAgrees, RowsCarryKills, SumOf

LEMMA AddsUpMeans ==
    CostAddsUp <=>
        /\ KillsTypeOK
        /\ /\ ShotsIn(kills, DOMAIN kills) + Shots(acc) = fired
           /\ CostIn(kills, DOMAIN kills) + Cost(acc) = spent
           /\ status = "stopped" => StoredIn(rows) + CostIn(kills, Lost) + dangling = spent
           /\ status = "recovered" => dangling = 0
        /\ Len(ledger) <= 1 /\ (ledger # << >> => Ended)
BY Zenon DEF CostAddsUp, ShotsIn, CostIn, StoredIn

LEMMA SoundFromInv == ASSUME KillInv, LootInv PROVE KillsSound
<1>1. KillsTyped /\ KillsCounted /\ RowsAgree
  BY DEF KillInv
<1>2. KillsTypeOK
  <2>1. DOMAIN acc \subseteq Phase
    BY <1>1, StatsParts DEF KillsTyped
  <2> QED BY <1>1, <2>1 DEF KillsTyped, KillsTypeOK
<1>3. status = "stopped" => StoredIn(rows) + CostIn(kills, Lost) + dangling = spent
  <2> HAVE status = "stopped"
  <2>1. StoredIn(rows) + CostIn(kills, DOMAIN kills \ DOMAIN rows)
          = CostIn(kills, DOMAIN kills)
    BY <1>1, StoredAndLost DEF KillsTyped, RowsAgree, RowAgrees
  <2>2. dangling = Cost(acc)
    BY <1>1 DEF KillsCounted
  <2> QED BY <1>1, <2>1, <2>2 DEF Lost, KillsCounted
<1>4. Len(ledger) <= 1 /\ (ledger # << >> => Ended)
  <2>1. CASE ledger = << >>
    BY <2>1
  <2>2. CASE Len(ledger) = 1 /\ Ended
    BY <2>2
  <2> QED BY <1>1, <2>1, <2>2 DEF KillsCounted
<1>5. CostAddsUp
  BY <1>1, <1>2, <1>3, <1>4, AddsUpMeans DEF KillsCounted
<1>6. GroupsCountedOnce
  BY DEF LootInv, Repeats, KeptCreatures, GroupsCountedOnce
<1> QED BY <1>1, <1>5, <1>6, RowsCarry DEF KillsSound

-----------------------------------------------------------------------------
(* Every step keeps the invariant.                                         *)

\* What a step that leaves the tables and the kills alone keeps.
LEMMA RowsStand ==
    ASSUME RowsAgree, UNCHANGED <<rows, kills, untagged>>,
           Live' => Live /\ pending' = pending /\ flipped' = flipped
    PROVE  RowsAgree'
BY DEF RowsAgree, RowAgrees

LEMMA PriceIsNat ==
    ASSUME KillsTyped, NEW tool \in Tool
    PROVE  /\ CurrentCost(tool) \in Nat
           /\ Ensured(tool) \in [Tool -> 0..Slots \union {None}]
<1>1. filled[tool] \in 0..Slots \union {None} /\ Slots \in Nat
  BY KillAssumption DEF KillsTyped
<1>2. FilledOf(tool) \in 0..Slots
  BY <1>1 DEF FilledOf
<1> QED BY <1>1, <1>2 DEF KillsTyped, CurrentCost, Ensured

LEMMA CombatKeeps ==
    ASSUME KillInv, NEW match \in Tool \union {None}, NEW countered \in BOOLEAN,
           OnCombat(match, countered)
    PROVE  KillInv'
<1>1. KillsTyped /\ KillsCounted /\ RowsAgree
  BY DEF KillInv
<1>2. PICK tool \in Tool \union {None} : tool = Attributed(match, countered)
  BY <1>1 DEF KillsTyped, Attributed
<1>3. PICK phase : phase = IF tool = None THEN Unknown
                           ELSE [tool |-> tool, cost |-> CurrentCost(tool), seen |-> TRUE]
  OBVIOUS
<1>4. /\ acc' = AddShots(acc, phase, 1) /\ spent' = spent + phase.cost /\ fired' = fired + 1
      /\ IF tool = None THEN UNCHANGED <<lastTool, priced, filled>>
         ELSE lastTool' = tool /\ priced' = tool /\ filled' = Ensured(tool)
      /\ UNCHANGED <<hand, kills, rows, dangling, ledger, pending, flipped, untagged, status>>
  BY <1>2, <1>3 DEF OnCombat, tables, sessionVars
<1>5. phase \in Phase
  BY <1>1, <1>3, PriceIsNat DEF Phase, Unknown
<1>6. acc \in Stats
  BY <1>1 DEF KillsTyped
<1>7. /\ acc' \in Stats /\ Shots(acc') = Shots(acc) + 1
      /\ Cost(acc') = Cost(acc) + phase.cost
  <2>1. phase.cost \in Nat /\ 1 \in Nat
    BY <1>5 DEF Phase
  <2>2. /\ AddShots(acc, phase, 1) \in Stats
        /\ Shots(AddShots(acc, phase, 1)) = Shots(acc) + 1
        /\ Cost(AddShots(acc, phase, 1)) = Cost(acc) + 1 * phase.cost
    BY <1>5, <1>6, <2>1, ShotsAdded
  <2> QED BY <1>4, <2>1, <2>2
<1>8. KillsTyped'
  <2>1. filled' \in [Tool -> 0..Slots \union {None}]
    BY <1>1, <1>4, PriceIsNat DEF KillsTyped
  <2> QED BY <1>1, <1>4, <1>7, <2>1 DEF KillsTyped
<1>9. KillsCounted'
  <2>1. Live
    BY DEF OnCombat
  <2>2. /\ ShotsIn(kills, DOMAIN kills) \in Nat /\ CostIn(kills, DOMAIN kills) \in Nat
        /\ Shots(acc) \in Nat /\ Cost(acc) \in Nat /\ phase.cost \in Nat
    BY <1>1, <1>5, <1>6, ShotsInIsSum, CostInIsSum, ShotsIsSum, CostIsSum DEF KillsTyped, Phase
  <2> QED BY <1>1, <1>4, <1>7, <2>1, <2>2 DEF KillsCounted, Live, Ended
<1>10. RowsAgree'
  BY <1>1, <1>4, RowsStand DEF Live
<1> QED BY <1>8, <1>9, <1>10 DEF KillInv

LEMMA ToolChangedKeeps ==
    ASSUME KillInv, NEW tool \in Tool, OnToolChanged(tool)
    PROVE  KillInv'
<1>1. KillsTyped /\ KillsCounted /\ RowsAgree /\ Live
  BY DEF KillInv, OnToolChanged
<1>2. /\ acc \in Stats /\ kills \in Seq(KillRecord)
      /\ UNCHANGED <<kills, rows, dangling, ledger, pending, flipped, untagged, fired, status>>
  BY <1>1 DEF KillsTyped, OnToolChanged, tables, sessionVars
<1>3. /\ acc' \in Stats /\ Shots(acc') = Shots(acc)
      /\ Cost(acc') + spent = Cost(acc) + spent'
      /\ {hand', lastTool', priced'} \subseteq Tool \union {None}
      /\ filled' \in [Tool -> 0..Slots \union {None}]
  <2>0. Shots(acc) \in Nat /\ Cost(acc) \in Nat /\ spent \in Nat
    BY <1>1, <1>2, ShotsIsSum, CostIsSum, CostInIsSum DEF KillsCounted
  <2>1. CASE trifecta
    BY <1>1, <1>2, <2>0, <2>1 DEF OnToolChanged, weapons, KillsTyped
  <2>2. CASE ~trifecta
    <3>1. /\ hand' = tool /\ priced' = tool /\ filled' = Ensured(tool) /\ lastTool' = lastTool
          /\ acc' = Folded(tool)
          /\ spent' = spent + (IF Unknown \in DOMAIN acc
                               THEN acc[Unknown] * CurrentCost(tool) ELSE 0)
      BY <2>2 DEF OnToolChanged
    <3>2. {hand', lastTool', priced'} \subseteq Tool \union {None}
      BY <1>1, <3>1 DEF KillsTyped
    <3>3. filled' \in [Tool -> 0..Slots \union {None}] /\ CurrentCost(tool) \in Nat
      BY <1>1, <3>1, PriceIsNat
    <3>4. CASE Unknown \notin DOMAIN acc
      BY <1>2, <2>0, <3>1, <3>2, <3>3, <3>4 DEF Folded
    <3>5. CASE Unknown \in DOMAIN acc
      <4>1. PICK phase : phase = [tool |-> tool, cost |-> CurrentCost(tool), seen |-> FALSE]
        OBVIOUS
      <4>2. PICK rest : rest = Without(acc, Unknown)
        OBVIOUS
      <4>3. PICK n : n = acc[Unknown]
        OBVIOUS
      <4>4. phase \in Phase /\ phase.cost = CurrentCost(tool)
        BY <3>3, <4>1 DEF Phase
      <4>5. n \in Nat
        BY <1>2, <3>5, <4>3, StatsParts
      <4>6. rest \in Stats /\ Shots(rest) = Shots(acc) - n /\ Cost(rest) = Cost(acc)
        <5>1. Unknown.cost = 0
          BY DEF Unknown
        <5> QED BY <1>2, <3>5, <4>2, <4>3, <5>1, ShotsTaken
      <4>7. acc' = AddShots(rest, phase, n)
        BY <3>1, <3>5, <4>1, <4>2, <4>3 DEF Folded, Without
      <4>8. /\ AddShots(rest, phase, n) \in Stats
            /\ Shots(AddShots(rest, phase, n)) = Shots(rest) + n
            /\ Cost(AddShots(rest, phase, n)) = Cost(rest) + n * phase.cost
        BY <4>4, <4>5, <4>6, ShotsAdded
      <4>9. n * phase.cost \in Nat /\ spent' = spent + n * phase.cost
        BY <3>1, <3>3, <3>5, <4>3, <4>4, <4>5, ProductIsNat
      <4>10. Shots(acc') = Shots(acc)
        BY <2>0, <4>5, <4>6, <4>7, <4>8
      <4>11. Cost(acc') + spent = Cost(acc) + spent'
        BY <2>0, <4>6, <4>7, <4>8, <4>9
      <4> QED BY <3>2, <3>3, <4>7, <4>8, <4>10, <4>11
    <3> QED BY <3>4, <3>5
  <2> QED BY <2>1, <2>2
<1>4. KillsTyped'
  BY <1>1, <1>2, <1>3 DEF KillsTyped
<1>5. KillsCounted'
  <2>1. /\ ShotsIn(kills, DOMAIN kills) \in Nat /\ CostIn(kills, DOMAIN kills) \in Nat
        /\ Shots(acc) \in Nat /\ Cost(acc) \in Nat /\ Cost(acc') \in Nat
    BY <1>2, <1>3, ShotsInIsSum, CostInIsSum, ShotsIsSum, CostIsSum
  <2>2. spent' = Cost(acc') + CostIn(kills, DOMAIN kills)
    <3>1. spent = CostIn(kills, DOMAIN kills) + Cost(acc)
      BY <1>1 DEF KillsCounted
    <3>2. spent' \in Int
      <4>1. CASE trifecta
        BY <2>1, <3>1, <4>1 DEF OnToolChanged
      <4>2. CASE ~trifecta
        <5>1. (IF Unknown \in DOMAIN acc THEN acc[Unknown] * CurrentCost(tool) ELSE 0) \in Int
          BY <1>1, <1>2, StatsParts, PriceIsNat, ProductIsNat
        <5> QED BY <2>1, <3>1, <4>2, <5>1 DEF OnToolChanged
      <4> QED BY <4>1, <4>2
    <3> QED BY <1>3, <2>1, <3>1, <3>2
  <2> QED BY <1>1, <1>2, <1>3, <2>1, <2>2 DEF KillsCounted, Live, Ended
<1>6. RowsAgree'
  BY <1>1, <1>2, RowsStand
<1> QED BY <1>4, <1>5, <1>6 DEF KillInv

\* Steps that touch neither shots, kills nor tables, and leave the session as
\* it is.
LEMMA SettingsKeep ==
    ASSUME KillInv,
           UNCHANGED <<acc, kills, rows, dangling, ledger, pending, flipped, untagged, spent,
                       fired, status>>,
           {hand', lastTool', priced'} \subseteq Tool \union {None},
           filled' \in [Tool -> 0..Slots \union {None}]
    PROVE  KillInv'
<1>1. KillsTyped'
  BY DEF KillInv, KillsTyped
<1>2. KillsCounted'
  BY DEF KillInv, KillsCounted, Ended
<1>3. RowsAgree'
  BY RowsStand DEF KillInv, Live
<1> QED BY <1>1, <1>2, <1>3 DEF KillInv

LEMMA EnhancerKeeps ==
    ASSUME KillInv, NEW remaining \in 0..Slots, OnEnhancerBreak(remaining) PROVE KillInv'
<1>1. KillsTyped /\ Slots \in Nat
  BY KillAssumption DEF KillInv
<1>2. filled' \in [Tool -> 0..Slots \union {None}]
  BY <1>1 DEF OnEnhancerBreak, KillsTyped
<1> QED BY <1>1, <1>2, SettingsKeep DEF OnEnhancerBreak, KillsTyped, tables, sessionVars

LEMMA ConfigKeeps == ASSUME KillInv, WriteConfig \/ ReloadConfig PROVE KillInv'
<1>1. KillsTyped
  BY DEF KillInv
<1>2. filled' \in [Tool -> 0..Slots \union {None}]
  BY <1>1 DEF WriteConfig, ReloadConfig, weapons, KillsTyped
<1>3. {hand', lastTool', priced'} \subseteq Tool \union {None}
  BY <1>1 DEF WriteConfig, ReloadConfig, weapons, KillsTyped
<1> QED BY <1>2, <1>3, SettingsKeep DEF WriteConfig, ReloadConfig, tables, sessionVars

LEMMA LootKeeps ==
    ASSUME KillInv, NEW group \in Group, OnLoot(group) PROVE KillInv'
<1>1. KillsTyped /\ KillsCounted /\ RowsAgree /\ Live
  BY DEF KillInv, OnLoot, Arrived
<1>2. /\ acc \in Stats /\ kills \in Seq(KillRecord) /\ DOMAIN rows \subseteq DOMAIN kills
      /\ UNCHANGED <<hand, lastTool, priced, filled, dangling, ledger, pending, flipped,
                     untagged, spent, fired, status>>
  BY <1>1 DEF KillsTyped, OnLoot, sessionVars, weapons
<1>3. CASE ~TakesShots(group)
  <2>1. UNCHANGED <<kills, acc, rows>>
    BY <1>3 DEF OnLoot
  <2> QED BY <1>1, <1>2, <2>1, SettingsKeep DEF KillsTyped
<1>4. CASE TakesShots(group)
  <2>1. PICK kill : kill = [stats |-> acc, loot |-> "active", rebate |-> group.rebate,
                            global |-> FALSE]
    OBVIOUS
  <2>2. kill \in KillRecord
    BY <1>2, <2>1, KillAssumption DEF KillRecord
  <2>3. PICK new : new = Len(kills) + 1
    OBVIOUS
  <2>4. /\ kills' = Append(kills, kill) /\ acc' = << >>
        /\ \/ rows' = [k \in DOMAIN rows \union {new} |->
                         IF k \in DOMAIN rows THEN rows[k] ELSE KillRow(kill)]
           \/ UNCHANGED rows
    BY <1>4, <2>1, <2>3 DEF OnLoot
  <2>5. /\ kills' \in Seq(KillRecord) /\ DOMAIN kills' = DOMAIN kills \union {new}
        /\ new \notin DOMAIN kills /\ kills'[new] = kill
        /\ \A k \in DOMAIN kills : kills'[k] = kills[k]
    BY <1>2, <2>2, <2>3, <2>4, AppendRow
  <2>6. kill.stats = acc /\ kill.loot = "active" /\ kill.global = FALSE /\ kill.rebate \in BOOLEAN
    BY <2>1, <2>2 DEF KillRecord
  <2>7. /\ \A k \in DOMAIN rows' : k \notin DOMAIN rows => k = new /\ rows'[k] = KillRow(kill)
        /\ \A k \in DOMAIN rows : k \in DOMAIN rows' /\ rows'[k] = rows[k]
    BY <2>4
  <2>8. acc' \in Stats /\ Shots(acc') = 0 /\ Cost(acc') = 0
    BY <2>4, NothingShot
  <2>9. KillsTyped'
    <3>1. DOMAIN rows' \subseteq DOMAIN kills'
      BY <1>2, <2>5, <2>7
    <3>2. \A k \in DOMAIN rows' : IsRow(rows'[k])
      <4>1. IsRow(KillRow(kill))
        BY <2>6 DEF KillRow, IsRow
      <4> QED BY <1>1, <2>7, <4>1 DEF KillsTyped
    <3>3. pending' \union flipped' \subseteq DOMAIN rows'
      BY <1>1, <1>2, <2>7 DEF KillsTyped
    <3> QED BY <1>1, <1>2, <2>5, <2>8, <3>1, <3>2, <3>3 DEF KillsTyped
  <2>10. KillsCounted'
    <3>1. /\ ShotsIn(kills', DOMAIN kills') = ShotsIn(kills, DOMAIN kills) + Shots(acc)
          /\ CostIn(kills', DOMAIN kills') = CostIn(kills, DOMAIN kills) + Cost(acc)
      BY <1>2, <2>2, <2>4, <2>6, KillAdded
    <3>2. /\ ShotsIn(kills, DOMAIN kills) \in Nat /\ CostIn(kills, DOMAIN kills) \in Nat
          /\ Shots(acc) \in Nat /\ Cost(acc) \in Nat
      BY <1>2, ShotsInIsSum, CostInIsSum, ShotsIsSum, CostIsSum
    <3> QED BY <1>1, <1>2, <2>8, <3>1, <3>2 DEF KillsCounted, Live, Ended
  <2>11. RowsAgree'
    <3>1. ASSUME NEW k \in DOMAIN rows'
          PROVE  RowAgrees(rows'[k], kills'[k], k \notin untagged',
                           Live' /\ k \notin pending' \union flipped')
      <4>1. CASE k \in DOMAIN rows
        <5>1. kills'[k] = kills[k] /\ rows'[k] = rows[k]
          BY <1>2, <2>5, <2>7, <4>1
        <5>2. RowAgrees(rows[k], kills[k], k \notin untagged,
                        Live /\ k \notin pending \union flipped)
          BY <1>1, <4>1 DEF RowsAgree
        <5> QED BY <1>1, <1>2, <5>1, <5>2 DEF RowAgrees, Live
      <4>2. CASE k \notin DOMAIN rows
        <5>1. rows'[k] = KillRow(kill) /\ kills'[k] = kill
          BY <2>5, <2>7, <4>2
        <5>2. KillRow(kill) = [stats |-> StatRows(acc), cost |-> Cost(acc), loot |-> "active",
                               rebate |-> kill.rebate, global |-> FALSE]
          BY <2>6 DEF KillRow
        <5>3. SumOf(StatRows(acc), DOMAIN StatRows(acc)) = Shots(acc)
          BY <1>2, RowsOfStats
        <5>4. PICK row : row = KillRow(kill)
          OBVIOUS
        <5>5. row.stats = StatRows(acc) /\ row.cost = Cost(acc) /\ row.loot = "active"
          BY <5>2, <5>4
        <5>6. row.global = kill.global
          <6>1. row.global = FALSE
            BY <5>2, <5>4
          <6> QED BY Zenon, <2>6, <6>1
        <5>7. RowAgrees(row, kill, k \notin untagged', Live' /\ k \notin pending' \union flipped')
          BY <2>6, <5>3, <5>5, <5>6 DEF RowAgrees
        <5> QED BY <5>1, <5>4, <5>7
      <4> QED BY <4>1, <4>2
    <3> QED BY <3>1 DEF RowsAgree
  <2> QED BY <2>9, <2>10, <2>11 DEF KillInv
<1> QED BY <1>3, <1>4

LEMMA DropKeeps == ASSUME KillInv, NEW group \in Group, DropLoot(group) PROVE KillInv'
<1>1. UNCHANGED <<acc, kills, rows, dangling, ledger, pending, flipped, untagged, spent,
                  fired, status, hand, lastTool, priced, filled>>
  BY DEF DropLoot, weapons, tables, sessionVars
<1> QED BY <1>1, SettingsKeep DEF KillInv, KillsTyped

\* A kill whose tag or loot changes; k's row may have changed with it.
LEMMA RetagKeeps ==
    ASSUME KillInv, NEW k \in DOMAIN kills, NEW kill \in KillRecord,
           kill.stats = kills[k].stats, kills' = [kills EXCEPT ![k] = kill],
           UNCHANGED <<hand, lastTool, priced, filled, acc, dangling, ledger, spent, fired,
                       status>>,
           DOMAIN rows' = DOMAIN rows,
           \A i \in DOMAIN rows : i # k => rows'[i] = rows[i],
           k \in DOMAIN rows => IsRow(rows'[k]),
           k \in DOMAIN rows => RowAgrees(rows'[k], kill, k \notin untagged',
                                          Live /\ k \notin pending' \union flipped'),
           untagged \subseteq untagged',
           \A i \in DOMAIN rows : i # k => /\ i \in pending <=> i \in pending'
                                           /\ i \in flipped <=> i \in flipped',
           pending' \union flipped' \subseteq DOMAIN rows
    PROVE  KillInv'
<1>1. KillsTyped /\ KillsCounted /\ RowsAgree
  BY DEF KillInv
<1>2. kills \in Seq(KillRecord)
  BY <1>1 DEF KillsTyped
<1>3. /\ kills' \in Seq(KillRecord) /\ DOMAIN kills' = DOMAIN kills /\ kills'[k] = kill
      /\ \A i \in DOMAIN kills : i # k => kills'[i] = kills[i]
  BY <1>2, ReplaceRow
<1>4. KillsTyped'
  BY <1>1, <1>3 DEF KillsTyped
<1>5. KillsCounted'
  <2>1. \A i \in DOMAIN kills : kills'[i].stats = kills[i].stats
    BY <1>3
  <2>2. /\ ShotsIn(kills', DOMAIN kills') = ShotsIn(kills, DOMAIN kills)
        /\ CostIn(kills', DOMAIN kills') = CostIn(kills, DOMAIN kills)
    BY <1>2, <1>3, <2>1, KillsRetagged
  <2> QED BY <1>1, <2>2 DEF KillsCounted, Ended
<1>6. RowsAgree'
  <2>1. ASSUME NEW i \in DOMAIN rows
        PROVE  RowAgrees(rows'[i], kills'[i], i \notin untagged',
                         Live' /\ i \notin pending' \union flipped')
    <3>1. CASE i = k
      BY <1>3, <3>1 DEF Live
    <3>2. CASE i # k
      <4>1. kills'[i] = kills[i] /\ rows'[i] = rows[i]
        BY <1>1, <1>3, <3>2 DEF KillsTyped
      <4>2. RowAgrees(rows[i], kills[i], i \notin untagged,
                      Live /\ i \notin pending \union flipped)
        BY <1>1 DEF RowsAgree
      <4> QED BY <3>2, <4>1, <4>2 DEF RowAgrees, Live
    <3> QED BY <3>1, <3>2
  <2> QED BY <2>1 DEF RowsAgree
<1> QED BY <1>4, <1>5, <1>6 DEF KillInv

LEMMA GlobalKeeps == ASSUME KillInv, OnGlobal PROVE KillInv'
<1>1. KillsTyped /\ KillsCounted /\ RowsAgree
  BY DEF KillInv
<1>2. PICK k : k = Len(kills)
  OBVIOUS
<1>3. kills \in Seq(KillRecord) /\ k \in DOMAIN kills
  <2>1. kills \in Seq(KillRecord) /\ kills # << >>
    BY <1>1 DEF KillsTyped, OnGlobal
  <2> QED BY <1>2, <2>1, EmptySeq, LenProperties
<1>4. kills[k] \in KillRecord
  BY <1>3, KillsFinite
<1>5. PICK kill : kill = [kills[k] EXCEPT !.global = TRUE]
  OBVIOUS
<1>6. kill \in KillRecord /\ kill.stats = kills[k].stats /\ kill.loot = kills[k].loot /\ kill.global = TRUE
  BY <1>4, <1>5 DEF KillRecord
<1>7. /\ kills' = [kills EXCEPT ![k] = kill]
      /\ UNCHANGED <<hand, lastTool, priced, filled, acc, dangling, ledger, pending, flipped,
                     spent, fired, status>>
      /\ \/ /\ rows' = [i \in DOMAIN rows |->
                          IF i = k THEN [rows[i] EXCEPT !.global = TRUE] ELSE rows[i]]
            /\ UNCHANGED untagged
         \/ untagged' = untagged \union {k} /\ UNCHANGED rows
  BY <1>2, <1>5 DEF OnGlobal, weapons, sessionVars
<1>8. /\ DOMAIN rows' = DOMAIN rows /\ untagged \subseteq untagged'
      /\ \A i \in DOMAIN rows : i # k => rows'[i] = rows[i]
  BY <1>7
<1>9. ASSUME k \in DOMAIN rows
      PROVE  /\ IsRow(rows'[k])
             /\ RowAgrees(rows'[k], kill, k \notin untagged',
                          Live /\ k \notin pending' \union flipped')
  <2>1. PICK row : row = rows[k]
    OBVIOUS
  <2>2. IsRow(row)
    BY <1>1, <1>9, <2>1 DEF KillsTyped
  <2>3. RowAgrees(row, kills[k], k \notin untagged, Live /\ k \notin pending \union flipped)
    BY <1>1, <1>9, <2>1 DEF RowsAgree
  <2>4. CASE rows'[k] = row /\ k \in untagged'
    BY <1>6, <1>7, <2>2, <2>3, <2>4 DEF RowAgrees
  <2>5. CASE rows'[k] = [row EXCEPT !.global = TRUE]
    <3>1. PICK new : new = [row EXCEPT !.global = TRUE]
      OBVIOUS
    <3>2. /\ new = [stats |-> row.stats, cost |-> row.cost, loot |-> row.loot,
                    rebate |-> row.rebate, global |-> TRUE]
      BY <2>2, <3>1 DEF IsRow
    <3>3. /\ new.stats = row.stats /\ new.cost = row.cost /\ new.loot = row.loot
          /\ new.rebate = row.rebate /\ new.global = TRUE
      BY <3>2
    <3>4. new = [stats |-> new.stats, cost |-> new.cost, loot |-> new.loot,
                 rebate |-> new.rebate, global |-> new.global]
      BY <3>2
    <3>5. IsRow(new)
      BY <2>2, <3>3, <3>4 DEF IsRow
    <3>6. new.global = kill.global
      BY <1>6, <3>3
    <3>7. RowAgrees(new, kill, k \notin untagged', Live /\ k \notin pending' \union flipped')
      BY <1>6, <1>7, <2>3, <3>3, <3>6 DEF RowAgrees
    <3> QED BY <2>5, <3>1, <3>5, <3>7
  <2> QED BY <1>7, <1>9, <2>1, <2>4, <2>5
<1>10. pending' \union flipped' \subseteq DOMAIN rows
  BY <1>1, <1>7 DEF KillsTyped
<1> QED BY <1>3, <1>6, <1>7, <1>8, <1>9, <1>10, RetagKeeps

LEMMA FlipKeepsRow ==
    ASSUME NEW row, IsRow(row), NEW new,
           new = [row EXCEPT !.loot = IF row.loot = "active" THEN "inactive" ELSE "active"]
    PROVE  IsRow(new) /\ new.stats = row.stats /\ new.cost = row.cost /\ new.global = row.global
<1>1. PICK loot \in {"active", "inactive"} :
          loot = IF row.loot = "active" THEN "inactive" ELSE "active"
  OBVIOUS
<1>2. new = [stats |-> row.stats, cost |-> row.cost, loot |-> loot,
             rebate |-> row.rebate, global |-> row.global]
  BY <1>1 DEF IsRow
<1>3. /\ new.stats = row.stats /\ new.cost = row.cost /\ new.loot = loot
      /\ new.rebate = row.rebate /\ new.global = row.global
  BY <1>2
<1>4. new = [stats |-> new.stats, cost |-> new.cost, loot |-> new.loot,
             rebate |-> new.rebate, global |-> new.global]
  BY <1>2
<1> QED BY <1>3, <1>4 DEF IsRow

LEMMA ReclassifyKeeps ==
    ASSUME KillInv, NEW k \in DOMAIN rows, NEW asks \in BOOLEAN, Reclassify(k, asks)
    PROVE  KillInv'
<1>1. KillsTyped /\ KillsCounted /\ RowsAgree
  BY DEF KillInv
<1>2. /\ UNCHANGED <<hand, lastTool, priced, filled, acc, kills, dangling, ledger, untagged,
                     spent, fired, status>>
      /\ pending \subseteq pending' /\ flipped \subseteq flipped'
      /\ k \in pending' \union flipped' /\ pending' \union flipped' \subseteq pending \union flipped \union {k}
      /\ DOMAIN rows' = DOMAIN rows /\ \A i \in DOMAIN rows : i # k => rows'[i] = rows[i]
      /\ rows'[k] = [rows[k] EXCEPT !.loot = IF rows[k].loot = "active" THEN "inactive"
                                             ELSE "active"]
  BY DEF Reclassify, weapons, sessionVars
<1>3. /\ IsRow(rows'[k]) /\ rows'[k].stats = rows[k].stats /\ rows'[k].cost = rows[k].cost
      /\ rows'[k].global = rows[k].global
  BY <1>1, <1>2, FlipKeepsRow DEF KillsTyped
<1>4. KillsTyped'
  BY <1>1, <1>2, <1>3 DEF KillsTyped
<1>5. KillsCounted'
  BY <1>1, <1>2 DEF KillsCounted, Ended
<1>6. RowsAgree'
  <2>1. ASSUME NEW i \in DOMAIN rows
        PROVE  RowAgrees(rows'[i], kills[i], i \notin untagged,
                         Live /\ i \notin pending' \union flipped')
    <3>1. RowAgrees(rows[i], kills[i], i \notin untagged,
                    Live /\ i \notin pending \union flipped)
      BY <1>1 DEF RowsAgree
    <3>2. CASE i = k
      BY <1>2, <1>3, <3>1, <3>2 DEF RowAgrees
    <3>3. CASE i # k
      BY <1>2, <3>1, <3>3 DEF RowAgrees
    <3> QED BY <3>2, <3>3
  <2> QED BY <1>2, <2>1 DEF RowsAgree, Live
<1> QED BY <1>4, <1>5, <1>6 DEF KillInv

LEMMA ReconcileKeeps ==
    ASSUME KillInv, NEW k \in pending, ReconcileLootSource(k) PROVE KillInv'
<1>1. KillsTyped /\ KillsCounted /\ RowsAgree
  BY DEF KillInv
<1>2. /\ UNCHANGED <<hand, lastTool, priced, filled, acc, rows, dangling, ledger, untagged,
                     spent, fired, status>>
      /\ pending' = pending \ {k} /\ flipped' = flipped \ {k}
      /\ kills' = IF Live THEN [kills EXCEPT ![k].loot = rows[k].loot] ELSE kills
  BY DEF ReconcileLootSource, weapons, tables, sessionVars
<1>3. k \in DOMAIN rows /\ k \in DOMAIN kills /\ kills \in Seq(KillRecord) /\ IsRow(rows[k])
  BY <1>1 DEF KillsTyped
<1>4. pending' \union flipped' \subseteq DOMAIN rows
  BY <1>1, <1>2 DEF KillsTyped
<1>5. RowAgrees(rows[k], kills[k], k \notin untagged, Live /\ k \notin pending \union flipped)
  BY <1>1, <1>3 DEF RowsAgree
<1>6. kills[k] \in KillRecord
  BY <1>3, KillsFinite
<1>7. CASE Live
  <2>1. PICK kill : kill = [kills[k] EXCEPT !.loot = rows[k].loot]
    OBVIOUS
  <2>2. /\ kill \in KillRecord /\ kill.stats = kills[k].stats /\ kill.loot = rows[k].loot
        /\ kill.global = kills[k].global
    BY <1>3, <1>6, <2>1 DEF KillRecord, IsRow
  <2>3. kills' = [kills EXCEPT ![k] = kill]
    BY <1>2, <1>7, <2>1
  <2>4. RowAgrees(rows'[k], kill, k \notin untagged', Live /\ k \notin pending' \union flipped')
    BY <1>2, <1>5, <2>2 DEF RowAgrees
  <2>5. IsRow(rows'[k]) /\ DOMAIN rows' = DOMAIN rows
    BY <1>2, <1>3
  <2>6. \A i \in DOMAIN rows : i # k => /\ i \in pending <=> i \in pending'
                                        /\ i \in flipped <=> i \in flipped'
    BY <1>2
  <2> QED BY <1>2, <1>3, <1>4, <2>2, <2>3, <2>4, <2>5, <2>6, RetagKeeps
<1>8. CASE ~Live
  <2>1. UNCHANGED kills /\ ~Live'
    BY <1>2, <1>8 DEF Live
  <2>2. KillsTyped'
    BY <1>1, <1>2, <1>4, <2>1 DEF KillsTyped
  <2>3. KillsCounted'
    BY <1>1, <1>2, <2>1 DEF KillsCounted, Ended
  <2>4. RowsAgree'
    BY <1>1, <1>2, <2>1, RowsStand
  <2> QED BY <2>2, <2>3, <2>4 DEF KillInv
<1> QED BY <1>7, <1>8

\* Ending the session, one way or the other.
LEMMA RebateIsOne ==
    ASSUME ledger = << >>, BookRebate
    PROVE  ledger' = << >> \/ Len(ledger') = 1
<1>1. CASE Rebates = {}
  BY <1>1 DEF BookRebate
<1>2. CASE Rebates # {}
  <2>1. PICK n : n = Cardinality(Rebates)
    OBVIOUS
  <2>2. ledger' = Append(<< >>, n)
    BY <1>2, <2>1 DEF BookRebate
  <2>3. << >> \in Seq({n}) /\ Len(<< >>) = 0
    OBVIOUS
  <2>4. Len(ledger') = Len(<< >>) + 1
    BY <2>2, <2>3, AppendRow
  <2> QED BY <2>3, <2>4
<1> QED BY <1>1, <1>2

LEMMA EndKeeps ==
    ASSUME KillInv, StopKills \/ CrashKills \/ RecoverKills \/ ElapseKills PROVE KillInv'
<1>1. KillsTyped /\ KillsCounted /\ RowsAgree
  BY DEF KillInv
<1>2. /\ UNCHANGED <<hand, lastTool, priced, filled, acc, kills, rows, untagged, spent, fired>>
      /\ (pending' = pending \/ pending' = {}) /\ flipped' = flipped
      /\ status' \in {"live", "stopped", "down", "recovered"}
  BY <1>1 DEF StopKills, CrashKills, RecoverKills, ElapseKills, Seal, Crash, RecoverRow, Elapse,
     weapons, tables, KillsTyped
<1>3. KillsTyped'
  BY <1>1, <1>2 DEF KillsTyped
<1>4. RowsAgree'
  <2>1. CASE ElapseKills
    BY <1>1, <1>2, <2>1, RowsStand DEF ElapseKills, Elapse, Live
  <2>2. CASE StopKills \/ CrashKills \/ RecoverKills
    <3>1. ~Live'
      BY <2>2 DEF StopKills, CrashKills, RecoverKills, Seal, Crash, RecoverRow, Live
    <3> QED BY <1>1, <1>2, <3>1, RowsStand
  <2> QED BY <2>1, <2>2
<1>5. KillsCounted'
  <2>1. CASE StopKills
    <3>1. status = "live" /\ status' = "stopped" /\ dangling' = Cost(acc) /\ BookRebate
      BY <2>1 DEF StopKills, Seal, Live
    <3>2. ledger = << >>
      BY <1>1, <3>1 DEF KillsCounted, Ended
    <3> QED BY <1>1, <1>2, <3>1, <3>2, RebateIsOne DEF KillsCounted, Ended
  <2>2. CASE CrashKills
    <3>1. status = "live" /\ status' = "down" /\ UNCHANGED <<dangling, ledger>>
      BY <2>2 DEF CrashKills, Crash, Live, tables
    <3> QED BY <1>1, <1>2, <3>1 DEF KillsCounted, Ended
  <2>3. CASE RecoverKills
    <3>1. status = "down" /\ status' = "recovered" /\ UNCHANGED dangling /\ BookRebate
      BY <2>3 DEF RecoverKills, RecoverRow
    <3>2. ledger = << >>
      BY <1>1, <3>1 DEF KillsCounted, Ended
    <3> QED BY <1>1, <1>2, <3>1, <3>2, RebateIsOne DEF KillsCounted, Ended
  <2>4. CASE ElapseKills
    BY <1>1, <1>2, <2>4 DEF KillsCounted, Ended, ElapseKills, Elapse, tables
  <2> QED BY <2>1, <2>2, <2>3, <2>4
<1> QED BY <1>3, <1>4, <1>5 DEF KillInv

-----------------------------------------------------------------------------
LEMMA KillsBegin == KillsInit => KillInv
<1> HAVE KillsInit
<1>1. /\ status = "live" /\ hand = None /\ lastTool = None /\ priced = None
      /\ filled = [t \in Tool |-> None] /\ acc = << >> /\ kills = << >> /\ rows = << >>
      /\ dangling = 0 /\ ledger = << >> /\ pending = {} /\ flipped = {} /\ spent = 0 /\ fired = 0
  BY DEF KillsInit, SessionInit
<1>2. kills \in Seq(KillRecord) /\ DOMAIN kills = {} /\ DOMAIN rows = {}
  BY <1>1
<1>3. acc \in Stats /\ Shots(acc) = 0 /\ Cost(acc) = 0
  BY <1>1, NothingShot
<1>4. KillsTyped
  BY <1>1, <1>2, <1>3 DEF KillsTyped
<1>5. ShotsIn(kills, DOMAIN kills) = 0 /\ CostIn(kills, DOMAIN kills) = 0
  <2>1. /\ ShotsIn(kills, DOMAIN kills) = SumOf(ShotsBy(kills), DOMAIN kills)
        /\ CostIn(kills, DOMAIN kills) = SumOf(CostBy(kills), DOMAIN kills)
    BY <1>2, ShotsInIsSum, CostInIsSum
  <2> QED BY <1>2, <2>1, SumOfEmpty
<1>6. KillsCounted
  BY <1>1, <1>3, <1>5 DEF KillsCounted
<1>7. RowsAgree
  BY <1>2 DEF RowsAgree
<1> QED BY <1>4, <1>6, <1>7 DEF KillInv

LEMMA KillsKeep == ASSUME KillInv, [KillsNext]_killVars PROVE KillInv'
<1>1. ASSUME UNCHANGED killVars PROVE KillInv'
  <2>1. /\ UNCHANGED <<acc, kills, rows, dangling, ledger, pending, flipped, untagged, spent,
                       fired, status, hand, lastTool, priced, filled>>
    BY <1>1 DEF killVars, killOwn, weapons, tables, sessionVars
  <2> QED BY <2>1, SettingsKeep DEF KillInv, KillsTyped
<1>2. ASSUME NEW match \in Tool \union {None}, NEW countered \in BOOLEAN,
             OnCombat(match, countered)
      PROVE  KillInv'
  BY <1>2, CombatKeeps
<1>3. ASSUME NEW tool \in Tool, OnToolChanged(tool) PROVE KillInv'
  BY <1>3, ToolChangedKeeps
<1>4. ASSUME NEW remaining \in 0..Slots, OnEnhancerBreak(remaining) PROVE KillInv'
  BY <1>4, EnhancerKeeps
<1>5. CASE WriteConfig \/ ReloadConfig
  BY <1>5, ConfigKeeps
<1>6. ASSUME NEW group \in Group, OnLoot(group) PROVE KillInv'
  BY <1>6, LootKeeps
<1>11. ASSUME NEW group \in Group, DropLoot(group) PROVE KillInv'
  BY <1>11, DropKeeps
<1>7. CASE OnGlobal
  BY <1>7, GlobalKeeps
<1>8. ASSUME NEW k \in DOMAIN rows, NEW asks \in BOOLEAN, Reclassify(k, asks) PROVE KillInv'
  BY <1>8, ReclassifyKeeps
<1>9. ASSUME NEW k \in pending, ReconcileLootSource(k) PROVE KillInv'
  BY <1>9, ReconcileKeeps
<1>10. CASE StopKills \/ CrashKills \/ RecoverKills \/ ElapseKills
  BY <1>10, EndKeeps
<1> QED BY <1>1, <1>2, <1>3, <1>4, <1>5, <1>6, <1>7, <1>8, <1>9, <1>10, <1>11 DEF KillsNext

-----------------------------------------------------------------------------
(* Every group of loot is counted once.                                    *)

\* The guard compares with the last group that was kept.
LEMMA GuardIsLastKept ==
    ASSUME LootInv, NEW group \in Group
    PROVE  Duplicate(group) <=>
               \E j \in DOMAIN arrivals :
                   /\ LastKept(j) /\ arrivals[j].print = group.print
                   /\ now < arrivals[j].at + DedupWindow
<1>1. \A j \in DOMAIN arrivals : arrivals[j] \in ArrivalRecord
  BY ElementOfSeq DEF LootInv
<1>2. CASE lastLoot = None /\ \A i \in DOMAIN arrivals : ~arrivals[i].kept
  BY <1>2 DEF Duplicate, LastKept
<1>3. CASE \E j \in DOMAIN arrivals :
              LastKept(j) /\ lastLoot = [print |-> arrivals[j].print, at |-> arrivals[j].at]
  <2>1. PICK j \in DOMAIN arrivals :
            LastKept(j) /\ lastLoot = [print |-> arrivals[j].print, at |-> arrivals[j].at]
    BY <1>3
  <2>2. /\ lastLoot \in [print : {g.print : g \in Group}, at : Nat]
        /\ lastLoot.print = arrivals[j].print /\ lastLoot.at = arrivals[j].at
    BY <1>1, <2>1 DEF ArrivalRecord
  <2>3. lastLoot # None
    BY <2>2, KillAssumption
  <2>4. \A i \in DOMAIN arrivals : LastKept(i) => i = j
    BY <2>1, LenProperties DEF LootInv, LastKept
  <2> QED BY <2>1, <2>2, <2>3, <2>4 DEF Duplicate
<1> QED BY <1>2, <1>3 DEF LootInv, Remembered

\* A group more: those before it stand, and it repeats the last one kept or not.
LEMMA GroupArrives ==
    ASSUME LootInv, NEW group \in Group, NEW kept \in BOOLEAN, Arrived(group, kept),
           NEW n, n = Len(arrivals),
           NEW new, new = [print |-> group.print, wood |-> group.wood, at |-> now, kept |-> kept]
    PROVE  /\ arrivals' \in Seq(ArrivalRecord) /\ DOMAIN arrivals' = 1 .. n + 1
           /\ n \in Nat /\ DOMAIN arrivals = 1 .. n
           /\ \A i \in 1 .. n :
                  arrivals'[i] = arrivals[i] /\ (Repeats(arrivals', i) <=> Repeats(arrivals, i))
           /\ arrivals'[n + 1] = new
           /\ Repeats(arrivals', n + 1) <=> Duplicate(group)
<1>2. new \in ArrivalRecord
  BY KillAssumption DEF LootInv, ArrivalRecord
<1>4. /\ arrivals \in Seq(ArrivalRecord) /\ arrivals' = Append(arrivals, new)
  BY DEF LootInv, Arrived
<1>5. /\ arrivals' \in Seq(ArrivalRecord) /\ DOMAIN arrivals' = 1 .. n + 1
      /\ n \in Nat /\ DOMAIN arrivals = 1 .. n
      /\ arrivals'[n + 1] = new /\ \A i \in 1 .. n : arrivals'[i] = arrivals[i]
  BY <1>2, <1>4, AppendRow
<1>6. new.print = group.print /\ new.at = now
  OBVIOUS
<1>7. ASSUME NEW i \in 1 .. n PROVE Repeats(arrivals', i) <=> Repeats(arrivals, i)
  <2>1. \A j \in 1 .. i : arrivals'[j] = arrivals[j]
    BY <1>5
  <2>2. i \in 1 .. i /\ \A j \in 1 .. i - 1 : j \in 1 .. i /\ \A k \in j + 1 .. i - 1 : k \in 1 .. i
    BY <1>5
  <2> QED BY <2>1, <2>2 DEF Repeats
<1>8. Repeats(arrivals', n + 1) <=>
          \E j \in 1 .. n : /\ arrivals[j].kept /\ arrivals[j].print = group.print
                            /\ now < arrivals[j].at + DedupWindow
                            /\ \A k \in j + 1 .. n : ~arrivals[k].kept
  <2>1. (n + 1) - 1 = n
    BY <1>5
  <2>2. \A j \in 1 .. n : \A k \in j + 1 .. n : k \in 1 .. n
    BY <1>5
  <2> QED BY <1>5, <1>6, <2>1, <2>2 DEF Repeats, DedupWindow
<1>9. \A j \in 1 .. n : LastKept(j) <=> arrivals[j].kept /\ \A k \in j + 1 .. n : ~arrivals[k].kept
  BY <1>5 DEF LastKept
<1>10. Repeats(arrivals', n + 1) <=> Duplicate(group)
  BY <1>5, <1>8, <1>9, GuardIsLastKept
<1> QED BY <1>5, <1>7, <1>10

LEMMA CreaturesFinite ==
    ASSUME arrivals \in Seq(ArrivalRecord) PROVE IsFiniteSet(KeptCreatures)
<1>1. Len(arrivals) \in Nat /\ DOMAIN arrivals = 1 .. Len(arrivals)
  BY LenProperties
<1>2. IsFiniteSet(1 .. Len(arrivals))
  BY <1>1, FS_Interval
<1>3. KeptCreatures \subseteq 1 .. Len(arrivals)
  BY <1>1 DEF KeptCreatures
<1> QED BY <1>2, <1>3, FS_Subset

LEMMA DropCounted == ASSUME LootInv, NEW group \in Group, DropLoot(group) PROVE LootInv'
<1>1. PICK n : n = Len(arrivals)
  OBVIOUS
<1>9. PICK kept \in BOOLEAN : ~kept /\ kept = FALSE
  OBVIOUS
<1>2. /\ Duplicate(group) /\ Arrived(group, kept) /\ UNCHANGED <<lastLoot, kills, now>>
  BY <1>9 DEF DropLoot, sessionVars
<1>3. PICK new : new = [print |-> group.print, wood |-> group.wood, at |-> now, kept |-> kept]
  OBVIOUS
<1>4. /\ arrivals' \in Seq(ArrivalRecord) /\ DOMAIN arrivals' = 1 .. n + 1
      /\ n \in Nat /\ DOMAIN arrivals = 1 .. n
      /\ \A i \in 1 .. n :
             arrivals'[i] = arrivals[i] /\ (Repeats(arrivals', i) <=> Repeats(arrivals, i))
      /\ arrivals'[n + 1] = new /\ Repeats(arrivals', n + 1)
  <2>1. /\ arrivals' \in Seq(ArrivalRecord) /\ DOMAIN arrivals' = 1 .. n + 1
        /\ n \in Nat /\ DOMAIN arrivals = 1 .. n
        /\ \A i \in 1 .. n :
               arrivals'[i] = arrivals[i] /\ (Repeats(arrivals', i) <=> Repeats(arrivals, i))
        /\ arrivals'[n + 1] = new
    BY <1>1, <1>2, <1>3, GroupArrives
  <2>2. Repeats(arrivals', n + 1) <=> Duplicate(group)
    BY <1>1, <1>2, <1>3, GroupArrives
  <2> QED BY <1>2, <2>1, <2>2
<1>5. ~new.kept
  BY <1>3, <1>9
<1>6. Remembered'
  <2>1. CASE lastLoot = None /\ \A i \in DOMAIN arrivals : ~arrivals[i].kept
    BY <1>2, <1>4, <1>5, <2>1 DEF Remembered
  <2>2. CASE \E j \in DOMAIN arrivals :
                LastKept(j) /\ lastLoot = [print |-> arrivals[j].print, at |-> arrivals[j].at]
    <3>1. PICK j \in 1 .. n :
              LastKept(j) /\ lastLoot = [print |-> arrivals[j].print, at |-> arrivals[j].at]
      BY <1>4, <2>2
    <3>2. LastKept(j)'
      <4>1. arrivals'[j].kept /\ ~arrivals'[n + 1].kept
        BY <1>4, <1>5, <3>1 DEF LastKept
      <4>2. \A k \in 1 .. n : k > j => ~arrivals'[k].kept
        BY <1>4, <3>1 DEF LastKept
      <4>3. \A k \in DOMAIN arrivals' : k = n + 1 \/ k \in 1 .. n
        BY <1>4
      <4> QED BY <4>1, <4>2, <4>3 DEF LastKept
    <3>3. j \in DOMAIN arrivals' /\ arrivals'[j] = arrivals[j]
      BY <1>4
    <3> QED BY <1>2, <3>1, <3>2, <3>3 DEF Remembered
  <2> QED BY <2>1, <2>2 DEF LootInv, Remembered
<1>7. \A i \in DOMAIN arrivals' : ~arrivals'[i].kept <=> Repeats(arrivals', i)
  <2> TAKE i \in DOMAIN arrivals'
  <2>1. CASE i = n + 1
    BY <1>4, <1>5, <2>1
  <2>2. CASE i \in 1 .. n
    BY <1>4, <2>2 DEF LootInv
  <2> QED BY <1>4, <2>1, <2>2
<1>8. KeptCreatures' = KeptCreatures
  BY <1>4, <1>5 DEF KeptCreatures
<1> QED BY <1>2, <1>4, <1>6, <1>7, <1>8 DEF LootInv

LEMMA LootCounted ==
    ASSUME KillInv, LootInv, NEW group \in Group, OnLoot(group) PROVE LootInv'
<1>1. PICK n : n = Len(arrivals)
  OBVIOUS
<1>2. /\ ~Duplicate(group) /\ Arrived(group, TRUE) /\ TRUE \in BOOLEAN
      /\ lastLoot' = [print |-> group.print, at |-> now] /\ UNCHANGED now
  BY DEF OnLoot, sessionVars
<1>3. PICK new : new = [print |-> group.print, wood |-> group.wood, at |-> now, kept |-> TRUE]
  OBVIOUS
<1>4. /\ arrivals' \in Seq(ArrivalRecord) /\ DOMAIN arrivals' = 1 .. n + 1
      /\ n \in Nat /\ DOMAIN arrivals = 1 .. n
      /\ \A i \in 1 .. n :
             arrivals'[i] = arrivals[i] /\ (Repeats(arrivals', i) <=> Repeats(arrivals, i))
      /\ arrivals'[n + 1] = new /\ ~Repeats(arrivals', n + 1)
  <2>1. /\ arrivals' \in Seq(ArrivalRecord) /\ DOMAIN arrivals' = 1 .. n + 1
        /\ n \in Nat /\ DOMAIN arrivals = 1 .. n
        /\ \A i \in 1 .. n :
               arrivals'[i] = arrivals[i] /\ (Repeats(arrivals', i) <=> Repeats(arrivals, i))
        /\ arrivals'[n + 1] = new
    BY <1>1, <1>2, <1>3, GroupArrives
  <2>2. Repeats(arrivals', n + 1) <=> Duplicate(group)
    BY <1>1, <1>2, <1>3, GroupArrives
  <2> QED BY <1>2, <2>1, <2>2
<1>5. new.kept /\ new.wood = group.wood /\ new.print = group.print /\ new.at = now
  BY <1>3
<1>6. Remembered'
  <2>1. LastKept(n + 1)'
    BY <1>4, <1>5 DEF LastKept
  <2>2. n + 1 \in DOMAIN arrivals'
    BY <1>4
  <2>3. lastLoot' = [print |-> arrivals'[n + 1].print, at |-> arrivals'[n + 1].at]
    BY <1>2, <1>4, <1>5
  <2> QED BY <2>1, <2>2, <2>3 DEF Remembered
<1>7. \A i \in DOMAIN arrivals' : ~arrivals'[i].kept <=> Repeats(arrivals', i)
  <2> TAKE i \in DOMAIN arrivals'
  <2>1. CASE i = n + 1
    BY <1>4, <1>5, <2>1
  <2>2. CASE i \in 1 .. n
    BY <1>4, <2>2 DEF LootInv
  <2> QED BY <1>4, <2>1, <2>2
<1>8. Len(kills') = Cardinality(KeptCreatures')
  <2>1. CASE group.wood
    <3>1. kills' = kills
      BY <2>1 DEF OnLoot, TakesShots
    <3>2. arrivals'[n + 1].wood
      BY <1>4, <1>5, <2>1
    <3>3. KeptCreatures' = KeptCreatures
      BY <1>4, <3>2 DEF KeptCreatures
    <3> QED BY <3>1, <3>3 DEF LootInv
  <2>2. CASE ~group.wood
    <3>1. PICK kill : kill = [stats |-> acc, loot |-> "active", rebate |-> group.rebate,
                              global |-> FALSE]
      OBVIOUS
    <3>2. kill \in KillRecord /\ kills \in Seq(KillRecord)
      BY <3>1, KillAssumption DEF KillInv, KillsTyped, KillRecord
    <3>3. kills' = Append(kills, kill)
      BY <2>2, <3>1 DEF OnLoot, TakesShots
    <3>4. Len(kills') = Len(kills) + 1
      BY <3>2, <3>3, AppendRow
    <3>5. KeptCreatures' = KeptCreatures \union {n + 1} /\ n + 1 \notin KeptCreatures
      BY <1>4, <1>5, <2>2 DEF KeptCreatures
    <3>6. IsFiniteSet(KeptCreatures)
      BY CreaturesFinite DEF LootInv
    <3>7. Cardinality(KeptCreatures') = Cardinality(KeptCreatures) + 1
      BY <3>5, <3>6, FS_AddElement
    <3> QED BY <3>4, <3>7 DEF LootInv
  <2> QED BY <2>1, <2>2
<1> QED BY <1>2, <1>4, <1>6, <1>7, <1>8 DEF LootInv

\* No other step moves the guard or adds a kill.
LEMMA OthersCounted ==
    ASSUME LootInv, UNCHANGED <<lastLoot, arrivals>>, Len(kills') = Len(kills), now' \in Nat
    PROVE  LootInv'
<1>1. Remembered'
  BY DEF LootInv, Remembered, LastKept
<1>2. \A i \in DOMAIN arrivals : ~arrivals[i].kept <=> Repeats(arrivals', i)
  BY DEF LootInv, Repeats
<1>3. KeptCreatures' = KeptCreatures
  BY DEF KeptCreatures
<1> QED BY <1>1, <1>2, <1>3 DEF LootInv

LEMMA LootKept == ASSUME KillInv, LootInv, [KillsNext]_killVars PROVE LootInv'
<1>1. ASSUME NEW group \in Group, OnLoot(group) PROVE LootInv'
  BY <1>1, LootCounted
<1>2. ASSUME NEW group \in Group, DropLoot(group) PROVE LootInv'
  BY <1>2, DropCounted
<1>3. kills \in Seq(KillRecord) /\ now \in Nat
  BY DEF KillInv, KillsTyped, LootInv
<1>4. ASSUME NEW match \in Tool \union {None}, NEW countered \in BOOLEAN,
             OnCombat(match, countered)
      PROVE  LootInv'
  BY <1>3, <1>4, OthersCounted DEF OnCombat, lootVars, sessionVars
<1>5. ASSUME NEW tool \in Tool, OnToolChanged(tool) PROVE LootInv'
  BY <1>3, <1>5, OthersCounted DEF OnToolChanged, lootVars, sessionVars
<1>6. ASSUME NEW remaining \in 0..Slots, OnEnhancerBreak(remaining) PROVE LootInv'
  BY <1>3, <1>6, OthersCounted DEF OnEnhancerBreak, lootVars, sessionVars
<1>7. CASE WriteConfig \/ ReloadConfig
  BY <1>3, <1>7, OthersCounted DEF WriteConfig, ReloadConfig, lootVars, sessionVars
<1>8. CASE OnGlobal
  <2>1. Len(kills') = Len(kills)
    <3>1. PICK k : k = Len(kills)
      OBVIOUS
    <3>2. kills' = [kills EXCEPT ![k].global = TRUE] /\ kills # << >>
      BY <1>8, <3>1 DEF OnGlobal
    <3>3. k \in DOMAIN kills /\ kills[k] \in KillRecord
      BY <1>3, <3>1, <3>2, KillsFinite, EmptySeq
    <3>4. PICK kill : kill = [kills[k] EXCEPT !.global = TRUE]
      OBVIOUS
    <3>5. kill \in KillRecord
      BY <3>3, <3>4 DEF KillRecord
    <3> QED BY <1>3, <3>2, <3>3, <3>4, <3>5, ReplaceRow
  <2> QED BY <1>3, <1>8, <2>1, OthersCounted DEF OnGlobal, lootVars, sessionVars
<1>9. ASSUME NEW k \in DOMAIN rows, NEW asks \in BOOLEAN, Reclassify(k, asks) PROVE LootInv'
  BY <1>3, <1>9, OthersCounted DEF Reclassify, lootVars, sessionVars
<1>10. ASSUME NEW k \in pending, ReconcileLootSource(k) PROVE LootInv'
  <2>1. Len(kills') = Len(kills)
    <3>1. k \in DOMAIN kills /\ IsRow(rows[k])
      BY DEF KillInv, KillsTyped
    <3>2. PICK kill : kill = [kills[k] EXCEPT !.loot = rows[k].loot]
      OBVIOUS
    <3>3. kill \in KillRecord
      <4>1. kills[k] \in KillRecord /\ rows[k].loot \in {"active", "inactive"}
        BY <1>3, <3>1, ElementOfSeq DEF IsRow
      <4> QED BY <3>2, <4>1 DEF KillRecord
    <3>4. kills' = kills \/ kills' = [kills EXCEPT ![k] = kill]
      BY <1>10, <3>2 DEF ReconcileLootSource
    <3> QED BY <1>3, <3>1, <3>3, <3>4, ReplaceRow
  <2> QED BY <1>3, <1>10, <2>1, OthersCounted DEF ReconcileLootSource, lootVars, sessionVars
<1>11. CASE StopKills \/ CrashKills \/ RecoverKills \/ ElapseKills
  BY <1>3, <1>11, OthersCounted DEF StopKills, CrashKills, RecoverKills, ElapseKills, Seal,
     Crash, RecoverRow, Elapse, lootVars
<1>12. CASE UNCHANGED killVars
  BY <1>3, <1>12, OthersCounted DEF killVars, killOwn, lootVars, sessionVars
<1> QED BY <1>1, <1>2, <1>4, <1>5, <1>6, <1>7, <1>8, <1>9, <1>10, <1>11, <1>12 DEF KillsNext

LEMMA LootBegins == KillsInit => LootInv
<1> SUFFICES ASSUME KillsInit PROVE LootInv
  OBVIOUS
<1>1. now = 0 /\ arrivals = << >> /\ lastLoot = None /\ kills = << >>
  BY DEF KillsInit, SessionInit
<1>2. DOMAIN arrivals = {} /\ KeptCreatures = {} /\ Len(kills) = 0
  BY <1>1 DEF KeptCreatures
<1> QED BY <1>1, <1>2, FS_EmptySet DEF LootInv, Remembered

\* The kill ledger is sound in every state: each shot is in one kill or in the
\* accumulator, at the price of its moment, a stopped session's tables and its
\* dangling cost add up to the same, a row has what its kill in memory has, and
\* a group of loot is dropped exactly when it repeats the last one kept inside
\* the window (OnLoot, OnToolChanged, the rebate and the reconciliations).
THEOREM CostsAddUp == KillsSpec => []KillsSound
<1>1. KillsInit => KillInv /\ LootInv
  BY KillsBegin, LootBegins
<1>2. KillInv /\ LootInv /\ [KillsNext]_killVars => KillInv' /\ LootInv'
  BY KillsKeep, LootKept
<1>3. KillInv /\ LootInv => KillsSound
  BY SoundFromInv
<1> QED BY <1>1, <1>2, <1>3, PTL DEF KillsSpec

-----------------------------------------------------------------------------
(* Harvesting swings.                                                      *)

SwingRecord == [at : Nat, tool : HarvestTool \union {None}, tier : Tier \union {None},
                regime : Nat, source : {"board", "inferred", None}]

SwingsTyped ==
    /\ now \in Nat /\ floor \in 0 .. Len(swings)
    /\ swings \in Seq(SwingRecord)
    /\ belief \in HarvestTool \union {None} /\ mismatch \in Tier \union {None}
    /\ guardrail \in Guardrails
    /\ DOMAIN swingRows \subseteq DOMAIN swings
    /\ \A i \in DOMAIN swingRows : swingRows[i] \in SwingRecord

\* Swings are in the order of the log, and a regime is a stretch of them that
\* begins behind the floor there was: the present one is all above the floor.
Stretches ==
    \A i \in DOMAIN swings :
        /\ swings[i].at <= now
        /\ swings[i].regime < i
        /\ i > floor <=> swings[i].regime = floor

\* An inferred tier has a board that proves it.
Backed(i) ==
    swings[i].source = "inferred" =>
        \E j \in DOMAIN swings : /\ Board(swings[j]) /\ swings[j].tier = swings[i].tier
                                 /\ swings[j].regime = swings[i].regime
                                 /\ swings[j].at - swings[i].at \in -Window .. Window

\* A row has the evidence and the stretch of its swing even when a correction
\* was not written, and all of it otherwise.
RowsFollow ==
    \A i \in DOMAIN swingRows :
        /\ Board(swingRows[i]) <=> Board(swings[i])
        /\ swingRows[i].regime = swings[i].regime
        /\ i \notin stale => swingRows[i] = swings[i]

HarvestInv ==
    /\ SwingsTyped /\ Stretches
    /\ \A i \in DOMAIN swings : Backed(i)
    /\ RowsFollow

\* The swings a correction may reach.
Open == {i \in DOMAIN swings : i > floor /\ ~Board(swings[i])}

LEMMA ToolIsSet ==
    ASSUME NEW s \in SwingRecord, NEW t \in HarvestTool \union {None},
           NEW r, r = [s EXCEPT !.tool = t]
    PROVE  /\ r \in SwingRecord /\ r.tool = t /\ r.at = s.at /\ r.regime = s.regime
           /\ r.tier = s.tier /\ r.source = s.source
BY DEF SwingRecord

\* What the pass over tools leaves.
LEMMA ToolPass ==
    ASSUME SwingsTyped, NEW tool \in HarvestTool \union {None}, NEW tools,
           NEW tooled, tooled = WithTools(swings, tools, tool)
    PROVE  /\ tooled \in Seq(SwingRecord) /\ Len(tooled) = Len(swings)
           /\ DOMAIN tooled = DOMAIN swings
           /\ \A i \in DOMAIN swings :
                  /\ tooled[i] = IF i \in tools THEN [swings[i] EXCEPT !.tool = tool] ELSE swings[i]
                  /\ tooled[i].at = swings[i].at /\ tooled[i].regime = swings[i].regime
                  /\ tooled[i].tier = swings[i].tier /\ tooled[i].source = swings[i].source
                  /\ i \in tools => tooled[i].tool = tool
                  /\ tooled[i] \in SwingRecord
<1>1. /\ Len(swings) \in Nat /\ DOMAIN swings = 1 .. Len(swings)
      /\ \A i \in DOMAIN swings : swings[i] \in SwingRecord
  BY LenProperties, ElementOfSeq DEF SwingsTyped
<1>2. /\ DOMAIN tooled = DOMAIN swings
      /\ \A i \in DOMAIN swings :
             tooled[i] = IF i \in tools THEN [swings[i] EXCEPT !.tool = tool] ELSE swings[i]
  BY DEF WithTools
<1>3. ASSUME NEW i \in DOMAIN swings
      PROVE  /\ tooled[i].at = swings[i].at /\ tooled[i].regime = swings[i].regime
             /\ tooled[i].tier = swings[i].tier /\ tooled[i].source = swings[i].source
             /\ i \in tools => tooled[i].tool = tool
             /\ tooled[i] \in SwingRecord
  <2>s. PICK s \in SwingRecord : s = swings[i]
    BY <1>1
  <2>1. CASE i \in tools
    <3>1. tooled[i] = [s EXCEPT !.tool = tool]
      BY <1>2, <2>s, <2>1
    <3>2. /\ tooled[i] \in SwingRecord /\ tooled[i].tool = tool /\ tooled[i].at = s.at
          /\ tooled[i].regime = s.regime /\ tooled[i].tier = s.tier /\ tooled[i].source = s.source
      BY <3>1, ToolIsSet
    <3> QED BY <2>s, <2>1, <3>2
  <2>2. CASE i \notin tools
    BY <1>2, <2>s, <2>2
  <2> QED BY <2>1, <2>2
<1>4. tooled = [i \in 1 .. Len(swings) |-> tooled[i]]
  BY <1>1 DEF WithTools
<1>5. tooled \in Seq(SwingRecord)
  BY <1>1, <1>2, <1>3, <1>4
<1>6. Len(tooled) = Len(swings)
  BY <1>1, <1>2, <1>5, LenProperties
<1> QED BY <1>2, <1>3, <1>5, <1>6

\* What the pass over tiers leaves of it.
TiersPassed(tooled, after, ids, tier) ==
    /\ after \in Seq(SwingRecord) /\ Len(after) = Len(tooled)
    /\ DOMAIN after = DOMAIN tooled
    /\ \A i \in DOMAIN tooled :
           /\ after[i].at = tooled[i].at /\ after[i].regime = tooled[i].regime
           /\ after[i].tool = tooled[i].tool /\ after[i] \in SwingRecord
           /\ i \notin ids => after[i] = tooled[i]
           /\ i \in ids =>
                 /\ after[i] = [tooled[i] EXCEPT !.tier = after[i].tier, !.source = after[i].source]
                 /\ after[i].source # "board"
                 /\ after[i].source = "inferred" => after[i].tier = tier

LEMMA TierPass ==
    ASSUME SwingsTyped, NEW tooled \in Seq(SwingRecord), Len(tooled) = Len(swings),
           NEW tool, NEW tier \in Tier, NEW ids,
           NEW after, after = WithTiers(tooled, ids, tool, tier)
    PROVE  TiersPassed(tooled, after, ids, tier)
<1>1. /\ Len(tooled) \in Nat /\ DOMAIN tooled = 1 .. Len(tooled)
      /\ \A i \in DOMAIN tooled : tooled[i] \in SwingRecord
  BY LenProperties, ElementOfSeq
<1>2. /\ DOMAIN after = DOMAIN tooled
      /\ \A i \in DOMAIN tooled :
             after[i] = IF i \in ids THEN WithTier(tooled[i], TierAfter(tooled, i, tool, tier))
                        ELSE tooled[i]
  BY DEF WithTiers
<1>3. ASSUME NEW i \in DOMAIN tooled
      PROVE  /\ after[i].at = tooled[i].at /\ after[i].regime = tooled[i].regime
             /\ after[i].tool = tooled[i].tool /\ after[i] \in SwingRecord
             /\ i \notin ids => after[i] = tooled[i]
             /\ i \in ids =>
                   /\ after[i] = [tooled[i] EXCEPT !.tier = after[i].tier, !.source = after[i].source]
                   /\ after[i].source # "board"
                   /\ after[i].source = "inferred" => after[i].tier = tier
  <2>s. PICK s \in SwingRecord : s = tooled[i]
    BY <1>1
  <2>1. CASE i \in ids
    <3>t. PICK t : t = TierAfter(tooled, i, tool, tier)
      OBVIOUS
    <3>1. t = tier \/ t = None
      BY <3>t DEF TierAfter
    <3>o. PICK o : o = IF t = None THEN None ELSE "inferred"
      OBVIOUS
    <3>2. after[i] = [s EXCEPT !.tier = t, !.source = o]
      BY <1>2, <2>s, <2>1, <3>t, <3>o DEF WithTier
    <3>3. t \in Tier \union {None} /\ o \in {"board", "inferred", None} /\ o # "board"
          /\ (o = "inferred" => t = tier)
      BY <3>1, <3>o, SwingAssumption
    <3>r. PICK r : r = [s EXCEPT !.tier = t, !.source = o]
      OBVIOUS
    <3>6. t \in Tier \union {None} /\ o \in {"board", "inferred", None}
      BY <3>3
    <3>5. /\ r \in SwingRecord /\ r.tool = s.tool /\ r.at = s.at
          /\ r.regime = s.regime /\ r.tier = t /\ r.source = o
      BY <2>s, <3>6, <3>r DEF SwingRecord
    <3>4. /\ after[i] \in SwingRecord /\ after[i].tool = s.tool /\ after[i].at = s.at
          /\ after[i].regime = s.regime /\ after[i].tier = t /\ after[i].source = o
      BY <3>2, <3>5, <3>r
    <3> QED BY <2>s, <2>1, <3>2, <3>3, <3>4
  <2>2. CASE i \notin ids
    BY <1>2, <2>s, <2>2
  <2> QED BY <2>1, <2>2
<1>n. PICK n \in Nat : n = Len(tooled)
  BY <1>1
<1>4. after = [i \in 1 .. n |-> after[i]] /\ \A i \in 1 .. n : after[i] \in SwingRecord
  BY <1>1, <1>3, <1>n DEF WithTiers
<1>5. after \in Seq(SwingRecord)
  BY <1>4
<1>6. Len(after) = Len(tooled)
  BY <1>1, <1>2, <1>5, LenProperties
<1> QED BY <1>2, <1>3, <1>5, <1>6 DEF TiersPassed

\* A tier is inferred from a board of this stretch, within the window.
LEMMA InferredFromBoard ==
    ASSUME SwingsTyped, NEW tool, InferredTier(tool) # None
    PROVE  \E j \in DOMAIN swings : /\ Board(swings[j]) /\ j > floor /\ now - swings[j].at <= Window
                                    /\ InferredTier(tool) = swings[j].tier
<1> DEFINE reach(i) == \A j \in i .. Len(swings) : now - swings[j].at <= Window
                                                   /\ swings[j].tool = tool
           boards == {i \in floor + 1 .. Len(swings) : Board(swings[i]) /\ reach(i)}
           best == CHOOSE i \in boards : \A j \in boards : j <= i
<1>1. Len(swings) \in Nat /\ DOMAIN swings = 1 .. Len(swings) /\ floor \in 0 .. Len(swings)
  BY LenProperties DEF SwingsTyped
<1>2. boards # {} /\ InferredTier(tool) = swings[best].tier
  BY DEF InferredTier
<1>3. boards \in SUBSET (1 .. Len(swings))
  BY <1>1
<1>4. \E i \in boards : \A j \in boards : j <= i
  <2> HIDE DEF boards
  <2> QED BY <1>1, <1>2, <1>3, MaxExists
<1>5. best \in boards
  <2> HIDE DEF boards
  <2> QED BY <1>4
<1>b. PICK b : b = best
  OBVIOUS
<1> HIDE DEF best
<1>6. b \in floor + 1 .. Len(swings) /\ Board(swings[b]) /\ reach(b)
  BY <1>5, <1>b
<1>7. b \in b .. Len(swings) /\ b \in DOMAIN swings /\ b > floor
  BY <1>1, <1>6
<1>8. now - swings[b].at <= Window
  BY <1>6, <1>7
<1> QED BY <1>2, <1>6, <1>7, <1>8, <1>b

\* What a swing does to those before it, to itself and to the rows.
SwingEffect(n, s) ==
    /\ n = Len(swings) + 1
    /\ s \in SwingRecord /\ s.at = now /\ s.regime = floor
    /\ swings' \in Seq(SwingRecord) /\ Len(swings') = n /\ swings'[n] = s
    /\ \A i \in DOMAIN swings :
           /\ swings'[i].at = swings[i].at /\ swings'[i].regime = swings[i].regime
           /\ Board(swings'[i]) <=> Board(swings[i])
           /\ Board(swings[i]) => swings'[i].tier = swings[i].tier
           /\ swings'[i] # swings[i] => i \in Open
           /\ swings'[i].source = "inferred" =>
                 \/ swings[i].source = "inferred" /\ swings'[i].tier = swings[i].tier
                 \/ i \in Open /\ now - swings[i].at <= Window
                    /\ Board(s) /\ s.tier = swings'[i].tier
    /\ s.source = "inferred" =>
           \E j \in DOMAIN swings : /\ Board(swings[j]) /\ j > floor /\ now - swings[j].at <= Window
                                    /\ s.tier = swings[j].tier

RowEffect(n, s) ==
    /\ DOMAIN swingRows \subseteq DOMAIN swingRows'
    /\ \A i \in DOMAIN swingRows' : i \in DOMAIN swingRows \/ (i = n /\ swingRows'[i] = s)
    /\ \A i \in DOMAIN swingRows :
           /\ swingRows'[i] \in SwingRecord
           /\ swingRows'[i].regime = swingRows[i].regime
           /\ Board(swingRows'[i]) <=> Board(swingRows[i])
           /\ swingRows'[i] # swingRows[i] => i \in Open
           /\ i \notin stale' => swingRows'[i] = swings'[i]

LEMMA SwingDoes ==
    ASSUME HarvestInv, NEW evidence \in Tier \union {None}, Swing(evidence)
    PROVE  /\ \E n, s : SwingEffect(n, s) /\ RowEffect(n, s)
           /\ mismatch' \in Tier \union {None}
           /\ UNCHANGED <<belief, guardrail, floor, now>>
<1>tool. PICK tool : tool = ToolFor(evidence)
  OBVIOUS
<1>tools. PICK tools : tools = RestampTools(evidence, tool)
  OBVIOUS
<1>tooled. PICK tooled : tooled = WithTools(swings, tools, tool)
  OBVIOUS
<1>tiers. PICK tiers : tiers = IF evidence = None THEN {} ELSE RestampTiers(tooled, tool, evidence)
  OBVIOUS
<1>after. PICK after : after = WithTiers(tooled, tiers, tool, evidence)
  OBVIOUS
<1>tier. PICK tier : tier = IF evidence # None THEN evidence ELSE InferredTier(tool)
  OBVIOUS
<1>source. PICK source : source = IF evidence # None THEN "board"
                                  ELSE IF tier = None THEN None ELSE "inferred"
  OBVIOUS
<1>s. PICK s : s = [at |-> now, tool |-> tool, tier |-> tier, regime |-> floor, source |-> source]
  OBVIOUS
<1>n. PICK n : n = Len(swings) + 1
  OBVIOUS
<1>1. PICK failed \in SUBSET Writes(tools, tiers) :
          /\ swings' = Append(after, s)
          /\ swingRows' = Persisted(n, s, tools, tiers, after, Writes(tools, tiers) \ failed)
          /\ stale' = stale \union (IF "tools" \in failed THEN tools ELSE {})
                            \union (IF "tiers" \in failed THEN tiers ELSE {})
  BY <1>tool, <1>tools, <1>tooled, <1>tiers, <1>after, <1>tier, <1>source, <1>s, <1>n DEF Swing
<1>2. mismatch' = Mismatch(evidence) /\ UNCHANGED <<belief, guardrail, floor, now>>
  BY DEF Swing, sessionVars
<1>3. /\ Len(swings) \in Nat /\ DOMAIN swings = 1 .. Len(swings) /\ n \in Nat
      /\ \A i \in DOMAIN swings : swings[i] \in SwingRecord
      /\ guardrail \in [Tier -> HarvestTool \union {None}] /\ now \in Nat /\ floor \in 0 .. Len(swings)
  BY <1>n, LenProperties, ElementOfSeq, SwingAssumption DEF HarvestInv, SwingsTyped
<1>4. tool \in HarvestTool \union {None}
  <2>1. Intent(evidence) # None => Intent(evidence) \in HarvestTool \union {None}
    BY <1>3 DEF Intent
  <2> QED BY <1>tool, <1>3, <2>1 DEF ToolFor, HarvestInv, SwingsTyped
<1>5. mismatch' \in Tier \union {None}
  BY <1>2 DEF Mismatch, Intent, HarvestInv, SwingsTyped
<1>6. tools \subseteq Open
  <2> SUFFICES ASSUME NEW i \in tools PROVE i \in Open
    OBVIOUS
  <2>1. i \in Run
    BY <1>tools DEF RestampTools
  <2>2. /\ i \in floor + 1 .. Len(swings)
        /\ \A j \in i .. Len(swings) : ~Board(swings[j])
    BY <2>1 DEF Run
  <2>3. i \in DOMAIN swings /\ i > floor /\ i \in i .. Len(swings)
    BY <1>3, <2>2
  <2> QED BY <2>2, <2>3 DEF Open
<1>7. /\ tooled \in Seq(SwingRecord) /\ Len(tooled) = Len(swings)
      /\ DOMAIN tooled = DOMAIN swings
      /\ \A i \in DOMAIN swings :
             /\ tooled[i] = IF i \in tools THEN [swings[i] EXCEPT !.tool = tool] ELSE swings[i]
             /\ tooled[i].at = swings[i].at /\ tooled[i].regime = swings[i].regime
             /\ tooled[i].tier = swings[i].tier /\ tooled[i].source = swings[i].source
             /\ i \in tools => tooled[i].tool = tool
             /\ tooled[i] \in SwingRecord
  BY <1>tooled, <1>4, ToolPass DEF HarvestInv
<1>8. \A i \in tiers : i \in Open /\ now - swings[i].at <= Window /\ evidence # None
  <2> SUFFICES ASSUME NEW i \in tiers
               PROVE  i \in Open /\ now - swings[i].at <= Window /\ evidence # None
    OBVIOUS
  <2>1. evidence # None /\ i \in RestampTiers(tooled, tool, evidence)
    BY <1>tiers
  <2>2. /\ i \in floor + 1 .. Len(tooled)
        /\ \A j \in i .. Len(tooled) : now - tooled[j].at <= Window /\ ~Board(tooled[j])
    BY <2>1 DEF RestampTiers
  <2>3. i \in DOMAIN swings /\ i > floor /\ i \in i .. Len(tooled)
    BY <1>3, <1>7, <2>2
  <2>4. now - swings[i].at <= Window /\ ~Board(swings[i])
    BY <1>7, <2>2, <2>3 DEF Board
  <2> QED BY <2>1, <2>3, <2>4 DEF Open
<1>9. /\ after \in Seq(SwingRecord) /\ Len(after) = Len(swings)
      /\ DOMAIN after = DOMAIN swings
      /\ \A i \in DOMAIN swings :
             /\ after[i].at = swings[i].at /\ after[i].regime = swings[i].regime
             /\ after[i].tool = tooled[i].tool /\ after[i] \in SwingRecord
             /\ i \notin tiers => after[i] = tooled[i]
             /\ i \in tiers =>
                   /\ after[i] = [tooled[i] EXCEPT !.tier = after[i].tier, !.source = after[i].source]
                   /\ after[i].source # "board"
                   /\ after[i].source = "inferred" => after[i].tier = evidence
  <2>1. CASE evidence # None
    <3>1. evidence \in Tier
      BY <2>1
    <3>2. TiersPassed(tooled, after, tiers, evidence)
      <4>1. tooled \in Seq(SwingRecord) /\ Len(tooled) = Len(swings) /\ SwingsTyped
        BY <1>7 DEF HarvestInv
      <4> QED BY <4>1, <1>after, <3>1, TierPass
    <3> QED BY <1>7, <3>2 DEF TiersPassed
  <2>2. CASE evidence = None
    <3>1. tiers = {}
      BY <1>tiers, <2>2
    <3>2. after = [i \in DOMAIN tooled |-> tooled[i]]
      BY <1>after, <3>1 DEF WithTiers
    <3>3. after = tooled
      BY <1>7, <3>2
    <3> QED BY <1>7, <3>1, <3>3
  <2> QED BY <2>1, <2>2
<1>10. s \in SwingRecord /\ s.at = now /\ s.regime = floor /\ s.tier = tier /\ s.source = source
  <2>1. tier \in Tier \union {None}
    <3>1. InferredTier(tool) \in Tier \union {None}
      <4>1. CASE InferredTier(tool) # None
        <5>1. PICK j \in DOMAIN swings : InferredTier(tool) = swings[j].tier
          BY <4>1, InferredFromBoard DEF HarvestInv
        <5> QED BY <1>3, <5>1 DEF SwingRecord
      <4> QED BY <4>1
    <3> QED BY <1>tier, <3>1
  <2>2. source \in {"board", "inferred", None}
    BY <1>source
  <2>3. floor \in Nat
    BY <1>3
  <2> QED BY <1>s, <1>3, <1>4, <2>1, <2>2, <2>3 DEF SwingRecord
<1>11. SwingEffect(n, s)
  <2>1. /\ swings' \in Seq(SwingRecord) /\ Len(swings') = n /\ swings'[n] = s
        /\ \A i \in DOMAIN swings : swings'[i] = after[i]
    <3>1. /\ Append(after, s) \in Seq(SwingRecord) /\ Len(Append(after, s)) = Len(after) + 1
          /\ Append(after, s)[Len(after) + 1] = s
          /\ \A i \in DOMAIN after : Append(after, s)[i] = after[i]
      <4>1. after \in Seq(SwingRecord) /\ s \in SwingRecord
        BY <1>9, <1>10
      <4> QED BY <4>1, AppendRow
    <3> QED BY <1>1, <1>9, <1>n, <3>1
  <2>2. ASSUME NEW i \in DOMAIN swings
        PROVE  /\ after[i].at = swings[i].at /\ after[i].regime = swings[i].regime
               /\ Board(after[i]) <=> Board(swings[i])
               /\ Board(swings[i]) => after[i].tier = swings[i].tier
               /\ after[i] # swings[i] => i \in Open
               /\ after[i].source = "inferred" =>
                     \/ swings[i].source = "inferred" /\ after[i].tier = swings[i].tier
                     \/ i \in Open /\ now - swings[i].at <= Window
                        /\ Board(s) /\ s.tier = after[i].tier
    <3>1. CASE i \in tiers
      <4>1. i \in Open /\ now - swings[i].at <= Window /\ evidence # None /\ ~Board(swings[i])
        BY <1>8, <3>1 DEF Open
      <4>2. after[i].source # "board" /\ (after[i].source = "inferred" => after[i].tier = evidence)
        BY <1>9, <3>1
      <4>3. s.tier = evidence /\ Board(s)
        BY <1>10, <1>tier, <1>source, <4>1 DEF Board
      <4> QED BY <1>9, <4>1, <4>2, <4>3 DEF Board
    <3>2. CASE i \notin tiers
      <4>1. after[i] = tooled[i]
        BY <1>9, <3>2
      <4>2. after[i] # swings[i] => i \in Open
        BY <1>6, <1>7, <4>1
      <4> QED BY <1>7, <4>1, <4>2 DEF Board
    <3> QED BY <3>1, <3>2
  <2>3. ASSUME s.source = "inferred"
        PROVE  \E j \in DOMAIN swings : /\ Board(swings[j]) /\ j > floor
                                        /\ now - swings[j].at <= Window /\ s.tier = swings[j].tier
    <3>1. evidence = None /\ tier # None
      BY <1>10, <1>source, <2>3, SwingAssumption
    <3>2. tier = InferredTier(tool)
      BY <1>tier, <3>1
    <3> QED BY <1>10, <3>1, <3>2, InferredFromBoard DEF HarvestInv
  <2> QED BY <1>10, <1>n, <2>1, <2>2, <2>3 DEF SwingEffect
<1>12. RowEffect(n, s)
  <2>done. PICK done : done = Writes(tools, tiers) \ failed
    OBVIOUS
  <2>1. /\ DOMAIN swingRows' = DOMAIN swingRows \union (IF "swing" \in done THEN {n} ELSE {})
        /\ \A i \in DOMAIN swingRows' : swingRows'[i] =
             IF i = n THEN s
             ELSE LET row == swingRows[i]
                      to == IF "tools" \in done /\ i \in tools
                            THEN [row EXCEPT !.tool = after[i].tool] ELSE row
                  IN  IF "tiers" \in done /\ i \in tiers /\ ~Board(row)
                      THEN [to EXCEPT !.tier = after[i].tier, !.source = after[i].source]
                      ELSE to
    BY <1>1, <2>done DEF Persisted
  <2>2. ASSUME NEW i \in DOMAIN swingRows
        PROVE  /\ swingRows'[i] \in SwingRecord
               /\ swingRows'[i].regime = swingRows[i].regime
               /\ Board(swingRows'[i]) <=> Board(swingRows[i])
               /\ swingRows'[i] # swingRows[i] => i \in Open
               /\ i \notin stale' => swingRows'[i] = swings'[i]
    <3>row. PICK row \in SwingRecord : row = swingRows[i]
      BY DEF HarvestInv, SwingsTyped
    <3>a. PICK a \in SwingRecord : a = after[i] /\ i \in DOMAIN swings
      BY <1>9 DEF HarvestInv, SwingsTyped
    <3>to. PICK to : to = IF "tools" \in done /\ i \in tools THEN [row EXCEPT !.tool = a.tool] ELSE row
      OBVIOUS
    <3>new. PICK new : new = IF "tiers" \in done /\ i \in tiers /\ ~Board(row)
                             THEN [to EXCEPT !.tier = a.tier, !.source = a.source] ELSE to
      OBVIOUS
    <3>1. i # n /\ swingRows'[i] = new
      <4>1. i # n
        BY <1>3, <1>n, <3>a
      <4>2. i \in DOMAIN swingRows'
        BY <2>1
      <4> QED BY <2>1, <3>row, <3>a, <3>to, <3>new, <4>1, <4>2
    <3>2. /\ to \in SwingRecord /\ to.regime = row.regime /\ to.tier = row.tier
          /\ to.source = row.source /\ (to # row => i \in tools)
      <4>1. a.tool \in HarvestTool \union {None}
        BY <3>a DEF SwingRecord
      <4>2. CASE "tools" \in done /\ i \in tools
        <5>1. to = [row EXCEPT !.tool = a.tool]
          BY <3>to, <4>2
        <5> QED BY <3>row, <4>1, <4>2, <5>1, ToolIsSet
      <4>3. CASE ~("tools" \in done /\ i \in tools)
        BY <3>row, <3>to, <4>3
      <4> QED BY <4>2, <4>3
    <3>3. /\ new \in SwingRecord /\ new.regime = row.regime /\ (Board(new) <=> Board(row))
          /\ (new # row => i \in tools \union tiers)
      <4>1. a.tier \in Tier \union {None} /\ a.source \in {"board", "inferred", None}
        BY <3>a DEF SwingRecord
      <4>2. CASE "tiers" \in done /\ i \in tiers /\ ~Board(row)
        <5>1. a.source # "board"
          BY <1>9, <3>a, <4>2
        <5>2. /\ new \in SwingRecord /\ new.regime = to.regime /\ new.source = a.source
          <6>1. new = [to EXCEPT !.tier = a.tier, !.source = a.source] /\ to \in SwingRecord
            BY <3>new, <3>2, <4>2
          <6> QED BY <4>1, <6>1 DEF SwingRecord
        <5> QED BY <3>2, <4>2, <5>1, <5>2 DEF Board
      <4>3. CASE ~("tiers" \in done /\ i \in tiers /\ ~Board(row))
        BY <3>new, <3>2, <4>3 DEF Board
      <4> QED BY <4>2, <4>3
    <3>4. new # row => i \in Open
      BY <1>6, <1>8, <3>3
    <3>5. ASSUME i \notin stale' PROVE new = a
      <4>1. row = swings[i]
        BY <1>1, <3>5, <3>row DEF HarvestInv, RowsFollow
      <4>2. (i \in tools => "tools" \in done) /\ (i \in tiers => "tiers" \in done)
        <5>1. (i \in tools => "tools" \notin failed) /\ (i \in tiers => "tiers" \notin failed)
          BY <1>1, <3>5
        <5> QED BY <2>done, <5>1 DEF Writes
      <4>3. to = tooled[i]
        <5>1. a.tool = tooled[i].tool /\ i \in DOMAIN swings
          BY <1>9, <3>a
        <5>2. tooled[i] = IF i \in tools THEN [row EXCEPT !.tool = tool] ELSE row
          BY <1>7, <4>1, <5>1
        <5>3. CASE i \in tools
          <6>1. a.tool = tool
            BY <1>7, <5>1, <5>3
          <6> QED BY <3>to, <4>2, <5>2, <5>3, <6>1
        <5>4. CASE i \notin tools
          BY <3>to, <5>2, <5>4
        <5> QED BY <5>3, <5>4
      <4>4. i \in tiers => ~Board(row)
        BY <1>8, <4>1 DEF Open
      <4>5. CASE i \in tiers
        BY <1>9, <3>a, <3>new, <4>2, <4>3, <4>4, <4>5
      <4>6. CASE i \notin tiers
        BY <1>9, <3>a, <3>new, <4>3, <4>6
      <4> QED BY <4>5, <4>6
    <3>6. swings'[i] = a
      <4>1. /\ Append(after, s) \in Seq(SwingRecord)
            /\ \A k \in DOMAIN after : Append(after, s)[k] = after[k]
        <5>1. after \in Seq(SwingRecord) /\ s \in SwingRecord
          BY <1>9, <1>10
        <5> QED BY <5>1, AppendRow
      <4>2. i \in DOMAIN after
        BY <1>9, <3>a
      <4> QED BY <1>1, <3>a, <4>1, <4>2
    <3> QED BY <3>row, <3>1, <3>3, <3>4, <3>5, <3>6
  <2> QED BY <2>1, <2>2 DEF RowEffect
<1> QED BY <1>2, <1>5, <1>11, <1>12

\* The board that backs an inferred tier backs it after the swing, and a tier
\* the swing corrects or infers is backed by the board it came from.
LEMMA SwingKeeps ==
    ASSUME HarvestInv, NEW n, NEW s, SwingEffect(n, s), RowEffect(n, s),
           mismatch' \in Tier \union {None}, UNCHANGED <<belief, guardrail, floor, now>>
    PROVE  HarvestInv'
<1>len. PICK len : len = Len(swings)
  OBVIOUS
<1>fl. PICK fl : fl = floor
  OBVIOUS
<1>nw. PICK nw : nw = now
  OBVIOUS
<1>1. /\ len \in Nat /\ DOMAIN swings = 1 .. len /\ n = len + 1 /\ nw \in Nat /\ fl \in 0 .. len
      /\ \A i \in DOMAIN swings : swings[i] \in SwingRecord
      /\ floor' = fl /\ now' = nw
  BY <1>len, <1>fl, <1>nw, LenProperties, ElementOfSeq DEF HarvestInv, SwingsTyped, SwingEffect
<1>2. /\ swings' \in Seq(SwingRecord) /\ Len(swings') = n /\ swings'[n] = s
      /\ s \in SwingRecord /\ s.at = nw /\ s.regime = fl
  BY <1>fl, <1>nw DEF SwingEffect
<1>3. DOMAIN swings' = 1 .. n
  BY <1>2, LenProperties
<1>4. \A i \in DOMAIN swings' : i \in DOMAIN swings \/ i = n
  BY <1>1, <1>3
<1>5. \A i \in DOMAIN swings : i \in DOMAIN swings' /\ i # n
  BY <1>1, <1>3
<1>6. n \in DOMAIN swings'
  BY <1>1, <1>3
<1>7. \A i \in DOMAIN swings :
          /\ swings'[i].at = swings[i].at /\ swings'[i].regime = swings[i].regime
          /\ Board(swings'[i]) <=> Board(swings[i])
          /\ Board(swings[i]) => swings'[i].tier = swings[i].tier
  BY DEF SwingEffect
<1>8. SwingsTyped'
  <2>1. DOMAIN swingRows' \subseteq DOMAIN swings'
    BY <1>5, <1>6 DEF HarvestInv, SwingsTyped, RowEffect
  <2>2. \A i \in DOMAIN swingRows' : swingRows'[i] \in SwingRecord
    BY <1>2 DEF RowEffect
  <2>3. floor' \in 0 .. Len(swings')
    BY <1>1, <1>2
  <2>4. now' \in Nat /\ belief' \in HarvestTool \union {None} /\ guardrail' \in Guardrails
    BY DEF HarvestInv, SwingsTyped
  <2> QED BY <1>2, <2>1, <2>2, <2>3, <2>4 DEF SwingsTyped
<1>9. Stretches'
  <2> SUFFICES ASSUME NEW i \in DOMAIN swings'
               PROVE  /\ swings'[i].at <= nw /\ swings'[i].regime < i
                      /\ i > fl <=> swings'[i].regime = fl
    BY <1>1 DEF Stretches
  <2>1. CASE i \in DOMAIN swings
    <3>1. swings[i].at <= nw /\ swings[i].regime < i /\ (i > fl <=> swings[i].regime = fl)
      BY <1>fl, <1>nw, <2>1 DEF HarvestInv, Stretches
    <3> QED BY <1>7, <2>1, <3>1
  <2>2. CASE i = n
    BY <1>1, <1>2, <2>2
  <2> QED BY <1>4, <2>1, <2>2
<1>10. ASSUME NEW i \in DOMAIN swings' PROVE Backed(i)'
  <2> SUFFICES ASSUME swings'[i].source = "inferred"
               PROVE  \E j \in DOMAIN swings' :
                          /\ Board(swings'[j]) /\ swings'[j].tier = swings'[i].tier
                          /\ swings'[j].regime = swings'[i].regime
                          /\ swings'[j].at - swings'[i].at \in -Window .. Window
    BY DEF Backed
  <2>1. CASE i \in DOMAIN swings
    <3>1. CASE swings[i].source = "inferred" /\ swings'[i].tier = swings[i].tier
      <4>1. PICK j \in DOMAIN swings :
                /\ Board(swings[j]) /\ swings[j].tier = swings[i].tier
                /\ swings[j].regime = swings[i].regime
                /\ swings[j].at - swings[i].at \in -Window .. Window
        BY <2>1, <3>1 DEF HarvestInv, Backed
      <4>2. /\ swings'[j].at = swings[j].at /\ swings'[j].regime = swings[j].regime
            /\ Board(swings'[j]) /\ swings'[j].tier = swings[j].tier /\ j \in DOMAIN swings'
        BY <1>5, <1>7, <4>1
      <4>3. swings'[i].at = swings[i].at /\ swings'[i].regime = swings[i].regime
        BY <1>7, <2>1
      <4>4. /\ Board(swings'[j]) /\ swings'[j].tier = swings'[i].tier
            /\ swings'[j].regime = swings'[i].regime
            /\ swings'[j].at - swings'[i].at \in -Window .. Window
        BY <3>1, <4>1, <4>2, <4>3
      <4> QED BY <4>2, <4>4
    <3>2. CASE /\ i \in Open /\ now - swings[i].at <= Window
               /\ Board(s) /\ s.tier = swings'[i].tier
      <4>a. PICK a : a = swings[i].at
        OBVIOUS
      <4>1. a \in Nat /\ a <= nw /\ nw - a <= 2
        BY <1>1, <1>nw, <2>1, <3>2, <4>a DEF SwingRecord, HarvestInv, Stretches, Window
      <4>2. nw - a \in -Window .. Window
        BY <1>1, <4>1 DEF Window
      <4>3. swings'[i].at = a /\ swings'[i].regime = fl
        BY <1>7, <1>fl, <2>1, <3>2, <4>a DEF HarvestInv, Stretches, Open
      <4>4. /\ Board(swings'[n]) /\ swings'[n].tier = swings'[i].tier
            /\ swings'[n].regime = swings'[i].regime
            /\ swings'[n].at - swings'[i].at \in -Window .. Window
        BY <1>2, <3>2, <4>2, <4>3
      <4> QED BY <1>6, <4>4
    <3>3. \/ swings[i].source = "inferred" /\ swings'[i].tier = swings[i].tier
          \/ /\ i \in Open /\ now - swings[i].at <= Window
             /\ Board(s) /\ s.tier = swings'[i].tier
      BY <2>1 DEF SwingEffect
    <3> QED BY <3>1, <3>2, <3>3
  <2>2. CASE i = n
    <3>1. PICK j \in DOMAIN swings : /\ Board(swings[j]) /\ j > floor
                                     /\ now - swings[j].at <= Window /\ s.tier = swings[j].tier
      BY <1>2, <2>2 DEF SwingEffect
    <3>a. PICK a : a = swings[j].at
      OBVIOUS
    <3>2. a \in Nat /\ a <= nw /\ nw - a <= 2
      BY <1>1, <1>nw, <3>1, <3>a DEF SwingRecord, HarvestInv, Stretches, Window
    <3>3. a - nw \in -Window .. Window
      BY <1>1, <3>2 DEF Window
    <3>4. swings'[j].at = a /\ swings'[j].regime = fl /\ Board(swings'[j])
          /\ swings'[j].tier = s.tier /\ j \in DOMAIN swings'
      BY <1>5, <1>7, <1>fl, <3>1, <3>a DEF HarvestInv, Stretches
    <3>5. /\ Board(swings'[j]) /\ swings'[j].tier = swings'[i].tier
          /\ swings'[j].regime = swings'[i].regime
          /\ swings'[j].at - swings'[i].at \in -Window .. Window
      BY <1>2, <2>2, <3>3, <3>4
    <3> QED BY <3>4, <3>5
  <2> QED BY <1>4, <2>1, <2>2
<1>11. RowsFollow'
  <2> SUFFICES ASSUME NEW i \in DOMAIN swingRows'
               PROVE  /\ Board(swingRows'[i]) <=> Board(swings'[i])
                      /\ swingRows'[i].regime = swings'[i].regime
                      /\ i \notin stale' => swingRows'[i] = swings'[i]
    BY DEF RowsFollow
  <2>1. CASE i \in DOMAIN swingRows
    <3>1. /\ swingRows'[i].regime = swingRows[i].regime
          /\ Board(swingRows'[i]) <=> Board(swingRows[i])
          /\ i \notin stale' => swingRows'[i] = swings'[i]
      BY <2>1 DEF RowEffect
    <3>2. /\ Board(swingRows[i]) <=> Board(swings[i])
          /\ swingRows[i].regime = swings[i].regime /\ i \in DOMAIN swings
      BY <2>1 DEF HarvestInv, RowsFollow, SwingsTyped
    <3> QED BY <1>7, <3>1, <3>2
  <2>2. CASE i = n /\ swingRows'[i] = s
    BY <1>2, <2>2
  <2> QED BY <2>1, <2>2 DEF RowEffect
<1> QED BY <1>8, <1>9, <1>10, <1>11 DEF HarvestInv

LEMMA HarvestInvStarts == SwingsInit => HarvestInv
<1> SUFFICES ASSUME SwingsInit PROVE HarvestInv
  OBVIOUS
<1>1. /\ swings = << >> /\ swingRows = << >> /\ now = 0 /\ floor = 0 /\ mismatch = None
      /\ belief \in HarvestTool \union {None} /\ guardrail \in Guardrails
  BY DEF SwingsInit, SessionInit
<1>2. DOMAIN swings = {} /\ DOMAIN swingRows = {} /\ Len(swings) = 0 /\ swings \in Seq(SwingRecord)
  BY <1>1
<1> QED BY <1>1, <1>2 DEF HarvestInv, SwingsTyped, Stretches, RowsFollow

\* Every other step leaves swings and rows alone: a press moves the floor to
\* the end of the log, behind which no swing of the new stretch is yet.
LEMMA PressKeeps ==
    ASSUME HarvestInv, UNCHANGED <<swings, swingRows, stale>>,
           now' \in Nat, now <= now', floor' \in {floor, Len(swings)},
           belief' \in HarvestTool \union {None}, mismatch' \in Tier \union {None},
           guardrail' \in Guardrails
    PROVE  HarvestInv'
<1>len. PICK len : len = Len(swings)
  OBVIOUS
<1>fl. PICK fl : fl = floor
  OBVIOUS
<1>1. /\ len \in Nat /\ DOMAIN swings = 1 .. len /\ fl \in 0 .. len
      /\ \A i \in DOMAIN swings : swings[i] \in SwingRecord
  BY <1>len, <1>fl, LenProperties, ElementOfSeq DEF HarvestInv, SwingsTyped
<1>2. floor' \in 0 .. len
  BY <1>1, <1>len, <1>fl
<1>3. SwingsTyped'
  BY <1>2, <1>len DEF HarvestInv, SwingsTyped
<1>4. Stretches'
  <2> SUFFICES ASSUME NEW i \in DOMAIN swings
               PROVE  /\ swings[i].at <= now' /\ swings[i].regime < i
                      /\ i > floor' <=> swings[i].regime = floor'
    BY DEF Stretches
  <2>1. swings[i].at <= now /\ swings[i].regime < i /\ (i > fl <=> swings[i].regime = fl)
    BY <1>fl DEF HarvestInv, Stretches
  <2>2. swings[i].at \in Nat /\ swings[i].regime \in Nat /\ i \in 1 .. len /\ now \in Nat
    BY <1>1 DEF SwingRecord, HarvestInv, SwingsTyped
  <2>3. swings[i].at <= now'
    BY <2>1, <2>2
  <2>4. CASE floor' = fl
    BY <2>1, <2>3, <2>4
  <2>5. CASE floor' = len
    BY <1>1, <2>1, <2>2, <2>3, <2>5
  <2> QED BY <1>fl, <1>len, <2>4, <2>5
<1>5. ASSUME NEW i \in DOMAIN swings' PROVE Backed(i)'
  BY DEF HarvestInv, Backed
<1>6. RowsFollow'
  BY DEF HarvestInv, RowsFollow
<1> QED BY <1>3, <1>4, <1>5, <1>6 DEF HarvestInv

LEMMA HarvestInvKept ==
    ASSUME HarvestInv, [SwingsNext]_harvestVars
    PROVE  HarvestInv'
<1>1. ASSUME NEW evidence \in Tier \union {None}, Swing(evidence)
      PROVE  HarvestInv'
  <2>1. /\ \E n, s : SwingEffect(n, s) /\ RowEffect(n, s)
        /\ mismatch' \in Tier \union {None} /\ UNCHANGED <<belief, guardrail, floor, now>>
    BY <1>1, SwingDoes
  <2>2. PICK n, s : SwingEffect(n, s) /\ RowEffect(n, s)
    BY <2>1
  <2> QED BY <2>1, <2>2, SwingKeeps
<1>t. /\ now \in Nat /\ floor \in {floor, Len(swings)} /\ belief \in HarvestTool \union {None}
      /\ mismatch \in Tier \union {None} /\ None \in Tier \union {None} /\ guardrail \in Guardrails
  BY DEF HarvestInv, SwingsTyped
<1>2. ASSUME NEW tool \in HarvestTool \union {None}, OnEquip(tool)
      PROVE  HarvestInv'
  <2>1. /\ UNCHANGED <<swings, swingRows, stale>> /\ now' = now /\ floor' = Len(swings)
        /\ guardrail' = guardrail /\ mismatch' = None /\ belief' \in {belief, tool}
    BY <1>2 DEF OnEquip, sessionVars
  <2>2. /\ now' \in Nat /\ now <= now' /\ floor' \in {floor, Len(swings)}
        /\ belief' \in HarvestTool \union {None} /\ mismatch' \in Tier \union {None}
        /\ guardrail' \in Guardrails
    BY <1>t, <2>1
  <2> QED BY <2>1, <2>2, PressKeeps
<1>6. CASE OnEquipUnsynced
  <2>1. /\ UNCHANGED <<swings, swingRows, stale>> /\ now' = now /\ floor' = floor
        /\ guardrail' = guardrail /\ mismatch' = mismatch /\ belief' = belief
    BY <1>6 DEF OnEquipUnsynced, sessionVars
  <2>2. /\ now' \in Nat /\ now <= now' /\ floor' \in {floor, Len(swings)}
        /\ belief' \in HarvestTool \union {None} /\ mismatch' \in Tier \union {None}
        /\ guardrail' \in Guardrails
    BY <1>t, <2>1
  <2> QED BY <2>1, <2>2, PressKeeps
<1>3. CASE ReloadGuardrail
  <2>1. /\ UNCHANGED <<swings, swingRows, stale>> /\ now' = now /\ floor' = floor
        /\ guardrail' \in Guardrails /\ mismatch' = mismatch /\ belief' = belief
    BY <1>3 DEF ReloadGuardrail, sessionVars
  <2>2. /\ now' \in Nat /\ now <= now' /\ floor' \in {floor, Len(swings)}
        /\ belief' \in HarvestTool \union {None} /\ mismatch' \in Tier \union {None}
        /\ guardrail' \in Guardrails
    BY <1>t, <2>1
  <2> QED BY <2>1, <2>2, PressKeeps
<1>4. CASE ElapseSwings
  <2>1. /\ UNCHANGED <<swings, swingRows, stale>> /\ now' = now + 1 /\ floor' = floor
        /\ guardrail' = guardrail /\ mismatch' = mismatch /\ belief' = belief
    BY <1>4 DEF ElapseSwings, Elapse, harvestOwn
  <2>2. /\ now' \in Nat /\ now <= now' /\ floor' \in {floor, Len(swings)}
        /\ belief' \in HarvestTool \union {None} /\ mismatch' \in Tier \union {None}
        /\ guardrail' \in Guardrails
    BY <1>t, <2>1
  <2> QED BY <2>1, <2>2, PressKeeps
<1>5. CASE UNCHANGED harvestVars
  <2>1. /\ UNCHANGED <<swings, swingRows, stale>> /\ now' = now /\ floor' = floor
        /\ guardrail' = guardrail /\ mismatch' = mismatch /\ belief' = belief
    BY <1>5 DEF harvestVars, harvestOwn, sessionVars
  <2>2. /\ now' \in Nat /\ now <= now' /\ floor' \in {floor, Len(swings)}
        /\ belief' \in HarvestTool \union {None} /\ mismatch' \in Tier \union {None}
        /\ guardrail' \in Guardrails
    BY <1>t, <2>1
  <2> QED BY <2>1, <2>2, PressKeeps
<1> QED BY <1>1, <1>2, <1>3, <1>4, <1>5, <1>6 DEF SwingsNext

\* Whatever the hotbar, the settings and the boards do, an inferred tier of a
\* harvesting swing is one a board of the same window proved, with no press
\* between them that re-syncs the belief (a press of a trifecta weapon, a healer
\* or a consumable does not), and rows agree with memory but for corrections
\* that were not written.
THEOREM InferredTiersAreBacked == SwingsSpec => []InferredIsBacked
<1>1. HarvestInv => InferredIsBacked
  BY DEF HarvestInv, Backed, RowsFollow, SwingsTyped, InferredIsBacked
<1> QED BY <1>1, HarvestInvStarts, HarvestInvKept, PTL DEF SwingsSpec

\* No correction of tool or tier changes a swing or a row with evidence of its
\* own or from before the last press that re-syncs the belief: a press of a
\* harvesting tool, or of a weapon outside trifecta mode, whichever other
\* presses came since.
THEOREM EvidenceIsLeftAlone == SwingsSpec => EvidenceStands
<1> DEFINE Kept ==
       /\ \A i \in DOMAIN swings :
             swings'[i] # swings[i] => ~Board(swings[i]) /\ swings[i].regime = floor
       /\ \A i \in DOMAIN swingRows :
             swingRows'[i] # swingRows[i] => ~Board(swingRows[i]) /\ swingRows[i].regime = floor
<1>1. ASSUME HarvestInv, SwingsNext PROVE Kept
  <2>1. ASSUME NEW evidence \in Tier \union {None}, Swing(evidence)
        PROVE  Kept
    <3>1. PICK n, s : SwingEffect(n, s) /\ RowEffect(n, s)
      BY <1>1, <2>1, SwingDoes
    <3>2. /\ \A i \in DOMAIN swings : swings'[i] # swings[i] => i \in Open
          /\ \A i \in DOMAIN swingRows : swingRows'[i] # swingRows[i] => i \in Open
      BY <3>1 DEF SwingEffect, RowEffect
    <3>3. \A i \in Open : ~Board(swings[i]) /\ swings[i].regime = floor
      BY <1>1 DEF HarvestInv, Stretches, Open
    <3>4. \A i \in DOMAIN swingRows : /\ Board(swingRows[i]) <=> Board(swings[i])
                                      /\ swingRows[i].regime = swings[i].regime
      BY <1>1 DEF HarvestInv, RowsFollow
    <3> QED BY <3>2, <3>3, <3>4
  <2>2. UNCHANGED <<swings, swingRows>> => Kept
    OBVIOUS
  <2>3. \/ UNCHANGED <<swings, swingRows>>
        \/ \E evidence \in Tier \union {None} : Swing(evidence)
    BY <1>1 DEF SwingsNext, OnEquip, OnEquipUnsynced, ReloadGuardrail, ElapseSwings, harvestOwn
  <2> QED BY <2>1, <2>2, <2>3
<1>2. HarvestInv /\ [SwingsNext]_harvestVars => [Kept]_harvestVars
  BY <1>1
<1> QED BY <1>2, HarvestInvStarts, HarvestInvKept, PTL DEF SwingsSpec, EvidenceStands

-----------------------------------------------------------------------------
(* Healing outputs and paid activations.                                   *)

IntentRecord == [healer : Healer, at : Int, closed : Int \union {None}]
UseRecord == [healer : Healer, at : Int, pressed : Int, closed : Int \union {None}, output : Int]
OutputRecord == [at : Int, amount : Amount, use : Int]

HealTyped ==
    /\ now \in Int
    /\ intent \in IntentRecord \union {None} /\ (intent # None => intent.closed = None)
    /\ recent \in IntentRecord \union {None}
    /\ uses \in Seq(UseRecord) /\ outputs \in Seq(OutputRecord)
    /\ lastUse \in [Healer -> Int \union {None}]
    /\ unpaid \subseteq DOMAIN outputs
    /\ \A e \in effects : e.use \in Int

CostsHeld == costRow = Len(uses) /\ (Live => cost = costRow)

\* A use was pressed, its output is no longer open, and the healer's last use
\* is this one or a later one.
UseStands(u) ==
    /\ uses[u].pressed <= uses[u].at
    /\ uses[u].closed # None => uses[u].at <= uses[u].closed + DeliveryTail
    /\ uses[u].output \in DOMAIN outputs \ unpaid
    /\ outputs[uses[u].output].at = uses[u].at
    /\ lastUse[uses[u].healer] \in Int /\ uses[u].at <= lastUse[uses[u].healer]

UsesApart(u, v) ==
    /\ uses[v].output # uses[u].output
    /\ uses[v].healer = uses[u].healer =>
          uses[v].at - uses[u].at \notin -(Reload - 1) .. Reload - 1

UsesStand ==
    /\ \A u \in DOMAIN uses : UseStands(u)
    /\ \A u, v \in DOMAIN uses : u # v => UsesApart(u, v)

HealInv == HealTyped /\ CostsHeld /\ UsesStand

\* Two uses of a healer are a reload apart when the second was ready.
LEMMA ReloadApart ==
    ASSUME NEW t \in Int, NEW last \in Int, NEW a \in Int, a <= last, t - last >= Reload
    PROVE  /\ t - a \notin -(Reload - 1) .. Reload - 1
           /\ a - t \notin -(Reload - 1) .. Reload - 1
           /\ a <= t /\ last <= t
<1>r. PICK r \in Nat : r = Reload
  BY HealingAssumption
<1>1. t - a >= r /\ a <= t /\ last <= t
  BY <1>r
<1> QED BY <1>r, <1>1

\* Outputs that were reported keep their time and, unless they were waiting,
\* stay apart from what waits.
OutputsKept ==
    /\ outputs' \in Seq(OutputRecord)
    /\ \A i \in DOMAIN outputs : i \in DOMAIN outputs' /\ outputs'[i].at = outputs[i].at
    /\ unpaid' \subseteq DOMAIN outputs'
    /\ \A i \in unpaid' : i \in unpaid \/ i \notin DOMAIN outputs

\* A decision that pays nothing leaves the uses as they are.
LEMMA NoUse ==
    ASSUME UsesStand, OutputsKept, UNCHANGED <<uses, lastUse>>
    PROVE  UsesStand'
<1>1. ASSUME NEW u \in DOMAIN uses PROVE UseStands(u)'
  <2>1. UseStands(u)
    BY DEF UsesStand
  <2>o. PICK o : o = uses[u].output
    OBVIOUS
  <2>2. o \in DOMAIN outputs /\ o \notin unpaid /\ outputs[o].at = uses[u].at
    BY <2>1, <2>o DEF UseStands
  <2>3. o \in DOMAIN outputs' /\ o \notin unpaid' /\ outputs'[o].at = uses[u].at
    BY <2>2 DEF OutputsKept
  <2> QED BY <2>1, <2>o, <2>3 DEF UseStands
<1>2. ASSUME NEW u \in DOMAIN uses, NEW v \in DOMAIN uses, u # v PROVE UsesApart(u, v)'
  BY <1>2 DEF UsesStand, UsesApart
<1> QED BY <1>1, <1>2 DEF UsesStand

\* What pays: a healer pressed in time that is ready, for an output that no use has.
Pays(it, o, t) ==
    /\ it \in IntentRecord /\ t \in Int /\ o \in Int
    /\ it.at <= t /\ (it.closed # None => t <= it.closed + DeliveryTail)
    /\ CooldownReady(it.healer, t)
    /\ o \in DOMAIN outputs' \ unpaid' /\ outputs'[o].at = t
    /\ o \in unpaid \/ o \notin DOMAIN outputs
    /\ Activation(it, o, t)

LEMMA UseJoins ==
    ASSUME HealInv, OutputsKept, NEW it, NEW o, NEW t, Pays(it, o, t)
    PROVE  /\ uses' \in Seq(UseRecord) /\ lastUse' \in [Healer -> Int \union {None}]
           /\ costRow' = Len(uses') /\ cost' = cost + 1 /\ costRow' = costRow + 1
           /\ UsesStand'
<1>h. PICK h \in Healer : h = it.healer
  BY DEF Pays, IntentRecord
<1>r. PICK r : r = [healer |-> it.healer, at |-> t, pressed |-> it.at, closed |-> it.closed, output |-> o]
  OBVIOUS
<1>1. /\ r \in UseRecord /\ r.healer = h /\ r.at = t /\ r.pressed = it.at /\ r.closed = it.closed
      /\ r.output = o /\ t \in Int
  BY <1>h, <1>r DEF Pays, IntentRecord, UseRecord
<1>n. PICK n : n = Len(uses)
  OBVIOUS
<1>2. /\ uses' = Append(uses, r) /\ lastUse' = [lastUse EXCEPT ![h] = t]
      /\ costRow' = costRow + 1 /\ cost' = cost + 1
  BY <1>h, <1>r DEF Pays, Activation
<1>3. uses \in Seq(UseRecord) /\ costRow = n /\ lastUse \in [Healer -> Int \union {None}]
  BY <1>n DEF HealInv, HealTyped, CostsHeld
<1>4. /\ uses' \in Seq(UseRecord) /\ n \in Nat /\ DOMAIN uses = 1 .. n /\ DOMAIN uses' = 1 .. n + 1
      /\ Len(uses') = n + 1 /\ uses'[n + 1] = r
      /\ \A u \in DOMAIN uses : uses'[u] = uses[u]
  <2>1. uses \in Seq(UseRecord) /\ r \in UseRecord
    BY <1>1, <1>3
  <2> QED BY <1>2, <1>n, <2>1, AppendRow
<1>5. /\ lastUse' \in [Healer -> Int \union {None}] /\ lastUse'[h] = t
      /\ \A g \in Healer \ {h} : lastUse'[g] = lastUse[g]
  BY <1>1, <1>2, <1>3, <1>h
<1>6. ASSUME NEW u \in DOMAIN uses
      PROVE  /\ UseStands(u) /\ uses[u] \in UseRecord /\ uses[u].output # o
             /\ uses[u].healer = h =>
                   /\ t - uses[u].at \notin -(Reload - 1) .. Reload - 1
                   /\ uses[u].at - t \notin -(Reload - 1) .. Reload - 1
                   /\ uses[u].at <= t
  <2>1. UseStands(u) /\ uses[u] \in UseRecord
    BY <1>3, ElementOfSeq DEF HealInv, UsesStand
  <2>2. uses[u].output # o
    BY <2>1 DEF Pays, UseStands
  <2>3. ASSUME uses[u].healer = h
        PROVE  /\ t - uses[u].at \notin -(Reload - 1) .. Reload - 1
               /\ uses[u].at - t \notin -(Reload - 1) .. Reload - 1
               /\ uses[u].at <= t
    <3>l. PICK last : last = lastUse[h]
      OBVIOUS
    <3>a. PICK a : a = uses[u].at
      OBVIOUS
    <3>1. last \in Int /\ a \in Int /\ a <= last
      BY <2>1, <2>3, <3>l, <3>a DEF UseStands, UseRecord
    <3>2. last # None
      BY <3>1, HealingAssumption
    <3>3. t - last >= Reload
      BY <1>h, <3>l, <3>2 DEF Pays, CooldownReady
    <3>4. /\ t - a \notin -(Reload - 1) .. Reload - 1
          /\ a - t \notin -(Reload - 1) .. Reload - 1 /\ a <= t
      BY <1>1, <3>1, <3>3, ReloadApart
    <3> QED BY <3>a, <3>4
  <2> QED BY <2>1, <2>2, <2>3
<1>7. ASSUME NEW u \in DOMAIN uses PROVE UseStands(u)'
  <2>o. PICK x : x = uses[u].output
    OBVIOUS
  <2>1. x \in DOMAIN outputs /\ x \notin unpaid /\ outputs[x].at = uses[u].at
    BY <1>6, <2>o DEF UseStands
  <2>2. x \in DOMAIN outputs' /\ x \notin unpaid' /\ outputs'[x].at = uses[u].at
    BY <2>1 DEF OutputsKept
  <2>3. uses'[u] = uses[u]
    BY <1>4
  <2>4. lastUse'[uses[u].healer] \in Int /\ uses[u].at <= lastUse'[uses[u].healer]
    <3>g. PICK g \in Healer : g = uses[u].healer
      BY <1>6 DEF UseRecord
    <3>1. CASE g = h
      BY <1>1, <1>5, <1>6, <3>g, <3>1
    <3>2. CASE g # h
      <4>1. lastUse[g] \in Int /\ uses[u].at <= lastUse[g]
        BY <1>6, <3>g DEF UseStands
      <4>2. lastUse'[g] = lastUse[g]
        BY <1>5, <3>g, <3>2
      <4> QED BY <3>g, <4>1, <4>2
    <3> QED BY <3>1, <3>2
  <2>5. /\ uses[u].pressed <= uses[u].at
        /\ uses[u].closed # None => uses[u].at <= uses[u].closed + DeliveryTail
    BY <1>6 DEF UseStands
  <2> QED BY <2>o, <2>2, <2>3, <2>4, <2>5 DEF UseStands
<1>8. UseStands(n + 1)'
  <2>1. /\ r.pressed <= r.at /\ (r.closed # None => r.at <= r.closed + DeliveryTail)
        /\ r.output \in DOMAIN outputs' \ unpaid' /\ outputs'[r.output].at = r.at
    BY <1>1 DEF Pays
  <2>2. lastUse'[r.healer] \in Int /\ r.at <= lastUse'[r.healer]
    BY <1>1, <1>5
  <2> QED BY <1>4, <2>1, <2>2 DEF UseStands
<1>9. \A u \in DOMAIN uses' : u \in DOMAIN uses \/ u = n + 1
  BY <1>4
<1>10. ASSUME NEW u \in DOMAIN uses', NEW v \in DOMAIN uses', u # v PROVE UsesApart(u, v)'
  <2>1. CASE u \in DOMAIN uses /\ v \in DOMAIN uses
    <3>1. UsesApart(u, v)
      BY <1>10, <2>1 DEF HealInv, UsesStand
    <3>2. uses'[u] = uses[u] /\ uses'[v] = uses[v]
      BY <1>4, <2>1
    <3> QED BY <3>1, <3>2 DEF UsesApart
  <2>2. CASE u = n + 1 /\ v \in DOMAIN uses
    <3>1. uses'[u] = r /\ uses'[v] = uses[v]
      BY <1>4, <2>2
    <3>2. uses[v].output # r.output
          /\ (uses[v].healer = r.healer => uses[v].at - r.at \notin -(Reload - 1) .. Reload - 1)
      BY <1>1, <1>6, <2>2
    <3> QED BY <3>1, <3>2 DEF UsesApart
  <2>3. CASE v = n + 1 /\ u \in DOMAIN uses
    <3>1. uses'[v] = r /\ uses'[u] = uses[u]
      BY <1>4, <2>3
    <3>2. r.output # uses[u].output
          /\ (r.healer = uses[u].healer => r.at - uses[u].at \notin -(Reload - 1) .. Reload - 1)
      BY <1>1, <1>6, <2>3
    <3> QED BY <3>1, <3>2 DEF UsesApart
  <2> QED BY <1>9, <1>10, <2>1, <2>2, <2>3
<1>11. UsesStand'
  BY <1>7, <1>8, <1>9, <1>10 DEF UsesStand
<1>12. costRow' = Len(uses')
  BY <1>2, <1>3, <1>4
<1> QED BY <1>2, <1>4, <1>5, <1>11, <1>12

\* The healer a heal at t may be paid for was pressed in time.
LEMMA CandidateInTime ==
    ASSUME HealTyped, NEW t \in Int, NEW it, it = Candidate(t), it # None
    PROVE  it \in IntentRecord /\ it.at <= t /\ (it.closed # None => t <= it.closed + DeliveryTail)
<1>1. CASE intent # None /\ intent.at <= t
  <2>1. it = intent
    BY <1>1 DEF Candidate
  <2> QED BY <1>1, <2>1 DEF HealTyped
<1>2. CASE ~(intent # None /\ intent.at <= t)
  <2>p. PICK late : late = Pruned(t).recent
    OBVIOUS
  <2>1. late = recent \/ late = None
    BY <2>p DEF Pruned
  <2>2. it = late /\ late.at <= t /\ t <= late.closed + DeliveryTail
    BY <1>2, <2>p DEF Candidate
  <2> QED BY <2>1, <2>2 DEF HealTyped
<1> QED BY <1>1, <1>2

\* What prune keeps was there before.
LEMMA PruneKeeps ==
    ASSUME HealTyped, NEW t
    PROVE  /\ Pruned(t).unpaid \subseteq unpaid /\ Pruned(t).effects \subseteq effects
           /\ Pruned(t).recent \in IntentRecord \union {None}
BY DEF Pruned, HealTyped

\* The state after a decision, from what it does to outputs, uses and intents.
LEMMA DecisionKeeps ==
    ASSUME HealInv, now' = now,
           intent' \in IntentRecord \union {None}, intent' # None => intent'.closed = None,
           recent' \in IntentRecord \union {None},
           \A e \in effects' : e.use \in Int,
           OutputsKept,
           uses' \in Seq(UseRecord), lastUse' \in [Healer -> Int \union {None}],
           UsesStand', costRow' = Len(uses'), Live' => cost' = costRow'
    PROVE  HealInv'
<1>1. HealTyped'
  BY DEF HealInv, HealTyped, OutputsKept
<1> QED BY <1>1 DEF HealInv, CostsHeld

\* A new output that may or may not go on waiting.
LEMMA OutputJoins ==
    ASSUME HealTyped, NEW r \in OutputRecord,
           outputs' = Append(outputs, r), unpaid' \subseteq unpaid \union {Len(outputs) + 1}
    PROVE  /\ OutputsKept
           /\ Len(outputs) + 1 \in DOMAIN outputs' /\ Len(outputs) + 1 \notin DOMAIN outputs
           /\ outputs'[Len(outputs) + 1] = r /\ Len(outputs) + 1 \in Int
<1>n. PICK n : n = Len(outputs)
  OBVIOUS
<1>1. /\ outputs' \in Seq(OutputRecord) /\ n \in Nat /\ DOMAIN outputs = 1 .. n
      /\ DOMAIN outputs' = 1 .. n + 1 /\ outputs'[n + 1] = r
      /\ \A i \in DOMAIN outputs : outputs'[i] = outputs[i]
  <2>1. outputs \in Seq(OutputRecord)
    BY DEF HealTyped
  <2> QED BY <1>n, <2>1, AppendRow
<1>2. n + 1 \in DOMAIN outputs' /\ n + 1 \notin DOMAIN outputs /\ n + 1 \in Int
  BY <1>1
<1>3. \A i \in DOMAIN outputs : i \in DOMAIN outputs'
  BY <1>1
<1>4. \A i \in unpaid' : (i \in unpaid \/ i \notin DOMAIN outputs) /\ i \in DOMAIN outputs'
  BY <1>n, <1>2, <1>3 DEF HealTyped
<1> QED BY <1>n, <1>1, <1>2, <1>3, <1>4 DEF OutputsKept

\* Outputs that stay as they are.
LEMMA OutputsStay ==
    ASSUME HealTyped, outputs' = outputs, unpaid' \subseteq unpaid
    PROVE  OutputsKept
BY DEF HealTyped, OutputsKept

LEMMA SelfHealKeeps ==
    ASSUME HealInv, NEW amount \in Amount, OnSelfHeal(amount)
    PROVE  HealInv'
<1>it. PICK it : it = Candidate(now)
  OBVIOUS
<1>tk. PICK ticking : ticking = MatchingEffects(amount, now)
  OBVIOUS
<1>o. PICK o : o = Len(outputs) + 1
  OBVIOUS
<1>p. PICK pays : pays = (LET direct == it # None /\ ActivationMatch(it.healer, amount)
                                                  /\ CooldownReady(it.healer, now)
                              fresh == direct /\ now - it.at <= DeliveryTail
                              capped == /\ it # None /\ ~DamageCorrelated(amount, now)
                                        /\ it.healer \in Direct /\ amount = "low"
                                        /\ CooldownReady(it.healer, now)
                          IN fresh \/ (ticking = {} /\ (direct \/ capped)))
  OBVIOUS
<1>1. /\ intent' = intent /\ now' = now /\ status' = status
      /\ \/ DecisionFails(now)
         \/ /\ pays
            /\ Activation(it, o, now)
            /\ outputs' = Append(outputs, [at |-> now, amount |-> amount, use |-> Len(uses) + 1])
            /\ effects' = Pruned(now).effects \union EffectOf(it, now)
            /\ unpaid' = Pruned(now).unpaid /\ recent' = Pruned(now).recent
         \/ /\ ~pays
            /\ outputs' = Append(outputs,
                  [at |-> now, amount |-> amount,
                   use |-> IF Cardinality(ticking) = 1
                           THEN (CHOOSE e \in ticking : TRUE).use ELSE 0])
            /\ effects' = Pruned(now).effects /\ recent' = Pruned(now).recent
            /\ unpaid' = Pruned(now).unpaid \union (IF ticking = {} THEN {o} ELSE {})
            /\ UNCHANGED <<costRow, uses, cost, lastUse>>
  BY <1>it, <1>tk, <1>o, <1>p DEF OnSelfHeal, sessionVars
<1>2. /\ HealTyped /\ now \in Int /\ Len(uses) \in Nat /\ Len(outputs) \in Nat
      /\ uses \in Seq(UseRecord) /\ lastUse \in [Healer -> Int \union {None}]
      /\ costRow = Len(uses) /\ (Live => cost = costRow) /\ (Live' <=> Live)
  BY <1>1, LenProperties DEF HealInv, HealTyped, CostsHeld, Live
<1>3. /\ Pruned(now).unpaid \subseteq unpaid /\ Pruned(now).effects \subseteq effects
      /\ Pruned(now).recent \in IntentRecord \union {None}
  BY <1>2, PruneKeeps
<1>4. intent' \in IntentRecord \union {None} /\ (intent' # None => intent'.closed = None)
  BY <1>1, <1>2 DEF HealTyped
<1>5. \A e \in effects : e.use \in Int
  BY <1>2 DEF HealTyped
<1>6. CASE DecisionFails(now)
  <2>1. /\ effects' = Pruned(now).effects /\ unpaid' = Pruned(now).unpaid
        /\ recent' = Pruned(now).recent
        /\ UNCHANGED <<lastUse, cost, costRow, uses, outputs>>
    BY <1>6 DEF DecisionFails, healTables
  <2>2. OutputsKept
    BY <1>2, <1>3, <2>1, OutputsStay
  <2>3. UsesStand'
    BY <2>1, <2>2, NoUse DEF HealInv
  <2>4. /\ recent' \in IntentRecord \union {None} /\ (\A e \in effects' : e.use \in Int)
        /\ uses' \in Seq(UseRecord) /\ lastUse' \in [Healer -> Int \union {None}]
        /\ costRow' = Len(uses') /\ (Live' => cost' = costRow')
    BY <1>2, <1>3, <1>5, <2>1
  <2> QED BY <1>1, <1>4, <2>2, <2>3, <2>4, DecisionKeeps
<1>7. CASE /\ pays
           /\ Activation(it, o, now)
           /\ outputs' = Append(outputs, [at |-> now, amount |-> amount, use |-> Len(uses) + 1])
           /\ effects' = Pruned(now).effects \union EffectOf(it, now)
           /\ unpaid' = Pruned(now).unpaid /\ recent' = Pruned(now).recent
  <2>r. PICK r : r = [at |-> now, amount |-> amount, use |-> Len(uses) + 1]
    OBVIOUS
  <2>1. r \in OutputRecord /\ r.at = now
    BY <1>2, <2>r DEF OutputRecord
  <2>2. outputs' = Append(outputs, r) /\ unpaid' \subseteq unpaid \union {Len(outputs) + 1}
    BY <1>3, <1>7, <2>r
  <2>3. /\ OutputsKept /\ o \in DOMAIN outputs' /\ o \notin DOMAIN outputs
        /\ outputs'[o] = r /\ o \in Int
    BY <1>2, <1>o, <2>1, <2>2, OutputJoins
  <2>4. it # None /\ CooldownReady(it.healer, now)
    BY <1>p, <1>7
  <2>5. it \in IntentRecord /\ it.at <= now /\ (it.closed # None => now <= it.closed + DeliveryTail)
    BY <1>2, <1>it, <2>4, CandidateInTime
  <2>6. o \notin unpaid'
    BY <1>2, <1>3, <1>7, <2>3 DEF HealTyped
  <2>7. Pays(it, o, now)
    BY <1>2, <1>7, <2>1, <2>3, <2>4, <2>5, <2>6 DEF Pays
  <2>8. /\ uses' \in Seq(UseRecord) /\ lastUse' \in [Healer -> Int \union {None}]
        /\ costRow' = Len(uses') /\ cost' = cost + 1 /\ costRow' = costRow + 1
        /\ UsesStand'
    BY <2>3, <2>7, UseJoins
  <2>9. \A e \in effects' : e.use \in Int
    BY <1>2, <1>3, <1>5, <1>7 DEF EffectOf
  <2>10. recent' \in IntentRecord \union {None} /\ (Live' => cost' = costRow')
    BY <1>2, <1>3, <1>7, <2>8
  <2> QED BY <1>1, <1>4, <2>3, <2>8, <2>9, <2>10, DecisionKeeps
<1>8. CASE /\ ~pays
           /\ outputs' = Append(outputs,
                 [at |-> now, amount |-> amount,
                  use |-> IF Cardinality(ticking) = 1
                          THEN (CHOOSE e \in ticking : TRUE).use ELSE 0])
           /\ effects' = Pruned(now).effects /\ recent' = Pruned(now).recent
           /\ unpaid' = Pruned(now).unpaid \union (IF ticking = {} THEN {o} ELSE {})
           /\ UNCHANGED <<costRow, uses, cost, lastUse>>
  <2> DEFINE use == IF Cardinality(ticking) = 1 THEN (CHOOSE e \in ticking : TRUE).use ELSE 0
  <2>1. use \in Int
    <3>1. ticking \subseteq effects
      BY <1>3, <1>tk DEF MatchingEffects
    <3>2. CASE Cardinality(ticking) = 1
      <4>1. ticking # {}
        BY <3>2, FS_EmptySet
      <4>2. (CHOOSE e \in ticking : TRUE) \in ticking
        BY <4>1
      <4> QED BY <1>5, <3>1, <3>2, <4>2
    <3> QED BY <3>2
  <2>0. outputs' = Append(outputs, [at |-> now, amount |-> amount, use |-> use])
    BY <1>8
  <2> HIDE DEF use
  <2>r. PICK r : r = [at |-> now, amount |-> amount, use |-> use]
    OBVIOUS
  <2>2. r \in OutputRecord
    BY <1>2, <2>1, <2>r DEF OutputRecord
  <2>3. outputs' = Append(outputs, r) /\ unpaid' \subseteq unpaid \union {Len(outputs) + 1}
    BY <1>3, <1>8, <1>o, <2>0, <2>r
  <2>4. OutputsKept
    BY <1>2, <2>2, <2>3, OutputJoins
  <2>5. UsesStand'
    BY <1>8, <2>4, NoUse DEF HealInv
  <2>6. /\ recent' \in IntentRecord \union {None} /\ (\A e \in effects' : e.use \in Int)
        /\ uses' \in Seq(UseRecord) /\ lastUse' \in [Healer -> Int \union {None}]
        /\ costRow' = Len(uses') /\ (Live' => cost' = costRow')
    BY <1>2, <1>3, <1>5, <1>8
  <2> QED BY <1>1, <1>4, <2>4, <2>5, <2>6, DecisionKeeps
<1> QED BY <1>1, <1>6, <1>7, <1>8

LEMMA PressHealerKeeps ==
    ASSUME HealInv, NEW healer \in Healer, NEW t \in Int, PressHealer(healer, t)
    PROVE  HealInv'
<1>it. PICK it : it = [healer |-> healer, at |-> t, closed |-> None]
  OBVIOUS
<1>w. PICK waiting : waiting = Explained(it)
  OBVIOUS
<1> DEFINE newest == CHOOSE x \in waiting : \A y \in waiting : y <= x
<1>1. /\ intent' = it /\ recent' = Pruned(t).recent /\ now' = now /\ status' = status
      /\ \/ /\ effects' = Pruned(t).effects /\ unpaid' = Pruned(t).unpaid
            /\ UNCHANGED <<cost, lastUse, healTables>>
         \/ /\ waiting # {}
            /\ Activation(it, newest, outputs[newest].at)
            /\ outputs' = [outputs EXCEPT ![newest].use = Len(uses) + 1]
            /\ effects' = Pruned(t).effects \union EffectOf(it, outputs[newest].at)
            /\ unpaid' = Pruned(t).unpaid \ {newest}
  BY <1>it, <1>w DEF PressHealer, sessionVars
<1>n. PICK n : n = newest
  OBVIOUS
<1>2. /\ HealTyped /\ now \in Int /\ Len(uses) \in Nat /\ Len(outputs) \in Nat
      /\ DOMAIN outputs = 1 .. Len(outputs) /\ outputs \in Seq(OutputRecord)
      /\ \A i \in DOMAIN outputs : outputs[i] \in OutputRecord
      /\ uses \in Seq(UseRecord) /\ lastUse \in [Healer -> Int \union {None}]
      /\ costRow = Len(uses) /\ (Live => cost = costRow) /\ (Live' <=> Live)
  BY <1>1, LenProperties, ElementOfSeq DEF HealInv, HealTyped, CostsHeld, Live
<1>3. /\ Pruned(t).unpaid \subseteq unpaid /\ Pruned(t).effects \subseteq effects
      /\ Pruned(t).recent \in IntentRecord \union {None}
  BY <1>2, PruneKeeps
<1>4. it \in IntentRecord /\ it.at = t /\ it.closed = None
  BY <1>it DEF IntentRecord
<1>5. \A e \in effects : e.use \in Int
  BY <1>2 DEF HealTyped
<1>6. CASE /\ effects' = Pruned(t).effects /\ unpaid' = Pruned(t).unpaid
           /\ UNCHANGED <<cost, lastUse, healTables>>
  <2>1. UNCHANGED <<cost, lastUse, costRow, uses, outputs>>
    BY <1>6 DEF healTables
  <2>2. OutputsKept
    BY <1>2, <1>3, <1>6, <2>1, OutputsStay
  <2>3. UsesStand'
    BY <2>1, <2>2, NoUse DEF HealInv
  <2>4. /\ recent' \in IntentRecord \union {None} /\ (\A e \in effects' : e.use \in Int)
        /\ uses' \in Seq(UseRecord) /\ lastUse' \in [Healer -> Int \union {None}]
        /\ costRow' = Len(uses') /\ (Live' => cost' = costRow')
        /\ intent' \in IntentRecord \union {None} /\ (intent' # None => intent'.closed = None)
    BY <1>1, <1>2, <1>3, <1>4, <1>5, <1>6, <2>1
  <2> QED BY <1>1, <2>2, <2>3, <2>4, DecisionKeeps
<1>7. CASE /\ waiting # {}
           /\ Activation(it, newest, outputs[newest].at)
           /\ outputs' = [outputs EXCEPT ![newest].use = Len(uses) + 1]
           /\ effects' = Pruned(t).effects \union EffectOf(it, outputs[newest].at)
           /\ unpaid' = Pruned(t).unpaid \ {newest}
  <2>1. waiting \subseteq unpaid /\ waiting \in SUBSET (1 .. Len(outputs))
    <3>1. waiting \subseteq Pruned(t).unpaid
      BY <1>4, <1>w DEF Explained
    <3>2. unpaid \subseteq DOMAIN outputs
      BY <1>2 DEF HealTyped
    <3> QED BY <1>2, <1>3, <3>1, <3>2
  <2>2. \E x \in waiting : \A y \in waiting : y <= x
    BY <1>2, <1>7, <2>1, MaxExists
  <2>3. newest \in waiting
    BY <2>2
  <2>4. n \in waiting /\ n \in unpaid /\ n \in DOMAIN outputs /\ n \in Int
    <3>1. n \in waiting
      BY <1>n, <2>3
    <3>2. n \in 1 .. Len(outputs)
      BY <2>1, <3>1
    <3> HIDE DEF newest
    <3> QED BY <1>2, <2>1, <3>1, <3>2
  <2>5. /\ Activation(it, n, outputs[n].at)
        /\ outputs' = [outputs EXCEPT ![n].use = Len(uses) + 1]
        /\ effects' = Pruned(t).effects \union EffectOf(it, outputs[n].at)
        /\ unpaid' = Pruned(t).unpaid \ {n}
    BY <1>7, <1>n
  <2> HIDE DEF newest
  <2>a. PICK a : a = outputs[n].at
    OBVIOUS
  <2>6. /\ t <= a /\ a - t <= DeliveryTail /\ CooldownReady(healer, a) /\ a \in Int
    BY <1>2, <1>w, <1>it, <2>4, <2>a DEF Explained, OutputRecord
  <2>old. PICK old \in OutputRecord : old = outputs[n]
    BY <1>2, <2>4
  <2>len. PICK len \in Nat : len = Len(uses)
    BY <1>2
  <2>new. PICK row : row = [old EXCEPT !.use = len + 1]
    OBVIOUS
  <2>row. row \in OutputRecord /\ row.at = a /\ row = [outputs[n] EXCEPT !.use = Len(uses) + 1]
    BY <2>old, <2>len, <2>new, <2>a DEF OutputRecord
  <2>7. /\ outputs' \in Seq(OutputRecord) /\ DOMAIN outputs' = DOMAIN outputs /\ outputs'[n] = row
        /\ \A j \in DOMAIN outputs : j # n => outputs'[j] = outputs[j]
    <3>1. outputs' = [outputs EXCEPT ![n] = row]
      BY <2>5, <2>row
    <3>2. outputs \in Seq(OutputRecord) /\ n \in DOMAIN outputs /\ row \in OutputRecord
      BY <1>2, <2>4, <2>row
    <3> QED BY <3>1, <3>2, ReplaceRow
  <2>8. OutputsKept
    <3>1. \A i \in DOMAIN outputs : i \in DOMAIN outputs' /\ outputs'[i].at = outputs[i].at
      BY <2>7, <2>row, <2>a
    <3>2. \A i \in unpaid' : i \in unpaid /\ i \in DOMAIN outputs'
      BY <1>2, <1>3, <2>5, <2>7 DEF HealTyped
    <3> QED BY <2>7, <3>1, <3>2 DEF OutputsKept
  <2>9. Pays(it, n, a)
    <3>1. it.healer = healer
      BY <1>it
    <3> QED BY <1>4, <2>4, <2>5, <2>6, <2>7, <2>row, <2>a, <3>1 DEF Pays
  <2>10. /\ uses' \in Seq(UseRecord) /\ lastUse' \in [Healer -> Int \union {None}]
         /\ costRow' = Len(uses') /\ cost' = cost + 1 /\ costRow' = costRow + 1
         /\ UsesStand'
    BY <2>8, <2>9, UseJoins
  <2>11. \A e \in effects' : e.use \in Int
    BY <1>2, <1>3, <1>5, <2>5 DEF EffectOf
  <2>12. /\ recent' \in IntentRecord \union {None} /\ (Live' => cost' = costRow')
         /\ intent' \in IntentRecord \union {None} /\ (intent' # None => intent'.closed = None)
    BY <1>1, <1>2, <1>3, <1>4, <2>10
  <2> QED BY <1>1, <2>8, <2>10, <2>11, <2>12, DecisionKeeps
<1> QED BY <1>1, <1>6, <1>7

LEMMA PressOtherKeeps ==
    ASSUME HealInv, NEW kind, NEW t \in Int, PressOther(kind, t)
    PROVE  HealInv'
<1>1. /\ intent' = None /\ (recent' = None \/ recent' = Closed(t)) /\ now' = now /\ status' = status
      /\ effects' = Pruned(t).effects /\ unpaid' = Pruned(t).unpaid
      /\ UNCHANGED <<lastUse, cost, costRow, uses, outputs>>
  BY DEF PressOther, sessionVars, healTables
<1>2. /\ HealTyped /\ uses \in Seq(UseRecord) /\ lastUse \in [Healer -> Int \union {None}]
      /\ costRow = Len(uses) /\ (Live => cost = costRow) /\ (Live' <=> Live)
  BY <1>1 DEF HealInv, HealTyped, CostsHeld, Live
<1>3. /\ Pruned(t).unpaid \subseteq unpaid /\ Pruned(t).effects \subseteq effects
      /\ Pruned(t).recent \in IntentRecord \union {None}
  BY <1>2, PruneKeeps
<1>4. Closed(t) \in IntentRecord \union {None}
  <2>1. intent \in IntentRecord => [intent EXCEPT !.closed = t] \in IntentRecord
    BY DEF IntentRecord
  <2> QED BY <1>2, <1>3, <2>1 DEF Closed, HealTyped
<1>5. OutputsKept
  BY <1>1, <1>2, <1>3, OutputsStay
<1>6. UsesStand'
  BY <1>1, <1>5, NoUse DEF HealInv
<1>7. \A e \in effects' : e.use \in Int
  BY <1>1, <1>2, <1>3 DEF HealTyped
<1>8. /\ intent' \in IntentRecord \union {None} /\ (intent' # None => intent'.closed = None)
      /\ recent' \in IntentRecord \union {None}
      /\ uses' \in Seq(UseRecord) /\ lastUse' \in [Healer -> Int \union {None}]
      /\ costRow' = Len(uses') /\ (Live' => cost' = costRow')
  BY <1>1, <1>2, <1>4
<1> QED BY <1>1, <1>5, <1>6, <1>7, <1>8, DecisionKeeps

\* The steps that leave uses and outputs alone; a stop writes the cost it holds.
LEMMA SessionStepKeeps ==
    ASSUME HealInv, now' \in Int,
           UNCHANGED <<intent, recent, effects, lastUse, unpaid, uses, outputs>>,
           \/ UNCHANGED <<costRow, cost>> /\ (Live' => Live)
           \/ Live /\ costRow' = cost /\ cost' = cost
    PROVE  HealInv'
<1>1. HealTyped'
  BY DEF HealInv, HealTyped
<1>2. CostsHeld'
  BY DEF HealInv, CostsHeld
<1>3. HealTyped /\ outputs' = outputs /\ unpaid' \subseteq unpaid
  BY DEF HealInv
<1>4. OutputsKept
  BY <1>3, OutputsStay
<1>5. UsesStand'
  BY <1>4, NoUse DEF HealInv
<1> QED BY <1>1, <1>2, <1>5 DEF HealInv

LEMMA HealInvStarts == HealingInit => HealInv
<1> SUFFICES ASSUME HealingInit PROVE HealInv
  OBVIOUS
<1>1. /\ now = 0 /\ intent = None /\ recent = None /\ effects = {} /\ unpaid = {}
      /\ lastUse = [h \in Healer |-> None] /\ cost = 0 /\ costRow = 0
      /\ uses = << >> /\ outputs = << >>
  BY DEF HealingInit, SessionInit
<1>2. DOMAIN uses = {} /\ Len(uses) = 0 /\ uses \in Seq(UseRecord) /\ outputs \in Seq(OutputRecord)
  BY <1>1
<1>3. lastUse \in [Healer -> Int \union {None}]
  BY <1>1
<1>4. HealTyped
  BY <1>1, <1>2, <1>3 DEF HealTyped
<1> QED BY <1>1, <1>2, <1>4 DEF HealInv, CostsHeld, UsesStand

LEMMA HealInvKept ==
    ASSUME HealInv, [HealingNext]_healVars
    PROVE  HealInv'
<1>n. now \in Int
  BY DEF HealInv, HealTyped
<1>1. CASE \E amount \in Amount : OnSelfHeal(amount)
  BY <1>1, SelfHealKeeps
<1>2. CASE \E healer \in Healer, t \in 0..MaxTime : PressHealer(healer, t)
  <2>1. PICK healer \in Healer, t \in 0..MaxTime : PressHealer(healer, t)
    BY <1>2
  <2>2. t \in Int
    BY <1>n, <2>1 DEF PressHealer
  <2> QED BY <2>1, <2>2, PressHealerKeeps
<1>3. CASE \E kind \in {"weapon", "other", "unprofiled"}, t \in 0..MaxTime : PressOther(kind, t)
  <2>1. PICK kind \in {"weapon", "other", "unprofiled"}, t \in 0..MaxTime : PressOther(kind, t)
    BY <1>3
  <2>2. t \in Int
    BY <1>n, <2>1 DEF PressOther
  <2> QED BY <2>1, <2>2, PressOtherKeeps
<1>4. CASE NoteDamage
  <2>1. /\ UNCHANGED <<intent, recent, effects, lastUse, unpaid, uses, outputs, costRow, cost>>
        /\ now' = now /\ status' = status
    BY <1>4 DEF NoteDamage, healTables, sessionVars
  <2> QED BY <1>n, <2>1, SessionStepKeeps DEF Live
<1>5. CASE StopHealing
  <2>1. /\ UNCHANGED <<intent, recent, effects, lastUse, unpaid, uses, outputs, cost>>
        /\ now' = now /\ Live /\ costRow' = cost
    BY <1>5 DEF StopHealing, Seal, runtime
  <2> QED BY <1>n, <2>1, SessionStepKeeps
<1>6. CASE CrashHealing \/ RecoverHealing \/ ElapseHealing
  <2>1. /\ UNCHANGED <<intent, recent, effects, lastUse, unpaid, uses, outputs, costRow, cost>>
        /\ now' \in Int /\ (Live' => Live)
    BY <1>n, <1>6 DEF CrashHealing, RecoverHealing, ElapseHealing, Crash, RecoverRow, Elapse,
                      runtime, healTables, Live
  <2> QED BY <2>1, SessionStepKeeps
<1>7. CASE UNCHANGED healVars
  <2>1. /\ UNCHANGED <<intent, recent, effects, lastUse, unpaid, uses, outputs, costRow, cost>>
        /\ now' = now /\ status' = status
    BY <1>7 DEF healVars, healOwn, runtime, healTables, sessionVars
  <2> QED BY <1>n, <2>1, SessionStepKeeps DEF Live
<1> QED BY <1>1, <1>2, <1>3, <1>4, <1>5, <1>6, <1>7 DEF HealingNext

\* In whatever order presses and heals arrive and whichever
\* transactions fail, the healing cost of a session is that of its uses, and
\* each use was pressed, is paid once and is a reload from the next.
THEOREM HealingStaysSound == HealingSpec => []HealsSound
<1>1. HealInv => HealsSound
  <2> SUFFICES ASSUME HealInv PROVE HealsSound
    OBVIOUS
  <2>1. HealCostIsUses
    BY LenProperties DEF HealInv, HealTyped, CostsHeld, HealCostIsUses
  <2>2. UsesArePressed
    BY DEF HealInv, UsesStand, UseStands, UsesApart, UsesArePressed
  <2> QED BY <2>1, <2>2 DEF HealsSound
<1> QED BY <1>1, HealInvStarts, HealInvKept, PTL DEF HealingSpec

-----------------------------------------------------------------------------
(* The skill trail and the codex.                                          *)

SkillTyped ==
    /\ instant \in Nat /\ lastRow \in Nat /\ rank \in Nat
    /\ IsFiniteSet(trail) /\ IsFiniteSet(entries)
    /\ gain = [stage |-> gain.stage, at |-> gain.at, old |-> gain.old, row |-> gain.row]
    /\ DOMAIN call = Claimer
    /\ \A c \in Claimer :
           /\ call[c] = [stage |-> call[c].stage, rank |-> call[c].rank]
           /\ call[c].rank \in 0 .. MaxRank

\* The trail has its anchor from the first scan on; ids are given out in order.
TrailHolds ==
    /\ Cardinality(Sourced("scan")) <= 1
    /\ trail # {} => Sourced("scan") # {}
    /\ \A r \in trail : r.id \in Nat \ {0} /\ r.id <= lastRow /\ r.id \notin archive
    /\ \A r, s \in trail : r.id = s.id => r = s
    /\ \A a \in archive : a \in Nat /\ a <= lastRow

\* A priced gain has its point, also between the write of the point and its own.
GainsHold ==
    /\ \A g \in gainRows : g.priced =>
           \E r \in Sourced("chatlog") : r.id = g.row /\ r.at = g.at
    /\ gain.stage = "read" => gain.old = NoLevel
    /\ gain.stage = "append" => trail # {}
    /\ gain.stage = "record" /\ gain.old # NoLevel =>
           \E r \in Sourced("chatlog") : r.id = gain.row /\ r.at = gain.at

RankEntries == {e \in entries : e.kind = "rank"}

CodexAt(t) == {r \in trail : r.source = "codex" /\ r.at = t}
PricedAt(t) == {e \in entries : e.priced /\ e.at = t}

\* The order in which claims can be taken back: the highest first.
Above(e, f) == \/ e.kind = "mastery" /\ f.kind = "rank"
               \/ e.kind = f.kind /\ e.rank > f.rank

EntriesTyped ==
    /\ \A e \in entries : /\ e.kind \in {"rank", "mastery"} /\ e.rank \in Nat
                          /\ e.at \in Nat /\ e.at <= instant /\ e.priced \in BOOLEAN
    /\ \A e \in entries : e.priced => trail # {}
    /\ \A r \in Sourced("codex") : r.at \in Nat /\ r.at <= instant

\* Entries numbered from 1 to n without a gap or a tie.
Numbered(E, n) ==
    /\ \A e \in E : e.rank \in 1 .. n
    /\ \A k \in 1 .. n : \E e \in E : e.rank = k
    /\ \A e, f \in E : e.rank = f.rank => e = f
    /\ Cardinality(E) = n

MasteriesHold == Numbered(Masteries, Cardinality(Masteries))

\* While the rank was not set by hand the claims are a stack: those that found
\* no trail are below those that did, so taking the top one back never takes
\* the point of another.
StackHolds ==
    /\ Numbered(RankEntries, rank)
    /\ Masteries # {} => rank = MaxRank
    /\ rank <= MaxRank
    /\ \A t \in Nat : Cardinality(CodexAt(t)) = Cardinality(PricedAt(t))
    /\ \A e, f \in entries : ~e.priced /\ f.priced => ~Above(e, f)

SkillInv ==
    /\ SkillTyped /\ TrailHolds /\ GainsHold /\ EntriesTyped /\ MasteriesHold
    /\ moved \in BOOLEAN /\ (~moved => StackHolds)

-----------------------------------------------------------------------------
(* Numbered sets and counted points.                                       *)

LEMMA NumberedGrows ==
    ASSUME NEW E, IsFiniteSet(E), NEW n \in Nat, Numbered(E, n), NEW x, x.rank = n + 1
    PROVE  x \notin E /\ Numbered(E \union {x}, n + 1)
<1>1. x \notin E
  BY DEF Numbered
<1>2. Cardinality(E \union {x}) = n + 1
  BY <1>1, FS_AddElement DEF Numbered
<1>3. \A e \in E \union {x} : e.rank \in 1 .. n + 1
  BY DEF Numbered
<1>4. \A k \in 1 .. n + 1 : \E e \in E \union {x} : e.rank = k
  <2> SUFFICES ASSUME NEW k \in 1 .. n + 1 PROVE \E e \in E \union {x} : e.rank = k
    OBVIOUS
  <2>1. CASE k = n + 1
    BY <2>1
  <2>2. CASE k # n + 1
    <3>1. k \in 1 .. n
      BY <2>2
    <3> QED BY <3>1 DEF Numbered
  <2> QED BY <2>1, <2>2
<1>5. \A e, f \in E \union {x} : e.rank = f.rank => e = f
  <2>1. \A e \in E : e.rank # n + 1
    BY DEF Numbered
  <2> QED BY <2>1 DEF Numbered
<1> QED BY <1>1, <1>2, <1>3, <1>4, <1>5 DEF Numbered

LEMMA NumberedShrinks ==
    ASSUME NEW E, IsFiniteSet(E), NEW n \in Nat, Numbered(E, n), NEW x \in E,
           \A e \in E : e.rank <= x.rank
    PROVE  /\ x.rank = n /\ n - 1 \in Nat
           /\ \A e \in E \ {x} : e.rank < x.rank
           /\ Numbered(E \ {x}, n - 1)
<1>1. x.rank = n /\ n # 0
  <2>1. x.rank \in 1 .. n
    BY DEF Numbered
  <2>2. n \in 1 .. n
    BY <2>1
  <2>3. PICK e \in E : e.rank = n
    BY <2>2 DEF Numbered
  <2> QED BY <2>1, <2>3
<1>2. Cardinality(E \ {x}) = n - 1
  BY FS_RemoveElement DEF Numbered
<1>3. \A e \in E \ {x} : e.rank \in 1 .. n - 1
  <2> SUFFICES ASSUME NEW e \in E \ {x} PROVE e.rank \in 1 .. n - 1
    OBVIOUS
  <2>1. e.rank \in 1 .. n /\ e.rank # n
    BY <1>1 DEF Numbered
  <2> QED BY <2>1
<1>4. \A k \in 1 .. n - 1 : \E e \in E \ {x} : e.rank = k
  <2> SUFFICES ASSUME NEW k \in 1 .. n - 1 PROVE \E e \in E \ {x} : e.rank = k
    OBVIOUS
  <2>1. k \in 1 .. n /\ k # n
    OBVIOUS
  <2>2. PICK e \in E : e.rank = k
    BY <2>1 DEF Numbered
  <2> QED BY <1>1, <2>1, <2>2
<1>5. \A e, f \in E \ {x} : e.rank = f.rank => e = f
  BY DEF Numbered
<1>6. \A e \in E \ {x} : e.rank < x.rank
  BY <1>1, <1>3
<1> QED BY <1>1, <1>2, <1>3, <1>4, <1>5, <1>6 DEF Numbered

\* What the books of the codex say of numbers, as SkillLedger states it.
LEMMA NumberedRanks ==
    ASSUME NEW E, NEW n, Numbered(E, n)
    PROVE  {e.rank : e \in E} = 1 .. n /\ Cardinality(E) = n
BY DEF Numbered

LEMMA SetsAreFinite ==
    ASSUME SkillTyped
    PROVE  /\ IsFiniteSet(Masteries) /\ IsFiniteSet(RankEntries)
           /\ Cardinality(Masteries) \in Nat
           /\ \A t : IsFiniteSet(CodexAt(t)) /\ IsFiniteSet(PricedAt(t))
           /\ \A t : Cardinality(CodexAt(t)) \in Nat /\ Cardinality(PricedAt(t)) \in Nat
<1>1. Masteries \in SUBSET entries /\ RankEntries \in SUBSET entries
  BY DEF Masteries, RankEntries
<1>2. IsFiniteSet(Masteries) /\ IsFiniteSet(RankEntries)
  BY <1>1, FS_Subset DEF SkillTyped
<1>3. ASSUME NEW t PROVE IsFiniteSet(CodexAt(t)) /\ IsFiniteSet(PricedAt(t))
  <2>1. CodexAt(t) \in SUBSET trail /\ PricedAt(t) \in SUBSET entries
    BY DEF CodexAt, PricedAt
  <2> QED BY <2>1, FS_Subset DEF SkillTyped
<1>4. ASSUME NEW t PROVE Cardinality(CodexAt(t)) \in Nat /\ Cardinality(PricedAt(t)) \in Nat
  BY <1>3, FS_CardinalityType
<1>5. Cardinality(Masteries) \in Nat
  BY <1>2, FS_CardinalityType
<1> QED BY <1>2, <1>3, <1>4, <1>5

\* A point and a priced claim are added at one instant.
LEMMA CountsGrow ==
    ASSUME SkillTyped, \A t \in Nat : Cardinality(CodexAt(t)) = Cardinality(PricedAt(t)),
           NEW row, row \notin trail, row.source = "codex", trail' = trail \union {row},
           NEW e, e \notin entries, e.priced = TRUE, e.at = row.at, entries' = entries \union {e}
    PROVE  \A t \in Nat : Cardinality(CodexAt(t)') = Cardinality(PricedAt(t)')
<1> SUFFICES ASSUME NEW t \in Nat PROVE Cardinality(CodexAt(t)') = Cardinality(PricedAt(t)')
  OBVIOUS
<1>1. IsFiniteSet(CodexAt(t)) /\ IsFiniteSet(PricedAt(t)) /\ Cardinality(CodexAt(t)) = Cardinality(PricedAt(t))
  BY SetsAreFinite
<1>2. CASE row.at = t
  <2>1. CodexAt(t)' = CodexAt(t) \union {row} /\ PricedAt(t)' = PricedAt(t) \union {e}
    BY <1>2 DEF CodexAt, PricedAt
  <2>2. row \notin CodexAt(t) /\ e \notin PricedAt(t)
    BY DEF CodexAt, PricedAt
  <2>3. Cardinality(CodexAt(t) \union {row}) = Cardinality(CodexAt(t)) + 1
    BY <1>1, <2>2, FS_AddElement
  <2>4. Cardinality(PricedAt(t) \union {e}) = Cardinality(PricedAt(t)) + 1
    BY <1>1, <2>2, FS_AddElement
  <2> QED BY <1>1, <2>1, <2>3, <2>4
<1>3. CASE row.at # t
  <2>1. CodexAt(t)' = CodexAt(t) /\ PricedAt(t)' = PricedAt(t)
    BY <1>3 DEF CodexAt, PricedAt
  <2> QED BY <1>1, <2>1
<1> QED BY <1>2, <1>3

\* A priced claim is taken back with a point of its instant.
LEMMA CountsShrink ==
    ASSUME SkillTyped, \A t \in Nat : Cardinality(CodexAt(t)) = Cardinality(PricedAt(t)),
           NEW row \in trail, row.source = "codex", trail' = trail \ {row},
           NEW e \in entries, e.priced = TRUE, e.at = row.at, entries' = entries \ {e}
    PROVE  \A t \in Nat : Cardinality(CodexAt(t)') = Cardinality(PricedAt(t)')
<1> SUFFICES ASSUME NEW t \in Nat PROVE Cardinality(CodexAt(t)') = Cardinality(PricedAt(t)')
  OBVIOUS
<1>1. IsFiniteSet(CodexAt(t)) /\ IsFiniteSet(PricedAt(t)) /\ Cardinality(CodexAt(t)) = Cardinality(PricedAt(t))
  BY SetsAreFinite
<1>2. CASE row.at = t
  <2>1. CodexAt(t)' = CodexAt(t) \ {row} /\ PricedAt(t)' = PricedAt(t) \ {e}
    BY DEF CodexAt, PricedAt
  <2>2. row \in CodexAt(t) /\ e \in PricedAt(t)
    BY <1>2 DEF CodexAt, PricedAt
  <2>3. Cardinality(CodexAt(t) \ {row}) = Cardinality(CodexAt(t)) - 1
    BY <1>1, <2>2, FS_RemoveElement
  <2>4. Cardinality(PricedAt(t) \ {e}) = Cardinality(PricedAt(t)) - 1
    BY <1>1, <2>2, FS_RemoveElement
  <2> QED BY <1>1, <2>1, <2>3, <2>4
<1>3. CASE row.at # t
  <2>1. CodexAt(t)' = CodexAt(t) /\ PricedAt(t)' = PricedAt(t)
    BY <1>3 DEF CodexAt, PricedAt
  <2> QED BY <1>1, <2>1
<1> QED BY <1>2, <1>3

\* A reversal takes the newest point of the claim's instant, if there is one.
LEMMA ReversalTakesOne ==
    ASSUME SkillTyped, TrailHolds, NEW claim
    PROVE  /\ CodexAt(claim.at) = {} => PricedBy(claim) = {}
           /\ CodexAt(claim.at) # {} =>
                 \E row \in CodexAt(claim.at) : PricedBy(claim) = {row}
           /\ PricedBy(claim) \subseteq CodexAt(claim.at)
<1>t. PICK tied : tied = CodexAt(claim.at)
  OBVIOUS
<1>1. PricedBy(claim) = {r \in tied : \A s \in tied : s.id <= r.id}
  BY <1>t DEF PricedBy, CodexAt
<1>2. ASSUME tied # {} PROVE \E row \in tied : PricedBy(claim) = {row}
  <2>1. \A r \in tied : r.id \in Nat \ {0} /\ r.id <= lastRow
    BY <1>t DEF CodexAt, TrailHolds
  <2>2. \A r, s \in tied : r.id = s.id => r = s
    BY <1>t DEF CodexAt, TrailHolds
  <2>ids. PICK ids : ids = {r.id : r \in tied}
    OBVIOUS
  <2>last. PICK last \in Nat : last = lastRow
    BY DEF SkillTyped
  <2>3. ids \in SUBSET (1 .. last) /\ ids # {}
    BY <1>2, <2>1, <2>ids, <2>last
  <2>4. PICK x \in ids : \A y \in ids : y <= x
    BY <2>3, MaxExists
  <2>5. PICK row \in tied : row.id = x
    BY <2>4, <2>ids
  <2>6. \A s \in tied : s.id <= row.id
    BY <2>4, <2>5, <2>ids
  <2>7. ASSUME NEW r \in tied, \A s \in tied : s.id <= r.id PROVE r = row
    <3>1. r.id <= row.id /\ row.id <= r.id
      BY <2>5, <2>6, <2>7
    <3>2. r.id \in Nat /\ row.id \in Nat
      BY <2>1, <2>5, <2>7
    <3>3. r.id = row.id
      BY <3>1, <3>2
    <3> QED BY <2>2, <2>5, <2>7, <3>3
  <2> QED BY <1>1, <2>5, <2>6, <2>7
<1> QED BY <1>t, <1>1, <1>2

-----------------------------------------------------------------------------
(* Writes to the trail.                                                    *)

\* A point is inserted, over what an archived anchor left.
LEMMA InsertHolds ==
    ASSUME SkillTyped, TrailHolds, NEW old \in SUBSET trail, NEW row,
           row.id = lastRow + 1, trail' = old \union {row}, lastRow' = lastRow + 1,
           archive' = archive \union {r.id : r \in trail \ old},
           \/ row.source # "scan" /\ old = trail /\ trail # {}
           \/ row.source = "scan" /\ \A r \in old : r.source # "scan"
    PROVE  /\ TrailHolds' /\ IsFiniteSet(trail') /\ lastRow' \in Nat /\ trail' # {}
           /\ row \notin trail
<1>l. PICK last \in Nat : last = lastRow
  BY DEF SkillTyped
<1>1. IsFiniteSet(old)
  BY FS_Subset DEF SkillTyped
<1>2. IsFiniteSet(trail')
  BY <1>1, FS_AddElement
<1>3. \A r \in trail : r.id \in Nat \ {0} /\ r.id <= last /\ r.id # last + 1
  BY <1>l DEF TrailHolds
<1>4. row \notin trail
  BY <1>l, <1>3
<1>5. Cardinality(Sourced("scan")') <= 1 /\ Sourced("scan")' # {}
  <2>1. CASE row.source # "scan" /\ old = trail /\ trail # {}
    <3>1. Sourced("scan")' = Sourced("scan")
      BY <2>1 DEF Sourced
    <3> QED BY <2>1, <3>1 DEF TrailHolds
  <2>2. CASE row.source = "scan" /\ \A r \in old : r.source # "scan"
    <3>1. Sourced("scan")' = {row}
      BY <2>2 DEF Sourced
    <3>2. Cardinality({row}) = 1 /\ {row} # {}
      BY FS_Singleton
    <3> QED BY <3>1, <3>2
  <2> QED BY <2>1, <2>2
<1>6. \A r \in trail' : r.id \in Nat \ {0} /\ r.id <= lastRow' /\ r.id \notin archive'
  <2> SUFFICES ASSUME NEW r \in trail'
               PROVE  r.id \in Nat \ {0} /\ r.id <= last + 1 /\ r.id \notin archive'
    BY <1>l
  <2>1. CASE r \in old
    <3>1. r \in trail /\ r.id \notin archive
      BY <2>1 DEF TrailHolds
    <3>2. \A s \in trail \ old : s.id # r.id
      BY <2>1, <3>1 DEF TrailHolds
    <3> QED BY <1>3, <3>1, <3>2
  <2>2. CASE r = row
    <3>1. \A a \in archive' : a # last + 1
      BY <1>l, <1>3 DEF TrailHolds
    <3> QED BY <1>l, <2>2, <3>1
  <2> QED BY <2>1, <2>2
<1>7. \A r, s \in trail' : r.id = s.id => r = s
  <2>1. \A r \in old : r.id # row.id /\ r \in trail
    BY <1>l, <1>3
  <2> QED BY <2>1 DEF TrailHolds
<1>8. \A a \in archive' : a \in Nat /\ a <= lastRow'
  <2> SUFFICES ASSUME NEW a \in archive' PROVE a \in Nat /\ a <= last + 1
    BY <1>l
  <2>1. a \in Nat /\ a <= last
    BY <1>l, <1>3 DEF TrailHolds
  <2> QED BY <2>1
<1>9. trail' # {} /\ lastRow' \in Nat
  BY <1>l
<1> QED BY <1>2, <1>4, <1>5, <1>6, <1>7, <1>8, <1>9 DEF TrailHolds

\* A reversal takes points of the codex only.
LEMMA RevertHolds ==
    ASSUME SkillTyped, TrailHolds, NEW claim, NEW gone, Revert(claim, gone)
    PROVE  /\ TrailHolds' /\ IsFiniteSet(trail') /\ trail' = trail \ PricedBy(claim)
           /\ (trail # {} => trail' # {}) /\ trail' \subseteq trail
           /\ entries' = entries \ gone /\ UNCHANGED <<archive, lastRow>>
           /\ \A r \in trail : r.source # "codex" => r \in trail'
<1>1. trail' = trail \ PricedBy(claim) /\ entries' = entries \ gone /\ UNCHANGED <<archive, lastRow>>
  BY DEF Revert
<1>2. \A r \in PricedBy(claim) : r.source = "codex"
  BY ReversalTakesOne DEF CodexAt
<1>3. trail' \in SUBSET trail
  BY <1>1
<1>4. IsFiniteSet(trail')
  BY <1>3, FS_Subset DEF SkillTyped
<1>5. \A r \in trail : r.source # "codex" => r \in trail'
  BY <1>1, <1>2
<1>6. Sourced("scan")' = Sourced("scan")
  BY <1>3, <1>5 DEF Sourced
<1>7. trail # {} => trail' # {}
  <2> SUFFICES ASSUME trail # {} PROVE trail' # {}
    OBVIOUS
  <2>1. PICK r \in trail : r.source = "scan"
    BY DEF TrailHolds, Sourced
  <2> QED BY <1>5, <2>1
<1>8. TrailHolds'
  BY <1>1, <1>3, <1>6 DEF TrailHolds
<1> QED BY <1>1, <1>3, <1>4, <1>5, <1>7, <1>8

\* Gains keep their points as long as points of the log stay and a gain under
\* way stays where it is.
LEMMA GainsStay ==
    ASSUME GainsHold, gain' = gain, gainRows' = gainRows, trail # {} => trail' # {},
           \A r \in trail : r.source = "chatlog" => r \in trail'
    PROVE  GainsHold'
<1>1. \A r \in Sourced("chatlog") : r \in Sourced("chatlog")'
  BY DEF Sourced
<1> QED BY <1>1 DEF GainsHold

-----------------------------------------------------------------------------
(* A claim, of a rank or a mastery.                                        *)

LEMMA ClaimHolds ==
    ASSUME SkillInv, NEW kind \in {"rank", "mastery"}, NEW number \in Nat, Claim(kind, number),
           UNCHANGED <<instant, gain, gainRows>>
    PROVE  /\ TrailHolds' /\ GainsHold' /\ EntriesTyped'
           /\ IsFiniteSet(trail') /\ IsFiniteSet(entries') /\ lastRow' \in Nat
           /\ \E e : /\ e.kind = kind /\ e.rank = number /\ entries' = entries \union {e}
                     /\ ~e.priced => \A f \in entries : ~f.priced
                     /\ ( /\ e \notin entries
                          /\ \A t \in Nat : Cardinality(CodexAt(t)) = Cardinality(PricedAt(t)) )
                        => \A t \in Nat : Cardinality(CodexAt(t)') = Cardinality(PricedAt(t)')
<1>p. PICK pointed \in BOOLEAN : pointed = (trail # {})
  OBVIOUS
<1>e. PICK e : e = [kind |-> kind, rank |-> number, at |-> instant, priced |-> pointed]
  OBVIOUS
<1>r. PICK row : row = [id |-> lastRow + 1, source |-> "codex", at |-> instant, level |-> Level + 1]
  OBVIOUS
<1>1. /\ entries' = entries \union {e} /\ e.kind = kind /\ e.rank = number /\ e.at = instant
      /\ e.priced = pointed
  BY <1>p, <1>e DEF Claim
<1>2. /\ SkillTyped /\ TrailHolds /\ GainsHold /\ EntriesTyped /\ instant \in Nat /\ lastRow \in Nat
  BY DEF SkillInv, SkillTyped
<1>3. IsFiniteSet(entries')
  BY <1>1, <1>2, FS_AddElement DEF SkillTyped
<1>4. CASE trail = {}
  <2>1. UNCHANGED <<trail, archive, lastRow>> /\ pointed = FALSE
    BY <1>p, <1>4 DEF Claim, trailVars
  <2>2. TrailHolds' /\ IsFiniteSet(trail') /\ lastRow' \in Nat
    BY <1>2, <2>1 DEF TrailHolds, Sourced, SkillTyped
  <2>3. GainsHold'
    BY <1>2, <2>1 DEF GainsHold, Sourced
  <2>4. EntriesTyped'
    <3>1. \A f \in entries' : /\ f.kind \in {"rank", "mastery"} /\ f.rank \in Nat
                              /\ f.at \in Nat /\ f.at <= instant' /\ f.priced \in BOOLEAN
                              /\ f.priced => trail' # {}
      BY <1>1, <1>2, <2>1 DEF EntriesTyped
    <3>2. \A r \in Sourced("codex")' : r.at \in Nat /\ r.at <= instant'
      BY <1>2, <2>1 DEF EntriesTyped, Sourced
    <3> QED BY <3>1, <3>2 DEF EntriesTyped
  <2>5. \A f \in entries : ~f.priced
    BY <1>2, <1>4 DEF EntriesTyped
  <2>6. \A t \in Nat : CodexAt(t)' = CodexAt(t) /\ PricedAt(t)' = PricedAt(t)
    BY <1>1, <2>1 DEF CodexAt, PricedAt
  <2> QED BY <1>1, <1>3, <2>2, <2>3, <2>4, <2>5, <2>6
<1>5. CASE trail # {}
  <2>1. /\ trail' = trail \union {row} /\ lastRow' = lastRow + 1 /\ archive' = archive
        /\ pointed = TRUE
    BY <1>p, <1>r, <1>5 DEF Claim, Insert
  <2>2. row.id = lastRow + 1 /\ row.source = "codex" /\ row.at = instant
    BY <1>r
  <2>3. /\ trail \in SUBSET trail /\ archive' = archive \union {r.id : r \in trail \ trail}
        /\ row.source # "scan"
    BY <2>1, <2>2
  <2>4. /\ TrailHolds' /\ IsFiniteSet(trail') /\ lastRow' \in Nat /\ trail' # {}
        /\ row \notin trail
    BY <1>2, <1>5, <2>1, <2>2, <2>3, InsertHolds
  <2>5. GainsHold'
    BY <1>2, <2>1, <2>4, GainsStay
  <2>6. EntriesTyped'
    <3>1. \A f \in entries' : /\ f.kind \in {"rank", "mastery"} /\ f.rank \in Nat
                              /\ f.at \in Nat /\ f.at <= instant' /\ f.priced \in BOOLEAN
                              /\ f.priced => trail' # {}
      BY <1>1, <1>2, <2>4 DEF EntriesTyped
    <3>2. \A r \in Sourced("codex")' : r.at \in Nat /\ r.at <= instant'
      BY <1>2, <2>1, <2>2 DEF EntriesTyped, Sourced
    <3> QED BY <3>1, <3>2 DEF EntriesTyped
  <2>7. ASSUME e \notin entries,
               \A t \in Nat : Cardinality(CodexAt(t)) = Cardinality(PricedAt(t))
        PROVE  \A t \in Nat : Cardinality(CodexAt(t)') = Cardinality(PricedAt(t)')
    <3>1. e.priced = TRUE /\ e.at = row.at
      BY <1>1, <2>1, <2>2
    <3> QED BY <1>1, <1>2, <2>1, <2>2, <2>4, <2>7, <3>1, CountsGrow
  <2>8. e.priced
    BY <1>1, <2>1
  <2> QED BY <1>1, <1>3, <2>4, <2>5, <2>6, <2>7, <2>8
<1> QED BY <1>4, <1>5

\* One call of the codex moves on; the others stay.
LEMMA CallMoves ==
    ASSUME SkillTyped, NEW c \in Claimer, NEW stage, NEW number \in 0 .. MaxRank,
           call' = [call EXCEPT ![c] = [stage |-> stage, rank |-> number]]
    PROVE  /\ DOMAIN call' = Claimer
           /\ \A d \in Claimer : /\ call'[d] = [stage |-> call'[d].stage, rank |-> call'[d].rank]
                                 /\ call'[d].rank \in 0 .. MaxRank
<1>1. DOMAIN call' = Claimer
  BY DEF SkillTyped
<1>2. ASSUME NEW d \in Claimer
      PROVE  /\ call'[d] = [stage |-> call'[d].stage, rank |-> call'[d].rank]
             /\ call'[d].rank \in 0 .. MaxRank
  <2>1. CASE d = c
    <3>1. call'[d] = [stage |-> stage, rank |-> number]
      BY <2>1 DEF SkillTyped
    <3> QED BY <3>1
  <2>2. CASE d # c
    <3>1. call'[d] = call[d]
      BY <2>2 DEF SkillTyped
    <3> QED BY <3>1 DEF SkillTyped
  <2> QED BY <2>1, <2>2
<1> QED BY <1>1, <1>2

\* A claim that advances the rank finds no mastery above it and is the new top.
LEMMA ClaimRankKeeps ==
    ASSUME SkillInv, NEW c \in Claimer, ClaimRank(c)
    PROVE  SkillInv'
<1>1. /\ SkillTyped /\ TrailHolds /\ GainsHold /\ EntriesTyped /\ MasteriesHold
      /\ moved \in BOOLEAN /\ (~moved => StackHolds)
      /\ UNCHANGED <<instant, gain, gainRows, moved>>
  BY DEF SkillInv, ClaimRank
<1>n. PICK number : number = call[c].rank
  OBVIOUS
<1>s. PICK stage : stage = call[c].stage
  OBVIOUS
<1>2. /\ number \in 0 .. MaxRank /\ call[c] = [stage |-> stage, rank |-> number]
      /\ number \in Nat /\ MaxRank \in Nat
  BY <1>1, <1>n, <1>s, SkillAssumption DEF SkillTyped
<1>3. CASE Advances(c)
  <2>1. /\ rank' = number /\ Claim("rank", number)
        /\ call' = [call EXCEPT ![c].stage = "claimed"]
    BY <1>3, <1>n DEF ClaimRank
  <2>r. PICK k \in Nat : k = rank
    BY <1>1 DEF SkillTyped
  <2>2. number = k + 1
    BY <1>2, <1>3, <1>n, <2>r DEF Advances
  <2>3. call' = [call EXCEPT ![c] = [stage |-> "claimed", rank |-> number]]
    <3>1. [[stage |-> stage, rank |-> number] EXCEPT !.stage = "claimed"]
            = [stage |-> "claimed", rank |-> number]
      OBVIOUS
    <3>2. [call[c] EXCEPT !.stage = "claimed"] = [stage |-> "claimed", rank |-> number]
      BY <1>2, <3>1
    <3>3. call' = [call EXCEPT ![c] = [call[c] EXCEPT !.stage = "claimed"]]
      BY <2>1
    <3> QED BY <3>2, <3>3
  <2>4. /\ TrailHolds' /\ GainsHold' /\ EntriesTyped'
        /\ IsFiniteSet(trail') /\ IsFiniteSet(entries') /\ lastRow' \in Nat
        /\ \E e : /\ e.kind = "rank" /\ e.rank = number /\ entries' = entries \union {e}
                  /\ ~e.priced => \A f \in entries : ~f.priced
                  /\ ( /\ e \notin entries
                       /\ \A t \in Nat : Cardinality(CodexAt(t)) = Cardinality(PricedAt(t)) )
                     => \A t \in Nat : Cardinality(CodexAt(t)') = Cardinality(PricedAt(t)')
    BY <1>1, <1>2, <2>1, ClaimHolds
  <2>e. PICK e : /\ e.kind = "rank" /\ e.rank = number /\ entries' = entries \union {e}
                 /\ ~e.priced => \A f \in entries : ~f.priced
                 /\ ( /\ e \notin entries
                      /\ \A t \in Nat : Cardinality(CodexAt(t)) = Cardinality(PricedAt(t)) )
                    => \A t \in Nat : Cardinality(CodexAt(t)') = Cardinality(PricedAt(t)')
    BY <2>4
  <2>5. Masteries' = Masteries /\ RankEntries' = RankEntries \union {e}
    BY <2>e DEF Masteries, RankEntries
  <2>6. MasteriesHold'
    BY <1>1, <2>5 DEF MasteriesHold
  <2>7. SkillTyped'
    <3>1. /\ DOMAIN call' = Claimer
          /\ \A d \in Claimer : /\ call'[d] = [stage |-> call'[d].stage, rank |-> call'[d].rank]
                                /\ call'[d].rank \in 0 .. MaxRank
      BY <1>1, <1>2, <2>3, CallMoves
    <3> QED BY <1>1, <1>2, <2>1, <2>4, <3>1 DEF SkillTyped
  <2>8. ASSUME ~moved PROVE StackHolds'
    <3>1. /\ Numbered(RankEntries, k) /\ IsFiniteSet(RankEntries)
          /\ \A t \in Nat : Cardinality(CodexAt(t)) = Cardinality(PricedAt(t))
      BY <1>1, <2>r, <2>8, SetsAreFinite DEF StackHolds
    <3>2. e \notin RankEntries /\ Numbered(RankEntries \union {e}, k + 1)
      BY <2>e, <2>2, <3>1, NumberedGrows
    <3>3. Numbered(RankEntries, rank)' /\ rank' <= MaxRank
      BY <1>2, <2>1, <2>2, <2>5, <3>2
    <3>4. Masteries = {}
      <4>1. Masteries # {} => k = MaxRank
        BY <1>1, <2>r, <2>8 DEF StackHolds
      <4> QED BY <1>2, <2>2, <4>1
    <3>5. e \notin entries
      BY <2>e, <3>2 DEF RankEntries
    <3>6. \A t \in Nat : Cardinality(CodexAt(t)') = Cardinality(PricedAt(t)')
      BY <2>e, <3>1, <3>5
    <3>7. \A f \in entries : f.kind = "rank" /\ f.rank \in 1 .. k
      BY <1>1, <3>1, <3>4 DEF EntriesTyped, Masteries, RankEntries, Numbered
    <3>8. \A f \in entries : ~Above(f, e)
      <4> SUFFICES ASSUME NEW f \in entries PROVE ~Above(f, e)
        OBVIOUS
      <4>1. f.kind = "rank" /\ f.rank \in 1 .. k
        BY <3>7
      <4> QED BY <2>e, <2>2, <4>1 DEF Above
    <3>9. ~Above(e, e)
      BY <1>2, <2>e DEF Above
    <3>10. \A f, g \in entries' : ~f.priced /\ g.priced => ~Above(f, g)
      <4>1. \A f, g \in entries : ~f.priced /\ g.priced => ~Above(f, g)
        BY <1>1, <2>8 DEF StackHolds
      <4> QED BY <2>e, <3>8, <3>9, <4>1
    <3>11. Masteries' = {}
      BY <2>5, <3>4
    <3> QED BY <3>3, <3>6, <3>10, <3>11 DEF StackHolds, Above
  <2> QED BY <1>1, <2>4, <2>6, <2>7, <2>8 DEF SkillInv
<1>4. CASE ~Advances(c)
  <2>1. /\ call' = [call EXCEPT ![c] = [stage |-> "idle", rank |-> 0]]
        /\ UNCHANGED <<rank, entries, trail, archive, lastRow>>
    BY <1>4 DEF ClaimRank, NoCall, trailVars
  <2>2. SkillTyped'
    <3>1. 0 \in 0 .. MaxRank
      BY <1>2
    <3>2. /\ DOMAIN call' = Claimer
          /\ \A d \in Claimer : /\ call'[d] = [stage |-> call'[d].stage, rank |-> call'[d].rank]
                                /\ call'[d].rank \in 0 .. MaxRank
      BY <1>1, <2>1, <3>1, CallMoves
    <3> QED BY <1>1, <2>1, <3>2 DEF SkillTyped
  <2>3. TrailHolds' /\ GainsHold' /\ EntriesTyped'
    BY <1>1, <2>1 DEF TrailHolds, GainsHold, EntriesTyped, Sourced
  <2>4. MasteriesHold' /\ (~moved => StackHolds')
    BY <1>1, <2>1 DEF MasteriesHold, StackHolds, Masteries, RankEntries, CodexAt, PricedAt
  <2> QED BY <1>1, <2>2, <2>3, <2>4 DEF SkillInv
<1> QED BY <1>3, <1>4

LEMMA MasteryClaimKeeps ==
    ASSUME SkillInv, NEW c \in Claimer, MasteryClaim(c)
    PROVE  SkillInv'
<1>1. /\ SkillTyped /\ TrailHolds /\ GainsHold /\ EntriesTyped /\ MasteriesHold
      /\ moved \in BOOLEAN /\ (~moved => StackHolds)
      /\ UNCHANGED <<instant, gain, gainRows, moved, rank>> /\ rank = MaxRank
      /\ Claim("mastery", Cardinality(Masteries) + 1)
      /\ call' = [call EXCEPT ![c] = [stage |-> "claimed", rank |-> 0]]
  BY DEF SkillInv, MasteryClaim
<1>n. PICK n \in Nat : n = Cardinality(Masteries)
  BY <1>1, SetsAreFinite
<1>2. n + 1 \in Nat /\ Claim("mastery", n + 1) /\ 0 \in 0 .. MaxRank /\ rank \in Nat
  BY <1>1, <1>n DEF SkillTyped
<1>3. /\ TrailHolds' /\ GainsHold' /\ EntriesTyped'
      /\ IsFiniteSet(trail') /\ IsFiniteSet(entries') /\ lastRow' \in Nat
      /\ \E e : /\ e.kind = "mastery" /\ e.rank = n + 1 /\ entries' = entries \union {e}
                /\ ~e.priced => \A f \in entries : ~f.priced
                /\ ( /\ e \notin entries
                     /\ \A t \in Nat : Cardinality(CodexAt(t)) = Cardinality(PricedAt(t)) )
                   => \A t \in Nat : Cardinality(CodexAt(t)') = Cardinality(PricedAt(t)')
  BY <1>1, <1>2, ClaimHolds
<1>e. PICK e : /\ e.kind = "mastery" /\ e.rank = n + 1 /\ entries' = entries \union {e}
               /\ ~e.priced => \A f \in entries : ~f.priced
               /\ ( /\ e \notin entries
                    /\ \A t \in Nat : Cardinality(CodexAt(t)) = Cardinality(PricedAt(t)) )
                  => \A t \in Nat : Cardinality(CodexAt(t)') = Cardinality(PricedAt(t)')
  BY <1>3
<1>4. Masteries' = Masteries \union {e} /\ RankEntries' = RankEntries
  BY <1>e DEF Masteries, RankEntries
<1>5. e \notin Masteries /\ Numbered(Masteries \union {e}, n + 1)
  <2>1. Numbered(Masteries, n) /\ IsFiniteSet(Masteries)
    BY <1>1, <1>n, SetsAreFinite DEF MasteriesHold
  <2> QED BY <1>e, <2>1, NumberedGrows
<1>6. MasteriesHold'
  <2>1. Cardinality(Masteries') = n + 1
    BY <1>4, <1>5 DEF Numbered
  <2> QED BY <1>4, <1>5, <2>1 DEF MasteriesHold
<1>7. SkillTyped'
  <2>1. /\ DOMAIN call' = Claimer
        /\ \A d \in Claimer : /\ call'[d] = [stage |-> call'[d].stage, rank |-> call'[d].rank]
                              /\ call'[d].rank \in 0 .. MaxRank
    BY <1>1, <1>2, CallMoves
  <2> QED BY <1>1, <1>3, <2>1 DEF SkillTyped
<1>8. ASSUME ~moved PROVE StackHolds'
  <2>1. e \notin entries
    BY <1>e, <1>5 DEF Masteries
  <2>2. \A t \in Nat : Cardinality(CodexAt(t)') = Cardinality(PricedAt(t)')
    BY <1>1, <1>e, <1>8, <2>1 DEF StackHolds
  <2>3. \A f \in entries : ~Above(f, e)
    <3> SUFFICES ASSUME NEW f \in entries PROVE ~Above(f, e)
      OBVIOUS
    <3>1. f.kind = "mastery" => f.rank \in 1 .. n
      BY <1>1, <1>n DEF MasteriesHold, Numbered, Masteries
    <3> QED BY <1>e, <1>n, <3>1 DEF Above
  <2>4. ~Above(e, e)
    BY <1>2, <1>e DEF Above
  <2>5. \A f, g \in entries' : ~f.priced /\ g.priced => ~Above(f, g)
    <3>1. \A f, g \in entries : ~f.priced /\ g.priced => ~Above(f, g)
      BY <1>1, <1>8 DEF StackHolds
    <3> QED BY <1>e, <2>3, <2>4, <3>1
  <2>6. Numbered(RankEntries, rank)' /\ rank' = MaxRank /\ rank' <= MaxRank
    BY <1>1, <1>2, <1>4, <1>8 DEF StackHolds
  <2> QED BY <2>2, <2>5, <2>6 DEF StackHolds, Above
<1> QED BY <1>1, <1>3, <1>6, <1>7, <1>8 DEF SkillInv

\* Taking back the top of the stack takes its own point, or none when it had none.
LEMMA TopTakenBack ==
    ASSUME SkillInv, ~moved, NEW claim \in entries, Revert(claim, {claim}),
           \A f \in entries \ {claim} : Above(claim, f)
    PROVE  /\ \A t \in Nat : Cardinality(CodexAt(t)') = Cardinality(PricedAt(t)')
           /\ \A e, f \in entries' : ~e.priced /\ f.priced => ~Above(e, f)
<1>1. /\ SkillTyped /\ TrailHolds /\ EntriesTyped /\ StackHolds
  BY DEF SkillInv
<1>2. trail' = trail \ PricedBy(claim) /\ entries' = entries \ {claim}
  BY DEF Revert
<1>3. /\ \A t \in Nat : Cardinality(CodexAt(t)) = Cardinality(PricedAt(t))
      /\ \A e, f \in entries : ~e.priced /\ f.priced => ~Above(e, f)
  BY <1>1 DEF StackHolds
<1>4. \A e, f \in entries' : ~e.priced /\ f.priced => ~Above(e, f)
  BY <1>2, <1>3
<1>5. claim.priced \in BOOLEAN /\ claim.at \in Nat
  BY <1>1 DEF EntriesTyped
<1>a. PICK at \in Nat : at = claim.at
  BY <1>5
<1>6. /\ CodexAt(at) = {} => PricedBy(claim) = {}
      /\ CodexAt(at) # {} => \E row \in CodexAt(at) : PricedBy(claim) = {row}
  BY <1>1, <1>a, ReversalTakesOne
<1>7. IsFiniteSet(CodexAt(at)) /\ IsFiniteSet(PricedAt(at)) /\ Cardinality(CodexAt(at)) = Cardinality(PricedAt(at))
  BY <1>1, <1>3, SetsAreFinite
<1>8. CASE claim.priced = TRUE
  <2>1. claim \in PricedAt(at)
    BY <1>8, <1>a DEF PricedAt
  <2>2. Cardinality(PricedAt(at)) # 0
    BY <1>7, <2>1, FS_EmptySet
  <2>3. CodexAt(at) # {}
    BY <1>7, <2>2, FS_EmptySet
  <2>4. PICK row \in CodexAt(at) : PricedBy(claim) = {row}
    BY <1>6, <2>3
  <2>5. row \in trail /\ row.source = "codex" /\ row.at = claim.at /\ trail' = trail \ {row}
    BY <1>2, <1>a, <2>4 DEF CodexAt
  <2>6. \A t \in Nat : Cardinality(CodexAt(t)') = Cardinality(PricedAt(t)')
    BY <1>1, <1>2, <1>3, <1>8, <2>5, CountsShrink
  <2> QED BY <1>4, <2>6
<1>9. CASE claim.priced = FALSE
  <2>1. \A f \in entries : ~f.priced
    BY <1>3, <1>9
  <2>2. PricedAt(at) = {}
    BY <2>1 DEF PricedAt
  <2>3. Cardinality(CodexAt(at)) = 0
    BY <1>7, <2>2, FS_EmptySet
  <2>4. CodexAt(at) = {}
    BY <1>7, <2>3, FS_EmptySet
  <2>5. trail' = trail
    BY <1>2, <1>6, <2>4
  <2>6. \A t \in Nat : CodexAt(t)' = CodexAt(t) /\ PricedAt(t)' = PricedAt(t)
    BY <1>2, <1>9, <2>1, <2>5 DEF CodexAt, PricedAt
  <2> QED BY <1>3, <1>4, <2>6
<1> QED BY <1>5, <1>8, <1>9

\* What a reversal leaves of everything but the stack.
LEMMA RevertKeeps ==
    ASSUME SkillInv, NEW claim, NEW gone, Revert(claim, gone), rank' \in Nat, call' = call,
           UNCHANGED <<instant, gain, gainRows>>
    PROVE  SkillTyped' /\ TrailHolds' /\ GainsHold' /\ EntriesTyped'
<1>1. /\ SkillTyped /\ TrailHolds /\ GainsHold /\ EntriesTyped
  BY DEF SkillInv
<1>2. /\ TrailHolds' /\ IsFiniteSet(trail') /\ trail' = trail \ PricedBy(claim)
      /\ (trail # {} => trail' # {}) /\ trail' \subseteq trail
      /\ entries' = entries \ gone /\ UNCHANGED <<archive, lastRow>>
      /\ \A r \in trail : r.source # "codex" => r \in trail'
  BY <1>1, RevertHolds
<1>3. entries' \in SUBSET entries
  BY <1>2
<1>4. IsFiniteSet(entries')
  BY <1>1, <1>3, FS_Subset DEF SkillTyped
<1>5. SkillTyped'
  BY <1>1, <1>2, <1>4 DEF SkillTyped
<1>6. GainsHold'
  <2>1. \A r \in trail : r.source = "chatlog" => r \in trail'
    BY <1>2
  <2> QED BY <1>1, <1>2, <2>1, GainsStay
<1>7. EntriesTyped'
  BY <1>1, <1>2, <1>3 DEF EntriesTyped, Sourced
<1> QED BY <1>2, <1>5, <1>6, <1>7

LEMMA UnclaimKeeps ==
    ASSUME SkillInv, UnclaimRank
    PROVE  SkillInv'
<1>t. PICK top : top = {e \in entries : e.kind = "rank" /\ e.rank = rank}
  OBVIOUS
<1>1. /\ Masteries = {} /\ rank > 0 /\ rank' = rank - 1 /\ (\E claim \in top : Revert(claim, top))
      /\ call' = call /\ UNCHANGED <<instant, gain, gainRows, moved>>
  BY <1>t DEF UnclaimRank
<1>claim. PICK claim \in top : Revert(claim, top)
  BY <1>1
<1>k. PICK k \in Nat : k = rank
  BY DEF SkillInv, SkillTyped
<1>2. rank' = k - 1 /\ rank' \in Nat
  BY <1>1, <1>k
<1>3. SkillTyped' /\ TrailHolds' /\ GainsHold' /\ EntriesTyped'
  BY <1>1, <1>2, <1>claim, RevertKeeps
<1>4. entries' = entries \ top /\ claim \in entries /\ claim.kind = "rank" /\ claim.rank = k
  BY <1>k, <1>t, <1>claim DEF Revert
<1>5. Masteries' = {}
  BY <1>1, <1>4 DEF Masteries
<1>6. MasteriesHold'
  <2>1. Masteries' = Masteries
    BY <1>1, <1>5
  <2> QED BY <2>1 DEF MasteriesHold, SkillInv
<1>7. ASSUME ~moved PROVE StackHolds'
  <2>1. Numbered(RankEntries, k) /\ IsFiniteSet(RankEntries) /\ k <= MaxRank
    BY <1>7, <1>k, SetsAreFinite DEF SkillInv, StackHolds
  <2>2. claim \in RankEntries
    BY <1>4 DEF RankEntries
  <2>3. \A e \in RankEntries : e.rank <= claim.rank
    BY <1>4, <2>1 DEF Numbered
  <2>4. /\ \A e \in RankEntries \ {claim} : e.rank < claim.rank
        /\ Numbered(RankEntries \ {claim}, k - 1)
    BY <2>1, <2>2, <2>3, NumberedShrinks
  <2>5. top = {claim}
    <3>1. \A e \in top : e \in RankEntries /\ e.rank = claim.rank
      BY <1>t, <1>k, <1>4 DEF RankEntries
    <3>2. \A e \in top : e = claim
      BY <2>1, <2>2, <3>1 DEF Numbered
    <3> QED BY <1>claim, <3>2
  <2>6. RankEntries' = RankEntries \ {claim}
    BY <1>4, <2>5 DEF RankEntries
  <2>7. \A f \in entries \ {claim} : Above(claim, f)
    <3> SUFFICES ASSUME NEW f \in entries \ {claim} PROVE Above(claim, f)
      OBVIOUS
    <3>1. f \in RankEntries \ {claim}
      BY <1>1 DEF SkillInv, EntriesTyped, Masteries, RankEntries
    <3>2. f.rank < claim.rank /\ f.rank \in 1 .. k /\ f.kind = "rank"
      BY <2>1, <2>4, <3>1 DEF Numbered, RankEntries
    <3> QED BY <1>4, <3>2 DEF Above
  <2>8. /\ \A t \in Nat : Cardinality(CodexAt(t)') = Cardinality(PricedAt(t)')
        /\ \A e, f \in entries' : ~e.priced /\ f.priced => ~Above(e, f)
    BY <1>4, <1>7, <1>claim, <2>5, <2>7, TopTakenBack
  <2>9. Numbered(RankEntries, rank)' /\ rank' <= MaxRank
    BY <1>2, <2>1, <2>4, <2>6, SkillAssumption
  <2> QED BY <1>5, <2>8, <2>9 DEF StackHolds, Above
<1> QED BY <1>1, <1>3, <1>6, <1>7 DEF SkillInv

LEMMA MasteryUnclaimKeeps ==
    ASSUME SkillInv, MasteryUnclaim
    PROVE  SkillInv'
<1>1. /\ \E claim \in Masteries : /\ \A other \in Masteries : other.rank <= claim.rank
                                  /\ Revert(claim, {claim})
      /\ call' = call /\ rank' = rank /\ UNCHANGED <<instant, gain, gainRows, moved>>
  BY DEF MasteryUnclaim
<1>claim. PICK claim \in Masteries : /\ \A other \in Masteries : other.rank <= claim.rank
                                     /\ Revert(claim, {claim})
  BY <1>1
<1>2. rank' \in Nat
  BY <1>1 DEF SkillInv, SkillTyped
<1>3. SkillTyped' /\ TrailHolds' /\ GainsHold' /\ EntriesTyped'
  BY <1>1, <1>2, <1>claim, RevertKeeps
<1>4. entries' = entries \ {claim} /\ claim \in entries /\ claim.kind = "mastery"
  BY <1>claim DEF Revert, Masteries
<1>n. PICK n \in Nat : n = Cardinality(Masteries)
  BY SetsAreFinite DEF SkillInv
<1>5. Numbered(Masteries, n) /\ IsFiniteSet(Masteries)
  BY <1>n, SetsAreFinite DEF SkillInv, MasteriesHold
<1>6. /\ \A e \in Masteries \ {claim} : e.rank < claim.rank
      /\ Numbered(Masteries \ {claim}, n - 1)
  BY <1>5, <1>claim, NumberedShrinks
<1>7. Masteries' = Masteries \ {claim} /\ RankEntries' = RankEntries
  BY <1>4 DEF Masteries, RankEntries
<1>8. MasteriesHold'
  <2>1. Cardinality(Masteries') = n - 1
    BY <1>6, <1>7 DEF Numbered
  <2> QED BY <1>6, <1>7, <2>1 DEF MasteriesHold
<1>9. ASSUME ~moved PROVE StackHolds'
  <2>1. \A f \in entries \ {claim} : Above(claim, f)
    <3> SUFFICES ASSUME NEW f \in entries \ {claim} PROVE Above(claim, f)
      OBVIOUS
    <3>1. f.kind = "rank" \/ f \in Masteries \ {claim}
      BY DEF SkillInv, EntriesTyped, Masteries
    <3>2. CASE f.kind = "rank"
      BY <1>4, <3>2 DEF Above
    <3>3. CASE f \in Masteries \ {claim}
      <4>1. f.rank < claim.rank /\ f.rank \in 1 .. n /\ claim.rank \in 1 .. n /\ f.kind = "mastery"
        BY <1>5, <1>6, <1>claim, <3>3 DEF Numbered, Masteries
      <4> QED BY <1>4, <4>1 DEF Above
    <3> QED BY <3>1, <3>2, <3>3
  <2>2. /\ \A t \in Nat : Cardinality(CodexAt(t)') = Cardinality(PricedAt(t)')
        /\ \A e, f \in entries' : ~e.priced /\ f.priced => ~Above(e, f)
    BY <1>4, <1>9, <1>claim, <2>1, TopTakenBack
  <2>3. Numbered(RankEntries, rank)' /\ rank' <= MaxRank
    BY <1>1, <1>7, <1>9 DEF SkillInv, StackHolds
  <2>4. Masteries' # {} => rank' = MaxRank
    BY <1>1, <1>claim, <1>9 DEF SkillInv, StackHolds
  <2> QED BY <2>2, <2>3, <2>4 DEF StackHolds, Above
<1> QED BY <1>1, <1>3, <1>8, <1>9 DEF SkillInv

-----------------------------------------------------------------------------
(* The scan and the gains of the log.                                      *)

\* Points that are not the codex's leave entries and stack as they are.
LEMMA OtherPoints ==
    ASSUME SkillInv, SkillTyped', TrailHolds', GainsHold', moved' = moved, rank' = rank,
           instant' = instant, entries' = entries, trail' # {},
           \A r \in trail' : r.source = "codex" => r \in trail,
           \A r \in trail : r.source = "codex" => r \in trail'
    PROVE  SkillInv'
<1>1. Masteries' = Masteries /\ RankEntries' = RankEntries
  BY DEF Masteries, RankEntries
<1>2. Sourced("codex")' = Sourced("codex")
  BY DEF Sourced
<1>3. \A t : CodexAt(t)' = CodexAt(t) /\ PricedAt(t)' = PricedAt(t)
  BY DEF CodexAt, PricedAt
<1>4. EntriesTyped'
  BY <1>2 DEF SkillInv, EntriesTyped
<1>5. MasteriesHold'
  BY <1>1 DEF SkillInv, MasteriesHold
<1>6. ~moved => StackHolds'
  BY <1>1, <1>3 DEF SkillInv, StackHolds, Above
<1> QED BY <1>4, <1>5, <1>6 DEF SkillInv

LEMMA ScanKeeps ==
    ASSUME SkillInv, CompleteScan
    PROVE  SkillInv'
<1>o. PICK old : old = trail \ Archived
  OBVIOUS
<1>r. PICK row : row = [id |-> lastRow + 1, source |-> "scan", at |-> instant, level |-> 1]
  OBVIOUS
<1>1. /\ trail' = old \union {row} /\ lastRow' = lastRow + 1
      /\ archive' = archive \union {r.id : r \in Archived}
      /\ UNCHANGED <<instant, gainRows, gain, rank, entries, call, moved>>
  BY <1>o, <1>r DEF CompleteScan, Insert
<1>2. /\ row.id = lastRow + 1 /\ row.source = "scan" /\ old \in SUBSET trail
      /\ trail \ old = Archived /\ \A r \in old : r.source # "scan"
  BY <1>o, <1>r DEF Archived
<1>3. SkillTyped /\ TrailHolds /\ archive' = archive \union {r.id : r \in trail \ old}
  BY <1>1, <1>2 DEF SkillInv
<1>4. TrailHolds' /\ IsFiniteSet(trail') /\ lastRow' \in Nat /\ trail' # {}
  BY <1>1, <1>2, <1>3, InsertHolds
<1>5. SkillTyped'
  BY <1>1, <1>3, <1>4 DEF SkillTyped
<1>6. GainsHold'
  <2>1. \A r \in trail : r.source = "chatlog" => r \in trail'
    BY <1>o, <1>1 DEF Archived
  <2> QED BY <1>1, <1>4, <2>1, GainsStay DEF SkillInv
<1>7. /\ \A r \in trail' : r.source = "codex" => r \in trail
      /\ \A r \in trail : r.source = "codex" => r \in trail'
  BY <1>o, <1>1, <1>2 DEF Archived
<1> QED BY <1>1, <1>4, <1>5, <1>6, <1>7, OtherPoints

LEMMA AppendKeeps ==
    ASSUME SkillInv, AppendPoint
    PROVE  SkillInv'
<1>r. PICK row : row = [id |-> lastRow + 1, source |-> "chatlog", at |-> gain.at, level |-> gain.old + 1]
  OBVIOUS
<1>a. PICK at : at = gain.at
  OBVIOUS
<1>o. PICK o : o = gain.old
  OBVIOUS
<1>w. PICK w : w = gain.row
  OBVIOUS
<1>1. /\ trail' = trail \union {row} /\ lastRow' = lastRow + 1 /\ archive' = archive
      /\ gain.stage = "append" /\ gain' = [gain EXCEPT !.stage = "record", !.row = lastRow + 1]
      /\ UNCHANGED <<instant, gainRows, rank, entries, call, moved>>
  BY <1>r DEF AppendPoint, Insert
<1>2. row.id = lastRow + 1 /\ row.source = "chatlog" /\ row.at = at /\ row.source # "scan"
  BY <1>r, <1>a
<1>3. /\ SkillTyped /\ TrailHolds /\ GainsHold /\ trail # {} /\ trail \in SUBSET trail
      /\ archive' = archive \union {r.id : r \in trail \ trail}
  BY <1>1 DEF SkillInv, GainsHold
<1>4. TrailHolds' /\ IsFiniteSet(trail') /\ lastRow' \in Nat /\ trail' # {}
  BY <1>1, <1>2, <1>3, InsertHolds
<1>5. gain = [stage |-> "append", at |-> at, old |-> o, row |-> w]
  BY <1>1, <1>3, <1>a, <1>o, <1>w DEF SkillTyped
<1>6. gain' = [stage |-> "record", at |-> at, old |-> o, row |-> lastRow + 1]
  BY <1>1, <1>5
<1>7. SkillTyped'
  BY <1>1, <1>3, <1>4, <1>6 DEF SkillTyped
<1>8. GainsHold'
  <2>1. \A r \in Sourced("chatlog") : r \in Sourced("chatlog")'
    BY <1>1 DEF Sourced
  <2>2. \A g \in gainRows' : g.priced => \E r \in Sourced("chatlog")' : r.id = g.row /\ r.at = g.at
    BY <1>1, <1>3, <2>1 DEF GainsHold
  <2>3. row \in Sourced("chatlog")' /\ row.id = gain'.row /\ row.at = gain'.at
    <3>1. gain'.row = lastRow + 1 /\ gain'.at = at
      BY <1>6
    <3>2. row \in Sourced("chatlog")'
      BY <1>1, <1>2 DEF Sourced
    <3> QED BY <1>2, <3>1, <3>2
  <2>4. gain'.stage = "record"
    BY <1>6
  <2> QED BY <2>2, <2>3, <2>4 DEF GainsHold
<1>9. /\ \A r \in trail' : r.source = "codex" => r \in trail
      /\ \A r \in trail : r.source = "codex" => r \in trail'
  BY <1>1, <1>2
<1> QED BY <1>1, <1>4, <1>7, <1>8, <1>9, OtherPoints

\* Steps that write neither the trail nor the codex.
LEMMA QuietKeeps ==
    ASSUME SkillInv, UNCHANGED <<trail, archive, lastRow, entries>>,
           instant' \in Nat, instant <= instant',
           SkillTyped', GainsHold', moved' \in BOOLEAN, ~moved' => ~moved /\ rank' = rank
    PROVE  SkillInv'
<1>1. TrailHolds'
  BY DEF SkillInv, TrailHolds, Sourced
<1>2. EntriesTyped'
  <2>1. \A n \in Nat : n <= instant => n <= instant'
    BY DEF SkillInv, SkillTyped
  <2> QED BY <2>1 DEF SkillInv, EntriesTyped, Sourced
<1>3. MasteriesHold' /\ (~moved' => StackHolds')
  BY DEF SkillInv, MasteriesHold, StackHolds, Masteries, RankEntries, CodexAt, PricedAt, Above
<1> QED BY <1>1, <1>2, <1>3 DEF SkillInv

OneCallMoves(c, stage, number) ==
    /\ c \in Claimer /\ number \in 0 .. MaxRank
    /\ call' = [call EXCEPT ![c] = [stage |-> stage, rank |-> number]]

\* ... and leave the gain under way alone.
LEMMA CodexStepKeeps ==
    ASSUME SkillInv, UNCHANGED <<trail, archive, lastRow, entries, gain, gainRows>>,
           instant' \in Nat, instant <= instant', rank' \in Nat,
           moved' \in BOOLEAN, ~moved' => ~moved /\ rank' = rank,
           \/ call' = call
           \/ \E c, stage, number : OneCallMoves(c, stage, number)
    PROVE  SkillInv'
<1>1. SkillTyped /\ GainsHold
  BY DEF SkillInv
<1>2. /\ DOMAIN call' = Claimer
      /\ \A d \in Claimer : /\ call'[d] = [stage |-> call'[d].stage, rank |-> call'[d].rank]
                            /\ call'[d].rank \in 0 .. MaxRank
  <2>1. CASE call' = call
    BY <1>1, <2>1 DEF SkillTyped
  <2>2. CASE \E c, stage, number : OneCallMoves(c, stage, number)
    <3>1. PICK c, stage, number : OneCallMoves(c, stage, number)
      BY <2>2
    <3>2. /\ c \in Claimer /\ number \in 0 .. MaxRank
          /\ call' = [call EXCEPT ![c] = [stage |-> stage, rank |-> number]]
      BY <3>1 DEF OneCallMoves
    <3> QED BY <1>1, <3>2, CallMoves
  <2> QED BY <2>1, <2>2
<1>3. SkillTyped'
  BY <1>1, <1>2 DEF SkillTyped
<1>4. GainsHold'
  BY <1>1 DEF GainsHold, Sourced
<1> QED BY <1>3, <1>4, QuietKeeps

\* ... or move it on and leave the codex alone.
LEMMA GainStepKeeps ==
    ASSUME SkillInv, UNCHANGED <<trail, archive, lastRow, entries, instant, rank, call, moved>>,
           NEW stage, NEW at, NEW old, NEW row,
           gain' = [stage |-> stage, at |-> at, old |-> old, row |-> row],
           stage = "read" => old = NoLevel, stage = "append" => trail # {},
           stage = "record" /\ old # NoLevel =>
               \E r \in Sourced("chatlog") : r.id = row /\ r.at = at,
           \A g \in gainRows' : g \in gainRows \/ (g.priced =>
               \E r \in Sourced("chatlog") : r.id = g.row /\ r.at = g.at)
    PROVE  SkillInv'
<1>1. SkillTyped /\ GainsHold /\ instant \in Nat /\ instant <= instant /\ moved \in BOOLEAN
  BY DEF SkillInv, SkillTyped
<1>2. SkillTyped'
  BY <1>1 DEF SkillTyped
<1>3. /\ gain'.stage = stage /\ gain'.at = at /\ gain'.old = old /\ gain'.row = row
      /\ Sourced("chatlog")' = Sourced("chatlog")
  BY DEF Sourced
<1>4. GainsHold'
  BY <1>1, <1>3 DEF GainsHold
<1> QED BY <1>1, <1>2, <1>4, QuietKeeps

LEMMA SkillInvStarts == SkillInit => SkillInv
<1> SUFFICES ASSUME SkillInit PROVE SkillInv
  OBVIOUS
<1>1. /\ instant = 0 /\ trail = {} /\ archive = {} /\ lastRow = 0
      /\ gainRows = {} /\ gain = [stage |-> "idle", at |-> 0, old |-> NoLevel, row |-> 0]
      /\ rank = 0 /\ entries = {} /\ call = [c \in Claimer |-> NoCall] /\ moved = FALSE
  BY DEF SkillInit, NoGain
<1>2. IsFiniteSet({}) /\ Cardinality({}) = 0 /\ MaxRank \in Nat
  BY FS_EmptySet, SkillAssumption
<1>3. SkillTyped
  <2>1. \A c \in Claimer : call[c] = [stage |-> "idle", rank |-> 0]
    BY <1>1 DEF NoCall
  <2>2. DOMAIN call = Claimer /\ 0 \in 0 .. MaxRank
    BY <1>1, <1>2
  <2> QED BY <1>1, <1>2, <2>1, <2>2 DEF SkillTyped
<1>4. TrailHolds
  <2>1. Sourced("scan") = {}
    BY <1>1 DEF Sourced
  <2> QED BY <1>1, <1>2, <2>1 DEF TrailHolds
<1>5. GainsHold /\ EntriesTyped
  BY <1>1 DEF GainsHold, EntriesTyped, Sourced
<1>6. Masteries = {} /\ RankEntries = {}
  BY <1>1 DEF Masteries, RankEntries
<1>7. MasteriesHold
  BY <1>2, <1>6 DEF MasteriesHold, Numbered
<1>8. StackHolds
  <2>1. \A t \in Nat : CodexAt(t) = {} /\ PricedAt(t) = {}
    BY <1>1 DEF CodexAt, PricedAt
  <2>2. Numbered(RankEntries, rank) /\ rank <= MaxRank
    BY <1>1, <1>2, <1>6 DEF Numbered
  <2> QED BY <1>1, <1>6, <2>1, <2>2 DEF StackHolds
<1> QED BY <1>1, <1>3, <1>4, <1>5, <1>7, <1>8 DEF SkillInv

LEMMA SkillInvKept ==
    ASSUME SkillInv, [SkillNext]_skillVars
    PROVE  SkillInv'
<1>t. instant \in Nat /\ instant <= instant /\ rank \in Nat /\ moved \in BOOLEAN
      /\ 0 \in 0 .. MaxRank /\ MaxRank \in Nat
  BY SkillAssumption DEF SkillInv, SkillTyped
<1>1. CASE SecondPasses
  <2>1. /\ UNCHANGED <<trail, archive, lastRow, entries, gain, gainRows, rank, call, moved>>
        /\ instant' \in Nat /\ instant <= instant'
    BY <1>t, <1>1 DEF SecondPasses, trailVars
  <2> QED BY <1>t, <2>1, CodexStepKeeps
<1>2. CASE SkillSession
  <2>1. UNCHANGED <<trail, archive, lastRow, entries, gain, gainRows, rank, call, moved, instant>>
    BY <1>2 DEF SkillSession, trailVars
  <2> QED BY <1>t, <2>1, CodexStepKeeps
<1>3. CASE HearSkill
  <2>1. /\ UNCHANGED <<trail, archive, lastRow, entries, instant, rank, call, moved, gainRows>>
        /\ \/ gain' = [stage |-> "idle", at |-> 0, old |-> NoLevel, row |-> 0]
           \/ gain' = [stage |-> "read", at |-> instant, old |-> NoLevel, row |-> 0]
    BY <1>3 DEF HearSkill, trailVars, NoGain
  <2> QED BY <2>1, GainStepKeeps
<1>g. ASSUME gain.stage \in {"read", "append", "record"}
      PROVE  \E stage, at, old, row : /\ gain = [stage |-> stage, at |-> at, old |-> old, row |-> row]
                                      /\ stage = "read" => old = NoLevel
                                      /\ stage = "append" => trail # {}
                                      /\ stage = "record" /\ old # NoLevel =>
                                            \E r \in Sourced("chatlog") : r.id = row /\ r.at = at
  BY DEF SkillInv, SkillTyped, GainsHold
<1>4. CASE ReadOld
  <2>1. PICK stage, at, old, row : /\ gain = [stage |-> stage, at |-> at, old |-> old, row |-> row]
                                   /\ stage = "read" => old = NoLevel
    BY <1>4, <1>g DEF ReadOld
  <2>2. UNCHANGED <<trail, archive, lastRow, entries, instant, rank, call, moved, gainRows>>
    BY <1>4 DEF ReadOld, trailVars
  <2>3. stage = "read" /\ old = NoLevel
    BY <1>4, <2>1 DEF ReadOld
  <2>4. CASE trail = {}
    <3>1. gain' = [stage |-> "record", at |-> at, old |-> NoLevel, row |-> row]
      BY <1>4, <2>1, <2>3, <2>4 DEF ReadOld
    <3> QED BY <2>2, <3>1, GainStepKeeps
  <2>5. CASE trail # {}
    <3>1. PICK r \in Newest : gain' = [gain EXCEPT !.stage = "append", !.old = r.level]
      BY <1>4, <2>5 DEF ReadOld
    <3>2. gain' = [stage |-> "append", at |-> at, old |-> r.level, row |-> row]
      BY <2>1, <3>1
    <3> QED BY <2>2, <2>5, <3>2, GainStepKeeps
  <2> QED BY <2>4, <2>5
<1>5. CASE AppendPoint
  BY <1>5, AppendKeeps
<1>6. CASE AppendFails \/ RecordFails
  <2>1. /\ UNCHANGED <<trail, archive, lastRow, entries, instant, rank, call, moved, gainRows>>
        /\ gain' = [stage |-> "idle", at |-> 0, old |-> NoLevel, row |-> 0]
    BY <1>6 DEF AppendFails, RecordFails, trailVars, NoGain
  <2> QED BY <2>1, GainStepKeeps
<1>7. CASE RecordGain
  <2>1. PICK stage, at, old, row : /\ gain = [stage |-> stage, at |-> at, old |-> old, row |-> row]
                                   /\ stage = "record" /\ old # NoLevel =>
                                         \E r \in Sourced("chatlog") : r.id = row /\ r.at = at
    BY <1>7, <1>g DEF RecordGain
  <2>2. /\ UNCHANGED <<trail, archive, lastRow, entries, instant, rank, call, moved>>
        /\ gain' = [stage |-> "idle", at |-> 0, old |-> NoLevel, row |-> 0]
        /\ gain.stage = "record"
        /\ gainRows' = gainRows \union {[row |-> gain.row, at |-> gain.at,
                                         priced |-> gain.old # NoLevel]}
    BY <1>7 DEF RecordGain, trailVars, NoGain
  <2>p. PICK pointed \in BOOLEAN : pointed = (old # NoLevel)
    OBVIOUS
  <2>x. PICK x : x = [row |-> row, at |-> at, priced |-> pointed]
    OBVIOUS
  <2>3. gainRows' = gainRows \union {x}
    BY <2>1, <2>2, <2>p, <2>x
  <2>4. x.priced => \E r \in Sourced("chatlog") : r.id = x.row /\ r.at = x.at
    BY <2>1, <2>2, <2>p, <2>x
  <2>5. \A g \in gainRows' : g \in gainRows \/ (g.priced =>
               \E r \in Sourced("chatlog") : r.id = g.row /\ r.at = g.at)
    BY <2>3, <2>4
  <2> QED BY <2>2, <2>5, GainStepKeeps
<1>8. ASSUME NEW c \in Claimer, CheckRank(c) PROVE SkillInv'
  <2>1. /\ UNCHANGED <<trail, archive, lastRow, entries, gain, gainRows, rank, moved, instant>>
        /\ rank < MaxRank /\ call' = [call EXCEPT ![c] = [stage |-> "checked", rank |-> rank + 1]]
    BY <1>8 DEF CheckRank, trailVars
  <2>2. rank + 1 \in 0 .. MaxRank
    BY <1>t, <2>1
  <2>3. OneCallMoves(c, "checked", rank + 1)
    BY <2>1, <2>2 DEF OneCallMoves
  <2> QED BY <1>t, <2>1, <2>3, CodexStepKeeps
<1>9. ASSUME NEW c \in Claimer, SeesTracking(c) \/ SuppressNext(c) PROVE SkillInv'
  <2>1. /\ UNCHANGED <<trail, archive, lastRow, entries, gain, gainRows, rank, moved, instant>>
        /\ \/ call' = [call EXCEPT ![c] = [stage |-> "tracking", rank |-> 0]]
           \/ call' = [call EXCEPT ![c] = [stage |-> "idle", rank |-> 0]]
    BY <1>9 DEF SeesTracking, SuppressNext, trailVars, NoCall
  <2>2. OneCallMoves(c, "tracking", 0) \/ OneCallMoves(c, "idle", 0)
    BY <1>t, <2>1 DEF OneCallMoves
  <2> QED BY <1>t, <2>1, <2>2, CodexStepKeeps
<1>10. ASSUME NEW c \in Claimer, ClaimRank(c) PROVE SkillInv'
  BY <1>10, ClaimRankKeeps
<1>11. ASSUME NEW c \in Claimer, MasteryClaim(c) PROVE SkillInv'
  BY <1>11, MasteryClaimKeeps
<1>12. CASE UnclaimRank
  BY <1>12, UnclaimKeeps
<1>13. CASE MasteryUnclaim
  BY <1>13, MasteryUnclaimKeeps
<1>14. ASSUME NEW to \in 0..MaxRank, SetRank(to) PROVE SkillInv'
  <2>1. /\ UNCHANGED <<trail, archive, lastRow, entries, gain, gainRows, call, instant>>
        /\ rank' = to /\ moved' = TRUE
    BY <1>14 DEF SetRank, trailVars
  <2>2. to \in Nat
    BY <1>t
  <2> QED BY <1>t, <2>1, <2>2, CodexStepKeeps
<1>15. CASE CompleteScan
  BY <1>15, ScanKeeps
<1>16. CASE UNCHANGED skillVars
  <2>1. UNCHANGED <<trail, archive, lastRow, entries, gain, gainRows, rank, call, moved, instant>>
    BY <1>16 DEF skillVars, trailVars
  <2> QED BY <1>t, <2>1, CodexStepKeeps
<1> QED BY <1>1, <1>2, <1>3, <1>4, <1>5, <1>6, <1>7, <1>8, <1>9, <1>10, <1>11, <1>12, <1>13,
           <1>14, <1>15, <1>16 DEF SkillNext

\* However gains, scans, claims and reversals interleave and whichever
\* write fails, the trail has one anchor and a point for every priced gain, and
\* the claims of a rank nobody set by hand are the ranks reached, each priced
\* one with its point.
THEOREM TrailAndCodexAgree == SkillSpec => []SkillBooksAgree
<1>1. SkillInv => SkillBooksAgree
  <2> SUFFICES ASSUME SkillInv PROVE SkillBooksAgree
    OBVIOUS
  <2>1. TrailBacksGains
    BY DEF SkillInv, TrailHolds, GainsHold, TrailBacksGains
  <2>2. {e.rank : e \in Masteries} = 1 .. Cardinality(Masteries)
    BY NumberedRanks DEF SkillInv, MasteriesHold
  <2>3. ASSUME ~moved
        PROVE  /\ {e.rank : e \in RankEntries} = 1 .. rank /\ Cardinality(RankEntries) = rank
               /\ Masteries # {} => rank = MaxRank
               /\ \A t \in 0 .. instant : Cardinality(CodexAt(t)) = Cardinality(PricedAt(t))
    BY <2>3, NumberedRanks DEF SkillInv, StackHolds, SkillTyped
  <2>4. ASSUME NEW t
        PROVE  /\ {r \in Sourced("codex") : r.at = t} = CodexAt(t)
               /\ {e \in entries : e.priced /\ e.at = t} = PricedAt(t)
    BY DEF Sourced, CodexAt, PricedAt
  <2>5. ClaimsMatchRank
    BY <2>2, <2>3, <2>4 DEF ClaimsMatchRank, RankEntries
  <2> QED BY <2>1, <2>5 DEF SkillBooksAgree
<1> QED BY <1>1, SkillInvStarts, SkillInvKept, PTL DEF SkillSpec

-----------------------------------------------------------------------------
(* The skill scan.                                                         *)

Fields == {"at", "left", "found", "ends"}

\* The worker of scan n extracts, or has done a page and not told yet.
Works(n) == worker[n].at # "off" /\ ~worker[n].ends

ScanTyped ==
    /\ capturing \in BOOLEAN /\ processing \in BOOLEAN /\ held \in BOOLEAN
    /\ overlapped \in BOOLEAN
    /\ verb \in [Hand -> {"idle", "grab", "save", "publish", "deliver"}]
    /\ DOMAIN worker = 1 .. MaxScans
    /\ \A n \in 1 .. MaxScans :
           /\ DOMAIN worker[n] = Fields /\ worker[n].ends \in BOOLEAN
           /\ worker[n].at \in {"off", "page", "publish", "deliver"}
           /\ worker[n].ends => worker[n].at \in {"publish", "deliver"}

\* One phase at a time, and one worker that works.
Phases ==
    /\ ~(capturing /\ processing) /\ ~(capturing /\ held) /\ ~(processing /\ held)
    /\ processing <=> \E n \in 1 .. MaxScans : Works(n)
    /\ \A n, m \in 1 .. MaxScans : Works(n) /\ Works(m) => n = m

\* The worker of a scan begins once.
OneWorkerEach ==
    /\ scans \in Nat
    /\ \A n \in 1 .. MaxScans : n > scans => worker[n].at = "off"
    /\ capturing => scans \in 1 .. MaxScans /\ worker[scans].at = "off"

HandPublishes == \E h \in Hand : verb[h] = "publish"
WorkPublishes == \E n \in 1 .. MaxScans : Works(n) /\ worker[n].at = "publish"
EndPublishes == \E n \in 1 .. MaxScans : worker[n].at = "publish" /\ worker[n].ends
SomeoneDelivers == \/ \E h \in Hand : verb[h] = "deliver"
                   \/ \E n \in 1 .. MaxScans : worker[n].at = "deliver"

\* A frame is owed only by someone who is about to publish.
FrameOwed == emitted = Key \/ HandPublishes \/ \E n \in 1 .. MaxScans : worker[n].at = "publish"

\* While the verbs do not overlap: where a verb stands, what a verb in its
\* unlocked stretch still finds, who can be behind the last frame, and that a
\* listener has it, is being told, or will be told something else.
InTurn ==
    /\ \A g, h \in Hand : verb[g] # "idle" /\ verb[h] # "idle" => g = h
    /\ \A h \in Hand : (verb[h] = "grab" => capturing) /\ (verb[h] = "save" => held)
    /\ \/ emitted = Key \/ HandPublishes \/ WorkPublishes
       \/ ~processing /\ ~capturing /\ EndPublishes /\ emitted.phase = "processing"
    /\ processing /\ HandPublishes =>
           emitted = Key \/ emitted.phase = "capturing" \/ WorkPublishes
    /\ \/ view = emitted \/ SomeoneDelivers
       \/ emitted # Key

ScanInv == ScanTyped /\ Phases /\ OneWorkerEach /\ FrameOwed /\ (~overlapped => InTurn)

LEMMA KeySays == Key.phase = ScanPhase /\ Key'.phase = ScanPhase'
BY DEF Key

LEMMA KeyStays == UNCHANGED scanState => Key' = Key
<1> SUFFICES ASSUME UNCHANGED scanState PROVE Key' = Key
  OBVIOUS
<1>1. UNCHANGED <<capturing, shots, wanted, processing, held, progress, scanError, saves>>
  BY DEF scanState
<1>2. Grabbed' = Grabbed
  BY <1>1 DEF Grabbed
<1>3. ScanPhase' = ScanPhase
  BY <1>1 DEF ScanPhase
<1> QED BY <1>1, <1>2, <1>3 DEF Key

LEMMA ScanStarts == ScanInit => ScanInv
<1> SUFFICES ASSUME ScanInit PROVE ScanInv
  OBVIOUS
<1>1. /\ capturing = FALSE /\ processing = FALSE /\ held = FALSE /\ overlapped = FALSE
      /\ verb = [h \in Hand |-> "idle"] /\ scans = 0
      /\ worker = [n \in 1 .. MaxScans |-> NoWork] /\ emitted = Key /\ view = emitted
  BY DEF ScanInit
<1>2. \A n \in 1 .. MaxScans : /\ DOMAIN worker[n] = Fields /\ worker[n].at = "off"
                               /\ worker[n].ends = FALSE
  BY <1>1 DEF NoWork, Fields
<1>3. DOMAIN worker = 1 .. MaxScans /\ \A h \in Hand : verb[h] = "idle"
  BY <1>1
<1>4. ScanTyped
  <2>1. verb \in [Hand -> {"idle", "grab", "save", "publish", "deliver"}]
    BY <1>1
  <2> QED BY <1>1, <1>2, <1>3, <2>1 DEF ScanTyped
<1>5. Phases
  BY <1>1, <1>2 DEF Phases, Works
<1>6. OneWorkerEach
  BY <1>1, <1>2 DEF OneWorkerEach
<1>7. FrameOwed
  BY <1>1 DEF FrameOwed
<1>8. InTurn
  <2>1. emitted = Key /\ view = emitted /\ processing = FALSE
    BY <1>1
  <2> QED BY <1>3, <2>1, Zenon DEF InTurn
<1> QED BY <1>4, <1>5, <1>6, <1>7, <1>8 DEF ScanInv

\* A verb changes the scan and is about to publish.
LEMMA VerbOwes ==
    ASSUME ScanInv, NEW h \in Hand, verb[h] \in {"idle", "grab", "save"},
           verb' = [verb EXCEPT ![h] = "publish"],
           ~overlapped' => /\ ~overlapped /\ \A g \in Hand : g # h => verb[g] = "idle"
                           /\ ~processing /\ (processing' => capturing),
           UNCHANGED <<emitted, view>>,
           \A n \in 1 .. MaxScans : worker[n].at = "deliver" => worker'[n].at = "deliver"
    PROVE  FrameOwed' /\ (~overlapped' => InTurn')
<1>1. verb'[h] = "publish" /\ \A g \in Hand : g # h => verb'[g] = verb[g]
  BY DEF ScanInv, ScanTyped
<1>2. HandPublishes'
  BY <1>1 DEF HandPublishes
<1>3. FrameOwed'
  BY <1>2 DEF FrameOwed
<1>4. ASSUME ~overlapped' PROVE InTurn'
  <2>1. /\ ~overlapped /\ ~processing /\ (processing' => capturing)
        /\ \A g \in Hand : g # h => verb[g] = "idle"
    BY <1>4
  <2>2. InTurn
    BY <2>1 DEF ScanInv
  <2>3. ~HandPublishes
    BY <2>1 DEF HandPublishes
  <2>4. ~WorkPublishes
    BY <2>1 DEF ScanInv, Phases, WorkPublishes
  <2>5. emitted = Key \/ (~capturing /\ emitted.phase = "processing")
    BY <2>2, <2>3, <2>4 DEF InTurn
  <2>6. \A g, f \in Hand : verb'[g] # "idle" /\ verb'[f] # "idle" => g = f
    BY <1>1, <2>1
  <2>7. \A g \in Hand : verb'[g] # "grab" /\ verb'[g] # "save"
    BY <1>1, <2>1
  <2>8. processing' => emitted = Key' \/ emitted.phase = "capturing" \/ WorkPublishes'
    <3> SUFFICES ASSUME processing' PROVE emitted.phase = "capturing"
      OBVIOUS
    <3>1. capturing /\ emitted = Key
      BY <2>1, <2>5
    <3>2. ScanPhase = "capturing"
      BY <2>1, <3>1 DEF ScanPhase, ScanInv, Phases
    <3> QED BY <3>1, <3>2, KeySays
  <2>9. view = emitted \/ SomeoneDelivers' \/ emitted # Key'
    <3>1. CASE emitted = Key
      <4>1. view = emitted \/ SomeoneDelivers
        BY <2>2, <3>1 DEF InTurn
      <4>2. SomeoneDelivers => SomeoneDelivers'
        BY <1>1 DEF SomeoneDelivers
      <4> QED BY <4>1, <4>2
    <3>2. CASE ~capturing /\ emitted.phase = "processing"
      <4>1. ~processing'
        BY <2>1, <3>2
      <4>2. ScanPhase' # "processing"
        BY <4>1 DEF ScanPhase
      <4> QED BY <3>2, <4>2, KeySays
    <3> QED BY <2>5, <3>1, <3>2
  <2>10. UNCHANGED <<emitted, view>>
    OBVIOUS
  <2> QED BY <1>2, <2>6, <2>7, <2>8, <2>9, <2>10, Zenon DEF InTurn
<1> QED BY <1>3, <1>4

\* The worker changes the scan and is about to publish.
LEMMA WorkOwes ==
    ASSUME ScanInv, NEW n \in 1 .. MaxScans, worker[n].at = "page",
           worker'[n].at = "publish",
           \A m \in 1 .. MaxScans : m # n => worker'[m] = worker[m],
           UNCHANGED <<verb, emitted, view, overlapped, capturing>>, held => held',
           (processing' = TRUE /\ worker'[n].ends = FALSE)
           \/ (processing' = FALSE /\ worker'[n].ends = TRUE)
    PROVE  FrameOwed' /\ (~overlapped' => InTurn')
<1>1. FrameOwed'
  BY DEF FrameOwed
<1>2. ASSUME ~overlapped' PROVE InTurn'
  <2>1. InTurn
    BY <1>2 DEF ScanInv
  <2>2. Works(n) /\ processing /\ ~capturing
    BY DEF ScanInv, ScanTyped, Phases, Works
  <2>3. ~WorkPublishes
    BY <2>2 DEF ScanInv, Phases, WorkPublishes
  <2>4. emitted = Key \/ HandPublishes
    BY <2>1, <2>2, <2>3 DEF InTurn
  <2>5. HandPublishes' = HandPublishes
    BY DEF HandPublishes
  <2>6. processing' => WorkPublishes'
    BY DEF WorkPublishes, Works
  <2>7. ~processing' => EndPublishes' /\ ~capturing'
    BY <2>2 DEF EndPublishes
  <2>8. ScanPhase = "processing"
    BY <2>2 DEF ScanPhase, ScanInv, Phases
  <2>9. \/ HandPublishes' \/ WorkPublishes'
        \/ ~processing' /\ ~capturing' /\ EndPublishes' /\ emitted.phase = "processing"
    BY <2>4, <2>5, <2>6, <2>7, <2>8, KeySays
  <2>10. view = emitted \/ SomeoneDelivers' \/ emitted # Key'
    <3>1. CASE emitted = Key
      <4>1. view = emitted \/ SomeoneDelivers
        BY <2>1, <3>1 DEF InTurn
      <4>2. SomeoneDelivers => SomeoneDelivers'
        <5>1. \A m \in 1 .. MaxScans : worker[m].at = "deliver" => worker'[m].at = "deliver"
          OBVIOUS
        <5> QED BY <5>1 DEF SomeoneDelivers
      <4> QED BY <4>1, <4>2
    <3>2. CASE emitted # Key
      <4>1. emitted.phase = "capturing"
        BY <2>1, <2>2, <2>3, <2>4, <3>2 DEF InTurn
      <4>2. ScanPhase' # "capturing"
        BY <2>2 DEF ScanPhase
      <4> QED BY <4>1, <4>2, KeySays
    <3> QED BY <3>1, <3>2
  <2>11. /\ \A g, h \in Hand : verb'[g] # "idle" /\ verb'[h] # "idle" => g = h
         /\ \A h \in Hand : (verb'[h] = "grab" => capturing') /\ (verb'[h] = "save" => held')
    BY <2>1 DEF InTurn
  <2>12. emitted' = emitted /\ view' = view
    OBVIOUS
  <2> QED BY <2>6, <2>9, <2>10, <2>11, <2>12, Zenon DEF InTurn
<1> QED BY <1>1, <1>2

\* A step of nobody but the caller h, that changes nothing of the scan and
\* neither publishes nor delivers.
LEMMA Waits ==
    ASSUME ScanInv, NEW h \in Hand, verb[h] = "idle",
           (verb' = [verb EXCEPT ![h] = "grab"] /\ capturing)
           \/ (verb' = [verb EXCEPT ![h] = "save"] /\ held),
           overlapped' = (overlapped \/ \E g \in Hand : verb[g] # "idle"),
           UNCHANGED <<scanState, emitted, worker, view, scans>>
    PROVE  ScanInv'
<1>1. UNCHANGED <<capturing, processing, held, worker, scans, emitted, view>> /\ Key' = Key
  BY KeyStays DEF scanState
<1>2. /\ (verb'[h] = "grab" /\ capturing) \/ (verb'[h] = "save" /\ held)
      /\ \A g \in Hand : g # h => verb'[g] = verb[g]
  BY DEF ScanInv, ScanTyped
<1>3. ScanTyped'
  <2>1. verb' \in [Hand -> {"idle", "grab", "save", "publish", "deliver"}]
    BY DEF ScanInv, ScanTyped
  <2>2. overlapped' \in BOOLEAN
    BY DEF ScanInv, ScanTyped
  <2> QED BY <1>1, <2>1, <2>2 DEF ScanInv, ScanTyped
<1>4. Phases' /\ OneWorkerEach'
  BY <1>1 DEF ScanInv, Phases, Works, OneWorkerEach
<1>5. HandPublishes' = HandPublishes /\ SomeoneDelivers' = SomeoneDelivers
      /\ WorkPublishes' = WorkPublishes /\ EndPublishes' = EndPublishes
  BY <1>1, <1>2 DEF HandPublishes, SomeoneDelivers, WorkPublishes, EndPublishes, Works
<1>6. FrameOwed'
  BY <1>1, <1>5 DEF ScanInv, FrameOwed
<1>7. ASSUME ~overlapped' PROVE InTurn'
  <2>1. ~overlapped /\ \A g \in Hand : verb[g] = "idle"
    BY <1>7
  <2>2. InTurn
    BY <2>1 DEF ScanInv
  <2>3. /\ \A g, f \in Hand : verb'[g] # "idle" /\ verb'[f] # "idle" => g = f
        /\ \A g \in Hand : (verb'[g] = "grab" => capturing') /\ (verb'[g] = "save" => held')
    BY <1>1, <1>2, <2>1
  <2> QED BY <1>1, <1>5, <2>2, <2>3 DEF InTurn
<1> QED BY <1>3, <1>4, <1>6, <1>7 DEF ScanInv

\* What a publishing thread leaves is told already or is being delivered.
LEMMA Published ==
    ASSUME ScanInv, UNCHANGED <<scanState, view, scans, overlapped>>, emitted' = Key,
           DOMAIN worker' = 1 .. MaxScans, Phases', ScanTyped',
           \A h \in Hand : verb'[h] # verb[h] => verb[h] = "publish" /\ verb'[h] \in {"idle", "deliver"},
           WorkPublishes' => WorkPublishes,
           emitted = Key => (SomeoneDelivers => SomeoneDelivers'),
           emitted # Key => SomeoneDelivers',
           OneWorkerEach'
    PROVE  ScanInv'
<1>1. UNCHANGED <<capturing, processing, held>> /\ Key' = Key
  BY KeyStays DEF scanState
<1>2. FrameOwed'
  BY <1>1 DEF FrameOwed
<1>3. ASSUME ~overlapped' PROVE InTurn'
  <2>1. InTurn
    BY <1>3 DEF ScanInv
  <2>2. \A g \in Hand : verb'[g] # "idle" => verb[g] # "idle"
    OBVIOUS
  <2>3. \A g \in Hand : verb'[g] \in {"grab", "save"} => verb'[g] = verb[g]
    OBVIOUS
  <2>4. /\ \A g, f \in Hand : verb'[g] # "idle" /\ verb'[f] # "idle" => g = f
        /\ \A g \in Hand : (verb'[g] = "grab" => capturing') /\ (verb'[g] = "save" => held')
    BY <1>1, <2>1, <2>2, <2>3 DEF InTurn
  <2>5. view' = emitted' \/ SomeoneDelivers' \/ emitted' # Key'
    BY <2>1, <1>1 DEF InTurn
  <2>6. emitted' = Key'
    BY <1>1
  <2> QED BY <2>4, <2>5, <2>6, Zenon DEF InTurn
<1> QED BY <1>2, <1>3 DEF ScanInv

LEMMA PublishStatusKeeps ==
    ASSUME ScanInv, NEW h \in Hand, PublishStatus(h)
    PROVE  ScanInv'
<1>1. /\ verb[h] = "publish" /\ emitted' = Key
      /\ verb' = [verb EXCEPT ![h] = IF emitted = Key THEN "idle" ELSE "deliver"]
      /\ UNCHANGED <<scanState, worker, view, scans, overlapped>>
  BY DEF PublishStatus, Goes
<1>2. UNCHANGED <<capturing, processing, held>>
  BY <1>1 DEF scanState
<1>3. ScanTyped'
  <2>1. verb' \in [Hand -> {"idle", "grab", "save", "publish", "deliver"}]
    BY <1>1 DEF ScanInv, ScanTyped
  <2> QED BY <1>1, <1>2, <2>1 DEF ScanInv, ScanTyped
<1>4. Phases' /\ OneWorkerEach' /\ DOMAIN worker' = 1 .. MaxScans
  BY <1>1, <1>2 DEF ScanInv, ScanTyped, Phases, Works, OneWorkerEach
<1>5. /\ verb'[h] = (IF emitted = Key THEN "idle" ELSE "deliver")
      /\ \A g \in Hand : g # h => verb'[g] = verb[g]
  BY <1>1 DEF ScanInv, ScanTyped
<1>6. WorkPublishes' = WorkPublishes
  BY <1>1 DEF WorkPublishes, Works
<1>7. SomeoneDelivers => SomeoneDelivers'
  BY <1>1, <1>5 DEF SomeoneDelivers
<1>8. emitted # Key => SomeoneDelivers'
  BY <1>5 DEF SomeoneDelivers
<1>9. \A g \in Hand : verb'[g] # verb[g] => verb[g] = "publish" /\ verb'[g] \in {"idle", "deliver"}
  BY <1>1, <1>5
<1> QED BY <1>1, <1>3, <1>4, <1>6, <1>7, <1>8, <1>9, Published

\* Where the worker goes on, it extracts, is done, or delivers.
LEMMA WorkerMovesOn ==
    ASSUME ScanInv, NEW n \in 1 .. MaxScans, worker[n].at \in {"publish", "deliver"},
           worker' = Onward(n) \/ (worker[n].at = "publish" /\ worker' = [worker EXCEPT ![n].at = "deliver"]),
           UNCHANGED <<scanState, verb, scans, overlapped>>
    PROVE  /\ ScanTyped' /\ Phases' /\ OneWorkerEach' /\ DOMAIN worker' = 1 .. MaxScans
           /\ WorkPublishes' => WorkPublishes
           /\ worker'[n].at # "publish"
           /\ \A m \in 1 .. MaxScans : m # n => worker'[m] = worker[m]
<1>1. UNCHANGED <<capturing, processing, held, verb, scans, overlapped>>
  BY DEF scanState
<1>2. /\ DOMAIN worker = 1 .. MaxScans /\ DOMAIN worker[n] = Fields /\ worker[n].ends \in BOOLEAN
  BY DEF ScanInv, ScanTyped
<1>3. DOMAIN worker' = 1 .. MaxScans /\ \A m \in 1 .. MaxScans : m # n => worker'[m] = worker[m]
  BY <1>2 DEF Onward
<1>4. /\ DOMAIN worker'[n] = Fields
      /\ \/ worker[n].ends /\ worker'[n].at = "off" /\ worker'[n].ends = FALSE
         \/ ~worker[n].ends /\ worker'[n].at = "page" /\ worker'[n].ends = FALSE
         \/ worker'[n].at = "deliver" /\ worker'[n].ends = worker[n].ends
  <2>1. CASE worker' = Onward(n) /\ worker[n].ends
    BY <1>2, <2>1 DEF Onward, NoWork, Fields
  <2>2. CASE worker' = Onward(n) /\ ~worker[n].ends
    BY <1>2, <2>2 DEF Onward, Fields
  <2>3. CASE worker' = [worker EXCEPT ![n].at = "deliver"]
    BY <1>2, <2>3 DEF Fields
  <2> QED BY <2>1, <2>2, <2>3
<1>5. ScanTyped'
  <2> SUFFICES ASSUME NEW m \in 1 .. MaxScans
               PROVE  /\ DOMAIN worker'[m] = Fields /\ worker'[m].ends \in BOOLEAN
                      /\ worker'[m].at \in {"off", "page", "publish", "deliver"}
                      /\ worker'[m].ends => worker'[m].at \in {"publish", "deliver"}
    BY <1>1, <1>3 DEF ScanInv, ScanTyped
  <2>1. CASE m = n
    BY <1>2, <1>4, <2>1
  <2>2. CASE m # n
    BY <1>3, <2>2 DEF ScanInv, ScanTyped
  <2> QED BY <2>1, <2>2
<1>6. \A m \in 1 .. MaxScans : Works(m)' = Works(m)
  <2> SUFFICES ASSUME NEW m \in 1 .. MaxScans PROVE Works(m)' = Works(m)
    OBVIOUS
  <2>1. CASE m = n
    BY <1>2, <1>4, <2>1 DEF Works
  <2>2. CASE m # n
    BY <1>3, <2>2 DEF Works
  <2> QED BY <2>1, <2>2
<1>7. Phases'
  BY <1>1, <1>6 DEF ScanInv, Phases
<1>8. OneWorkerEach'
  <2>1. n <= scans
    BY DEF ScanInv, OneWorkerEach
  <2>2. capturing => scans # n
    BY DEF ScanInv, OneWorkerEach
  <2> QED BY <1>1, <1>3, <2>1, <2>2 DEF ScanInv, OneWorkerEach
<1>9. WorkPublishes' => WorkPublishes
  BY <1>3, <1>4, <1>6 DEF WorkPublishes
<1> QED BY <1>3, <1>4, <1>5, <1>7, <1>8, <1>9

LEMMA WorkerPublishesKeeps ==
    ASSUME ScanInv, NEW n \in 1 .. MaxScans, WorkerPublishes(n)
    PROVE  ScanInv'
<1>1. /\ worker[n].at = "publish" /\ emitted' = Key
      /\ worker' = IF emitted = Key THEN Onward(n) ELSE [worker EXCEPT ![n].at = "deliver"]
      /\ UNCHANGED <<scanState, verb, view, scans, overlapped>>
  BY DEF WorkerPublishes
<1>2. /\ ScanTyped' /\ Phases' /\ OneWorkerEach' /\ DOMAIN worker' = 1 .. MaxScans
      /\ WorkPublishes' => WorkPublishes
      /\ \A m \in 1 .. MaxScans : m # n => worker'[m] = worker[m]
  BY <1>1, WorkerMovesOn
<1>3. SomeoneDelivers => SomeoneDelivers'
  <2>1. \A m \in 1 .. MaxScans : worker[m].at = "deliver" => worker'[m].at = "deliver"
    BY <1>1, <1>2
  <2> QED BY <1>1, <2>1 DEF SomeoneDelivers
<1>4. emitted # Key => SomeoneDelivers'
  <2>1. emitted # Key => worker'[n].at = "deliver"
    BY <1>1 DEF ScanInv, ScanTyped, Fields
  <2> QED BY <2>1 DEF SomeoneDelivers
<1>5. \A h \in Hand : verb'[h] = verb[h]
  BY <1>1
<1> QED BY <1>1, <1>2, <1>3, <1>4, <1>5, Published

\* Who delivers has the listener read what there is.
LEMMA Delivered ==
    ASSUME ScanInv, UNCHANGED <<scanState, emitted, scans, overlapped>>, view' = Key,
           Phases', ScanTyped', OneWorkerEach',
           \A h \in Hand : verb'[h] # verb[h] => verb[h] = "deliver" /\ verb'[h] = "idle",
           \A n \in 1 .. MaxScans : worker'[n] # worker[n] =>
               worker[n].at = "deliver" /\ worker'[n].at # "publish"
    PROVE  ScanInv'
<1>1. UNCHANGED <<capturing, processing, held, emitted>> /\ Key' = Key
  BY KeyStays DEF scanState
<1>2. HandPublishes' = HandPublishes
  BY DEF HandPublishes
<1>3. /\ \A n \in 1 .. MaxScans : worker[n].at = "publish" => worker'[n] = worker[n]
      /\ \A n \in 1 .. MaxScans : worker'[n].at = "publish" => worker'[n] = worker[n]
  OBVIOUS
<1>4. WorkPublishes' = WorkPublishes /\ EndPublishes' = EndPublishes
  BY <1>3 DEF WorkPublishes, EndPublishes, Works
<1>5. FrameOwed'
  BY <1>1, <1>2, <1>3 DEF ScanInv, FrameOwed
<1>6. ASSUME ~overlapped' PROVE InTurn'
  <2>1. InTurn
    BY <1>6 DEF ScanInv
  <2>2. /\ \A g \in Hand : verb'[g] # "idle" => verb'[g] = verb[g]
    OBVIOUS
  <2>3. /\ \A g, f \in Hand : verb'[g] # "idle" /\ verb'[f] # "idle" => g = f
        /\ \A g \in Hand : (verb'[g] = "grab" => capturing') /\ (verb'[g] = "save" => held')
    BY <1>1, <2>1, <2>2 DEF InTurn
  <2>4. view' = emitted' \/ emitted' # Key'
    BY <1>1
  <2> QED BY <1>1, <1>2, <1>4, <2>1, <2>3, <2>4 DEF InTurn
<1> QED BY <1>5, <1>6 DEF ScanInv

LEMMA DeliverFrameKeeps ==
    ASSUME ScanInv, NEW h \in Hand, DeliverFrame(h)
    PROVE  ScanInv'
<1>1. /\ verb[h] = "deliver" /\ view' = Key /\ verb' = [verb EXCEPT ![h] = "idle"]
      /\ UNCHANGED <<scanState, emitted, worker, scans, overlapped>>
  BY DEF DeliverFrame, Goes
<1>2. UNCHANGED <<capturing, processing, held>>
  BY <1>1 DEF scanState
<1>3. ScanTyped'
  <2>1. verb' \in [Hand -> {"idle", "grab", "save", "publish", "deliver"}]
    BY <1>1 DEF ScanInv, ScanTyped
  <2> QED BY <1>1, <1>2, <2>1 DEF ScanInv, ScanTyped
<1>4. Phases' /\ OneWorkerEach'
  BY <1>1, <1>2 DEF ScanInv, Phases, Works, OneWorkerEach
<1>5. \A g \in Hand : verb'[g] # verb[g] => verb[g] = "deliver" /\ verb'[g] = "idle"
  BY <1>1 DEF ScanInv, ScanTyped
<1> QED BY <1>1, <1>3, <1>4, <1>5, Delivered

LEMMA WorkerDeliversKeeps ==
    ASSUME ScanInv, NEW n \in 1 .. MaxScans, WorkerDelivers(n)
    PROVE  ScanInv'
<1>1. /\ worker[n].at = "deliver" /\ view' = Key /\ worker' = Onward(n)
      /\ UNCHANGED <<scanState, emitted, verb, scans, overlapped>>
  BY DEF WorkerDelivers
<1>2. /\ ScanTyped' /\ Phases' /\ OneWorkerEach' /\ worker'[n].at # "publish"
      /\ \A m \in 1 .. MaxScans : m # n => worker'[m] = worker[m]
  BY <1>1, WorkerMovesOn
<1>3. \A m \in 1 .. MaxScans : worker'[m] # worker[m] =>
          worker[m].at = "deliver" /\ worker'[m].at # "publish"
  BY <1>1, <1>2
<1>4. \A h \in Hand : verb'[h] = verb[h]
  BY <1>1
<1> QED BY <1>1, <1>2, <1>3, <1>4, Delivered

\* The verbs keep the phases apart: the step of the caller h changes only the
\* flags named here and, when it starts extracting, the worker of the scan.
LEMMA VerbKeeps ==
    ASSUME ScanInv, NEW h \in Hand, verb[h] \in {"idle", "grab", "save"},
           verb' = [verb EXCEPT ![h] = "publish"],
           Calls(h) \/ (overlapped' = overlapped /\ verb[h] \in {"grab", "save"}),
           UNCHANGED <<emitted, view, worker, processing>>,
           capturing' \in BOOLEAN, held' \in BOOLEAN, held' => held,
           (capturing' = TRUE /\ capturing = TRUE /\ scans' = scans)
           \/ (capturing' = FALSE /\ scans' = scans)
           \/ (capturing' = TRUE /\ ~processing /\ ~held /\ scans < MaxScans /\ scans' = scans + 1),
           held' /\ capturing' => capturing,
           Calls(h) => ~processing
    PROVE  ScanInv'
<1>1. ScanTyped'
  <2>1. verb' \in [Hand -> {"idle", "grab", "save", "publish", "deliver"}]
    BY DEF ScanInv, ScanTyped
  <2>2. overlapped' \in BOOLEAN
    BY DEF ScanInv, ScanTyped, Calls
  <2> QED BY <2>1, <2>2 DEF ScanInv, ScanTyped
<1>2. Phases'
  <2>1. \A n \in 1 .. MaxScans : Works(n)' = Works(n)
    BY DEF Works
  <2>2. ~(capturing' /\ processing') /\ ~(capturing' /\ held') /\ ~(processing' /\ held')
    BY DEF ScanInv, Phases
  <2> QED BY <2>1, <2>2 DEF ScanInv, Phases
<1>3. OneWorkerEach'
  <2>1. /\ scans \in Nat /\ (\A n \in 1 .. MaxScans : n > scans => worker[n].at = "off")
        /\ (capturing => scans \in 1 .. MaxScans /\ worker[scans].at = "off")
    BY DEF ScanInv, OneWorkerEach
  <2>2. CASE scans' = scans
    <3>1. capturing' => capturing
      BY <2>1, <2>2
    <3> QED BY <2>1, <2>2, <3>1 DEF OneWorkerEach
  <2>3. CASE scans' = scans + 1 /\ scans < MaxScans
    <3>1. scans' \in Nat /\ scans' \in 1 .. MaxScans /\ scans' > scans
      BY <2>1, <2>3, ScanAssumption
    <3>2. \A n \in 1 .. MaxScans : n > scans' => n > scans
      BY <2>1, <2>3, ScanAssumption
    <3> QED BY <2>1, <3>1, <3>2 DEF OneWorkerEach
  <2> QED BY <2>2, <2>3
<1>4. ~overlapped' => /\ ~overlapped /\ \A g \in Hand : g # h => verb[g] = "idle"
                      /\ ~processing /\ (processing' => capturing)
  <2> SUFFICES ASSUME ~overlapped' PROVE /\ ~overlapped /\ \A g \in Hand : g # h => verb[g] = "idle"
                                         /\ ~processing
    OBVIOUS
  <2>1. CASE Calls(h)
    BY <2>1 DEF Calls
  <2>2. CASE overlapped' = overlapped /\ verb[h] \in {"grab", "save"}
    <3>1. InTurn
      BY <2>2 DEF ScanInv
    <3>2. \A g \in Hand : g # h => verb[g] = "idle"
      BY <2>2, <3>1 DEF InTurn
    <3>3. capturing \/ held
      BY <2>2, <3>1 DEF InTurn
    <3> QED BY <2>2, <3>2, <3>3 DEF ScanInv, Phases
  <2> QED BY <2>1, <2>2
<1>5. \A n \in 1 .. MaxScans : worker[n].at = "deliver" => worker'[n].at = "deliver"
  OBVIOUS
<1>6. FrameOwed' /\ (~overlapped' => InTurn')
  BY <1>4, <1>5, VerbOwes
<1> QED BY <1>1, <1>2, <1>3, <1>6 DEF ScanInv

LEMMA ProcessScanKeeps ==
    ASSUME ScanInv, NEW h \in Hand, ProcessScan(h)
    PROVE  ScanInv'
<1>1. /\ Calls(h) /\ ~processing /\ ~held /\ capturing
      /\ processing' = TRUE /\ capturing' = FALSE
      /\ worker' = [worker EXCEPT ![scans] = [NoWork EXCEPT !.at = "page", !.left = Grabbed]]
      /\ verb' = [verb EXCEPT ![h] = "publish"]
      /\ UNCHANGED <<held, emitted, view, scans>>
  BY DEF ProcessScan, Goes
<1>2. scans \in 1 .. MaxScans /\ worker[scans].at = "off"
  BY <1>1 DEF ScanInv, OneWorkerEach
<1>3. /\ DOMAIN worker' = 1 .. MaxScans /\ DOMAIN worker'[scans] = Fields
      /\ worker'[scans].at = "page" /\ worker'[scans].ends = FALSE
      /\ \A m \in 1 .. MaxScans : m # scans => worker'[m] = worker[m]
  <2>1. DOMAIN worker = 1 .. MaxScans
    BY DEF ScanInv, ScanTyped
  <2> PICK w : w = [NoWork EXCEPT !.at = "page", !.left = Grabbed]
    OBVIOUS
  <2>2. DOMAIN w = Fields /\ w.at = "page" /\ w.ends = FALSE
    BY DEF NoWork, Fields
  <2>3. worker' = [worker EXCEPT ![scans] = w]
    BY <1>1
  <2>4. /\ DOMAIN worker' = 1 .. MaxScans /\ worker'[scans] = w
        /\ \A m \in 1 .. MaxScans : m # scans => worker'[m] = worker[m]
    BY <1>2, <2>1, <2>3
  <2> QED BY <2>2, <2>4
<1>4. ScanTyped'
  <2>1. verb' \in [Hand -> {"idle", "grab", "save", "publish", "deliver"}]
    BY <1>1 DEF ScanInv, ScanTyped
  <2>2. overlapped' \in BOOLEAN
    BY <1>1 DEF ScanInv, ScanTyped, Calls
  <2>3. ASSUME NEW m \in 1 .. MaxScans
        PROVE  /\ DOMAIN worker'[m] = Fields /\ worker'[m].ends \in BOOLEAN
               /\ worker'[m].at \in {"off", "page", "publish", "deliver"}
               /\ worker'[m].ends => worker'[m].at \in {"publish", "deliver"}
    <3>1. CASE m = scans
      BY <1>3, <3>1
    <3>2. CASE m # scans
      BY <1>3, <3>2 DEF ScanInv, ScanTyped
    <3> QED BY <3>1, <3>2
  <2>4. held' \in BOOLEAN
    BY <1>1 DEF ScanInv, ScanTyped
  <2> QED BY <1>1, <1>3, <2>1, <2>2, <2>3, <2>4 DEF ScanTyped
<1>5. \A m \in 1 .. MaxScans : Works(m)' <=> m = scans
  <2>1. \A m \in 1 .. MaxScans : ~Works(m)
    BY <1>1 DEF ScanInv, Phases
  <2> QED BY <1>3, <2>1 DEF Works
<1>6. Phases'
  BY <1>1, <1>2, <1>5 DEF Phases
<1>7. OneWorkerEach'
  <2>1. scans' = scans /\ ~capturing'
    BY <1>1
  <2>2. \A n \in 1 .. MaxScans : n > scans => n # scans
    BY <1>2
  <2> QED BY <1>3, <2>1, <2>2 DEF ScanInv, OneWorkerEach
<1>8. \A n \in 1 .. MaxScans : worker[n].at = "deliver" => worker'[n].at = "deliver"
  BY <1>2, <1>3
<1>9. FrameOwed' /\ (~overlapped' => InTurn')
  <2>1. verb[h] = "idle" /\ (~overlapped' => ~overlapped /\ \A g \in Hand : g # h => verb[g] = "idle")
    BY <1>1 DEF Calls
  <2> QED BY <1>1, <1>8, <2>1, VerbOwes
<1> QED BY <1>4, <1>6, <1>7, <1>9 DEF ScanInv

LEMMA WorkerChangesKeep ==
    ASSUME ScanInv, NEW n \in 1 .. MaxScans, worker[n].at = "page",
           DOMAIN worker' = 1 .. MaxScans, DOMAIN worker'[n] = Fields,
           worker'[n].at = "publish",
           \A m \in 1 .. MaxScans : m # n => worker'[m] = worker[m],
           UNCHANGED <<verb, emitted, view, overlapped, capturing, scans>>,
           held' \in BOOLEAN, held => held',
           (processing' = TRUE /\ worker'[n].ends = FALSE /\ held' = held)
           \/ (processing' = FALSE /\ worker'[n].ends = TRUE)
    PROVE  ScanInv'
<1>1. Works(n) /\ processing /\ ~capturing /\ ~held
  BY DEF ScanInv, ScanTyped, Phases, Works
<1>2. ScanTyped'
  <2> SUFFICES ASSUME NEW m \in 1 .. MaxScans
               PROVE  /\ DOMAIN worker'[m] = Fields /\ worker'[m].ends \in BOOLEAN
                      /\ worker'[m].at \in {"off", "page", "publish", "deliver"}
                      /\ worker'[m].ends => worker'[m].at \in {"publish", "deliver"}
    BY DEF ScanInv, ScanTyped
  <2>1. CASE m = n
    BY <2>1
  <2>2. CASE m # n
    BY <2>2 DEF ScanInv, ScanTyped
  <2> QED BY <2>1, <2>2
<1>3. \A m \in 1 .. MaxScans : m # n => ~Works(m) /\ ~Works(m)'
  <2>1. \A m \in 1 .. MaxScans : m # n => ~Works(m)
    BY <1>1 DEF ScanInv, Phases
  <2> QED BY <2>1 DEF Works
<1>4. Works(n)' <=> processing'
  BY DEF Works
<1>5. Phases'
  BY <1>1, <1>3, <1>4 DEF Phases
<1>6. OneWorkerEach'
  <2>1. n <= scans /\ scans \in Nat
    BY DEF ScanInv, OneWorkerEach
  <2>2. \A m \in 1 .. MaxScans : m > scans => m # n
    BY <2>1
  <2> QED BY <1>1, <2>2 DEF ScanInv, OneWorkerEach
<1>7. FrameOwed' /\ (~overlapped' => InTurn')
  BY WorkOwes
<1> QED BY <1>2, <1>5, <1>6, <1>7 DEF ScanInv

LEMMA ExtractPageKeeps ==
    ASSUME ScanInv, NEW n \in 1 .. MaxScans, NEW found \in BOOLEAN, ExtractPage(n, found)
    PROVE  ScanInv'
<1>1. /\ worker[n].at = "page"
      /\ worker' = [worker EXCEPT ![n] = [@ EXCEPT !.at = "publish", !.left = @ - 1,
                                                   !.found = @ \/ found]]
      /\ UNCHANGED <<capturing, processing, held, emitted, verb, view, scans, overlapped>>
  BY DEF ExtractPage
<1>2. DOMAIN worker = 1 .. MaxScans /\ DOMAIN worker[n] = Fields /\ worker[n].ends = FALSE
  BY <1>1 DEF ScanInv, ScanTyped
<1>3. /\ DOMAIN worker' = 1 .. MaxScans /\ DOMAIN worker'[n] = Fields
      /\ worker'[n].at = "publish" /\ worker'[n].ends = FALSE
      /\ \A m \in 1 .. MaxScans : m # n => worker'[m] = worker[m]
  BY <1>1, <1>2 DEF Fields
<1>4. processing = TRUE /\ held \in BOOLEAN
  BY <1>1, <1>2 DEF ScanInv, Phases, Works, ScanTyped
<1> QED BY <1>1, <1>3, <1>4, WorkerChangesKeep

LEMMA SettleWorkKeeps ==
    ASSUME ScanInv, NEW n \in 1 .. MaxScans, NEW panics \in BOOLEAN, SettleWork(n, panics)
    PROVE  ScanInv'
<1>1. /\ worker[n].at = "page" /\ processing' = FALSE
      /\ worker' = [worker EXCEPT ![n].at = "publish", ![n].ends = TRUE]
      /\ held' = TRUE \/ held' = held
      /\ UNCHANGED <<capturing, emitted, verb, view, scans, overlapped>>
  BY DEF SettleWork
<1>2. DOMAIN worker = 1 .. MaxScans /\ DOMAIN worker[n] = Fields /\ held \in BOOLEAN
  BY DEF ScanInv, ScanTyped
<1>3. /\ DOMAIN worker' = 1 .. MaxScans /\ DOMAIN worker'[n] = Fields
      /\ worker'[n].at = "publish" /\ worker'[n].ends = TRUE
      /\ \A m \in 1 .. MaxScans : m # n => worker'[m] = worker[m]
  BY <1>1, <1>2 DEF Fields
<1>4. held' \in BOOLEAN /\ (held => held')
  <2>1. CASE held' = TRUE
    BY <2>1
  <2>2. CASE held' = held
    BY <1>2, <2>2
  <2> QED BY <1>1, <2>1, <2>2
<1> QED BY <1>1, <1>3, <1>4, WorkerChangesKeep

LEMMA ScanStep == ScanInv /\ [ScanNext]_scanVars => ScanInv'
<1> SUFFICES ASSUME ScanInv, [ScanNext]_scanVars PROVE ScanInv'
  OBVIOUS
<1>0. capturing \in BOOLEAN /\ held \in BOOLEAN /\ ~(capturing /\ held)
      /\ (capturing \/ held => ~processing)
  BY DEF ScanInv, ScanTyped, Phases
<1>1. ASSUME NEW h \in Hand, NEW pages \in Pages, StartScan(h, pages) PROVE ScanInv'
  <2>1. /\ Calls(h) /\ scans < MaxScans /\ ~processing /\ ~held /\ capturing' = TRUE
        /\ scans' = scans + 1 /\ verb' = [verb EXCEPT ![h] = "publish"]
        /\ UNCHANGED <<processing, held, emitted, worker, view>>
    BY <1>1 DEF StartScan, Goes
  <2>2. verb[h] = "idle"
    BY <2>1 DEF Calls
  <2> QED BY <1>0, <2>1, <2>2, VerbKeeps
<1>2. ASSUME NEW h \in Hand, BeginCapture(h) PROVE ScanInv'
  BY <1>2, Waits DEF BeginCapture, Calls, Goes
<1>3. ASSUME NEW h \in Hand, NEW grabbed \in BOOLEAN, PushCapture(h, grabbed) PROVE ScanInv'
  <2>1. /\ verb[h] = "grab" /\ verb' = [verb EXCEPT ![h] = "publish"]
        /\ UNCHANGED <<capturing, processing, held, emitted, worker, view, scans, overlapped>>
    BY <1>3 DEF PushCapture, Goes
  <2>2. ~Calls(h)
    BY <2>1 DEF Calls
  <2> QED BY <1>0, <2>1, <2>2, VerbKeeps
<1>4. ASSUME NEW h \in Hand, CancelScan(h) PROVE ScanInv'
  <2>1. /\ Calls(h) /\ ~processing /\ capturing' = FALSE /\ held' = FALSE
        /\ verb' = [verb EXCEPT ![h] = "publish"]
        /\ UNCHANGED <<processing, emitted, worker, view, scans>>
    BY <1>4 DEF CancelScan, Goes, Reset
  <2>2. verb[h] = "idle"
    BY <2>1 DEF Calls
  <2> QED BY <2>1, <2>2, VerbKeeps
<1>5. ASSUME NEW h \in Hand, UndoCapture(h) PROVE ScanInv'
  <2>1. /\ Calls(h) /\ ~processing /\ verb' = [verb EXCEPT ![h] = "publish"]
        /\ UNCHANGED <<capturing, held, processing, emitted, worker, view, scans>>
    BY <1>5 DEF UndoCapture, Goes
  <2>2. verb[h] = "idle"
    BY <2>1 DEF Calls
  <2> QED BY <1>0, <2>1, <2>2, VerbKeeps
<1>6. ASSUME NEW h \in Hand, BeginAccept(h) PROVE ScanInv'
  BY <1>6, Waits DEF BeginAccept, Calls, Goes
<1>7. ASSUME NEW h \in Hand, AcceptFails(h) PROVE ScanInv'
  <2>1. /\ verb[h] = "save" /\ verb' = [verb EXCEPT ![h] = "publish"]
        /\ UNCHANGED <<capturing, processing, held, emitted, worker, view, scans, overlapped>>
    BY <1>7 DEF AcceptFails, Goes
  <2>2. ~Calls(h)
    BY <2>1 DEF Calls
  <2> QED BY <1>0, <2>1, <2>2, VerbKeeps
<1>8. ASSUME NEW h \in Hand, AcceptSaves(h) PROVE ScanInv'
  <2>1. /\ verb[h] = "save" /\ verb' = [verb EXCEPT ![h] = "publish"]
        /\ capturing' = FALSE /\ held' = FALSE
        /\ UNCHANGED <<processing, emitted, worker, view, scans, overlapped>>
    BY <1>8 DEF AcceptSaves, Goes, Reset
  <2>2. ~Calls(h)
    BY <2>1 DEF Calls
  <2> QED BY <2>1, <2>2, VerbKeeps
<1>9. ASSUME NEW h \in Hand, RejectResult(h) PROVE ScanInv'
  <2>1. /\ Calls(h) /\ held /\ capturing' = FALSE /\ held' = FALSE
        /\ verb' = [verb EXCEPT ![h] = "publish"]
        /\ UNCHANGED <<processing, emitted, worker, view, scans>>
    BY <1>9 DEF RejectResult, Goes, Reset
  <2>2. verb[h] = "idle" /\ ~processing
    BY <1>0, <2>1 DEF Calls
  <2> QED BY <2>1, <2>2, VerbKeeps
<1>10. CASE UNCHANGED scanVars
  <2>1. UNCHANGED <<scanState, emitted, verb, worker, view, scans, overlapped>>
    BY <1>10 DEF scanVars
  <2>2. UNCHANGED <<capturing, processing, held>> /\ Key' = Key
    BY <2>1, KeyStays DEF scanState
  <2>3. ScanTyped' /\ Phases' /\ OneWorkerEach'
    BY <2>1, <2>2 DEF ScanInv, ScanTyped, Phases, Works, OneWorkerEach
  <2>4. FrameOwed' /\ (InTurn <=> InTurn')
    BY <2>1, <2>2 DEF ScanInv, FrameOwed, InTurn, HandPublishes, WorkPublishes, EndPublishes,
                      SomeoneDelivers, Works
  <2> QED BY <2>1, <2>3, <2>4 DEF ScanInv
<1> QED BY <1>1, <1>2, <1>3, <1>4, <1>5, <1>6, <1>7, <1>8, <1>9, <1>10, ProcessScanKeeps,
           PublishStatusKeeps, DeliverFrameKeeps, ExtractPageKeeps, SettleWorkKeeps,
           WorkerPublishesKeeps, WorkerDeliversKeeps
        DEF ScanNext

\* For any callers, pages, captures and scans: one phase at a time and one
\* worker that extracts, no frame is owed when every thread is at rest, and
\* while verbs do not overlap the listener has the status there is.
THEOREM ListenersStayCurrent == ScanSpec => []ListenersCurrent
<1>1. ScanInv => ListenersCurrent
  <2> SUFFICES ASSUME ScanInv PROVE ListenersCurrent
    OBVIOUS
  <2>1. DOMAIN worker = 1 .. MaxScans
    BY DEF ScanInv, ScanTyped
  <2>2. ~(capturing /\ processing) /\ ~(capturing /\ held) /\ ~(processing /\ held)
    BY DEF ScanInv, Phases
  <2>3. processing = \E n \in DOMAIN worker : worker[n].at # "off" /\ ~worker[n].ends
    BY <2>1 DEF ScanInv, ScanTyped, Phases, Works
  <2>4. Quiet => ~HandPublishes /\ ~SomeoneDelivers
                 /\ \A n \in 1 .. MaxScans : worker[n].at # "publish"
    BY <2>1 DEF Quiet, HandPublishes, SomeoneDelivers
  <2>5. Quiet => emitted = Key
    BY <2>4 DEF ScanInv, FrameOwed
  <2>6. Quiet /\ ~overlapped => view = Key
    BY <2>4, <2>5 DEF ScanInv, InTurn
  <2> QED BY <2>2, <2>3, <2>5, <2>6 DEF ListenersCurrent
<1> QED BY <1>1, ScanStarts, ScanStep, PTL DEF ScanSpec

=============================================================================
