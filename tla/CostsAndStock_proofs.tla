------------------------ MODULE CostsAndStock_proofs ------------------------
(***************************************************************************)
(* What play costs and what it brings: the armour costs shared among the   *)
(* sessions whose hits they pay for, and the stock ledger with the market, *)
(* for any number of sets, hits, windows, items, sources and plans.        *)
(*                                                                         *)
(* Both are about sums that must come out whatever is undone later.  A     *)
(* window's shares are divided by the hits that claim it, each hit by one  *)
(* window and layer.  The movements of every fact of the stock ledger are  *)
(* those of one plan, taken by the sources in the plan's shares and given  *)
(* back in full by an expiry, so every balance follows from sums over one  *)
(* plan.                                                                   *)
(***************************************************************************)
EXTENDS ProtectionEvidence, StockLedger, ModelLemmas

-----------------------------------------------------------------------------
Setup == [session : SessionId, loadout : Loadout]
Hit == [session : SessionId, setup : Nat]
Claim == [window : Nat, layer : Layer \union {Absent}, hit : Nat]
Window == [cost : Int, shares : UNION {[D -> Int] : D \in SUBSET SessionId}, booked : BOOLEAN]

ReadingsTyped ==
    /\ DOMAIN reading = Limited
    /\ \A set \in Limited : reading[set] = Absent \/ (reading[set].value \in Int /\ reading[set].cursor \in Nat)

ProtectionTyped ==
    /\ tracked \in SessionId \union {Absent}
    /\ closed \subseteq SessionId
    /\ setups \in Seq(Setup) /\ hits \in Seq(Hit) /\ windows \in Seq(Window)
    /\ claims \subseteq Claim
    /\ standing \in 0 .. Len(setups)
    /\ declaring # Absent => declaring.loadout \in Loadout /\ tracked # Absent
    /\ ReadingsTyped
    /\ armourCost \in [SessionId -> Int]

\* A hit is stamped with a setup of its own session.
SetupsFit ==
    /\ standing # 0 => setups[standing].session = tracked
    /\ \A h \in DOMAIN hits :
        /\ hits[h].setup \in 0 .. Len(setups)
        /\ hits[h].setup # 0 => setups[hits[h].setup].session = hits[h].session

ProtectionInvariant ==
    ProtectionTyped /\ SetupsFit /\ LayersPayOnce /\ CostsFullyAllocated

\* What a step that charges nothing leaves: every hit its session, and every
\* hit that a cost has claimed its layers.
EvidenceKept ==
    /\ DOMAIN hits \subseteq DOMAIN hits'
    /\ \A h \in DOMAIN hits : hits'[h].session = hits[h].session
    /\ \A h \in DOMAIN hits : Claimed(h) => Worn(h)' = Worn(h)

\* What the windows in X allocated to session s, and what the sessions in X
\* bear of a cost before the last one.
Carried(rows, s, X) == MapThenSumSet(LAMBDA w : rows[w].shares[s], X)
Borne(cost, found, X) == MapThenSumSet(LAMBDA s : Share(cost, found, s), X)

LEMMA CarriedIsSum ==
    ASSUME NEW rows, NEW s, NEW X, NEW g, \A w \in X : g[w] = rows[w].shares[s], IntValued(g, X)
    PROVE  Carried(rows, s, X) = SumOf(g, X)
<1> DEFINE F(it) == it = [t \in SUBSET X |-> IF t = {} THEN 0
                                             ELSE rows[Chosen(t)].shares[s] + it[t \ {Chosen(t)}]]
           f == CHOOSE it : F(it)
<1>1. Carried(rows, s, X) = f[X]
  BY Zenon DEF Carried, MapThenSumSet, MapThenFoldSet, Chosen
<1>2. \A t \in SUBSET X : t # {} => g[Chosen(t)] = rows[Chosen(t)].shares[s]
  BY ChosenIsMember
<1>3. ASSUME NEW it PROVE F(it) <=> IsFold(it, g, X)
  BY <1>2 DEF IsFold
<1>4. F(f)
  <2>1. \E it : F(it)
    BY <1>3, FoldExists
  <2> QED BY <2>1
<1> HIDE DEF f
<1>5. IsFold(f, g, X)
  BY <1>3, <1>4
<1> QED BY <1>1, <1>5, FoldIsSum

LEMMA BorneIsSum ==
    ASSUME NEW cost, NEW found, NEW X, NEW g, \A s \in X : g[s] = Share(cost, found, s), IntValued(g, X)
    PROVE  Borne(cost, found, X) = SumOf(g, X)
<1> DEFINE F(it) == it = [t \in SUBSET X |-> IF t = {} THEN 0
                                             ELSE Share(cost, found, Chosen(t)) + it[t \ {Chosen(t)}]]
           f == CHOOSE it : F(it)
<1>1. Borne(cost, found, X) = f[X]
  BY Zenon DEF Borne, MapThenSumSet, MapThenFoldSet, Chosen
<1>2. \A t \in SUBSET X : t # {} => g[Chosen(t)] = Share(cost, found, Chosen(t))
  BY ChosenIsMember
<1>3. ASSUME NEW it PROVE F(it) <=> IsFold(it, g, X)
  BY <1>2 DEF IsFold
<1>4. F(f)
  <2>1. \E it : F(it)
    BY <1>3, FoldExists
  <2> QED BY <2>1
<1> HIDE DEF f
<1>5. IsFold(f, g, X)
  BY <1>3, <1>4
<1> QED BY <1>1, <1>5, FoldIsSum

\* The hits of a table and their sessions are finite, and so is what they claim.
LEMMA FoundIsFinite ==
    ASSUME ProtectionTyped, NEW found \in SUBSET (DOMAIN hits)
    PROVE  /\ IsFiniteSet(found) /\ Cardinality(found) \in Nat
           /\ found # {} => Cardinality(found) # 0
           /\ IsFiniteSet({hits[h].session : h \in found})
           /\ {hits[h].session : h \in found} \subseteq SessionId
           /\ \A s : Cardinality(found \cap HitsOf(s)) \in Nat
<1>1. Len(hits) \in Nat /\ DOMAIN hits = 1 .. Len(hits) /\ \A h \in DOMAIN hits : hits[h] \in Hit
  BY LenProperties, ElementOfSeq DEF ProtectionTyped
<1>2. IsFiniteSet(1 .. Len(hits))
  BY <1>1, FS_Interval
<1>3. IsFiniteSet(found) /\ Cardinality(found) \in Nat
  BY <1>1, <1>2, FS_Subset, FS_CardinalityType
<1>4. found # {} => Cardinality(found) # 0
  BY <1>3, FS_EmptySet
<1>5. IsFiniteSet({hits[h].session : h \in found})
  <2> DEFINE f == [h \in found |-> hits[h].session]
  <2>1. f \in Surjection(found, {f[h] : h \in found})
    BY DEF Surjection
  <2>3. IsFiniteSet({f[h] : h \in found})
    <3> HIDE DEF f
    <3> QED BY <1>3, <2>1, FS_Surjection
  <2>2. {f[h] : h \in found} = {hits[h].session : h \in found}
    OBVIOUS
  <2> QED BY <2>3, <2>2
<1>6. {hits[h].session : h \in found} \subseteq SessionId
  BY <1>1 DEF Hit
<1>7. \A s : Cardinality(found \cap HitsOf(s)) \in Nat
  <2> SUFFICES ASSUME NEW s PROVE Cardinality(found \cap HitsOf(s)) \in Nat
    OBVIOUS
  <2>1. IsFiniteSet(found \cap HitsOf(s))
    BY <1>3, FS_Subset
  <2> QED BY <2>1, FS_CardinalityType
<1> QED BY <1>3, <1>4, <1>5, <1>6, <1>7

\* What is shared out is the cost, whichever session takes the remainder.
LEMMA AllocationIsTheCost ==
    ASSUME ProtectionTyped, NEW found \in SUBSET (DOMAIN hits), found # {}, NEW cost \in Int,
           NEW last \in {hits[h].session : h \in found}
    PROVE  \E a : /\ a = Allocation(cost, found, last)
                  /\ a \in [{hits[h].session : h \in found} -> Int]
                  /\ IntValued(a, DOMAIN a) /\ SumOf(a, DOMAIN a) = cost
<1> DEFINE T == {hits[h].session : h \in found}
           R == T \ {last}
           g == [s \in T |-> Share(cost, found, s)]
           a == Allocation(cost, found, last)
<1>1. IsFiniteSet(T) /\ IsFiniteSet(R)
  BY FoundIsFinite, FS_Subset
<1>2. \A s : Share(cost, found, s) \in Int
  <2>0. Cardinality(found) \in Nat /\ Cardinality(found) # 0
    BY FoundIsFinite
  <2>1. Cardinality(found) \in Nat /\ Cardinality(found) > 0
    BY <2>0
  <2>2. \A s : Cardinality(found \cap HitsOf(s)) \in Nat
    BY FoundIsFinite
  <2> QED BY <2>1, <2>2 DEF Share
<1>3. IntValued(g, R) /\ \A s \in R : g[s] = Share(cost, found, s)
  BY <1>1, <1>2 DEF IntValued
<1>4. PICK b \in Int : b = Borne(cost, found, R) /\ b = SumOf(g, R)
  <2> HIDE DEF g, R
  <2> QED BY <1>3, BorneIsSum, SumIsInt
<1>5. a = [s \in T |-> IF s = last THEN cost - b ELSE Share(cost, found, s)]
  BY <1>4 DEF Allocation, Borne
<1> HIDE DEF a
<1>6. a \in [T -> Int] /\ a[last] = cost - b /\ \A s \in R : a[s] = g[s]
  BY <1>2, <1>4, <1>5
<1>7. IntValued(a, T)
  BY <1>1, <1>6 DEF IntValued
<1>8. SumOf(a, R) = b
  <2> HIDE DEF g, R
  <2> QED BY <1>3, <1>4, <1>6, SumOfAgrees
<1>9. SumOf(a, T) = a[last] + SumOf(a, R)
  <2>1. last \in T
    OBVIOUS
  <2> HIDE DEF T
  <2> QED BY <1>7, <2>1, SumOfRemove
<1>10. SumOf(a, T) = cost
  <2>1. SumOf(a, T) = (cost - b) + b
    BY <1>6, <1>8, <1>9
  <2>2. (cost - b) + b = cost
    BY <1>4
  <2> QED BY <2>1, <2>2
<1> QED BY <1>6, <1>7, <1>10 DEF a

LEMMA EmptyShares == << >> \in [{} -> Int] /\ DOMAIN << >> = {}
OBVIOUS

LEMMA RowsOfEvidence ==
    ASSUME ProtectionTyped
    PROVE  /\ Len(setups) \in Nat /\ DOMAIN setups = 1 .. Len(setups)
           /\ Len(hits) \in Nat /\ DOMAIN hits = 1 .. Len(hits)
           /\ Len(windows) \in Nat /\ DOMAIN windows = 1 .. Len(windows)
           /\ \A i \in DOMAIN setups : setups[i] \in Setup
           /\ \A h \in DOMAIN hits : hits[h] \in Hit
           /\ \A w \in DOMAIN windows : windows[w] \in Window
BY LenProperties, ElementOfSeq DEF ProtectionTyped

\* A setup appended to those there are.
LEMMA OpenedSetup ==
    ASSUME ProtectionTyped, NEW s \in SessionId, NEW l \in Loadout,
           setups' = Append(setups, [session |-> s, loadout |-> l])
    PROVE  /\ setups' \in Seq(Setup) /\ Len(setups') = Len(setups) + 1 /\ Len(setups) + 1 \in Nat
           /\ DOMAIN setups \subseteq DOMAIN setups' /\ DOMAIN setups' = 1 .. Len(setups) + 1
           /\ \A i \in DOMAIN setups : setups'[i] = setups[i]
           /\ setups'[Len(setups) + 1].session = s
<1>1. PICK r : r = [session |-> s, loadout |-> l]
  OBVIOUS
<1>2. r \in Setup /\ r.session = s
  BY <1>1 DEF Setup
<1>3. setups \in Seq(Setup) /\ setups' = Append(setups, r)
  BY <1>1 DEF ProtectionTyped
<1> QED BY <1>2, <1>3, AppendRow

\* Where hits and the setups they are stamped with stay, so does what they wore.
LEMMA WornStays ==
    ASSUME ProtectionTyped, SetupsFit, UNCHANGED hits,
           \A i \in DOMAIN setups : setups'[i].loadout = setups[i].loadout
    PROVE  EvidenceKept
<1>1. ASSUME NEW h \in DOMAIN hits PROVE Worn(h)' = Worn(h)
  <2>1. hits[h].setup # 0 => hits[h].setup \in DOMAIN setups
    BY RowsOfEvidence DEF SetupsFit
  <2>2. hits'[h] = hits[h]
    OBVIOUS
  <2> QED BY <2>1, <2>2 DEF Worn
<1> QED BY <1>1 DEF EvidenceKept

\* Only hits that are owed a cost are moved to another setup.
LEMMA AdoptedOwed ==
    ASSUME ProtectionTyped, NEW s \in SessionId, NEW n \in Nat
    PROVE  /\ Adopted(s, n) \in Seq(Hit) /\ DOMAIN Adopted(s, n) = DOMAIN hits
           /\ \A h \in DOMAIN hits :
                /\ Adopted(s, n)[h].session = hits[h].session
                /\ \/ Adopted(s, n)[h] = hits[h]
                   \/ Adopted(s, n)[h].setup = n /\ hits[h].session = s /\ ~Claimed(h)
<1> DEFINE new == Adopted(s, n)
<1>1. Len(hits) \in Nat /\ DOMAIN hits = 1 .. Len(hits) /\ \A h \in DOMAIN hits : hits[h] \in Hit
  BY RowsOfEvidence
<1>2. ASSUME NEW h \in DOMAIN hits
      PROVE  /\ [hits[h] EXCEPT !.setup = n] \in Hit
             /\ [hits[h] EXCEPT !.setup = n].session = hits[h].session
             /\ [hits[h] EXCEPT !.setup = n].setup = n
  <2>1. hits[h] \in Hit
    BY <1>1
  <2> QED BY <2>1 DEF Hit
<1>3. \A h \in Owed(s) : hits[h].session = s /\ ~Claimed(h)
  BY DEF Owed, HitsOf
<1>4. new = [h \in DOMAIN hits |-> IF h \in Owed(s) THEN [hits[h] EXCEPT !.setup = n] ELSE hits[h]]
  BY DEF Adopted
<1> HIDE DEF new
<1>5. new \in [1 .. Len(hits) -> Hit]
  <2>1. \A h \in 1 .. Len(hits) :
            (IF h \in Owed(s) THEN [hits[h] EXCEPT !.setup = n] ELSE hits[h]) \in Hit
    BY <1>1, <1>2
  <2> QED BY <1>1, <1>4, <2>1
<1>6. new \in Seq(Hit) /\ DOMAIN new = DOMAIN hits
  BY <1>1, <1>5
<1>7. ASSUME NEW h \in DOMAIN hits
      PROVE  /\ new[h].session = hits[h].session
             /\ new[h] = hits[h] \/ (new[h].setup = n /\ hits[h].session = s /\ ~Claimed(h))
  <2>1. new[h] = IF h \in Owed(s) THEN [hits[h] EXCEPT !.setup = n] ELSE hits[h]
    BY <1>4
  <2>2. CASE h \in Owed(s)
    BY <1>2, <1>3, <2>1, <2>2
  <2>3. CASE h \notin Owed(s)
    BY <2>1, <2>3
  <2> QED BY <2>2, <2>3
<1> QED BY <1>6, <1>7 DEF new

\* Adopting into a setup just opened leaves every claimed hit as it was.
LEMMA AdoptionFits ==
    ASSUME ProtectionTyped, SetupsFit, NEW s \in SessionId, NEW l \in Loadout,
           setups' = Append(setups, [session |-> s, loadout |-> l]),
           hits' = Adopted(s, Len(setups) + 1)
    PROVE  /\ hits' \in Seq(Hit) /\ EvidenceKept
           /\ \A h \in DOMAIN hits' :
                /\ hits'[h].setup \in 0 .. Len(setups')
                /\ hits'[h].setup # 0 => setups'[hits'[h].setup].session = hits'[h].session
<1>1. /\ Len(setups') = Len(setups) + 1 /\ Len(setups) + 1 \in Nat /\ Len(setups) \in Nat
      /\ DOMAIN setups = 1 .. Len(setups)
      /\ \A i \in DOMAIN setups : setups'[i] = setups[i]
      /\ setups'[Len(setups) + 1].session = s
  BY OpenedSetup, RowsOfEvidence
<1>2. PICK n \in Nat : n = Len(setups) + 1
  BY <1>1
<1>3. /\ hits' \in Seq(Hit) /\ DOMAIN hits' = DOMAIN hits
      /\ \A h \in DOMAIN hits :
           /\ hits'[h].session = hits[h].session
           /\ hits'[h] = hits[h] \/ (hits'[h].setup = n /\ hits[h].session = s /\ ~Claimed(h))
  BY <1>2, AdoptedOwed
<1>4. \A h \in DOMAIN hits : hits[h].setup \in 0 .. Len(setups)
          /\ (hits[h].setup # 0 => setups[hits[h].setup].session = hits[h].session)
  BY DEF SetupsFit
<1>5. ASSUME NEW h \in DOMAIN hits'
      PROVE  /\ hits'[h].setup \in 0 .. Len(setups')
             /\ hits'[h].setup # 0 => setups'[hits'[h].setup].session = hits'[h].session
  <2>1. CASE hits'[h] = hits[h]
    <3>1. hits[h].setup \in 0 .. Len(setups)
          /\ (hits[h].setup # 0 => setups[hits[h].setup].session = hits[h].session)
      BY <1>3, <1>4
    <3>2. hits[h].setup # 0 => hits[h].setup \in DOMAIN setups
      BY <1>1, <3>1
    <3> QED BY <1>1, <2>1, <3>1, <3>2
  <2>2. CASE hits'[h].setup = n /\ hits[h].session = s
    BY <1>1, <1>2, <1>3, <2>2
  <2> QED BY <1>3, <2>1, <2>2
<1>6. ASSUME NEW h \in DOMAIN hits, Claimed(h) PROVE Worn(h)' = Worn(h)
  <2>1. hits'[h] = hits[h]
    BY <1>3, <1>6
  <2>2. hits[h].setup # 0 => hits[h].setup \in DOMAIN setups
    BY <1>1, <1>4
  <2> QED BY <1>1, <2>1, <2>2 DEF Worn
<1> QED BY <1>3, <1>5, <1>6 DEF EvidenceKept

\* The books of the costs, as a statement about the tables alone.
WindowsPaid(rows, claimed, taken) ==
    \A w \in DOMAIN rows :
        /\ rows[w].booked => SumOf(rows[w].shares, DOMAIN rows[w].shares) = rows[w].cost
        /\ DOMAIN rows[w].shares = IF rows[w].booked
                                   THEN {taken[c.hit].session : c \in {d \in claimed : d.window = w}}
                                   ELSE {}

Receiving(rows, s) == {w \in DOMAIN rows : s \in DOMAIN rows[w].shares}

SessionsCarry(rows, cost) == \A s \in SessionId : cost[s] = Carried(rows, s, Receiving(rows, s))

LEMMA AllocatedInTables ==
    /\ CostsFullyAllocated <=> WindowsPaid(windows, claims, hits) /\ SessionsCarry(windows, armourCost)
    /\ CostsFullyAllocated' <=> WindowsPaid(windows', claims', hits') /\ SessionsCarry(windows', armourCost')
<1>1. CostsFullyAllocated <=> WindowsPaid(windows, claims, hits) /\ SessionsCarry(windows, armourCost)
  BY DEF CostsFullyAllocated, WindowsPaid, SessionsCarry, Carried, SumOf, Receiving
<1>2. CostsFullyAllocated' <=> WindowsPaid(windows', claims', hits') /\ SessionsCarry(windows', armourCost')
  BY Zenon DEF CostsFullyAllocated, WindowsPaid, SessionsCarry, Carried, SumOf, Receiving, MapThenSumSet, MapThenFoldSet
<1> QED BY <1>1, <1>2

\* A step that charges nothing and keeps the evidence keeps the books.
LEMMA BooksStay ==
    ASSUME ProtectionInvariant, ProtectionTyped', SetupsFit', EvidenceKept,
           UNCHANGED <<claims, windows, armourCost>>
    PROVE  ProtectionInvariant'
<1>1. ProtectionTypeOK'
  <2>1. \A h \in DOMAIN hits' : hits'[h].setup \in 0 .. Len(setups')
    BY DEF SetupsFit
  <2>2. \A c \in claims : c.hit \in DOMAIN hits' /\ c.window \in DOMAIN windows
    BY DEF ProtectionInvariant, LayersPayOnce, ProtectionTypeOK, EvidenceKept
  <2> QED BY <2>1, <2>2 DEF ProtectionTypeOK, ProtectionTyped
<1>2. LayersPayOnce'
  <2>1. ASSUME NEW c \in claims PROVE c.layer = Absent \/ c.layer \in Worn(c.hit)'
    <3>1. c.hit \in DOMAIN hits /\ (c.layer = Absent \/ c.layer \in Worn(c.hit))
      BY DEF ProtectionInvariant, LayersPayOnce, ProtectionTypeOK
    <3>2. Claimed(c.hit)
      BY DEF Claimed
    <3> QED BY <3>1, <3>2 DEF EvidenceKept
  <2>2. \A c \in claims, d \in claims : d # c =>
            (d.hit = c.hit => Absent \notin {c.layer, d.layer} /\ c.layer # d.layer)
    BY DEF ProtectionInvariant, LayersPayOnce
  <2> QED BY <1>1, <2>1, <2>2 DEF LayersPayOnce
<1>3. CostsFullyAllocated'
  <2>1. \A w \in DOMAIN windows :
            {hits'[c.hit].session : c \in {d \in claims : d.window = w}}
            = {hits[c.hit].session : c \in {d \in claims : d.window = w}}
    <3>1. \A c \in claims : hits'[c.hit].session = hits[c.hit].session
      BY DEF ProtectionInvariant, LayersPayOnce, ProtectionTypeOK, EvidenceKept
    <3> QED BY <3>1
  <2>2. WindowsPaid(windows, claims, hits) /\ SessionsCarry(windows, armourCost)
    BY AllocatedInTables DEF ProtectionInvariant
  <2>3. WindowsPaid(windows, claims, hits')
    BY <2>1, <2>2 DEF WindowsPaid
  <2> QED BY <2>2, <2>3, AllocatedInTables
<1> QED BY <1>2, <1>3 DEF ProtectionInvariant

\* The tracker's steps: types, stamps and claimed evidence hold.
LEMMA TrackerStep ==
    ASSUME ProtectionInvariant,
           \/ \E s \in SessionId, l \in Loadout \union {Absent} : StartSession(s, l)
           \/ TakeHit
           \/ \E l \in Loadout : SetProtection(l) \/ BeginDeclare(l)
           \/ FinishDeclare \/ DeclareFails
           \/ \E crash \in BOOLEAN : EndSession(crash)
    PROVE  ProtectionTyped' /\ SetupsFit' /\ EvidenceKept /\ UNCHANGED costVars
<1> USE DEF costVars
<1>0. ProtectionTyped /\ SetupsFit
  BY DEF ProtectionInvariant
<1>r. /\ Len(setups) \in Nat /\ DOMAIN setups = 1 .. Len(setups)
      /\ Len(hits) \in Nat /\ DOMAIN hits = 1 .. Len(hits)
  BY <1>0, RowsOfEvidence
<1>i. ReadingsTyped' <=> ReadingsTyped
  <2>1. UNCHANGED reading
    BY DEF StartSession, TakeHit, SetProtection, BeginDeclare, FinishDeclare, DeclareFails, EndSession
  <2> QED BY <2>1 DEF ReadingsTyped
<1>1. ASSUME NEW s \in SessionId, NEW l \in Loadout \union {Absent}, StartSession(s, l)
      PROVE  ProtectionTyped' /\ SetupsFit' /\ EvidenceKept /\ UNCHANGED costVars
  <2>1. CASE bySegment[s] /\ l # Absent
    <3>1. setups' = Append(setups, [session |-> s, loadout |-> l]) /\ l \in Loadout /\ standing' = Len(setups) + 1
          /\ tracked' = s /\ UNCHANGED hits
      BY <1>1, <2>1 DEF StartSession, OpenSetup
    <3>2. /\ setups' \in Seq(Setup) /\ Len(setups') = Len(setups) + 1 /\ Len(setups) + 1 \in Nat
          /\ \A i \in DOMAIN setups : setups'[i] = setups[i]
          /\ setups'[Len(setups) + 1].session = s
      BY <1>0, <3>1, OpenedSetup
    <3>3. ProtectionTyped'
      <4>1. standing' \in 0 .. Len(setups')
        BY <1>r, <3>1, <3>2
      <4>2. UNCHANGED <<closed, declaring, windows, claims, armourCost>>
        BY <1>1 DEF StartSession
      <4>3. declaring' # Absent => declaring'.loadout \in Loadout /\ tracked' # Absent
        BY <1>0, <1>1, <4>2 DEF ProtectionTyped, StartSession
      <4> QED BY <1>0, <1>i, <3>1, <3>2, <4>1, <4>2, <4>3 DEF ProtectionTyped
    <3>4. SetupsFit'
      BY <1>0, <1>r, <3>1, <3>2 DEF SetupsFit
    <3>5. EvidenceKept
      BY <1>0, <3>1, <3>2, WornStays
    <3> QED BY <1>1, <3>3, <3>4, <3>5 DEF StartSession
  <2>2. CASE ~(bySegment[s] /\ l # Absent)
    <3>1. UNCHANGED <<setups, hits, declaring>> /\ standing' = 0 /\ tracked' = s
      BY <1>1, <2>2 DEF StartSession
    <3>2. ProtectionTyped'
      BY <1>0, <1>1, <1>r, <1>i, <3>1 DEF ProtectionTyped, StartSession
    <3>3. SetupsFit'
      BY <1>0, <3>1 DEF SetupsFit
    <3>4. EvidenceKept
      BY <1>0, <3>1, WornStays
    <3> QED BY <1>1, <3>2, <3>3, <3>4 DEF StartSession
  <2> QED BY <2>1, <2>2
<1>2. ASSUME TakeHit PROVE ProtectionTyped' /\ SetupsFit' /\ EvidenceKept /\ UNCHANGED costVars
  <2>1. PICK r : r = [session |-> tracked, setup |-> standing]
    OBVIOUS
  <2>2. tracked \in SessionId /\ standing \in Nat
    BY <1>0, <1>2, <1>r DEF TakeHit, Recording, ProtectionTyped
  <2>3. r \in Hit /\ r.session = tracked /\ r.setup = standing
    BY <2>1, <2>2 DEF Hit
  <2>4. hits \in Seq(Hit) /\ hits' = Append(hits, r)
    BY <1>0, <1>2, <2>1 DEF TakeHit, ProtectionTyped
  <2>5. hits' \in Seq(Hit) /\ DOMAIN hits' = 1 .. Len(hits) + 1 /\ hits'[Len(hits) + 1] = r
        /\ \A i \in DOMAIN hits : hits'[i] = hits[i]
    BY <2>3, <2>4, AppendRow
  <2>6. ProtectionTyped'
    BY <1>0, <1>2, <1>i, <2>5 DEF ProtectionTyped, TakeHit, trackerVars
  <2>7. SetupsFit'
    <3>1. UNCHANGED <<setups, standing, tracked>>
      BY <1>2 DEF TakeHit, trackerVars
    <3>2. ASSUME NEW h \in DOMAIN hits'
          PROVE  /\ hits'[h].setup \in 0 .. Len(setups)
                 /\ hits'[h].setup # 0 => setups[hits'[h].setup].session = hits'[h].session
      <4>1. CASE h \in DOMAIN hits
        BY <1>0, <2>5, <4>1 DEF SetupsFit
      <4>2. CASE h = Len(hits) + 1
        BY <1>0, <2>3, <2>5, <4>2 DEF SetupsFit, ProtectionTyped
      <4> QED BY <1>r, <2>5, <4>1, <4>2
    <3> QED BY <1>0, <3>1, <3>2 DEF SetupsFit
  <2>8. EvidenceKept
    <3>1. UNCHANGED setups /\ DOMAIN hits \subseteq DOMAIN hits'
      BY <1>2, <1>r, <2>5 DEF TakeHit
    <3> QED BY <2>5, <3>1 DEF EvidenceKept, Worn
  <2> QED BY <1>2, <2>6, <2>7, <2>8 DEF TakeHit
<1>3. ASSUME NEW l \in Loadout, SetProtection(l)
      PROVE  ProtectionTyped' /\ SetupsFit' /\ EvidenceKept /\ UNCHANGED costVars
  <2>1. setups' = Append(setups, [session |-> tracked, loadout |-> l]) /\ standing' = Len(setups) + 1
        /\ UNCHANGED <<tracked, hits>> /\ tracked \in SessionId
    BY <1>0, <1>3 DEF SetProtection, OpenSetup, Recording, ProtectionTyped
  <2>2. /\ setups' \in Seq(Setup) /\ Len(setups') = Len(setups) + 1 /\ Len(setups) + 1 \in Nat
        /\ \A i \in DOMAIN setups : setups'[i] = setups[i]
        /\ setups'[Len(setups) + 1].session = tracked
    BY <1>0, <2>1, OpenedSetup
  <2>3. ProtectionTyped'
    BY <1>0, <1>3, <1>r, <1>i, <2>1, <2>2 DEF ProtectionTyped, SetProtection
  <2>4. SetupsFit'
    BY <1>0, <1>r, <2>1, <2>2 DEF SetupsFit
  <2>5. EvidenceKept
    BY <1>0, <2>1, <2>2, WornStays
  <2> QED BY <1>3, <2>3, <2>4, <2>5 DEF SetProtection
<1>4. ASSUME NEW l \in Loadout, BeginDeclare(l)
      PROVE  ProtectionTyped' /\ SetupsFit' /\ EvidenceKept /\ UNCHANGED costVars
  <2>1. UNCHANGED <<setups, hits, tracked, standing, closed>> /\ tracked # Absent
        /\ declaring'.loadout = l
    BY <1>4 DEF BeginDeclare, Recording, evidenceVars
  <2>2. ProtectionTyped'
    BY <1>0, <1>4, <1>i, <2>1 DEF ProtectionTyped, BeginDeclare
  <2>3. SetupsFit'
    BY <1>0, <2>1 DEF SetupsFit
  <2>4. EvidenceKept
    BY <1>0, <2>1, WornStays
  <2> QED BY <1>4, <2>2, <2>3, <2>4 DEF BeginDeclare
<1>5. ASSUME FinishDeclare PROVE ProtectionTyped' /\ SetupsFit' /\ EvidenceKept /\ UNCHANGED costVars
  <2>1. setups' = Append(setups, [session |-> tracked, loadout |-> declaring.loadout])
        /\ standing' = Len(setups) + 1 /\ UNCHANGED <<tracked, closed>> /\ declaring' = Absent
        /\ tracked \in SessionId /\ declaring.loadout \in Loadout
    BY <1>0, <1>5 DEF FinishDeclare, OpenSetup, ProtectionTyped
  <2>2. /\ setups' \in Seq(Setup) /\ Len(setups') = Len(setups) + 1 /\ Len(setups) + 1 \in Nat
        /\ \A i \in DOMAIN setups : setups'[i] = setups[i]
        /\ setups'[Len(setups) + 1].session = tracked
    BY <1>0, <2>1, OpenedSetup
  <2>3. /\ hits' \in Seq(Hit) /\ EvidenceKept
        /\ \A h \in DOMAIN hits' :
             /\ hits'[h].setup \in 0 .. Len(setups')
             /\ hits'[h].setup # 0 => setups'[hits'[h].setup].session = hits'[h].session
    <3>1. CASE declaring.settled
      <4>1. UNCHANGED hits
        BY <1>5, <3>1 DEF FinishDeclare
      <4>2. EvidenceKept
        BY <1>0, <2>2, <4>1, WornStays
      <4>3. hits' \in Seq(Hit)
        BY <1>0, <4>1 DEF ProtectionTyped
      <4> QED BY <1>0, <1>r, <2>2, <4>1, <4>2, <4>3 DEF SetupsFit
    <3>2. CASE ~declaring.settled
      <4>1. hits' = Adopted(tracked, Len(setups) + 1)
        BY <1>5, <3>2 DEF FinishDeclare
      <4> QED BY <1>0, <2>1, <4>1, AdoptionFits
    <3> QED BY <3>1, <3>2
  <2>4. ProtectionTyped'
    BY <1>0, <1>5, <1>r, <1>i, <2>1, <2>2, <2>3 DEF ProtectionTyped, FinishDeclare
  <2>5. SetupsFit'
    BY <2>1, <2>2, <2>3 DEF SetupsFit
  <2> QED BY <1>5, <2>3, <2>4, <2>5 DEF FinishDeclare
<1>6. ASSUME DeclareFails \/ \E crash \in BOOLEAN : EndSession(crash)
      PROVE  ProtectionTyped' /\ SetupsFit' /\ EvidenceKept /\ UNCHANGED costVars
  <2>1. UNCHANGED <<setups, hits, costVars>> /\ declaring' = Absent
        /\ (UNCHANGED <<tracked, standing>> \/ standing' = 0) /\ tracked' \in {tracked, Absent}
        /\ closed' \in {closed, closed \union {tracked}} /\ (closed' # closed => tracked # Absent)
    BY <1>6 DEF DeclareFails, EndSession, evidenceVars
  <2>2. ProtectionTyped'
    <3>1. standing' \in 0 .. Len(setups)
      BY <1>0, <1>r, <2>1 DEF ProtectionTyped
    <3>2. closed' \subseteq SessionId /\ tracked' \in SessionId \union {Absent}
      BY <1>0, <2>1 DEF ProtectionTyped
    <3> QED BY <1>0, <1>i, <2>1, <3>1, <3>2 DEF ProtectionTyped
  <2>3. SetupsFit'
    BY <1>0, <2>1 DEF SetupsFit
  <2>4. EvidenceKept
    BY <1>0, <2>1, WornStays
  <2> QED BY <2>1, <2>2, <2>3, <2>4
<1> QED BY <1>1, <1>2, <1>3, <1>4, <1>5, <1>6

LEMMA FirstIsASetup ==
    ASSUME ProtectionTyped, NEW s, HasSetup(s)
    PROVE  FirstSetup(s) \in DOMAIN setups /\ setups[FirstSetup(s)].session = s
<1> DEFINE Mine == {i \in DOMAIN setups : setups[i].session = s}
<1>1. Mine \in SUBSET Nat /\ Mine # {}
  BY RowsOfEvidence DEF HasSetup
<1>2. PICK i \in Mine : \A j \in Mine : i <= j
  <2> HIDE DEF Mine
  <2> QED BY <1>1, LeastExists
<1>3. \E k \in DOMAIN setups : setups[k].session = s /\ \A j \in DOMAIN setups : setups[j].session = s => k <= j
  BY <1>2
<1> QED BY <1>3 DEF FirstSetup

\* An assignment after the session: a rename spares what a cost has claimed.
LEMMA AssignStep ==
    ASSUME ProtectionInvariant, NEW s \in SessionId, NEW l \in Loadout, AssignSessionLoadout(s, l)
    PROVE  ProtectionTyped' /\ SetupsFit' /\ EvidenceKept /\ UNCHANGED costVars
<1>0. ProtectionTyped /\ SetupsFit
  BY DEF ProtectionInvariant
<1>r. /\ Len(setups) \in Nat /\ DOMAIN setups = 1 .. Len(setups)
      /\ Len(hits) \in Nat /\ DOMAIN hits = 1 .. Len(hits)
      /\ \A i \in DOMAIN setups : setups[i] \in Setup
  BY <1>0, RowsOfEvidence
<1>i. UNCHANGED <<tracked, closed, standing, declaring, claims, windows, reading, armourCost>>
  BY DEF AssignSessionLoadout, trackerVars, costVars
<1>j. ReadingsTyped' <=> ReadingsTyped
  BY <1>i DEF ReadingsTyped
<1>1. CASE RenameSetup(s, l)
  <2>1. PICK i : i = FirstSetup(s)
    OBVIOUS
  <2>2. i \in DOMAIN setups /\ setups[i].session = s
    BY <1>0, <1>1, <2>1, FirstIsASetup DEF RenameSetup
  <2>3. PICK r : r = [session |-> s, loadout |-> l]
    OBVIOUS
  <2>4. r \in Setup /\ r.session = s /\ r.loadout = l
    BY <2>3 DEF Setup
  <2>5. UNCHANGED hits /\ (setups[i].loadout # l => ~Settled(s))
    BY <1>1, <2>1 DEF RenameSetup
  <2>6. [setups[i] EXCEPT !.loadout = l] = r
    BY <1>r, <2>2, <2>3 DEF Setup
  <2>7. setups' = [setups EXCEPT ![i] = r]
    <3>1. setups' = [setups EXCEPT ![i] = [setups[i] EXCEPT !.loadout = l]]
      BY <1>1, <2>1 DEF RenameSetup
    <3> QED BY <2>6, <3>1
  <2>8. /\ setups' \in Seq(Setup) /\ DOMAIN setups' = DOMAIN setups /\ Len(setups') = Len(setups)
        /\ setups'[i] = r /\ \A j \in DOMAIN setups : j # i => setups'[j] = setups[j]
    BY <1>0, <2>2, <2>4, <2>7, ReplaceRow DEF ProtectionTyped
  <2>9. \A j \in DOMAIN setups : setups'[j].session = setups[j].session
    BY <2>2, <2>4, <2>8
  <2>10. ProtectionTyped'
    BY <1>0, <1>i, <1>j, <2>5, <2>8 DEF ProtectionTyped
  <2>11. SetupsFit'
    BY <1>0, <1>i, <1>r, <2>5, <2>8, <2>9 DEF SetupsFit, ProtectionTyped
  <2>12. ASSUME NEW h \in DOMAIN hits, Claimed(h) PROVE Worn(h)' = Worn(h)
    <3>1. hits[h].setup # 0 => hits[h].setup \in DOMAIN setups /\ setups[hits[h].setup].session = hits[h].session
      BY <1>0, <1>r DEF SetupsFit
    <3>2. CASE hits[h].setup = i
      <4>0. hits[h].setup # 0
        BY <1>r, <2>2, <3>2
      <4>1. h \in HitsOf(s)
        BY <2>2, <3>1, <3>2, <4>0 DEF HitsOf
      <4>2. setups[i].loadout = l
        BY <2>5, <2>12, <4>1 DEF Settled
      <4>3. setups'[i].loadout = setups[i].loadout
        BY <2>4, <2>8, <4>2
      <4> QED BY <2>5, <3>2, <4>3 DEF Worn
    <3>3. CASE hits[h].setup # i
      BY <2>5, <2>8, <3>1, <3>3 DEF Worn
    <3> QED BY <3>2, <3>3
  <2>13. EvidenceKept
    BY <2>5, <2>12 DEF EvidenceKept
  <2> QED BY <1>i, <2>10, <2>11, <2>13 DEF costVars
<1>2. CASE AttachSetup(s, l)
  <2>1. setups' = Append(setups, [session |-> s, loadout |-> l]) /\ hits' = Adopted(s, Len(setups) + 1)
    BY <1>2 DEF AttachSetup
  <2>2. /\ setups' \in Seq(Setup) /\ Len(setups') = Len(setups) + 1
        /\ \A i \in DOMAIN setups : setups'[i] = setups[i]
    BY <1>0, <2>1, OpenedSetup
  <2>3. /\ hits' \in Seq(Hit) /\ EvidenceKept
        /\ \A h \in DOMAIN hits' :
             /\ hits'[h].setup \in 0 .. Len(setups')
             /\ hits'[h].setup # 0 => setups'[hits'[h].setup].session = hits'[h].session
    BY <1>0, <2>1, AdoptionFits
  <2>4. ProtectionTyped'
    <3>1. standing' \in 0 .. Len(setups')
      BY <1>0, <1>i, <1>r, <2>2 DEF ProtectionTyped
    <3> QED BY <1>0, <1>i, <1>j, <2>2, <2>3, <3>1 DEF ProtectionTyped
  <2>5. SetupsFit'
    <3>1. standing' # 0 => setups'[standing'].session = tracked'
      BY <1>0, <1>i, <1>r, <2>2 DEF ProtectionTyped, SetupsFit
    <3> QED BY <2>3, <3>1 DEF SetupsFit
  <2> QED BY <1>i, <2>3, <2>4, <2>5 DEF costVars
<1> QED BY <1>1, <1>2 DEF AssignSessionLoadout

\* `cl` is what is claimed after window w took the hits in `found`.
ClaimsFollow(w, found, cl) ==
    /\ found \in SUBSET (DOMAIN hits) /\ cl \subseteq Claim
    /\ found = {} => cl = claims
    /\ \A c \in cl : c \in claims \/ (c.window = w /\ c.hit \in found)
    /\ \A h \in found : \E c \in cl : c.window = w /\ c.hit = h
    /\ \A c \in cl : c.layer = Absent \/ c.layer \in Worn(c.hit)
    /\ \A c \in cl, d \in cl : c # d /\ d.hit = c.hit =>
           Absent \notin {c.layer, d.layer} /\ c.layer # d.layer

\* The rows that a cost over `sets` writes: one for each layer of `sets` that
\* each of its hits wore, or one for all of them.
LEMMA RowsOfAClaim ==
    ASSUME ProtectionTyped, LayersPayOnce, NEW sets \in SUBSET Layer, NEW after, NEW upto,
           NEW w \in Nat, NEW found, found = Eligible(sets, after, upto),
           NEW cl, cl = claims \union ClaimRows(w, sets, found)
    PROVE  ClaimsFollow(w, found, cl)
<1> DEFINE new == ClaimRows(w, sets, found)
<1>0. Absent \notin Layer
  BY LayersAssumption
<1>1. found \in SUBSET (DOMAIN hits) /\ DOMAIN hits \subseteq Nat
  BY RowsOfEvidence DEF Eligible
<1>2. ASSUME NEW c \in new
      PROVE  /\ c \in Claim /\ c.window = w /\ c.hit \in found
             /\ (sets = {} /\ c.layer = Absent) \/ (c.layer \in sets /\ c.layer \in Worn(c.hit))
  <2>1. CASE sets = {}
    <3>1. c \in [window : {w}, layer : {Absent}, hit : found]
      BY <2>1 DEF ClaimRows
    <3> QED BY <1>1, <2>1, <3>1 DEF Claim
  <2>2. CASE sets # {}
    <3>1. c \in [window : {w}, layer : sets, hit : found] /\ c.layer \in Worn(c.hit)
      BY <2>2 DEF ClaimRows
    <3> QED BY <1>1, <2>2, <3>1 DEF Claim
  <2> QED BY <2>1, <2>2
<1>3. ASSUME NEW c \in new, NEW d \in new, c # d, c.hit = d.hit
      PROVE  Absent \notin {c.layer, d.layer} /\ c.layer # d.layer
  <2>1. c \in Claim /\ d \in Claim /\ c.window = d.window
    BY <1>2
  <2>2. c.layer # d.layer
    BY <1>3, <2>1 DEF Claim
  <2>3. sets # {}
    BY <1>2, <2>2
  <2> QED BY <1>0, <1>2, <2>2, <2>3
<1>4. ASSUME NEW c \in new, NEW d \in claims, c.hit = d.hit
      PROVE  Absent \notin {c.layer, d.layer} /\ c.layer # d.layer
  <2>1. c.hit \in found
    BY <1>2
  <2>2. CASE sets = {}
    BY <1>4, <2>1, <2>2 DEF Eligible, Claimed
  <2>3. CASE sets # {}
    <3>1. d.layer \notin sets \union {Absent}
      BY <1>4, <2>1, <2>3 DEF Eligible
    <3>2. c.layer \in sets
      BY <1>2, <2>3
    <3> QED BY <1>0, <3>1, <3>2
  <2> QED BY <2>2, <2>3
<1>5. ASSUME NEW h \in found PROVE \E c \in new : c.window = w /\ c.hit = h
  <2>1. CASE sets = {}
    <3>1. PICK c : c = [window |-> w, layer |-> Absent, hit |-> h]
      OBVIOUS
    <3> QED BY <2>1, <3>1 DEF ClaimRows
  <2>2. CASE sets # {}
    <3>1. PICK l \in sets : l \in Worn(h)
      BY <2>2 DEF Eligible
    <3>2. PICK c : c = [window |-> w, layer |-> l, hit |-> h]
      OBVIOUS
    <3>3. c \in [window : {w}, layer : sets, hit : found] /\ c.layer \in Worn(c.hit)
      BY <3>1, <3>2
    <3> QED BY <2>2, <3>2, <3>3 DEF ClaimRows
  <2> QED BY <2>1, <2>2
<1>6. found = {} => new = {}
  BY <1>2
<1>7. claims \subseteq Claim /\ cl = claims \union new
  BY DEF ProtectionTyped
<1> HIDE DEF new
<1>8. \A c \in claims : c.layer = Absent \/ c.layer \in Worn(c.hit)
  BY DEF LayersPayOnce
<1>9. \A c \in claims, d \in claims : c # d /\ d.hit = c.hit =>
          Absent \notin {c.layer, d.layer} /\ c.layer # d.layer
  BY DEF LayersPayOnce
<1>10. \A c \in cl, d \in cl : c # d /\ d.hit = c.hit =>
           Absent \notin {c.layer, d.layer} /\ c.layer # d.layer
  <2> SUFFICES ASSUME NEW c \in cl, NEW d \in cl, c # d, d.hit = c.hit
               PROVE  Absent \notin {c.layer, d.layer} /\ c.layer # d.layer
    OBVIOUS
  <2>1. CASE c \in new /\ d \in new
    BY <1>3, <2>1
  <2>2. CASE c \in claims /\ d \in claims
    BY <1>9, <2>2
  <2>3. CASE c \in new /\ d \in claims
    BY <1>4, <2>3
  <2>4. CASE c \in claims /\ d \in new
    BY <1>4, <2>4
  <2> QED BY <1>7, <2>1, <2>2, <2>3, <2>4
<1> QED BY <1>1, <1>2, <1>5, <1>6, <1>7, <1>8, <1>10 DEF ClaimsFollow

\* What one more window allocates to a session.
LEMMA WindowAdded ==
    ASSUME NEW rows \in Seq(Window), NEW r \in Window, NEW s
    PROVE  Carried(Append(rows, r), s, Receiving(Append(rows, r), s))
           = Carried(rows, s, Receiving(rows, s)) + (IF s \in DOMAIN r.shares THEN r.shares[s] ELSE 0)
<1>1. PICK new : new = Append(rows, r)
  OBVIOUS
<1>2. PICK n \in Nat : n = Len(rows)
  BY LenProperties
<1>3. /\ new \in Seq(Window) /\ DOMAIN rows = 1 .. n /\ DOMAIN new = 1 .. n + 1 /\ new[n + 1] = r
      /\ \A i \in DOMAIN rows : new[i] = rows[i]
  BY <1>1, <1>2, AppendRow
<1> DEFINE X == Receiving(rows, s)
           g == [w \in DOMAIN new |-> new[w].shares[s]]
<1>4. X \subseteq 1 .. n /\ n + 1 \notin X /\ \A w \in X : w \in DOMAIN new /\ new[w] = rows[w]
  BY <1>3 DEF Receiving
<1>5. \A w \in DOMAIN new : s \in DOMAIN new[w].shares => new[w].shares[s] \in Int
  <2> SUFFICES ASSUME NEW w \in DOMAIN new, s \in DOMAIN new[w].shares PROVE new[w].shares[s] \in Int
    OBVIOUS
  <2>1. new[w] \in Window
    BY <1>3, ElementOfSeq
  <2>2. PICK D \in SUBSET SessionId : new[w].shares \in [D -> Int]
    BY <2>1 DEF Window
  <2> QED BY <2>2
<1>6. IsFiniteSet(X)
  <2>1. IsFiniteSet(1 .. n)
    BY <1>2, FS_Interval
  <2> HIDE DEF X
  <2> QED BY <1>4, <2>1, FS_Subset
<1>7. IntValued(g, X) /\ \A w \in X : g[w] = rows[w].shares[s]
  <2>1. \A w \in X : s \in DOMAIN new[w].shares /\ g[w] = new[w].shares[s]
    BY <1>4 DEF Receiving
  <2> QED BY <1>4, <1>5, <1>6, <2>1 DEF IntValued
<1>8. Carried(rows, s, X) = SumOf(g, X) /\ SumOf(g, X) \in Int
  <2> HIDE DEF g, X
  <2> QED BY <1>7, CarriedIsSum, SumIsInt
<1>9. CASE s \in DOMAIN r.shares
  <2>1. Receiving(new, s) = X \union {n + 1}
    BY <1>3, <1>9 DEF Receiving
  <2>2. g[n + 1] = r.shares[s] /\ g[n + 1] \in Int
    BY <1>3, <1>5, <1>9
  <2>3. IntValued(g, X \union {n + 1}) /\ SumOf(g, X \union {n + 1}) = g[n + 1] + SumOf(g, X)
    <3> HIDE DEF g, X
    <3> QED BY <1>4, <1>7, <2>2, SumOfAdd
  <2>4. \A w \in X \union {n + 1} : g[w] = new[w].shares[s]
    BY <1>3, <1>4
  <2>5. Carried(new, s, X \union {n + 1}) = SumOf(g, X \union {n + 1})
    <3> HIDE DEF g, X
    <3> QED BY <2>3, <2>4, CarriedIsSum
  <2>6. Carried(new, s, Receiving(new, s)) = Carried(rows, s, X) + r.shares[s]
    <3> HIDE DEF g, X
    <3> QED BY <1>8, <2>1, <2>2, <2>3, <2>5
  <2> QED BY <1>1, <1>9, <2>6
<1>10. CASE s \notin DOMAIN r.shares
  <2>1. Receiving(new, s) = X
    BY <1>3, <1>10 DEF Receiving
  <2>2. \A w \in X : g[w] = new[w].shares[s]
    BY <1>4
  <2>3. Carried(new, s, X) = SumOf(g, X)
    <3> HIDE DEF g, X
    <3> QED BY <1>7, <2>2, CarriedIsSum
  <2>4. Carried(new, s, Receiving(new, s)) = Carried(rows, s, X) + 0
    <3> HIDE DEF g, X
    <3> QED BY <1>8, <2>1, <2>3
  <2> QED BY <1>1, <1>10, <2>4
<1> QED BY <1>9, <1>10

\* A window that claims evidence, priced or not, keeps the books.
LEMMA WindowStep ==
    ASSUME ProtectionInvariant, UNCHANGED <<trackerVars, evidenceVars>>, ReadingsTyped',
           NEW sets \in SUBSET Layer, NEW after, NEW upto, NEW found, found = Eligible(sets, after, upto),
           NEW r \in Window, windows' = Append(windows, r),
           claims' = claims \union ClaimRows(Len(windows) + 1, sets, found),
           r.booked => /\ found # {} /\ DOMAIN r.shares = {hits[h].session : h \in found}
                       /\ SumOf(r.shares, DOMAIN r.shares) = r.cost,
           ~r.booked => DOMAIN r.shares = {},
           armourCost' \in [SessionId -> Int],
           \A s \in SessionId :
               armourCost'[s] = armourCost[s] + (IF s \in DOMAIN r.shares THEN r.shares[s] ELSE 0)
    PROVE  ProtectionInvariant' /\ EvidenceKept
<1>0. ProtectionTyped /\ SetupsFit /\ LayersPayOnce /\ ProtectionTypeOK
  BY DEF ProtectionInvariant, LayersPayOnce
<1>u. UNCHANGED <<tracked, closed, standing, declaring, setups, hits>>
  BY DEF trackerVars, evidenceVars
<1>1. PICK n \in Nat : n = Len(windows)
  BY <1>0, RowsOfEvidence
<1>2. PICK cl : cl = claims \union ClaimRows(n + 1, sets, found)
  OBVIOUS
<1>3. /\ found \in SUBSET (DOMAIN hits) /\ cl \subseteq Claim
      /\ \A c \in cl : c \in claims \/ (c.window = n + 1 /\ c.hit \in found)
      /\ \A h \in found : \E c \in cl : c.window = n + 1 /\ c.hit = h
      /\ \A c \in cl : c.layer = Absent \/ c.layer \in Worn(c.hit)
      /\ \A c \in cl, d \in cl : c # d /\ d.hit = c.hit =>
             Absent \notin {c.layer, d.layer} /\ c.layer # d.layer
  <2>1. n + 1 \in Nat
    BY <1>1
  <2>2. ClaimsFollow(n + 1, found, cl)
    BY <1>0, <1>2, <2>1, RowsOfAClaim
  <2> QED BY <2>2 DEF ClaimsFollow
<1>4. claims' = cl
  BY <1>1, <1>2
<1>5. /\ windows \in Seq(Window) /\ windows' \in Seq(Window)
      /\ DOMAIN windows = 1 .. n /\ DOMAIN windows' = 1 .. n + 1 /\ windows'[n + 1] = r
      /\ \A i \in DOMAIN windows : windows'[i] = windows[i]
  BY <1>0, <1>1, AppendRow DEF ProtectionTyped
<1>6. \A h : Worn(h)' = Worn(h)
  BY <1>u DEF Worn
<1>7. EvidenceKept
  BY <1>u, <1>6 DEF EvidenceKept
<1>8. ProtectionTyped'
  BY <1>0, <1>3, <1>4, <1>5, <1>u DEF ProtectionTyped
<1>9. SetupsFit'
  BY <1>0, <1>u DEF SetupsFit
<1>10. \A c \in claims : c.hit \in DOMAIN hits /\ c.window \in 1 .. n
  BY <1>0, <1>5 DEF ProtectionTypeOK
<1>11. \A c \in cl : c.hit \in DOMAIN hits /\ c.window \in 1 .. n + 1
  BY <1>1, <1>3, <1>10
<1>12. ProtectionTypeOK'
  <2>1. \A h \in DOMAIN hits : hits[h].setup \in 0 .. Len(setups)
    BY <1>0 DEF SetupsFit
  <2> QED BY <1>0, <1>4, <1>5, <1>11, <1>u, <2>1 DEF ProtectionTypeOK, ProtectionTyped
<1>13. LayersPayOnce'
  BY <1>3, <1>4, <1>6, <1>12 DEF LayersPayOnce
<1>14. WindowsPaid(windows, claims, hits) /\ SessionsCarry(windows, armourCost)
  BY AllocatedInTables DEF ProtectionInvariant
<1>15. WindowsPaid(windows', cl, hits)
  <2>1. ASSUME NEW w \in 1 .. n
        PROVE  {hits[c.hit].session : c \in {d \in cl : d.window = w}}
               = {hits[c.hit].session : c \in {d \in claims : d.window = w}}
    <3>1. {d \in cl : d.window = w} = {d \in claims : d.window = w}
      <4>1. w # n + 1
        OBVIOUS
      <4>2. claims \subseteq cl
        BY <1>2
      <4> QED BY <1>3, <4>1, <4>2
    <3> QED BY <3>1
  <2>2. {hits[c.hit].session : c \in {d \in cl : d.window = n + 1}} = {hits[h].session : h \in found}
    <3>1. \A d \in cl : d.window = n + 1 => d.hit \in found
      BY <1>3, <1>10
    <3> QED BY <1>3, <3>1
  <2>3. ASSUME NEW w \in DOMAIN windows'
        PROVE  /\ windows'[w].booked =>
                      SumOf(windows'[w].shares, DOMAIN windows'[w].shares) = windows'[w].cost
               /\ DOMAIN windows'[w].shares =
                      IF windows'[w].booked
                      THEN {hits[c.hit].session : c \in {d \in cl : d.window = w}} ELSE {}
    <3>1. CASE w \in 1 .. n
      <4>1. windows'[w] = windows[w] /\ w \in DOMAIN windows
        BY <1>5, <3>1
      <4> QED BY <1>14, <2>1, <3>1, <4>1 DEF WindowsPaid
    <3>2. CASE w = n + 1
      BY <1>5, <2>2, <3>2
    <3> QED BY <1>5, <3>1, <3>2
  <2> QED BY <2>3 DEF WindowsPaid
<1>16. SessionsCarry(windows', armourCost')
  <2> SUFFICES ASSUME NEW s \in SessionId
               PROVE  armourCost'[s] = Carried(windows', s, Receiving(windows', s))
    BY DEF SessionsCarry
  <2>1. armourCost[s] = Carried(windows, s, Receiving(windows, s))
    BY <1>14 DEF SessionsCarry
  <2>2. Carried(Append(windows, r), s, Receiving(Append(windows, r), s))
        = Carried(windows, s, Receiving(windows, s)) + (IF s \in DOMAIN r.shares THEN r.shares[s] ELSE 0)
    BY <1>5, WindowAdded
  <2> QED BY <2>1, <2>2
<1>17. CostsFullyAllocated'
  BY <1>4, <1>15, <1>16, <1>u, AllocatedInTables
<1> QED BY <1>7, <1>8, <1>9, <1>13, <1>17 DEF ProtectionInvariant

\* A cost read at the terminal, with evidence or pending.
LEMMA CostStep ==
    ASSUME ProtectionInvariant, UNCHANGED <<trackerVars, evidenceVars>>, ReadingsTyped',
           NEW sets \in SUBSET Layer, NEW after, NEW upto, NEW cost \in Int,
           CreateCostWindow(sets, after, upto, cost)
    PROVE  ProtectionInvariant' /\ EvidenceKept
<1>0. ProtectionTyped
  BY DEF ProtectionInvariant
<1>1. PICK found : found = Eligible(sets, after, upto)
  OBVIOUS
<1>2. PICK last \in IF found = {} THEN {Absent} ELSE {hits[h].session : h \in found} :
        LET shares == IF found = {} THEN << >> ELSE Allocation(cost, found, last)
        IN  /\ windows' = Append(windows, [cost |-> cost, shares |-> shares, booked |-> found # {}])
            /\ claims' = claims \union ClaimRows(Len(windows) + 1, sets, found)
            /\ armourCost' = [s \in SessionId |->
                   armourCost[s] + (IF s \in DOMAIN shares THEN shares[s] ELSE 0)]
  BY <1>1 DEF CreateCostWindow
<1>3. PICK a : a = IF found = {} THEN << >> ELSE Allocation(cost, found, last)
  OBVIOUS
<1>4. found \in SUBSET (DOMAIN hits)
  BY <1>1 DEF Eligible
<1>5. /\ \E D \in SUBSET SessionId : a \in [D -> Int]
      /\ found # {} => DOMAIN a = {hits[h].session : h \in found} /\ SumOf(a, DOMAIN a) = cost
      /\ found = {} => DOMAIN a = {}
  <2>1. CASE found = {}
    BY <1>3, <2>1, EmptyShares
  <2>2. CASE found # {}
    <3>1. last \in {hits[h].session : h \in found}
      BY <1>2, <2>2
    <3>2. PICK b : /\ b = Allocation(cost, found, last)
                   /\ b \in [{hits[h].session : h \in found} -> Int]
                   /\ IntValued(b, DOMAIN b) /\ SumOf(b, DOMAIN b) = cost
      BY <1>0, <1>4, <2>2, <3>1, AllocationIsTheCost
    <3>3. a = b
      BY <1>3, <2>2, <3>2
    <3>4. {hits[h].session : h \in found} \in SUBSET SessionId
      BY <1>0, <1>4, FoundIsFinite
    <3> QED BY <2>2, <3>2, <3>3, <3>4
  <2> QED BY <2>1, <2>2
<1>6. PICK r : r = [cost |-> cost, shares |-> a, booked |-> found # {}]
  OBVIOUS
<1>7. r.cost = cost /\ r.shares = a /\ (r.booked <=> found # {}) /\ r.booked \in BOOLEAN
  BY <1>6
<1>8. r \in Window
  <2>1. a \in UNION {[D -> Int] : D \in SUBSET SessionId}
    BY <1>5
  <2>2. (found # {}) \in BOOLEAN
    OBVIOUS
  <2> QED BY <1>6, <2>1, <2>2 DEF Window
<1>9. /\ windows' = Append(windows, r)
      /\ claims' = claims \union ClaimRows(Len(windows) + 1, sets, found)
      /\ armourCost' = [s \in SessionId |-> armourCost[s] + (IF s \in DOMAIN a THEN a[s] ELSE 0)]
  BY <1>2, <1>3, <1>6
<1>10. \A s \in SessionId : armourCost[s] + (IF s \in DOMAIN a THEN a[s] ELSE 0) \in Int
  <2>1. \A s \in SessionId : armourCost[s] \in Int
    BY <1>0 DEF ProtectionTyped
  <2>2. \A s \in DOMAIN a : a[s] \in Int
    BY <1>5
  <2> QED BY <2>1, <2>2
<1>11. armourCost' \in [SessionId -> Int]
  BY <1>9, <1>10
<1>12. \A s \in SessionId : armourCost'[s] = armourCost[s] + (IF s \in DOMAIN r.shares THEN r.shares[s] ELSE 0)
  BY <1>7, <1>9
<1>13. /\ r.booked => /\ found # {} /\ DOMAIN r.shares = {hits[h].session : h \in found}
                      /\ SumOf(r.shares, DOMAIN r.shares) = r.cost
       /\ ~r.booked => DOMAIN r.shares = {}
  BY <1>5, <1>7
<1> QED BY <1>1, <1>8, <1>9, <1>11, <1>12, <1>13, WindowStep

\* A reset: what was worn until then is consumed unpriced.
LEMMA ResetStep ==
    ASSUME ProtectionInvariant, UNCHANGED <<trackerVars, evidenceVars>>, ReadingsTyped',
           NEW set \in Layer, NEW after, NEW upto, CreateResetWindow(set, after, upto)
    PROVE  ProtectionInvariant' /\ EvidenceKept
<1>0. ProtectionTyped /\ SetupsFit
  BY DEF ProtectionInvariant
<1>1. PICK found : found = Eligible({set}, after, upto)
  OBVIOUS
<1>2. UNCHANGED armourCost
  BY DEF CreateResetWindow
<1>3. CASE found = {}
  <2>1. UNCHANGED <<windows, claims>>
    BY <1>1, <1>3 DEF CreateResetWindow
  <2>2. ProtectionTyped'
    BY <1>0, <1>2, <2>1 DEF ProtectionTyped, trackerVars, evidenceVars
  <2>3. SetupsFit'
    BY <1>0 DEF SetupsFit, trackerVars, evidenceVars
  <2>4. EvidenceKept
    BY <1>0, WornStays DEF evidenceVars
  <2> QED BY <1>2, <2>1, <2>2, <2>3, <2>4, BooksStay
<1>4. CASE found # {}
  <2>1. PICK r : r = [cost |-> 0, shares |-> << >>, booked |-> FALSE]
    OBVIOUS
  <2>2. r.cost = 0 /\ r.shares = << >> /\ r.booked = FALSE /\ DOMAIN r.shares = {}
    BY <2>1, EmptyShares
  <2>3. r \in Window
    <3>1. << >> \in UNION {[D -> Int] : D \in SUBSET SessionId}
      BY EmptyShares
    <3> QED BY <2>1, <3>1 DEF Window
  <2>4. windows' = Append(windows, r) /\ claims' = claims \union ClaimRows(Len(windows) + 1, {set}, found)
    BY <1>1, <1>4, <2>1 DEF CreateResetWindow
  <2>5. armourCost' \in [SessionId -> Int]
        /\ \A s \in SessionId :
               armourCost'[s] = armourCost[s] + (IF s \in DOMAIN r.shares THEN r.shares[s] ELSE 0)
    BY <1>0, <1>2, <2>2 DEF ProtectionTyped
  <2>6. {set} \in SUBSET Layer
    OBVIOUS
  <2> QED BY <1>1, <2>2, <2>3, <2>4, <2>5, <2>6, WindowStep
<1> QED BY <1>3, <1>4

LEMMA ServiceStep ==
    ASSUME ProtectionInvariant,
           \/ \E set \in Limited, value \in 0..MaxValue, reset \in BOOLEAN :
                  ConfirmObservation(set, value, reset)
           \/ \E sets \in SUBSET (Layer \ Limited), cost \in 1..MaxValue : ConfirmRepair(sets, cost)
    PROVE  ProtectionInvariant' /\ EvidenceKept
<1>0. ProtectionTyped /\ SetupsFit
  BY DEF ProtectionInvariant
<1>1. ASSUME NEW set \in Limited, NEW value \in 0..MaxValue, NEW reset \in BOOLEAN,
             ConfirmObservation(set, value, reset)
      PROVE  ProtectionInvariant' /\ EvidenceKept
  <2>1. UNCHANGED <<trackerVars, evidenceVars>>
    BY <1>1 DEF ConfirmObservation
  <2>2. PICK r : r = [value |-> value, cursor |-> Len(hits)]
    OBVIOUS
  <2>3. reading' = [reading EXCEPT ![set] = r] /\ r.value = value /\ value \in Int
        /\ r.cursor = Len(hits) /\ r.cursor \in Nat
    BY <1>0, <1>1, <2>2, RowsOfEvidence DEF ConfirmObservation
  <2>4. ReadingsTyped'
    <3>1. ReadingsTyped
      BY <1>0 DEF ProtectionTyped
    <3>2. DOMAIN reading' = Limited /\ reading'[set] = r /\ \A x \in Limited : x # set => reading'[x] = reading[x]
      BY <2>3, <3>1 DEF ReadingsTyped
    <3>3. \A x \in Limited : reading[x] = Absent \/ (reading[x].value \in Int /\ reading[x].cursor \in Nat)
      BY <3>1 DEF ReadingsTyped
    <3> QED BY <2>3, <3>2, <3>3 DEF ReadingsTyped
  <2>5. set \in Layer
    BY LayersAssumption
  <2>6. CASE reading[set] = Absent
    <3>1. UNCHANGED <<windows, claims, armourCost>>
      BY <1>1, <2>6 DEF ConfirmObservation
    <3>2. ProtectionTyped'
      BY <1>0, <2>1, <2>4, <3>1 DEF ProtectionTyped, trackerVars, evidenceVars
    <3>3. SetupsFit'
      BY <1>0, <2>1 DEF SetupsFit, trackerVars, evidenceVars
    <3>4. EvidenceKept
      BY <1>0, <2>1, WornStays DEF evidenceVars
    <3> QED BY <3>1, <3>2, <3>3, <3>4, BooksStay
  <2>7. CASE reading[set] # Absent /\ reset
    <3>1. CreateResetWindow(set, reading[set].cursor, Len(hits))
      BY <1>1, <2>7 DEF ConfirmObservation
    <3> QED BY <2>1, <2>4, <2>5, <3>1, ResetStep
  <2>8. CASE reading[set] # Absent /\ ~reset
    <3>1. CreateCostWindow({set}, reading[set].cursor, Len(hits), reading[set].value - value)
      BY <1>1, <2>8 DEF ConfirmObservation
    <3>2. reading[set].value - value \in Int
      BY <1>0, <2>3, <2>8 DEF ProtectionTyped, ReadingsTyped
    <3>3. {set} \in SUBSET Layer
      BY <2>5
    <3> QED BY <2>1, <2>4, <3>1, <3>2, <3>3, CostStep
  <2> QED BY <2>6, <2>7, <2>8
<1>2. ASSUME NEW sets \in SUBSET (Layer \ Limited), NEW cost \in 1..MaxValue, ConfirmRepair(sets, cost)
      PROVE  ProtectionInvariant' /\ EvidenceKept
  <2>1. UNCHANGED <<trackerVars, evidenceVars, reading>> /\ CreateCostWindow(sets, 0, Len(hits), cost)
    BY <1>2 DEF ConfirmRepair
  <2>2. ReadingsTyped'
    BY <1>0, <2>1 DEF ReadingsTyped, ProtectionTyped
  <2>3. sets \in SUBSET Layer /\ cost \in Int
    OBVIOUS
  <2> QED BY <2>1, <2>2, <2>3, CostStep
<1> QED BY <1>1, <1>2

LEMMA ProtectionStep ==
    ASSUME ProtectionInvariant, [ProtectionNext]_protectionVars
    PROVE  ProtectionInvariant' /\ EvidenceKept
<1>0. ProtectionTyped /\ SetupsFit
  BY DEF ProtectionInvariant
<1>1. CASE UNCHANGED protectionVars
  <2>1. UNCHANGED <<tracked, closed, standing, declaring, setups, hits, claims, windows, reading, armourCost>>
    BY <1>1 DEF protectionVars, trackerVars, evidenceVars, costVars
  <2>2. ReadingsTyped' <=> ReadingsTyped
    BY <2>1 DEF ReadingsTyped
  <2>3. ProtectionTyped'
    BY <1>0, <2>1, <2>2 DEF ProtectionTyped
  <2>4. SetupsFit'
    BY <1>0, <2>1 DEF SetupsFit
  <2>5. EvidenceKept
    BY <1>0, <2>1, WornStays
  <2> QED BY <2>1, <2>3, <2>4, <2>5, BooksStay
<1>2. CASE \/ \E s \in SessionId, l \in Loadout \union {Absent} : StartSession(s, l)
           \/ TakeHit
           \/ \E l \in Loadout : SetProtection(l) \/ BeginDeclare(l)
           \/ FinishDeclare \/ DeclareFails
           \/ \E crash \in BOOLEAN : EndSession(crash)
  <2>1. ProtectionTyped' /\ SetupsFit' /\ EvidenceKept /\ UNCHANGED <<claims, windows, armourCost>>
    BY <1>2, TrackerStep DEF costVars
  <2> QED BY <2>1, BooksStay
<1>3. CASE \E s \in SessionId, l \in Loadout : AssignSessionLoadout(s, l)
  <2>1. ProtectionTyped' /\ SetupsFit' /\ EvidenceKept /\ UNCHANGED <<claims, windows, armourCost>>
    BY <1>3, AssignStep DEF costVars
  <2> QED BY <2>1, BooksStay
<1>4. CASE \/ \E set \in Limited, value \in 0..MaxValue, reset \in BOOLEAN :
                  ConfirmObservation(set, value, reset)
           \/ \E sets \in SUBSET (Layer \ Limited), cost \in 1..MaxValue : ConfirmRepair(sets, cost)
  BY <1>4, ServiceStep
<1> QED BY <1>1, <1>2, <1>3, <1>4 DEF ProtectionNext

LEMMA ProtectionStarts == ProtectionInit => ProtectionInvariant
<1> SUFFICES ASSUME ProtectionInit PROVE ProtectionInvariant
  OBVIOUS
<1>1. setups = << >> /\ hits = << >> /\ windows = << >> /\ claims = {}
      /\ DOMAIN setups = {} /\ DOMAIN hits = {} /\ DOMAIN windows = {} /\ Len(setups) = 0
  BY EmptyShares DEF ProtectionInit
<1>2. ProtectionTyped
  BY <1>1 DEF ProtectionInit, ProtectionTyped, ReadingsTyped
<1>3. SetupsFit /\ LayersPayOnce
  BY <1>1 DEF ProtectionInit, SetupsFit, LayersPayOnce, ProtectionTypeOK
<1>4. CostsFullyAllocated
  <2>1. WindowsPaid(windows, claims, hits)
    BY <1>1 DEF WindowsPaid
  <2>2. ASSUME NEW s \in SessionId PROVE armourCost[s] = Carried(windows, s, Receiving(windows, s))
    <3>1. Receiving(windows, s) = {}
      BY <1>1 DEF Receiving
    <3>2. PICK g : g = [w \in {} |-> 0]
      OBVIOUS
    <3>3. IntValued(g, {}) /\ \A w \in {} : g[w] = windows[w].shares[s]
      BY FS_EmptySet DEF IntValued
    <3>4. Carried(windows, s, {}) = SumOf(g, {})
      BY <3>3, CarriedIsSum
    <3> QED BY <3>1, <3>4, SumOfEmpty DEF ProtectionInit
  <2> QED BY <2>1, <2>2, AllocatedInTables DEF SessionsCarry
<1> QED BY <1>2, <1>3, <1>4 DEF ProtectionInvariant

\* A hit pays for a layer once and every cost reaches the sessions that wore
\* the sets in full, whichever readings, repairs, resets, declarations and
\* assignments come in which order (protection.rs create_cost_window).
THEOREM CostsAreShared == ProtectionSpec => []CostsReachSessions
<1>1. ProtectionInvariant => CostsReachSessions
  BY DEF ProtectionInvariant, CostsReachSessions
<1> QED BY <1>1, ProtectionStarts, ProtectionStep, PTL DEF ProtectionSpec

\* A declaration or an assignment never moves a hit that a cost has claimed
\* (session.rs adopting_unsettled_defence, protection.rs assign_session_loadout).
THEOREM SettledEvidenceStays == ProtectionSpec => SettledStays
<1>1. EvidenceKept => \A h \in DOMAIN hits : Claimed(h) => Worn(h)' = Worn(h)
  BY DEF EvidenceKept
<1> QED BY <1>1, ProtectionStarts, ProtectionStep, PTL DEF ProtectionSpec, SettledStays

-----------------------------------------------------------------------------
(* What the tables hold, as one inductive invariant.                       *)

MoveKinds == {"opening_balance", "listing", "listing_return", "trade",
              "conversion_out", "conversion_in", "removal"}
Move == [ref : Nat, kind : MoveKinds, item : Items, source : Sources, qty : Int]

\* A plan that takes q: the sources give q between them, what the known ones
\* give is attributed, and what was revealed left unattributed.
PlanFor(plan, q) ==
    /\ plan.leaves \in [Sources -> Nat] /\ plan.excess \in Nat /\ plan.attributed \in Nat
    /\ plan.excess <= plan.leaves[Unattributed]
    /\ SumOf(plan.leaves, Sources) = q
    /\ SumOf(plan.leaves, Known) = plan.attributed

\* The kind of the rows by which stock leaves.
LeavesAs(fact) == CASE fact.kind = "private" -> "trade"
                    [] fact.kind = "conversion" -> "conversion_out"
                    [] fact.kind = "removal" -> "removal"
                    [] OTHER -> "listing"

\* What may have come back for what left: an expired listing returned it all, a
\* conversion into stock put it into another item.
CameBack(f, fact, plan) ==
    IF fact.status = "expired" THEN {Rows(f, "listing_return", plan, fact.subject, 1)}
    ELSE IF fact.kind = "conversion"
         THEN {{}} \union {Rows(f, "conversion_in", plan, j, 1) : j \in Items \ {fact.subject}}
    ELSE {{}}

\* The movements of a fact are those of one plan for its quantity.
Booked(f, fact, rows) ==
    IF fact.undone \/ fact.subject \in Equipment THEN rows = {}
    ELSE \E plan : /\ PlanFor(plan, fact.qty) /\ plan.attributed = fact.attributed
                   /\ \E back \in CameBack(f, fact, plan) :
                         rows = Outflow(f, LeavesAs(fact), plan, fact.subject) \union back

\* Which states a fact of each kind can be in.
Shaped(fact) ==
    /\ fact.status \in {"pending", "expired"} => fact.kind = "listing"
    /\ fact.kind \in {"private", "conversion", "removal"} =>
          fact.status = "done" /\ fact.subject \in Items
    /\ fact.undone => fact.owns = {}

StockTyped ==
    /\ loot \subseteq LootRows
    /\ facts \in Seq(Fact)
    /\ IsFiniteSet(moves) /\ moves \subseteq Move
    /\ \A m \in moves : m.ref \in DOMAIN facts
    /\ equip \in [Equipment -> {"held", "listed", "sold", "gone"}]
    /\ selling \in Equipment \union {NoItem}

FactsBooked == \A f \in DOMAIN facts : Shaped(facts[f]) /\ Booked(f, facts[f], RowsOf(f))

StockInv == StockTyped /\ FactsBooked /\ MarketSound

-----------------------------------------------------------------------------
(* What rows add up to.                                                    *)

Quantity(rows) == [r \in rows |-> r.qty]
Rowy(rows) == IsFiniteSet(rows) /\ \A r \in rows : r.qty \in Int

LEMMA TotalIsSum ==
    ASSUME NEW rows, Rowy(rows)
    PROVE  /\ IntValued(Quantity(rows), rows)
           /\ Total(rows) = SumOf(Quantity(rows), rows) /\ Total(rows) \in Int
<1> DEFINE g == Quantity(rows)
           F(it) == it = [t \in SUBSET rows |-> IF t = {} THEN 0
                                                ELSE Chosen(t).qty + it[t \ {Chosen(t)}]]
           f == CHOOSE it : F(it)
<1>0. IntValued(g, rows) /\ \A r \in rows : g[r] = r.qty
  BY DEF IntValued, Quantity, Rowy
<1> HIDE DEF g
<1>1. Total(rows) = f[rows]
  BY Zenon DEF Total, MapThenSumSet, MapThenFoldSet, Chosen
<1>2. \A t \in SUBSET rows : t # {} => g[Chosen(t)] = Chosen(t).qty
  BY <1>0, ChosenIsMember
<1>3. ASSUME NEW it PROVE F(it) <=> IsFold(it, g, rows)
  BY <1>2 DEF IsFold
<1>4. F(f)
  <2>1. \E it : F(it)
    BY <1>0, <1>3, FoldExists
  <2> QED BY <2>1
<1> HIDE DEF f
<1>5. IsFold(f, g, rows)
  BY <1>3, <1>4
<1> USE DEF g
<1> QED BY <1>0, <1>1, <1>5, FoldIsSum, SumIsInt

LEMMA TotalOfNone == Total({}) = 0 /\ Rowy({})
<1>1. Rowy({})
  BY FS_EmptySet DEF Rowy
<1> QED BY <1>1, TotalIsSum, SumOfEmpty

LEMMA SomeRows == ASSUME NEW rows, Rowy(rows), NEW some \in SUBSET rows PROVE Rowy(some)
BY FS_Subset DEF Rowy

LEMMA TotalOfParts ==
    ASSUME NEW a, NEW b, Rowy(a), Rowy(b), a \cap b = {}
    PROVE  Rowy(a \union b) /\ Total(a \union b) = Total(a) + Total(b)
<1> DEFINE g == Quantity(a \union b)
<1>1. Rowy(a \union b)
  BY FS_Union DEF Rowy
<1>2. IntValued(g, a \union b)
  BY <1>1, TotalIsSum
<1>3. IntValued(g, a) /\ IntValued(g, b)
  BY <1>2, IntValuedParts
<1>4. SumOf(g, a \union b) = SumOf(g, a) + SumOf(g, b)
  <2> HIDE DEF g
  <2> QED BY <1>3, SumOfParts
<1>5. SumOf(g, a) = Total(a)
  <2>1. \A r \in a : g[r] = Quantity(a)[r]
    BY DEF Quantity
  <2> QED BY <1>3, <2>1, TotalIsSum, SumOfAgrees
<1>6. SumOf(g, b) = Total(b)
  <2>1. \A r \in b : g[r] = Quantity(b)[r]
    BY DEF Quantity
  <2> QED BY <1>3, <2>1, TotalIsSum, SumOfAgrees
<1> QED BY <1>1, <1>4, <1>5, <1>6, TotalIsSum

LEMMA TotalWithout ==
    ASSUME NEW a, Rowy(a), NEW b \in SUBSET a
    PROVE  Rowy(a \ b) /\ Total(a \ b) = Total(a) - Total(b)
<1>1. Rowy(a \ b) /\ Rowy(b)
  BY SomeRows
<1>2. (a \ b) \union b = a /\ (a \ b) \cap b = {}
  OBVIOUS
<1>3. Total(a) = Total(a \ b) + Total(b)
  BY <1>1, <1>2, TotalOfParts
<1> QED BY <1>1, <1>3, TotalIsSum

LEMMA TotalOfOne ==
    ASSUME NEW r, r.qty \in Int
    PROVE  Rowy({r}) /\ Total({r}) = r.qty
<1> DEFINE g == Quantity({r})
<1>1. Rowy({r})
  BY FS_Singleton DEF Rowy
<1>2. IntValued(g, {r}) /\ g[r] = r.qty
  BY <1>1, TotalIsSum DEF Quantity
<1>3. SumOf(g, {r}) = g[r] + SumOf(g, {r} \ {r})
  <2> HIDE DEF g
  <2> QED BY <1>2, SumOfRemove
<1>4. {r} \ {r} = {}
  OBVIOUS
<1> QED BY <1>1, <1>2, <1>3, <1>4, TotalIsSum, SumOfEmpty

LEMMA SourcesFinite == IsFiniteSet(Sources) /\ IsFiniteSet(Known) /\ Known \subseteq Sources
<1>1. IsFiniteSet({Unattributed}) /\ IsFiniteSet(Known)
  BY StockAssumption, FS_Singleton
<1> QED BY <1>1, FS_Union DEF Sources

\* Rows grouped by their source.
LEMMA TotalBySource ==
    ASSUME NEW rows, Rowy(rows), \A r \in rows : r.source \in Sources,
           NEW b, \A s \in Sources : b[s] = Total({r \in rows : r.source = s})
    PROVE  IntValued(b, Sources) /\ Total(rows) = SumOf(b, Sources)
<1> DEFINE In(T) == {r \in rows : r.source \in T}
           P == {T \in SUBSET Sources : Total(In(T)) = SumOf(b, T)}
<1>0. \A T : Rowy(In(T))
  <2> TAKE T
  <2>1. In(T) \in SUBSET rows
    OBVIOUS
  <2> QED BY <2>1, SomeRows
<1>1. IntValued(b, Sources)
  <2>1. \A s \in Sources : b[s] = Total(In({s}))
    OBVIOUS
  <2>2. \A s \in Sources : b[s] \in Int
    BY <1>0, <2>1, TotalIsSum
  <2> QED BY <2>2, SourcesFinite DEF IntValued
<1>2. {} \in P
  <2>1. In({}) = {}
    OBVIOUS
  <2> QED BY <2>1, TotalOfNone, SumOfEmpty
<1>3. ASSUME NEW T \in P, NEW s \in Sources \ T PROVE T \union {s} \in P
  <2>1. T \in SUBSET Sources /\ Total(In(T)) = SumOf(b, T)
    OBVIOUS
  <2>2. In(T \union {s}) = In(T) \union In({s}) /\ In(T) \cap In({s}) = {}
    OBVIOUS
  <2>3. b[s] = Total(In({s}))
    OBVIOUS
  <2> HIDE DEF In
  <2>4. Total(In(T \union {s})) = Total(In(T)) + Total(In({s}))
    BY <1>0, <2>2, TotalOfParts
  <2>5. IntValued(b, T)
    BY <1>1, <2>1, IntValuedParts
  <2>6. SumOf(b, T \union {s}) = b[s] + SumOf(b, T)
    BY <1>1, <2>5, SumOfAdd DEF IntValued
  <2>7. Total(In(T)) \in Int /\ Total(In({s})) \in Int
    BY <1>0, TotalIsSum
  <2>8. Total(In(T \union {s})) = SumOf(b, T \union {s})
    BY <2>1, <2>3, <2>4, <2>6, <2>7
  <2> QED BY <2>1, <2>8
<1>4. Sources \in P
  <2>1. P \in SUBSET (SUBSET Sources)
    OBVIOUS
  <2> HIDE DEF P
  <2> QED BY <1>2, <1>3, <2>1, SourcesFinite, SubsetInduction
<1>5. In(Sources) = rows
  OBVIOUS
<1> QED BY <1>1, <1>4, <1>5

-----------------------------------------------------------------------------
(* The rows of a plan.                                                     *)

From(rows, T) == {r \in rows : r.source \in T}
At(rows, s) == {r \in rows : r.source = s}

Leaving(plan) == plan.leaves \in [Sources -> Nat] /\ plan.excess \in Nat

LEMMA SourceIsKnown == Unattributed \in Sources /\ Unattributed \notin Known
BY StockAssumption DEF Sources

LEMMA PlanLeaves ==
    ASSUME NEW plan, NEW q, PlanFor(plan, q)
    PROVE  Leaving(plan) /\ plan.excess <= plan.leaves[Unattributed]
BY DEF PlanFor, Leaving

LEMMA RowsFields ==
    ASSUME NEW f, NEW kind, NEW plan, NEW on, NEW sign, NEW r \in Rows(f, kind, plan, on, sign)
    PROVE  /\ r.ref = f /\ r.kind = kind /\ r.item = on /\ r.source \in Sources
           /\ plan.leaves[r.source] > 0 /\ r.qty = sign * plan.leaves[r.source]
BY DEF Rows

LEMMA RowsFrom ==
    ASSUME NEW f, NEW kind, NEW plan, Leaving(plan), NEW on, NEW sign \in {1, -1},
           NEW T \in SUBSET Sources
    PROVE  /\ Rowy(From(Rows(f, kind, plan, on, sign), T))
           /\ Total(From(Rows(f, kind, plan, on, sign), T)) = sign * SumOf(plan.leaves, T)
<1> DEFINE row(s) == [ref |-> f, kind |-> kind, item |-> on, source |-> s,
                      qty |-> sign * plan.leaves[s]]
           S == {s \in T : plan.leaves[s] > 0}
           rows == {r \in Rows(f, kind, plan, on, sign) : r.source \in T}
           name == [s \in S |-> row(s)]
           h == [s \in T |-> sign * plan.leaves[s]]
           g == Quantity(rows)
<1>1. plan.leaves \in [Sources -> Nat] /\ IsFiniteSet(T) /\ IsFiniteSet(S)
  BY SourcesFinite, FS_Subset DEF Leaving
<1>2. IntValued(plan.leaves, T) /\ IntValued(h, T)
  BY <1>1 DEF IntValued
<1>3. SumOf(h, T) * 1 = sign * SumOf(plan.leaves, T)
  <2>1. \A s \in T : h[s] * 1 = sign * plan.leaves[s]
    BY <1>1
  <2> HIDE DEF h
  <2> QED BY <1>2, <2>1, SumOfScaled
<1>4. SumOf(h, T) = SumOf(h, S)
  <2>1. \A s \in T \ S : h[s] = 0
    BY <1>1
  <2>2. S \in SUBSET T
    OBVIOUS
  <2> HIDE DEF h, S
  <2> QED BY <1>2, <2>1, <2>2, SumOfSupport
<1>5. \A r \in rows : \E s \in S : r = name[s]
  BY <1>1 DEF Rows
<1>6. \A s \in S : name[s] \in rows /\ name[s].qty = h[s]
  BY <1>1 DEF Rows
<1>7. \A s \in S, t \in S : name[s] = name[t] => s = t
  <2>1. \A s \in S : name[s].source = s
    OBVIOUS
  <2> QED BY <2>1
<1>8. IntValued(h, S)
  <2> HIDE DEF h
  <2> QED BY <1>2, IntValuedParts
<1>9. \A s \in S : g[name[s]] = h[s]
  BY <1>6 DEF Quantity
<1>10. IntValued(g, rows) /\ SumOf(g, rows) = SumOf(h, S)
  <2>1. \A s \in S : name[s] \in rows /\ g[name[s]] = h[s]
    BY <1>6, <1>9
  <2> HIDE DEF g, h, name, rows, S
  <2> QED BY <1>5, <1>7, <1>8, <2>1, SumOfRenamed
<1>11. Rowy(rows)
  BY <1>10 DEF IntValued, Quantity, Rowy
<1>12. SumOf(h, T) \in Int
  <2> HIDE DEF h
  <2> QED BY <1>2, SumIsInt
<1>13. SumOf(h, T) = sign * SumOf(plan.leaves, T)
  <2> HIDE DEF h
  <2> QED BY <1>3, <1>12
<1>14. Total(rows) = sign * SumOf(plan.leaves, T)
  <2> HIDE DEF h, g, rows, S
  <2> QED BY <1>4, <1>10, <1>11, <1>13, TotalIsSum DEF g
<1>15. rows = From(Rows(f, kind, plan, on, sign), T)
  BY DEF From
<1> HIDE DEF rows
<1> QED BY <1>11, <1>14, <1>15

LEMMA RowsAt ==
    ASSUME NEW f, NEW kind, NEW plan, Leaving(plan), NEW on, NEW sign \in {1, -1},
           NEW s \in Sources
    PROVE  /\ Rowy(At(Rows(f, kind, plan, on, sign), s))
           /\ Total(At(Rows(f, kind, plan, on, sign), s)) = sign * plan.leaves[s]
<1>1. At(Rows(f, kind, plan, on, sign), s) = From(Rows(f, kind, plan, on, sign), {s})
  BY DEF At, From
<1>2. plan.leaves[s] \in Int /\ SumOf(plan.leaves, {s}) = plan.leaves[s]
  BY SumOfOne DEF Leaving
<1>3. {s} \in SUBSET Sources
  OBVIOUS
<1>4. /\ Rowy(From(Rows(f, kind, plan, on, sign), {s}))
      /\ Total(From(Rows(f, kind, plan, on, sign), {s})) = sign * SumOf(plan.leaves, {s})
  BY <1>3, RowsFrom
<1> QED BY <1>1, <1>2, <1>4

LEMMA RowsAreRowy ==
    ASSUME NEW f, NEW kind, NEW plan, Leaving(plan), NEW on, NEW sign \in {1, -1}
    PROVE  Rowy(Rows(f, kind, plan, on, sign))
<1>1. From(Rows(f, kind, plan, on, sign), Sources) = Rows(f, kind, plan, on, sign)
  BY RowsFields DEF From
<1>2. Sources \in SUBSET Sources
  OBVIOUS
<1>3. Rowy(From(Rows(f, kind, plan, on, sign), Sources))
  BY <1>2, RowsFrom
<1> QED BY <1>1, <1>3

\* What is revealed as opening balance.
LEMMA OpeningRows ==
    ASSUME NEW f, NEW plan, Leaving(plan), NEW on
    PROVE  /\ Rowy(OpeningBalance(f, plan, on)) /\ Total(OpeningBalance(f, plan, on)) = plan.excess
           /\ \A r \in OpeningBalance(f, plan, on) :
                 /\ r.ref = f /\ r.kind = "opening_balance" /\ r.item = on
                 /\ r.source = Unattributed /\ r.qty = plan.excess /\ r.qty > 0
<1>1. plan.excess \in Nat
  BY DEF Leaving
<1>2. CASE plan.excess = 0
  BY <1>2, TotalOfNone DEF OpeningBalance
<1>3. CASE plan.excess # 0
  <2> DEFINE r == [ref |-> f, kind |-> "opening_balance", item |-> on, source |-> Unattributed,
                   qty |-> plan.excess]
  <2>1. OpeningBalance(f, plan, on) = {r}
    BY <1>3 DEF OpeningBalance
  <2>2. r.qty = plan.excess /\ r.qty > 0 /\ r.qty \in Int
    BY <1>1, <1>3
  <2>3. r.ref = f /\ r.kind = "opening_balance" /\ r.item = on /\ r.source = Unattributed
    OBVIOUS
  <2> HIDE DEF r
  <2> QED BY <2>1, <2>2, <2>3, TotalOfOne
<1> QED BY <1>2, <1>3

LEMMA OutflowRows ==
    ASSUME NEW f, NEW kind, kind # "opening_balance", NEW plan, Leaving(plan), NEW on
    PROVE  /\ Rowy(Outflow(f, kind, plan, on))
           /\ {m \in Outflow(f, kind, plan, on) : m.qty < 0} = Rows(f, kind, plan, on, -1)
           /\ {m \in Outflow(f, kind, plan, on) : m.kind = kind} = Rows(f, kind, plan, on, -1)
           /\ \A m \in Outflow(f, kind, plan, on) :
                 /\ m.ref = f /\ m.item = on /\ m.source \in Sources /\ m.qty \in Int
                 /\ m.kind \in {"opening_balance", kind}
<1> DEFINE out == Rows(f, kind, plan, on, -1)
           in == OpeningBalance(f, plan, on)
<1>1. Rowy(out) /\ Rowy(in)
  BY RowsAreRowy, OpeningRows
<1>2. \A r \in out : r.ref = f /\ r.item = on /\ r.source \in Sources /\ r.qty < 0 /\ r.kind = kind
  BY RowsFields DEF Leaving
<1>3. \A r \in in : /\ r.ref = f /\ r.item = on /\ r.source \in Sources /\ r.qty > 0
                    /\ r.kind = "opening_balance"
  BY OpeningRows, SourceIsKnown
<1>4. \A r \in in \union out : r.qty \in Int
  BY <1>1 DEF Rowy
<1>5. Outflow(f, kind, plan, on) = in \union out
  BY DEF Outflow
<1>6. Rowy(in \union out)
  BY <1>1, <1>4, FS_Union DEF Rowy
<1> HIDE DEF in, out
<1>7. {m \in in \union out : m.qty < 0} = out
  BY <1>2, <1>3, <1>4
<1>8. {m \in in \union out : m.kind = kind} = out
  BY <1>2, <1>3
<1> QED BY <1>2, <1>3, <1>4, <1>5, <1>6, <1>7, <1>8 DEF out

\* What an outflow takes from one source.
LEMMA OutflowAt ==
    ASSUME NEW f, NEW kind, kind # "opening_balance", NEW plan, Leaving(plan), NEW on,
           NEW s \in Sources
    PROVE  /\ Rowy(At(Outflow(f, kind, plan, on), s))
           /\ Total(At(Outflow(f, kind, plan, on), s))
                = (IF s = Unattributed THEN plan.excess ELSE 0) - plan.leaves[s]
<1> DEFINE out == At(Rows(f, kind, plan, on, -1), s)
           in == At(OpeningBalance(f, plan, on), s)
           rows == At(Outflow(f, kind, plan, on), s)
<1>1. rows = in \union out
  BY DEF Outflow, At
<1>2. Rowy(out) /\ Total(out) = (-1) * plan.leaves[s]
  <2>1. PICK n \in {1, -1} : n = -1
    OBVIOUS
  <2>2. /\ Rowy(At(Rows(f, kind, plan, on, n), s))
        /\ Total(At(Rows(f, kind, plan, on, n), s)) = n * plan.leaves[s]
    BY RowsAt
  <2> QED BY <2>1, <2>2
<1>3. Rowy(in) /\ Total(in) = IF s = Unattributed THEN plan.excess ELSE 0
  <2>1. CASE s = Unattributed
    <3>1. in = OpeningBalance(f, plan, on)
      BY <2>1, OpeningRows DEF At
    <3> QED BY <2>1, <3>1, OpeningRows
  <2>2. CASE s # Unattributed
    <3>1. in = {}
      BY <2>2, OpeningRows DEF At
    <3> QED BY <2>2, <3>1, TotalOfNone
  <2> QED BY <2>1, <2>2
<1>4. in \cap out = {}
  <2>1. \A m \in in : m.kind = "opening_balance"
    BY OpeningRows DEF At
  <2>2. \A m \in out : m.kind = kind
    BY RowsFields DEF At
  <2> QED BY <2>1, <2>2
<1> HIDE DEF in, out
<1>5. Rowy(in \union out) /\ Total(in \union out) = Total(in) + Total(out)
  BY <1>2, <1>3, <1>4, TotalOfParts
<1>6. plan.leaves[s] \in Nat /\ plan.excess \in Nat
  BY DEF Leaving
<1>7. PICK l \in Nat : l = plan.leaves[s]
  BY <1>6
<1>8. PICK x \in Nat : x = IF s = Unattributed THEN plan.excess ELSE 0
  BY <1>6
<1>9. Total(in \union out) = x + (-1) * l
  BY <1>2, <1>3, <1>5, <1>7, <1>8
<1>10. x + (-1) * l = x - l
  OBVIOUS
<1>11. Total(rows) = x - l
  BY <1>1, <1>9, <1>10
<1> QED BY <1>1, <1>5, <1>7, <1>8, <1>11

-----------------------------------------------------------------------------
(* Every fact balances.                                                    *)

LEMMA LeavesKinds ==
    ASSUME NEW fact
    PROVE  LeavesAs(fact) \in {"listing", "trade", "conversion_out", "removal"}
BY DEF LeavesAs

LEMMA BackRows ==
    ASSUME NEW f, NEW fact, fact.subject \in Items, NEW plan, Leaving(plan),
           NEW back \in CameBack(f, fact, plan)
    PROVE  /\ Rowy(back)
           /\ \A m \in back : /\ m.ref = f /\ m.item \in Items /\ m.source \in Sources
                              /\ m.qty \in Int /\ m.qty > 0
                              /\ m.kind \in {"listing_return", "conversion_in"}
<1>1. ASSUME NEW kind, NEW on
      PROVE  /\ Rowy(Rows(f, kind, plan, on, 1))
             /\ \A m \in Rows(f, kind, plan, on, 1) :
                   /\ m.ref = f /\ m.item = on /\ m.source \in Sources
                   /\ m.qty \in Int /\ m.qty > 0 /\ m.kind = kind
  <2>1. Rowy(Rows(f, kind, plan, on, 1))
    BY RowsAreRowy
  <2>2. \A m \in Rows(f, kind, plan, on, 1) :
            /\ m.ref = f /\ m.item = on /\ m.source \in Sources /\ m.kind = kind
            /\ m.qty \in Int /\ m.qty = 1 * plan.leaves[m.source] /\ plan.leaves[m.source] > 0
    BY <2>1, RowsFields DEF Rowy
  <2>3. \A m \in Rows(f, kind, plan, on, 1) : m.qty > 0
    BY <2>2 DEF Leaving
  <2> QED BY <2>1, <2>2, <2>3
<1>2. CASE fact.status = "expired"
  <2>1. back = Rows(f, "listing_return", plan, fact.subject, 1)
    BY <1>2 DEF CameBack
  <2> QED BY <1>1, <2>1
<1>3. CASE fact.status # "expired" /\ back = {}
  BY <1>3, TotalOfNone
<1>4. CASE fact.status # "expired" /\ back # {}
  <2>1. PICK j \in Items : back = Rows(f, "conversion_in", plan, j, 1)
    BY <1>4 DEF CameBack
  <2> QED BY <1>1, <2>1
<1> QED BY <1>2, <1>3, <1>4

\* What FactsBalance says of one standing fact.
Balanced(fact, rows) ==
    LET outs == {m \in rows : m.qty < 0}
        at(kind, s) == Total({m \in rows : m.kind = kind /\ m.source = s})
    IN  /\ Total(outs) = -fact.qty
        /\ Total({m \in outs : m.source \in Known}) = -fact.attributed
        /\ \A s \in Sources :
              /\ at("conversion_in", s) \in {0, -at("conversion_out", s)}
              /\ fact.status = "expired" => at("listing_return", s) = -at("listing", s)

LEMMA BookedBalances ==
    ASSUME NEW f, NEW fact \in Fact, Shaped(fact), fact.subject \in Items, ~fact.undone,
           NEW rows, Booked(f, fact, rows)
    PROVE  Balanced(fact, rows)
<1> DEFINE kind == LeavesAs(fact)
           subject == fact.subject
<1>1. fact.subject \notin Equipment
  BY StockAssumption
<1>2. PICK plan : /\ PlanFor(plan, fact.qty) /\ plan.attributed = fact.attributed
                  /\ \E back \in CameBack(f, fact, plan) :
                        rows = Outflow(f, kind, plan, subject) \union back
  BY <1>1, Zenon DEF Booked
<1>3. PICK back \in CameBack(f, fact, plan) : rows = Outflow(f, kind, plan, subject) \union back
  BY <1>2
<1>4. Leaving(plan) /\ kind \in {"listing", "trade", "conversion_out", "removal"}
  BY <1>2, PlanLeaves, LeavesKinds
<1>5. \A m \in back : /\ m.qty \in Int /\ m.qty > 0
                      /\ m.kind \in {"listing_return", "conversion_in"}
  BY <1>4, BackRows
<1>6. /\ {m \in Outflow(f, kind, plan, subject) : m.qty < 0} = Rows(f, kind, plan, subject, -1)
      /\ {m \in Outflow(f, kind, plan, subject) : m.kind = kind} = Rows(f, kind, plan, subject, -1)
      /\ \A m \in Outflow(f, kind, plan, subject) : m.kind \in {"opening_balance", kind}
  <2>1. kind # "opening_balance"
    BY <1>4
  <2> HIDE DEF kind, subject
  <2> QED BY <1>4, <2>1, OutflowRows
<1>7. ASSUME NEW T \in SUBSET Sources
      PROVE  Total(From(Rows(f, kind, plan, subject, -1), T)) = 0 - SumOf(plan.leaves, T)
  <2>1. PICK n \in {1, -1} : n = -1
    OBVIOUS
  <2>2. Total(From(Rows(f, kind, plan, subject, n), T)) = n * SumOf(plan.leaves, T)
    BY <1>4, RowsFrom
  <2>3. IntValued(plan.leaves, T)
    BY <1>4, SourcesFinite, FS_Subset DEF IntValued, Leaving
  <2>4. SumOf(plan.leaves, T) \in Int
    BY <2>3, SumIsInt
  <2> QED BY <2>1, <2>2, <2>4
<1>8. {m \in rows : m.qty < 0} = Rows(f, kind, plan, subject, -1)
  <2>1. {m \in back : m.qty < 0} = {}
    BY <1>5
  <2>2. {m \in rows : m.qty < 0} = {m \in Outflow(f, kind, plan, subject) : m.qty < 0}
                                   \union {m \in back : m.qty < 0}
    BY <1>3
  <2> QED BY <1>6, <2>1, <2>2
<1>9. Total({m \in rows : m.qty < 0}) = 0 - fact.qty
  <2>1. From(Rows(f, kind, plan, subject, -1), Sources) = Rows(f, kind, plan, subject, -1)
    BY RowsFields DEF From
  <2>2. Sources \in SUBSET Sources /\ SumOf(plan.leaves, Sources) = fact.qty
    BY <1>2 DEF PlanFor
  <2> QED BY <1>7, <1>8, <2>1, <2>2
<1>10. Total({m \in {m \in rows : m.qty < 0} : m.source \in Known}) = 0 - fact.attributed
  <2>1. {m \in {m \in rows : m.qty < 0} : m.source \in Known}
          = From(Rows(f, kind, plan, subject, -1), Known)
    BY <1>8 DEF From
  <2>2. Known \in SUBSET Sources /\ SumOf(plan.leaves, Known) = fact.attributed
    BY <1>2, SourcesFinite DEF PlanFor
  <2> QED BY <1>7, <2>1, <2>2
<1>11. ASSUME NEW s \in Sources
       PROVE  Total({m \in rows : m.kind = kind /\ m.source = s}) = 0 - plan.leaves[s]
  <2>1. {m \in rows : m.kind = kind /\ m.source = s} = From(Rows(f, kind, plan, subject, -1), {s})
    <3>1. \A m \in back : m.kind # kind
      BY <1>4, <1>5
    <3>2. {m \in rows : m.kind = kind} = {m \in Outflow(f, kind, plan, subject) : m.kind = kind}
      BY <1>3, <3>1
    <3>3. {m \in rows : m.kind = kind /\ m.source = s}
            = {m \in {m \in rows : m.kind = kind} : m.source \in {s}}
      OBVIOUS
    <3> HIDE DEF kind, subject
    <3> QED BY <1>6, <3>2, <3>3 DEF From
  <2>2. plan.leaves[s] \in Int /\ SumOf(plan.leaves, {s}) = plan.leaves[s]
    BY <1>4, SumOfOne DEF Leaving
  <2>3. {s} \in SUBSET Sources
    OBVIOUS
  <2> QED BY <1>7, <2>1, <2>2, <2>3
<1>12. ASSUME NEW came \in {"listing_return", "conversion_in"}, NEW on, NEW s \in Sources,
              back = Rows(f, came, plan, on, 1)
       PROVE  Total({m \in rows : m.kind = came /\ m.source = s}) = plan.leaves[s]
  <2>1. {m \in rows : m.kind = came /\ m.source = s} = At(Rows(f, came, plan, on, 1), s)
    <3>1. \A m \in Outflow(f, kind, plan, subject) : m.kind # came
      BY <1>4, <1>6
    <3>2. \A m \in back : m.kind = came
      BY <1>12, RowsFields
    <3> QED BY <1>3, <1>12, <3>1, <3>2 DEF At
  <2>2. Total(At(Rows(f, came, plan, on, 1), s)) = 1 * plan.leaves[s] /\ plan.leaves[s] \in Nat
    BY <1>4, RowsAt DEF Leaving
  <2> QED BY <2>1, <2>2
<1>13. ASSUME NEW s \in Sources
       PROVE  Total({m \in rows : m.kind = "conversion_in" /\ m.source = s})
                \in {0, -Total({m \in rows : m.kind = "conversion_out" /\ m.source = s})}
  <2>1. CASE \E j \in Items : back = Rows(f, "conversion_in", plan, j, 1) /\ fact.kind = "conversion"
    <3>1. kind = "conversion_out"
      BY <2>1 DEF LeavesAs
    <3>2. Total({m \in rows : m.kind = "conversion_in" /\ m.source = s}) = plan.leaves[s]
      BY <1>12, <2>1
    <3>3. Total({m \in rows : m.kind = "conversion_out" /\ m.source = s}) = 0 - plan.leaves[s]
      BY <1>11, <3>1
    <3>4. plan.leaves[s] \in Int
      BY <1>4 DEF Leaving
    <3> QED BY <3>2, <3>3, <3>4
  <2>2. CASE \A m \in back : m.kind # "conversion_in"
    <3>1. {m \in rows : m.kind = "conversion_in" /\ m.source = s} = {}
      BY <1>3, <1>4, <1>6, <2>2
    <3> QED BY <3>1, TotalOfNone
  <2>3. CASE fact.status = "expired"
    <3>1. back = Rows(f, "listing_return", plan, subject, 1)
      BY <2>3 DEF CameBack
    <3> QED BY <2>2, <3>1, RowsFields
  <2>4. CASE fact.status # "expired" /\ back # {}
    BY <2>1, <2>4 DEF CameBack
  <2>5. CASE back = {}
    BY <2>2, <2>5
  <2> QED BY <2>3, <2>4, <2>5
<1>14. ASSUME NEW s \in Sources, fact.status = "expired"
       PROVE  Total({m \in rows : m.kind = "listing_return" /\ m.source = s})
                = -Total({m \in rows : m.kind = "listing" /\ m.source = s})
  <2>1. fact.kind = "listing" /\ kind = "listing"
    BY <1>14 DEF Shaped, LeavesAs
  <2>2. back = Rows(f, "listing_return", plan, subject, 1)
    BY <1>14 DEF CameBack
  <2>3. Total({m \in rows : m.kind = "listing_return" /\ m.source = s}) = plan.leaves[s]
    BY <1>12, <2>2
  <2>4. Total({m \in rows : m.kind = "listing" /\ m.source = s}) = 0 - plan.leaves[s]
    BY <1>11, <2>1
  <2>5. plan.leaves[s] \in Int
    BY <1>4 DEF Leaving
  <2> QED BY <2>3, <2>4, <2>5
<1>15. fact.qty \in Int /\ fact.attributed \in Int
  BY DEF Fact
<1>16. 0 - fact.qty = -fact.qty /\ 0 - fact.attributed = -fact.attributed
  BY <1>15
<1> HIDE DEF kind, subject
<1> QED BY <1>9, <1>10, <1>13, <1>14, <1>16, Zenon DEF Balanced

-----------------------------------------------------------------------------
(* An allocation is a plan for the quantity it was asked for.              *)

LEMMA ProductsOrdered ==
    ASSUME NEW x \in Int, NEW y \in Int, x <= y, NEW v \in Nat
    PROVE  x * v <= y * v
OBVIOUS

LEMMA ShareWithin ==
    ASSUME NEW a \in Nat, NEW v \in Nat \ {0}, a <= v, NEW p \in Nat, (a * p) % v = 0
    PROVE  /\ (a * p) \div v \in Nat /\ ((a * p) \div v) * v = a * p
           /\ (a * p) \div v <= p
<1>1. PICK x \in Nat : x = a * p
  OBVIOUS
<1>2. PICK h : h = x \div v
  OBVIOUS
<1>3. h \in Int
  BY <1>2
<1>4. x = h * v
  <2>1. v \in Int /\ v > 0 /\ x \in Int /\ x % v = 0
    BY <1>1
  <2>2. v * (x \div v) = x
    BY <2>1
  <2> QED BY <1>2, <1>3, <2>2
<1>5. h >= 0
  <2> SUFFICES ASSUME h <= -1 PROVE FALSE
    BY <1>3
  <2>1. h * v <= (-1) * v
    BY <1>3, ProductsOrdered
  <2> QED BY <1>1, <1>4, <2>1
<1>6. h <= p
  <2> SUFFICES ASSUME p + 1 <= h PROVE FALSE
    BY <1>3
  <2>1. (p + 1) * v <= h * v
    BY <1>3, ProductsOrdered
  <2>2. (p + 1) * v = p * v + v
    OBVIOUS
  <2>3. a * p <= v * p
    BY ProductsOrdered
  <2>4. v * p = p * v
    OBVIOUS
  <2> QED BY <1>1, <1>3, <1>4, <2>1, <2>2, <2>3, <2>4
<1> QED BY <1>1, <1>2, <1>3, <1>4, <1>5, <1>6

\* An open source gives no more than it holds, another none.
Taken(plan, position, share) ==
    /\ share \in [Sources -> Nat]
    /\ plan.leaves = [share EXCEPT ![Unattributed] = @ + plan.excess]
    /\ \A s \in Sources : share[s] <= IF s \in DOMAIN position THEN position[s] ELSE 0

LEMMA AllocationFits ==
    ASSUME NEW open \in SUBSET Sources, NEW position \in [open -> Nat \ {0}], NEW q \in Nat,
           NEW plan, plan = allocate(position, q), plan.whole
    PROVE  PlanFor(plan, q) /\ \E share : Taken(plan, position, share)
<1> DEFINE v == SumOver(position, open)
           a == IF q < v THEN q ELSE v
           share == [s \in Sources |-> IF s \in open THEN (a * position[s]) \div v ELSE 0]
<1>0. DOMAIN position = open /\ IsFiniteSet(open) /\ IsFiniteSet(Sources)
  BY SourcesFinite, FS_Subset
<1>1. v = SumOf(position, open)
  BY Zenon DEF SumOver, SumOf
<1>2. v \in Nat /\ IntValued(position, open)
  BY <1>0, <1>1, SumOfNaturals
<1>3. a \in Nat /\ a <= v /\ a <= q
  BY <1>2
<1>4. open # {} => v # 0
  <2> SUFFICES ASSUME open # {} PROVE v # 0
    OBVIOUS
  <2>1. PICK s \in open : TRUE
    OBVIOUS
  <2>2. v = position[s] + SumOf(position, open \ {s})
    BY <1>1, <1>2, SumOfRemove
  <2>3. IsFiniteSet(open \ {s}) /\ \A t \in open \ {s} : position[t] \in Nat
    BY <1>0, FS_Subset
  <2>4. SumOf(position, open \ {s}) \in Nat
    BY <2>3, SumOfNaturals
  <2>5. position[s] \in Nat \ {0}
    OBVIOUS
  <2> QED BY <2>2, <2>4, <2>5
<1>5. plan.excess = q - a
  BY <1>0 DEF allocate
<1>6. plan.leaves = [share EXCEPT ![Unattributed] = @ + (q - a)]
  BY <1>0 DEF allocate
<1>7. plan.attributed = SumOver(share, Known)
  BY <1>0, Zenon DEF allocate
<1>8. \A s \in open : (a * position[s]) % v = 0
  BY <1>0 DEF allocate
<1>9. \A s \in open : share[s] \in Nat /\ share[s] * v = a * position[s] /\ share[s] <= position[s]
  <2> TAKE s \in open
  <2>1. v \in Nat \ {0} /\ position[s] \in Nat /\ (a * position[s]) % v = 0
    BY <1>2, <1>4, <1>8
  <2>2. share[s] = (a * position[s]) \div v
    OBVIOUS
  <2>3. PICK p \in Nat : p = position[s]
    BY <2>1
  <2> HIDE DEF v, a, share
  <2>4. /\ (a * p) \div v \in Nat /\ ((a * p) \div v) * v = a * p
        /\ (a * p) \div v <= p
    BY <1>3, <2>1, <2>3, ShareWithin
  <2> QED BY <2>2, <2>3, <2>4
<1>10. share \in [Sources -> Nat] /\ \A s \in Sources \ open : share[s] = 0
  BY <1>9
<1> HIDE DEF v, a, share
<1>11. SumOf(share, Sources) = a
  <2>1. IntValued(share, Sources) /\ IntValued(share, open)
    BY <1>0, <1>10 DEF IntValued
  <2>2. SumOf(share, Sources) = SumOf(share, open)
    BY <1>10, <2>1, SumOfSupport
  <2>3. SumOf(share, open) * v = a * SumOf(position, open)
    BY <1>2, <1>3, <1>9, <2>1, SumOfScaled
  <2>4. SumOf(share, open) \in Int
    BY <2>1, SumIsInt
  <2>5. CASE open = {}
    <3>1. SumOf(share, open) = 0 /\ v = 0
      BY <1>1, <2>5, SumOfEmpty
    <3> QED BY <1>2, <1>3, <2>2, <3>1
  <2>6. CASE open # {}
    <3>1. PICK x \in Int : x = SumOf(share, open)
      BY <2>4
    <3>2. x * v = a * v /\ v # 0
      BY <1>1, <1>4, <2>3, <2>6, <3>1
    <3>3. x = a
      <4>1. x <= a
        <5> SUFFICES ASSUME a + 1 <= x PROVE FALSE
          BY <1>3
        <5>1. (a + 1) * v <= x * v
          BY <1>2, <1>3, ProductsOrdered
        <5>2. (a + 1) * v = a * v + v
          BY <1>2, <1>3
        <5> QED BY <1>2, <1>3, <3>2, <5>1, <5>2
      <4>2. a <= x
        <5> SUFFICES ASSUME x + 1 <= a PROVE FALSE
          BY <1>3
        <5>1. (x + 1) * v <= a * v
          BY <1>2, <1>3, ProductsOrdered
        <5>2. (x + 1) * v = x * v + v
          BY <1>2, <1>3
        <5> QED BY <1>2, <1>3, <3>2, <5>1, <5>2
      <4> QED BY <1>3, <4>1, <4>2
    <3> QED BY <2>2, <3>1, <3>3
  <2> QED BY <2>5, <2>6
<1>12. SumOf(share, Sources) = share[Unattributed] + SumOf(share, Known)
  <2>1. Sources \ {Unattributed} = Known
    BY StockAssumption DEF Sources
  <2>2. IntValued(share, Sources)
    BY <1>0, <1>10 DEF IntValued
  <2> QED BY <2>1, <2>2, SourceIsKnown, SumOfRemove
<1>13. /\ plan.leaves \in [Sources -> Nat] /\ plan.excess \in Nat
       /\ plan.leaves[Unattributed] = share[Unattributed] + plan.excess
       /\ \A s \in Known : plan.leaves[s] = share[s]
  BY <1>3, <1>5, <1>6, <1>10, SourceIsKnown, SourcesFinite
<1>14. SumOf(share, Known) = plan.attributed /\ plan.attributed \in Nat
  <2>1. SumOf(share, Known) = plan.attributed
    BY <1>7, Zenon DEF SumOver, SumOf
  <2>2. \A s \in Known : share[s] \in Nat
    BY <1>10, SourcesFinite
  <2> QED BY <2>1, <2>2, SourcesFinite, SumOfNaturals
<1>15. SumOf(plan.leaves, Known) = plan.attributed
  <2>1. IntValued(share, Known) /\ \A s \in Known : share[s] = plan.leaves[s]
    BY <1>10, <1>13, SourcesFinite DEF IntValued
  <2> QED BY <1>14, <2>1, SumOfAgrees
<1>16. SumOf(plan.leaves, Sources) = q
  <2>1. Sources \ {Unattributed} = Known
    BY StockAssumption DEF Sources
  <2>2. IntValued(plan.leaves, Sources)
    BY <1>0, <1>13 DEF IntValued
  <2>3. SumOf(plan.leaves, Sources) = plan.leaves[Unattributed] + plan.attributed
    BY <1>15, <2>1, <2>2, SourceIsKnown, SumOfRemove
  <2>4. share[Unattributed] \in Nat
    BY <1>10, SourceIsKnown
  <2>5. PICK u \in Nat : u = share[Unattributed]
    BY <2>4
  <2>6. PICK k \in Nat : k = plan.attributed
    BY <1>14
  <2>7. u + k = a
    BY <1>11, <1>12, <1>14, <2>5, <2>6
  <2>8. SumOf(plan.leaves, Sources) = (u + (q - a)) + k
    BY <1>5, <1>13, <2>3, <2>5, <2>6
  <2>9. (u + (q - a)) + k = q
    BY <1>3, <2>7
  <2> QED BY <2>8, <2>9
<1>17. PlanFor(plan, q)
  <2>1. plan.excess <= plan.leaves[Unattributed]
    BY <1>10, <1>13, SourceIsKnown
  <2> QED BY <1>13, <1>14, <1>15, <1>16, <2>1 DEF PlanFor
<1>18. Taken(plan, position, share)
  <2>1. \A s \in Sources : share[s] <= IF s \in DOMAIN position THEN position[s] ELSE 0
    BY <1>0, <1>9, <1>10
  <2> QED BY <1>5, <1>6, <1>10, <2>1 DEF Taken
<1> QED BY <1>17, <1>18

-----------------------------------------------------------------------------
(* What a step does to the tables, a fact added or a fact changed.         *)

EarnedAs(fact, role) ==
    CASE role = "fee" -> fact.kind = "listing"
      [] role = "sale" -> fact.status = "sold" \/ fact.kind = "private"
      [] role = "saleFee" -> fact.status = "sold"
      [] role = "gain" -> fact.kind = "conversion"

States == {"held", "listed", "sold", "gone"}

LEMMA FactsTyped ==
    ASSUME StockTyped
    PROVE  /\ Len(facts) \in Nat /\ DOMAIN facts = 1 .. Len(facts)
           /\ New \notin DOMAIN facts /\ \A f \in DOMAIN facts : facts[f] \in Fact
<1>1. facts \in Seq(Fact)
  BY DEF StockTyped
<1> QED BY <1>1, LenProperties, ElementOfSeq DEF New

LEMMA FactAdded ==
    ASSUME StockInv, NEW fact \in Fact, Shaped(fact), ~fact.undone,
           facts' = Append(facts, fact), loot' = loot, selling' = selling,
           NEW added, IsFiniteSet(added), added \subseteq Move, \A m \in added : m.ref = New,
           moves' = moves \union added, Booked(New, fact, added),
           equip' \in [Equipment -> States],
           \A e \in Equipment : equip'[e] = "listed" =>
               equip[e] = "listed" \/ (fact.subject = e /\ fact.status = "pending"),
           \A e \in ledger' : e \in ledger \/ (/\ e.ref = New /\ e.role \in fact.owns
                                               /\ EarnedAs(fact, e.role))
    PROVE  StockInv'
<1>1. StockTyped /\ FactsBooked /\ MoneyFollowsFacts /\ ListedIsBacked
  BY DEF StockInv, MarketSound
<1>2. /\ facts' \in Seq(Fact) /\ DOMAIN facts' = DOMAIN facts \union {New}
      /\ New \notin DOMAIN facts
      /\ facts'[New] = fact /\ \A f \in DOMAIN facts : facts'[f] = facts[f]
  <2>1. facts \in Seq(Fact)
    BY <1>1 DEF StockTyped
  <2>2. /\ facts' \in Seq(Fact) /\ Len(facts) \in Nat /\ DOMAIN facts = 1 .. Len(facts)
        /\ DOMAIN facts' = 1 .. Len(facts) + 1 /\ facts'[Len(facts) + 1] = fact
        /\ \A f \in DOMAIN facts : facts'[f] = facts[f]
    BY <2>1, AppendRow
  <2>3. New = Len(facts) + 1
    BY DEF New
  <2> QED BY <2>2, <2>3
<1>3. StockTyped'
  <2>1. IsFiniteSet(moves') /\ moves' \subseteq Move
    BY <1>1, FS_Union DEF StockTyped
  <2>2. \A m \in moves' : m.ref \in DOMAIN facts'
    BY <1>1, <1>2 DEF StockTyped
  <2>3. loot \subseteq LootRows /\ selling \in Equipment \union {NoItem}
    BY <1>1 DEF StockTyped
  <2> QED BY <1>2, <2>1, <2>2, <2>3 DEF StockTyped, States
<1>4. \A m \in moves : m.ref # New
  BY <1>1, <1>2 DEF StockTyped
<1>5. FactsBooked'
  <2>1. ASSUME NEW f \in DOMAIN facts
        PROVE  Shaped(facts'[f]) /\ Booked(f, facts'[f], RowsOf(f)')
    <3>1. RowsOf(f)' = RowsOf(f)
      BY <1>2 DEF RowsOf
    <3> QED BY <1>1, <1>2, <3>1 DEF FactsBooked
  <2>2. {m \in moves' : m.ref = New} = added
    BY <1>4 DEF RowsOf
  <2>3. ASSUME NEW f \in DOMAIN facts', f \notin DOMAIN facts
        PROVE  Shaped(facts'[f]) /\ Booked(f, facts'[f], RowsOf(f)')
    <3>1. f = New /\ facts'[f] = fact /\ RowsOf(f)' = {m \in moves' : m.ref = New}
      BY <1>2, <2>3 DEF RowsOf
    <3> QED BY <2>2, <3>1
  <2> QED BY <2>1, <2>3 DEF FactsBooked
<1>6. MoneyFollowsFacts'
  <2> SUFFICES ASSUME NEW e \in ledger', e.ref \notin Equipment
               PROVE  (Standing(e.ref) /\ e.role \in facts[e.ref].owns /\ Earned(e.ref, e.role))'
    BY DEF MoneyFollowsFacts
  <2>1. CASE e \in ledger
    <3>1. Standing(e.ref) /\ e.role \in facts[e.ref].owns /\ Earned(e.ref, e.role)
      BY <1>1, <2>1 DEF MoneyFollowsFacts
    <3>2. e.ref \in DOMAIN facts' /\ facts'[e.ref] = facts[e.ref]
      BY <1>2, <3>1 DEF Standing
    <3> QED BY <3>1, <3>2 DEF Standing, Earned
  <2>2. CASE e.ref = New /\ e.role \in fact.owns /\ EarnedAs(fact, e.role)
    <3>1. e.ref \in DOMAIN facts' /\ facts'[e.ref] = fact
      BY <1>2, <2>2
    <3> QED BY <2>2, <3>1 DEF Standing, Earned, EarnedAs
  <2> QED BY <2>1, <2>2
<1>7. ListedIsBacked'
  <2> SUFFICES ASSUME NEW e \in Equipment, equip'[e] = "listed"
               PROVE  \E f \in DOMAIN facts' :
                          /\ facts'[f].subject = e /\ ~facts'[f].undone
                          /\ facts'[f].status = "pending"
    BY DEF ListedIsBacked, Standing
  <2>1. CASE equip[e] = "listed"
    <3>1. PICK f \in DOMAIN facts : /\ facts[f].subject = e /\ ~facts[f].undone
                                    /\ facts[f].status = "pending"
      BY <1>1, <2>1 DEF ListedIsBacked, Standing
    <3> QED BY <1>2, <3>1
  <2>2. CASE fact.subject = e /\ fact.status = "pending"
    BY <1>2, <2>2
  <2> QED BY <2>1, <2>2
<1> QED BY <1>3, <1>5, <1>6, <1>7 DEF StockInv, MarketSound

LEMMA FactChanged ==
    ASSUME StockInv, NEW f \in DOMAIN facts, NEW fact \in Fact, Shaped(fact),
           facts' = [facts EXCEPT ![f] = fact], loot' = loot, selling' = selling,
           IsFiniteSet(moves'), moves' \subseteq Move,
           \A m : m.ref # f => (m \in moves' <=> m \in moves),
           Booked(f, fact, {m \in moves' : m.ref = f}),
           equip' \in [Equipment -> States],
           \A e \in Equipment : equip'[e] = "listed" =>
               \/ e # facts[f].subject /\ equip[e] = "listed"
               \/ fact.subject = e /\ fact.status = "pending" /\ ~fact.undone,
           \A e \in ledger' : e.ref \notin Equipment =>
                              IF e.ref = f
                              THEN ~fact.undone /\ e.role \in fact.owns /\ EarnedAs(fact, e.role)
                              ELSE e \in ledger
    PROVE  StockInv'
<1>1. StockTyped /\ FactsBooked /\ MoneyFollowsFacts /\ ListedIsBacked
  BY DEF StockInv, MarketSound
<1>2. /\ facts' \in Seq(Fact) /\ DOMAIN facts' = DOMAIN facts
      /\ facts'[f] = fact /\ \A g \in DOMAIN facts : g # f => facts'[g] = facts[g]
  <2>1. facts \in Seq(Fact)
    BY <1>1 DEF StockTyped
  <2> QED BY <2>1, ReplaceRow
<1>3. StockTyped'
  <2>1. \A m \in moves' : m.ref \in DOMAIN facts'
    BY <1>1, <1>2 DEF StockTyped
  <2>2. loot \subseteq LootRows /\ selling \in Equipment \union {NoItem}
    BY <1>1 DEF StockTyped
  <2> QED BY <1>2, <2>1, <2>2 DEF StockTyped, States
<1>4. FactsBooked'
  <2> SUFFICES ASSUME NEW g \in DOMAIN facts
               PROVE  Shaped(facts'[g]) /\ Booked(g, facts'[g], {m \in moves' : m.ref = g})
    BY <1>2 DEF FactsBooked, RowsOf
  <2>1. CASE g = f
    BY <1>2, <2>1
  <2>2. CASE g # f
    <3>1. {m \in moves' : m.ref = g} = RowsOf(g)
      BY <2>2 DEF RowsOf
    <3> QED BY <1>1, <1>2, <2>2, <3>1 DEF FactsBooked
  <2> QED BY <2>1, <2>2
<1>5. MoneyFollowsFacts'
  <2> SUFFICES ASSUME NEW e \in ledger', e.ref \notin Equipment
               PROVE  (Standing(e.ref) /\ e.role \in facts[e.ref].owns /\ Earned(e.ref, e.role))'
    BY DEF MoneyFollowsFacts
  <2>1. CASE e.ref # f
    <3>1. Standing(e.ref) /\ e.role \in facts[e.ref].owns /\ Earned(e.ref, e.role)
      BY <1>1, <2>1 DEF MoneyFollowsFacts
    <3>2. e.ref \in DOMAIN facts' /\ facts'[e.ref] = facts[e.ref]
      BY <1>2, <2>1, <3>1 DEF Standing
    <3> QED BY <3>1, <3>2 DEF Standing, Earned
  <2>2. CASE e.ref = f
    <3>1. e.ref \in DOMAIN facts' /\ facts'[e.ref] = fact
      BY <1>2, <2>2
    <3> QED BY <2>2, <3>1 DEF Standing, Earned, EarnedAs
  <2> QED BY <2>1, <2>2
<1>6. ListedIsBacked'
  <2> SUFFICES ASSUME NEW e \in Equipment, equip'[e] = "listed"
               PROVE  \E g \in DOMAIN facts' :
                          /\ facts'[g].subject = e /\ ~facts'[g].undone
                          /\ facts'[g].status = "pending"
    BY DEF ListedIsBacked, Standing
  <2>1. CASE e # facts[f].subject /\ equip[e] = "listed"
    <3>1. PICK g \in DOMAIN facts : /\ facts[g].subject = e /\ ~facts[g].undone
                                    /\ facts[g].status = "pending"
      BY <1>1, <2>1 DEF ListedIsBacked, Standing
    <3> QED BY <1>2, <2>1, <3>1
  <2>2. CASE fact.subject = e /\ fact.status = "pending" /\ ~fact.undone
    BY <1>2, <2>2
  <2> QED BY <2>1, <2>2
<1> QED BY <1>3, <1>4, <1>5, <1>6 DEF StockInv, MarketSound

\* A step that leaves the facts and their movements alone.
LEMMA FactsAlone ==
    ASSUME StockInv, loot' \subseteq LootRows, selling' \in Equipment \union {NoItem},
           moves' = moves, facts' = facts,
           equip' \in [Equipment -> States],
           \A e \in Equipment : equip'[e] = "listed" => equip[e] = "listed",
           \A e \in ledger' : e \in ledger \/ e.ref \in Equipment
    PROVE  StockInv'
<1>1. StockTyped /\ FactsBooked /\ MoneyFollowsFacts /\ ListedIsBacked
  BY DEF StockInv, MarketSound
<1>2. StockTyped'
  BY <1>1 DEF StockTyped, States
<1>3. FactsBooked'
  BY <1>1 DEF FactsBooked, RowsOf
<1>4. MoneyFollowsFacts'
  BY <1>1 DEF MoneyFollowsFacts, Standing, Earned
<1>5. ListedIsBacked'
  BY <1>1 DEF ListedIsBacked, Standing
<1> QED BY <1>2, <1>3, <1>4, <1>5 DEF StockInv, MarketSound

LEMMA MarkTyped ==
    ASSUME StockTyped, NEW i, NEW state \in States
    PROVE  /\ Mark(i, state) \in [Equipment -> States]
           /\ \A e \in Equipment : e # i => Mark(i, state)[e] = equip[e]
           /\ i \in Equipment /\ state # "listed" => Mark(i, state)[i] # "listed"
BY DEF Mark, StockTyped, States

-----------------------------------------------------------------------------
(* The operations.                                                         *)

LEMMA BucketInt ==
    ASSUME StockTyped, NEW i, NEW s
    PROVE  /\ Rowy(loot) /\ Rowy(moves) /\ Bucket(i, s) \in Int
           /\ Rowy({r \in loot : r.item = i /\ r.source = s})
           /\ Rowy({m \in moves : m.item = i /\ m.source = s})
<1>1. Rowy(loot)
  BY StockAssumption, FS_Subset DEF StockTyped, Rowy
<1>2. Rowy(moves)
  BY DEF StockTyped, Rowy, Move
<1>3. Rowy({r \in loot : r.item = i /\ r.source = s}) /\ Rowy({m \in moves : m.item = i /\ m.source = s})
  BY <1>1, <1>2, SomeRows
<1> QED BY <1>1, <1>2, <1>3, TotalIsSum DEF Bucket

\* The open sources of an item and what they hold.
LEMMA Positions ==
    ASSUME StockTyped, NEW i
    PROVE  \E open \in SUBSET Sources :
               /\ item_positions(i) \in [open -> Nat \ {0}]
               /\ \A s \in Sources :
                     IF s \in open THEN item_positions(i)[s] = Bucket(i, s) ELSE Bucket(i, s) <= 0
<1> DEFINE open == {s \in Sources : Bucket(i, s) > 0}
<1>1. \A s \in Sources : Bucket(i, s) \in Int
  BY BucketInt
<1>2. item_positions(i) = [s \in open |-> Bucket(i, s)]
  BY DEF item_positions
<1>3. item_positions(i) \in [open -> Nat \ {0}]
  BY <1>1, <1>2
<1>4. \A s \in Sources :
          IF s \in open THEN item_positions(i)[s] = Bucket(i, s) ELSE Bucket(i, s) <= 0
  BY <1>1, <1>2
<1> HIDE DEF open
<1> QED BY <1>3, <1>4 DEF open

\* No source gives more than it holds.
LEMMA PlansFit ==
    ASSUME StockTyped, NEW i \in Items, NEW q \in Quantities, NEW plan \in Plans(i, q)
    PROVE  /\ q \in Nat /\ PlanFor(plan, q)
           /\ \A s \in Sources :
                 \E given \in Nat :
                     /\ plan.leaves[s] = given + IF s = Unattributed THEN plan.excess ELSE 0
                     /\ given = 0 \/ given <= Bucket(i, s)
<1>1. q \in Nat
  BY StockAssumption
<1>2. plan = allocate(item_positions(i), q) /\ plan.whole
  BY DEF Plans
<1>3. PICK open \in SUBSET Sources :
          /\ item_positions(i) \in [open -> Nat \ {0}]
          /\ \A s \in Sources :
                IF s \in open THEN item_positions(i)[s] = Bucket(i, s) ELSE Bucket(i, s) <= 0
  BY Positions
<1>4. PICK share : PlanFor(plan, q) /\ Taken(plan, item_positions(i), share)
  BY <1>1, <1>2, <1>3, AllocationFits
<1>5. ASSUME NEW s \in Sources
      PROVE  \E given \in Nat :
                 /\ plan.leaves[s] = given + IF s = Unattributed THEN plan.excess ELSE 0
                 /\ given = 0 \/ given <= Bucket(i, s)
  <2>1. share[s] \in Nat /\ share[s] <= IF s \in open THEN Bucket(i, s) ELSE 0
    BY <1>3, <1>4 DEF Taken
  <2>2. plan.leaves[s] = share[s] + IF s = Unattributed THEN plan.excess ELSE 0
    BY <1>4 DEF Taken
  <2>3. share[s] = 0 \/ share[s] <= Bucket(i, s)
    BY <2>1
  <2> QED BY <2>1, <2>2, <2>3
<1> QED BY <1>1, <1>4, <1>5

LEMMA OutflowIsMoves ==
    ASSUME StockTyped, NEW i \in Items, NEW q, NEW plan, PlanFor(plan, q),
           NEW kind \in {"listing", "trade", "conversion_out", "removal"}
    PROVE  /\ IsFiniteSet(Outflow(New, kind, plan, i)) /\ Outflow(New, kind, plan, i) \subseteq Move
           /\ \A m \in Outflow(New, kind, plan, i) : m.ref = New
<1>1. New \in Nat
  BY FactsTyped DEF New
<1>2. Leaving(plan) /\ kind # "opening_balance"
  BY PlanLeaves
<1>3. /\ Rowy(Outflow(New, kind, plan, i))
      /\ \A m \in Outflow(New, kind, plan, i) :
            /\ m.ref = New /\ m.item = i /\ m.source \in Sources /\ m.qty \in Int
            /\ m.kind \in {"opening_balance", kind}
  BY <1>2, OutflowRows
<1>4. \A m \in Outflow(New, kind, plan, i) :
          m = [ref |-> m.ref, kind |-> m.kind, item |-> m.item, source |-> m.source, qty |-> m.qty]
  BY DEF Outflow, OpeningBalance, Rows
<1>5. Outflow(New, kind, plan, i) \subseteq Move
  BY <1>1, <1>3, <1>4 DEF Move, MoveKinds
<1> QED BY <1>3, <1>5 DEF Rowy

LEMMA InflowIsMoves ==
    ASSUME NEW f \in Nat, NEW j \in Items, NEW plan, Leaving(plan),
           NEW kind \in {"listing_return", "conversion_in"}
    PROVE  /\ IsFiniteSet(Rows(f, kind, plan, j, 1)) /\ Rows(f, kind, plan, j, 1) \subseteq Move
           /\ \A m \in Rows(f, kind, plan, j, 1) : m.ref = f
<1>1. Rowy(Rows(f, kind, plan, j, 1))
  BY RowsAreRowy
<1>2. \A m \in Rows(f, kind, plan, j, 1) :
          /\ m.ref = f /\ m.item = j /\ m.source \in Sources /\ m.qty \in Int /\ m.kind = kind
  BY <1>1, RowsFields DEF Rowy
<1>3. \A m \in Rows(f, kind, plan, j, 1) :
          m = [ref |-> m.ref, kind |-> m.kind, item |-> m.item, source |-> m.source, qty |-> m.qty]
  BY DEF Rows
<1>4. Rows(f, kind, plan, j, 1) \subseteq Move
  BY <1>2, <1>3 DEF Move, MoveKinds
<1> QED BY <1>1, <1>2, <1>4 DEF Rowy

LEMMA InitHolds == ASSUME SInit PROVE StockInv
<1>1. facts = <<>> /\ facts \in Seq(Fact) /\ DOMAIN facts = {}
  BY DEF SInit
<1>2. StockTyped
  BY <1>1, FS_EmptySet DEF SInit, StockTyped
<1>3. FactsBooked
  BY <1>1 DEF FactsBooked
<1>4. MarketSound
  BY <1>1 DEF SInit, MarketSound, MoneyFollowsFacts, ListedIsBacked
<1> QED BY <1>2, <1>3, <1>4 DEF StockInv

\* A new fact that takes an item out of the stock.
NewFact(kind, subject, q, attributed, status, roles) ==
    [kind |-> kind, subject |-> subject, qty |-> q, attributed |-> attributed,
     status |-> status, owns |-> roles, undone |-> FALSE]

TakesStock(fact, i, q, plan, back) ==
    /\ fact \in Fact /\ Shaped(fact) /\ ~fact.undone /\ fact.status # "expired"
    /\ fact.subject = i /\ fact.qty = q /\ fact.attributed = plan.attributed
    /\ back \in CameBack(New, fact, plan)
    /\ \A role \in fact.owns : EarnedAs(fact, role)

LEMMA OutflowRecorded ==
    ASSUME StockInv, NEW i \in Items, NEW q \in Quantities, NEW plan \in Plans(i, q),
           NEW fact, NEW back, TakesStock(fact, i, q, plan, back),
           facts' = Append(facts, fact),
           moves' = (moves \union Outflow(New, LeavesAs(fact), plan, i)) \union back,
           \A e \in ledger' : e \in ledger \/ (e.ref = New /\ e.role \in fact.owns),
           loot' = loot, equip' = equip, selling' = selling
    PROVE  StockInv'
<1> DEFINE out == Outflow(New, LeavesAs(fact), plan, i)
<1>1. StockTyped
  BY DEF StockInv
<1>2. q \in Nat /\ PlanFor(plan, q) /\ Leaving(plan)
  BY <1>1, PlansFit, PlanLeaves
<1>3. i \notin Equipment
  BY StockAssumption
<1>4. /\ fact \in Fact /\ Shaped(fact) /\ ~fact.undone /\ fact.status # "expired"
      /\ fact.subject = i /\ fact.qty = q /\ fact.attributed = plan.attributed
      /\ back \in CameBack(New, fact, plan) /\ \A role \in fact.owns : EarnedAs(fact, role)
  BY DEF TakesStock
<1>6. IsFiniteSet(out) /\ out \subseteq Move /\ \A m \in out : m.ref = New
  BY <1>1, <1>2, LeavesKinds, OutflowIsMoves
<1>7. IsFiniteSet(back) /\ back \subseteq Move /\ \A m \in back : m.ref = New
  <2>1. CASE back = {}
    BY <2>1, FS_EmptySet
  <2>2. CASE back # {}
    <3>2. PICK j \in Items : back = Rows(New, "conversion_in", plan, j, 1)
      BY <1>4, <2>2 DEF CameBack
    <3>3. New \in Nat
      BY <1>1, FactsTyped DEF New
    <3> QED BY <1>2, <3>2, <3>3, InflowIsMoves
  <2> QED BY <2>1, <2>2
<1>8. Booked(New, fact, out \union back)
  <2>1. fact.subject \notin Equipment /\ out = Outflow(New, LeavesAs(fact), plan, fact.subject)
    BY <1>3, <1>4
  <2>2. PlanFor(plan, fact.qty)
    BY <1>2, <1>4
  <2> HIDE DEF out
  <2> QED BY <1>4, <2>1, <2>2 DEF Booked
<1>9. \A e \in ledger' : e \in ledger \/ (/\ e.ref = New /\ e.role \in fact.owns
                                          /\ EarnedAs(fact, e.role))
  BY <1>4
<1>10. equip' \in [Equipment -> States]
  BY <1>1 DEF StockTyped, States
<1>11. /\ IsFiniteSet(out \union back) /\ out \union back \subseteq Move
       /\ \A m \in out \union back : m.ref = New
  BY <1>6, <1>7, FS_Union
<1>12. moves' = moves \union (out \union back)
  OBVIOUS
<1> HIDE DEF out
<1>13. \A e \in Equipment : equip'[e] = "listed" =>
               equip[e] = "listed" \/ (fact.subject = e /\ fact.status = "pending")
  OBVIOUS
<1> QED BY <1>4, <1>8, <1>9, <1>10, <1>11, <1>12, <1>13, FactAdded

\* The records the operations write.
LEMMA StockFacts ==
    ASSUME StockInv, NEW i \in Items, NEW q \in Quantities, NEW plan \in Plans(i, q),
           NEW kind, NEW status, NEW role, NEW roles \in {{}, {role}},
           \/ kind = "listing" /\ status = "pending" /\ role = "fee"
           \/ kind = "private" /\ status = "done" /\ role = "sale"
           \/ kind \in {"conversion", "removal"} /\ status = "done"
              /\ ((kind = "conversion" /\ role = "gain") \/ roles = {})
    PROVE  LET fact == NewFact(kind, i, q, plan.attributed, status, roles)
           IN  /\ TakesStock(fact, i, q, plan, {})
               /\ kind = "conversion" => \A j \in Items \ {i} :
                      TakesStock(fact, i, q, plan, Rows(New, "conversion_in", plan, j, 1))
<1> DEFINE fact == NewFact(kind, i, q, plan.attributed, status, roles)
<1>1. q \in Nat /\ plan.attributed \in Nat
  BY PlansFit DEF PlanFor, StockInv
<1>2. kind \in {"listing", "private", "conversion", "removal"} /\ status \in {"pending", "done"}
      /\ roles \in SUBSET Roles
  BY DEF Roles
<1>3. fact \in Fact
  BY <1>1, <1>2 DEF NewFact, Fact
<1>4. /\ fact.kind = kind /\ fact.subject = i /\ fact.qty = q
      /\ fact.attributed = plan.attributed /\ fact.status = status /\ fact.owns = roles
      /\ fact.undone = FALSE
  BY DEF NewFact
<1> HIDE DEF fact
<1>5. Shaped(fact) /\ status # "expired"
  BY <1>2, <1>4 DEF Shaped
<1>6. \A r \in fact.owns : EarnedAs(fact, r)
  BY <1>4 DEF EarnedAs
<1>7. {} \in CameBack(New, fact, plan)
  BY <1>4, <1>5 DEF CameBack
<1>8. kind = "conversion" => \A j \in Items \ {i} :
          Rows(New, "conversion_in", plan, j, 1) \in CameBack(New, fact, plan)
  BY <1>4, <1>5 DEF CameBack
<1>9. TakesStock(fact, i, q, plan, {})
  BY <1>3, <1>4, <1>5, <1>6, <1>7 DEF TakesStock
<1>10. kind = "conversion" => \A j \in Items \ {i} :
           TakesStock(fact, i, q, plan, Rows(New, "conversion_in", plan, j, 1))
  BY <1>3, <1>4, <1>5, <1>6, <1>8 DEF TakesStock
<1> QED BY <1>9, <1>10 DEF fact

LEMMA LootOperations ==
    ASSUME StockInv, NEW i \in Items, NEW q \in Quantities, NEW b \in BOOLEAN,
           \/ create_auction_listing(i, q, b) \/ create_private_sale(i, q, b)
           \/ remove_stock(i, q) \/ convert_shrapnel(i, q, b)
    PROVE  StockInv'
<1>1. CASE create_auction_listing(i, q, b)
  <2>1. PICK roles \in {{}, {"fee"}} : roles = IF b THEN {"fee"} ELSE {}
    OBVIOUS
  <2>2. PICK plan \in Plans(i, q) :
            /\ Record("listing", i, q, plan.attributed, "pending", roles)
            /\ moves' = moves \union Outflow(New, "listing", plan, i)
    BY <1>1, <2>1 DEF create_auction_listing
  <2>3. loot' = loot /\ equip' = equip /\ selling' = selling
    BY <1>1 DEF create_auction_listing
  <2>4. \A e \in ledger' : e \in ledger \/ (e.ref = New /\ e.role \in roles)
    BY <1>1, <2>1 DEF create_auction_listing, Entry
  <2>5. PICK fact : fact = NewFact("listing", i, q, plan.attributed, "pending", roles)
    OBVIOUS
  <2>6. facts' = Append(facts, fact) /\ fact.owns = roles /\ LeavesAs(fact) = "listing"
    BY <2>2, <2>5 DEF Record, NewFact, LeavesAs
  <2>7. TakesStock(fact, i, q, plan, {})
    BY <2>5, StockFacts
  <2>8. moves' = (moves \union Outflow(New, LeavesAs(fact), plan, i)) \union {}
    BY <2>2, <2>6
  <2> QED BY <2>3, <2>4, <2>6, <2>7, <2>8, OutflowRecorded
<1>2. CASE create_private_sale(i, q, b)
  <2>1. PICK roles \in {{}, {"sale"}} : roles = IF b THEN {"sale"} ELSE {}
    OBVIOUS
  <2>2. PICK plan \in Plans(i, q) :
            /\ Record("private", i, q, plan.attributed, "done", roles)
            /\ moves' = moves \union Outflow(New, "trade", plan, i)
    BY <1>2, <2>1 DEF create_private_sale
  <2>3. loot' = loot /\ equip' = equip /\ selling' = selling
    BY <1>2 DEF create_private_sale
  <2>4. \A e \in ledger' : e \in ledger \/ (e.ref = New /\ e.role \in roles)
    BY <1>2, <2>1 DEF create_private_sale, Entry
  <2>5. PICK fact : fact = NewFact("private", i, q, plan.attributed, "done", roles)
    OBVIOUS
  <2>6. facts' = Append(facts, fact) /\ fact.owns = roles /\ LeavesAs(fact) = "trade"
    BY <2>2, <2>5 DEF Record, NewFact, LeavesAs
  <2>7. TakesStock(fact, i, q, plan, {})
    BY <2>5, StockFacts
  <2>8. moves' = (moves \union Outflow(New, LeavesAs(fact), plan, i)) \union {}
    BY <2>2, <2>6
  <2> QED BY <2>3, <2>4, <2>6, <2>7, <2>8, OutflowRecorded
<1>3. CASE convert_shrapnel(i, q, b)
  <2>1. PICK roles \in {{}, {"gain"}} : roles = IF b THEN {"gain"} ELSE {}
    OBVIOUS
  <2>2. PICK plan \in Plans(i, q) :
            /\ Record("conversion", i, q, plan.attributed, "done", roles)
            /\ moves' = moves \union Outflow(New, "conversion_out", plan, i)
    BY <1>3, <2>1 DEF convert_shrapnel
  <2>3. loot' = loot /\ equip' = equip /\ selling' = selling
    BY <1>3 DEF convert_shrapnel
  <2>4. \A e \in ledger' : e \in ledger \/ (e.ref = New /\ e.role \in roles)
    BY <1>3, <2>1 DEF convert_shrapnel, Entry
  <2>5. PICK fact : fact = NewFact("conversion", i, q, plan.attributed, "done", roles)
    OBVIOUS
  <2>6. facts' = Append(facts, fact) /\ fact.owns = roles /\ LeavesAs(fact) = "conversion_out"
    BY <2>2, <2>5 DEF Record, NewFact, LeavesAs
  <2>7. TakesStock(fact, i, q, plan, {})
    BY <2>5, StockFacts
  <2>8. moves' = (moves \union Outflow(New, LeavesAs(fact), plan, i)) \union {}
    BY <2>2, <2>6
  <2> QED BY <2>3, <2>4, <2>6, <2>7, <2>8, OutflowRecorded
<1>4. CASE remove_stock(i, q)
  <2>2. PICK plan \in Plans(i, q) :
            /\ plan.excess = 0 /\ Record("removal", i, q, plan.attributed, "done", {})
            /\ moves' = moves \union Rows(New, "removal", plan, i, -1)
    BY <1>4 DEF remove_stock
  <2>3. loot' = loot /\ equip' = equip /\ selling' = selling /\ ledger' = ledger
    BY <1>4 DEF remove_stock
  <2>5. PICK fact : fact = NewFact("removal", i, q, plan.attributed, "done", {})
    OBVIOUS
  <2>6. facts' = Append(facts, fact) /\ LeavesAs(fact) = "removal"
    BY <2>2, <2>5 DEF Record, NewFact, LeavesAs
  <2>7. TakesStock(fact, i, q, plan, {})
    BY <2>5, StockFacts
  <2>8. moves' = (moves \union Outflow(New, LeavesAs(fact), plan, i)) \union {}
    BY <2>2, <2>6 DEF Outflow, OpeningBalance
  <2> QED BY <2>3, <2>6, <2>7, <2>8, OutflowRecorded
<1> QED BY <1>1, <1>2, <1>3, <1>4

LEMMA Conversions ==
    ASSUME StockInv, NEW p \in Recipes, NEW q \in Quantities, convert_stock(p[1], p[2], q)
    PROVE  StockInv'
<1>1. p[1] \in Items /\ p[2] \in Items \ {p[1]}
  BY StockAssumption
<1>2. PICK i \in Items : i = p[1]
  BY <1>1
<1>3. PICK j \in Items \ {i} : j = p[2]
  BY <1>1, <1>2
<1>4. PICK plan \in Plans(i, q) :
          /\ Record("conversion", i, q, plan.attributed, "done", {})
          /\ moves' = (moves \union Outflow(New, "conversion_out", plan, i))
                      \union Rows(New, "conversion_in", plan, j, 1)
  BY <1>2, <1>3 DEF convert_stock
<1>5. ledger' = ledger /\ loot' = loot /\ equip' = equip /\ selling' = selling
  BY DEF convert_stock
<1>6. PICK fact : fact = NewFact("conversion", i, q, plan.attributed, "done", {})
  OBVIOUS
<1>7. facts' = Append(facts, fact) /\ LeavesAs(fact) = "conversion_out"
  BY <1>4, <1>6 DEF Record, NewFact, LeavesAs
<1>8. PICK back : back = Rows(New, "conversion_in", plan, j, 1)
  OBVIOUS
<1>9. TakesStock(fact, i, q, plan, back)
  BY <1>6, <1>8, StockFacts
<1>10. moves' = (moves \union Outflow(New, LeavesAs(fact), plan, i)) \union back
  BY <1>4, <1>7, <1>8
<1> QED BY <1>5, <1>7, <1>9, <1>10, OutflowRecorded

LEMMA EquipmentOperations ==
    ASSUME StockInv, NEW e \in Equipment, NEW b \in BOOLEAN,
           create_equipment_listing(e, b) \/ trade_equipment(e, b)
    PROVE  StockInv'
<1>1. StockTyped
  BY DEF StockInv
<1>2. moves' = moves \union {} /\ loot' = loot /\ selling' = selling
  BY DEF create_equipment_listing, trade_equipment
<1>3. IsFiniteSet({}) /\ {} \subseteq Move /\ \A m \in {} : m.ref = New
  BY FS_EmptySet
<1>4. CASE create_equipment_listing(e, b)
  <2> DEFINE roles == IF b THEN {"fee"} ELSE {}
             fact == NewFact("listing", e, 1, 0, "pending", roles)
  <2>1. fact \in Fact /\ Shaped(fact) /\ ~fact.undone /\ Booked(New, fact, {})
    BY DEF Fact, NewFact, Shaped, Booked, Roles
  <2>2. facts' = Append(facts, fact)
    BY <1>4 DEF create_equipment_listing, Record, NewFact
  <2>3. equip' = Mark(e, "listed") /\ ledger' = ledger \union Entry(New, "fee", b)
    BY <1>4 DEF create_equipment_listing
  <2>6. b => "fee" \in fact.owns /\ EarnedAs(fact, "fee")
    BY DEF NewFact, EarnedAs
  <2>7. \A x \in ledger' : x \in ledger \/ (b /\ x.ref = New /\ x.role = "fee")
    BY <2>3 DEF Entry
  <2>4. \A x \in ledger' : x \in ledger \/ (/\ x.ref = New /\ x.role \in fact.owns
                                            /\ EarnedAs(fact, x.role))
    <3> HIDE DEF fact
    <3> QED BY <2>6, <2>7
  <2>5. /\ equip' \in [Equipment -> States]
        /\ \A x \in Equipment : equip'[x] = "listed" =>
               equip[x] = "listed" \/ (fact.subject = x /\ fact.status = "pending")
    BY <1>1, <2>3, MarkTyped DEF NewFact, States
  <2> HIDE DEF fact
  <2> QED BY <1>2, <1>3, <2>1, <2>2, <2>4, <2>5, FactAdded
<1>5. CASE trade_equipment(e, b)
  <2> DEFINE roles == IF b THEN {"sale"} ELSE {}
             fact == NewFact("trade", e, 1, 0, "sold", roles)
  <2>1. fact \in Fact /\ Shaped(fact) /\ ~fact.undone /\ Booked(New, fact, {})
    BY DEF Fact, NewFact, Shaped, Booked, Roles
  <2>2. facts' = Append(facts, fact)
    BY <1>5 DEF trade_equipment, Record, NewFact
  <2>3. equip' = Mark(e, "sold") /\ ledger' = ledger \union Entry(New, "sale", b)
    BY <1>5 DEF trade_equipment
  <2>6. b => "sale" \in fact.owns /\ EarnedAs(fact, "sale")
    BY DEF NewFact, EarnedAs
  <2>7. \A x \in ledger' : x \in ledger \/ (b /\ x.ref = New /\ x.role = "sale")
    BY <2>3 DEF Entry
  <2>4. \A x \in ledger' : x \in ledger \/ (/\ x.ref = New /\ x.role \in fact.owns
                                            /\ EarnedAs(fact, x.role))
    <3> HIDE DEF fact
    <3> QED BY <2>6, <2>7
  <2>5. /\ equip' \in [Equipment -> States]
        /\ \A x \in Equipment : equip'[x] = "listed" => equip[x] = "listed"
    BY <1>1, <2>3, MarkTyped DEF States
  <2> HIDE DEF fact
  <2> QED BY <1>2, <1>3, <2>1, <2>2, <2>4, <2>5, FactAdded
<1> QED BY <1>4, <1>5

LEMMA SmallOperations ==
    ASSUME StockInv,
           \/ \E r \in LootRows : FlipLoot(r)
           \/ \E e \in ledger : delete_ledger_entry(e)
           \/ \E e \in Equipment : ReadForSale(e) \/ delete_inventory_item(e)
           \/ \E e \in Equipment, result \in BOOLEAN : sell_inventory_item(e, result)
           \/ UNCHANGED svars
    PROVE  StockInv'
<1>1. StockTyped
  BY DEF StockInv
<1>2. equip \in [Equipment -> States] /\ loot \subseteq LootRows /\ selling \in Equipment \union {NoItem}
  BY <1>1 DEF StockTyped, States
<1>3. CASE \E r \in LootRows : FlipLoot(r)
  <2>1. /\ loot' \subseteq LootRows /\ selling' = selling /\ moves' = moves /\ facts' = facts
        /\ equip' = equip /\ ledger' = ledger
    BY <1>2, <1>3 DEF FlipLoot
  <2> QED BY <1>2, <2>1, FactsAlone
<1>4. CASE \E e \in ledger : delete_ledger_entry(e)
  <2>1. /\ loot' = loot /\ selling' = selling /\ moves' = moves /\ facts' = facts
        /\ equip' = equip /\ ledger' \subseteq ledger
    BY <1>4 DEF delete_ledger_entry
  <2> QED BY <1>2, <2>1, FactsAlone
<1>5. CASE \E e \in Equipment : ReadForSale(e) \/ delete_inventory_item(e)
  <2>1. /\ loot' = loot /\ selling' \in Equipment \union {NoItem} /\ moves' = moves
        /\ facts' = facts /\ ledger' = ledger
    BY <1>2, <1>5 DEF ReadForSale, delete_inventory_item
  <2>2. equip' \in [Equipment -> States] /\ \A e \in Equipment : equip'[e] = "listed" => equip[e] = "listed"
    BY <1>2, <1>5 DEF ReadForSale, delete_inventory_item, States
  <2> QED BY <1>2, <2>1, <2>2, FactsAlone
<1>6. CASE \E e \in Equipment, result \in BOOLEAN : sell_inventory_item(e, result)
  <2>1. PICK e \in Equipment, result \in BOOLEAN : sell_inventory_item(e, result)
    BY <1>6
  <2>2. /\ loot' = loot /\ selling' = NoItem /\ moves' = moves /\ facts' = facts
        /\ equip' \in {Mark(e, "sold"), equip}
        /\ ledger' = ledger \union Entry(e, "sale", result /\ equip[e] = "held")
    BY <2>1 DEF sell_inventory_item
  <2>3. equip' \in [Equipment -> States] /\ \A x \in Equipment : equip'[x] = "listed" => equip[x] = "listed"
    BY <1>1, <1>2, <2>2, MarkTyped DEF States
  <2>4. \A x \in ledger' : x \in ledger \/ x.ref \in Equipment
    BY <2>2 DEF Entry
  <2> QED BY <1>2, <2>2, <2>3, <2>4, FactsAlone
<1>7. CASE UNCHANGED svars
  <2>1. /\ loot' = loot /\ selling' = selling /\ moves' = moves /\ facts' = facts
        /\ equip' = equip /\ ledger' = ledger
    BY <1>7 DEF svars
  <2> QED BY <1>2, <2>1, FactsAlone
<1> QED BY <1>3, <1>4, <1>5, <1>6, <1>7

\* A fact keeps its movements while neither its kind nor its quantity changes,
\* unless it expires or is undone.
LEMMA BookedStill ==
    ASSUME NEW f, NEW old, NEW fact, NEW rows, Booked(f, old, rows),
           fact.kind = old.kind, fact.subject = old.subject, fact.qty = old.qty,
           fact.attributed = old.attributed, ~old.undone, ~fact.undone,
           old.status # "expired", fact.status # "expired"
    PROVE  Booked(f, fact, rows)
<1>1. LeavesAs(fact) = LeavesAs(old)
  BY DEF LeavesAs
<1>2. \A plan : CameBack(f, fact, plan) = CameBack(f, old, plan)
  BY DEF CameBack
<1>3. CASE fact.subject \in Equipment
  BY <1>3 DEF Booked
<1>4. CASE fact.subject \notin Equipment
  <2>1. PICK plan :
            /\ PlanFor(plan, old.qty) /\ plan.attributed = old.attributed
            /\ \E back \in CameBack(f, old, plan) :
                  rows = Outflow(f, LeavesAs(old), plan, old.subject) \union back
    BY <1>4 DEF Booked
  <2>2. \E back \in CameBack(f, fact, plan) :
            rows = Outflow(f, LeavesAs(fact), plan, fact.subject) \union back
    BY <1>1, <1>2, <2>1
  <2>3. PlanFor(plan, fact.qty) /\ plan.attributed = fact.attributed
    BY <2>1
  <2> QED BY <1>4, <2>2, <2>3 DEF Booked
<1> QED BY <1>3, <1>4

LEMMA StockRows ==
    ASSUME StockInv, NEW f \in DOMAIN facts
    PROVE  /\ facts[f] \in Fact /\ Shaped(facts[f]) /\ Booked(f, facts[f], RowsOf(f))
           /\ \A e \in ledger : e.ref \notin Equipment /\ e.ref = f =>
                 ~facts[f].undone /\ e.role \in facts[f].owns /\ EarnedAs(facts[f], e.role)
           /\ IsFiniteSet(moves) /\ moves \subseteq Move /\ equip \in [Equipment -> States]
<1>1. StockTyped /\ FactsBooked /\ MoneyFollowsFacts
  BY DEF StockInv, MarketSound
<1>2. facts[f] \in Fact /\ Shaped(facts[f]) /\ Booked(f, facts[f], RowsOf(f))
  BY <1>1, FactsTyped DEF FactsBooked
<1>3. \A e \in ledger : e.ref \notin Equipment /\ e.ref = f =>
          ~facts[f].undone /\ e.role \in facts[f].owns /\ EarnedAs(facts[f], e.role)
  BY <1>1 DEF MoneyFollowsFacts, Standing, Earned, EarnedAs
<1> QED BY <1>1, <1>2, <1>3 DEF StockTyped, States

Returned(m) == [m EXCEPT !.kind = "listing_return", !.qty = -@]

\* The rows an expiry writes are those of the plan the listing was made by.
LEMMA ReturningRows ==
    ASSUME NEW f, NEW kind, NEW plan, Leaving(plan), NEW i
    PROVE  {Returned(m) : m \in Rows(f, kind, plan, i, -1)} = Rows(f, "listing_return", plan, i, 1)
<1> DEFINE row(s) == [ref |-> f, kind |-> kind, item |-> i, source |-> s, qty |-> (-1) * plan.leaves[s]]
           ret(s) == [ref |-> f, kind |-> "listing_return", item |-> i, source |-> s,
                      qty |-> 1 * plan.leaves[s]]
           S == {s \in Sources : plan.leaves[s] > 0}
<1>1. \A m : m \in Rows(f, kind, plan, i, -1) <=> \E s \in S : m = row(s)
  BY DEF Rows
<1>2. \A m : m \in Rows(f, "listing_return", plan, i, 1) <=> \E s \in S : m = ret(s)
  BY DEF Rows
<1>3. ASSUME NEW s \in S PROVE Returned(row(s)) = ret(s)
  <2>1. PICK n \in Nat : n = plan.leaves[s]
    BY DEF Leaving
  <2>2. PICK k \in Int : k = (-1) * n /\ -k = 1 * n
    OBVIOUS
  <2>3. PICK r : r = [ref |-> f, kind |-> kind, item |-> i, source |-> s, qty |-> k]
    OBVIOUS
  <2>4. r.qty = k /\ [r EXCEPT !.kind = "listing_return", !.qty = -k]
                       = [ref |-> f, kind |-> "listing_return", item |-> i, source |-> s, qty |-> -k]
    <3>1. PICK y : y = [r EXCEPT !.kind = "listing_return", !.qty = -k]
      OBVIOUS
    <3>2. y \in [ref : {f}, kind : {"listing_return"}, item : {i}, source : {s}, qty : {-k}]
      BY <2>3, <3>1
    <3>3. y = [ref |-> y.ref, kind |-> y.kind, item |-> y.item, source |-> y.source, qty |-> y.qty]
      BY <3>2
    <3>4. y.ref = f /\ y.kind = "listing_return" /\ y.item = i /\ y.source = s /\ y.qty = -k
      BY <3>2
    <3> QED BY <2>3, <3>1, <3>3, <3>4
  <2>5. Returned(r) = [r EXCEPT !.kind = "listing_return", !.qty = -k]
    BY <2>4 DEF Returned
  <2>6. row(s) = r /\ ret(s) = [ref |-> f, kind |-> "listing_return", item |-> i, source |-> s, qty |-> -k]
    BY <2>1, <2>2, <2>3
  <2> QED BY <2>4, <2>5, <2>6
<1> HIDE DEF row, ret, S
<1> QED BY <1>1, <1>2, <1>3

\* What an expiry adds, in every case.
LEMMA ExpiryRows ==
    ASSUME StockInv, NEW f, Standing(f), facts[f].status = "pending"
    PROVE  /\ facts[f].kind = "listing"
           /\ facts[f].subject \in Equipment => RowsOf(f) = {} /\ Returning(f) = {}
           /\ facts[f].subject \notin Equipment =>
                 \E plan : /\ facts[f].subject \in Items
                           /\ PlanFor(plan, facts[f].qty) /\ plan.attributed = facts[f].attributed
                           /\ RowsOf(f) = Outflow(f, "listing", plan, facts[f].subject)
                           /\ Returning(f) = Rows(f, "listing_return", plan, facts[f].subject, 1)
<1>1. f \in DOMAIN facts /\ ~facts[f].undone
  BY DEF Standing
<1>2. facts[f] \in Fact /\ Shaped(facts[f]) /\ Booked(f, facts[f], RowsOf(f))
  BY <1>1, StockRows
<1>3. facts[f].kind = "listing" /\ facts[f].subject \in Items \union Equipment
  BY <1>2 DEF Shaped, Fact
<1>4. ASSUME facts[f].subject \in Equipment PROVE RowsOf(f) = {} /\ Returning(f) = {}
  <2>1. RowsOf(f) = {}
    BY <1>2, <1>4 DEF Booked
  <2> QED BY <2>1 DEF Returning
<1>5. ASSUME facts[f].subject \notin Equipment
      PROVE  \E plan : /\ facts[f].subject \in Items
                       /\ PlanFor(plan, facts[f].qty) /\ plan.attributed = facts[f].attributed
                       /\ RowsOf(f) = Outflow(f, "listing", plan, facts[f].subject)
                       /\ Returning(f) = Rows(f, "listing_return", plan, facts[f].subject, 1)
  <2>1. LeavesAs(facts[f]) = "listing" /\ \A plan : CameBack(f, facts[f], plan) = {{}}
    BY <1>3 DEF LeavesAs, CameBack
  <2>2. PICK plan :
            /\ PlanFor(plan, facts[f].qty) /\ plan.attributed = facts[f].attributed
            /\ \E back \in CameBack(f, facts[f], plan) :
                  RowsOf(f) = Outflow(f, LeavesAs(facts[f]), plan, facts[f].subject) \union back
    BY <1>1, <1>2, <1>5 DEF Booked
  <2>3. RowsOf(f) = Outflow(f, "listing", plan, facts[f].subject)
    BY <2>1, <2>2
  <2>4. Leaving(plan)
    BY <2>2, PlanLeaves
  <2>5. {m \in RowsOf(f) : m.kind = "listing"} = Rows(f, "listing", plan, facts[f].subject, -1)
    BY <2>3, <2>4, OutflowRows
  <2>6. Returning(f) = Rows(f, "listing_return", plan, facts[f].subject, 1)
    <3>1. Returning(f) = {Returned(m) : m \in Rows(f, "listing", plan, facts[f].subject, -1)}
      BY <2>5 DEF Returning, Returned
    <3> QED BY <2>4, <3>1, ReturningRows
  <2> QED BY <1>3, <1>5, <2>2, <2>3, <2>6
<1> QED BY <1>3, <1>4, <1>5

LEMMA Confirmations ==
    ASSUME StockInv, NEW f \in DOMAIN facts, NEW result \in BOOLEAN, NEW saleFee \in BOOLEAN,
           confirm_auction_listing(f, result, saleFee)
    PROVE  StockInv'
<1> DEFINE old == facts[f]
           money == (IF result THEN {"sale"} ELSE {}) \union (IF saleFee THEN {"saleFee"} ELSE {})
           fact == [old EXCEPT !.status = "sold", !.owns = @ \union money]
<1>1. /\ old \in Fact /\ Shaped(old) /\ Booked(f, old, RowsOf(f))
      /\ \A e \in ledger : e.ref \notin Equipment /\ e.ref = f =>
            ~old.undone /\ e.role \in old.owns /\ EarnedAs(old, e.role)
      /\ IsFiniteSet(moves) /\ moves \subseteq Move /\ equip \in [Equipment -> States]
  BY StockRows
<1>2. old.status = "pending" /\ ~old.undone /\ old.kind = "listing"
  BY <1>1 DEF confirm_auction_listing, Standing, Shaped
<1>3. /\ facts' = [facts EXCEPT ![f] = fact] /\ loot' = loot /\ selling' = selling /\ moves' = moves
      /\ equip' = Mark(old.subject, "sold")
      /\ ledger' = ledger \union Entry(f, "sale", result) \union Entry(f, "saleFee", saleFee)
  BY DEF confirm_auction_listing
<1>4. /\ fact \in Fact /\ fact.status = "sold" /\ fact.owns = old.owns \union money /\ ~fact.undone
      /\ fact.kind = old.kind /\ fact.subject = old.subject /\ fact.qty = old.qty
      /\ fact.attributed = old.attributed
  BY <1>1, <1>2 DEF Fact, Roles
<1>5. \A e \in ledger' : e \in ledger \/ (e.ref = f /\ e.role \in money /\ e.role \in {"sale", "saleFee"})
  BY <1>3 DEF Entry
<1> HIDE DEF fact, money
<1>6. Shaped(fact)
  BY <1>1, <1>2, <1>4 DEF Shaped
<1>7. Booked(f, fact, RowsOf(f)) /\ RowsOf(f) = {m \in moves' : m.ref = f}
  BY <1>1, <1>2, <1>3, <1>4, BookedStill DEF RowsOf
<1>8. StockTyped
  BY DEF StockInv
<1>9. /\ equip' \in [Equipment -> States]
      /\ \A e \in Equipment : equip'[e] = "listed" => e # old.subject /\ equip[e] = "listed"
  BY <1>3, <1>8, MarkTyped DEF States
<1>10. ASSUME NEW e \in ledger', e.ref \notin Equipment
       PROVE  IF e.ref = f THEN ~fact.undone /\ e.role \in fact.owns /\ EarnedAs(fact, e.role)
              ELSE e \in ledger
  <2>1. CASE e.ref # f
    BY <1>5, <2>1
  <2>2. CASE e.ref = f /\ e \in ledger
    <3>1. e.role \in old.owns /\ EarnedAs(old, e.role) /\ e.role \in Roles
      BY <1>1, <1>10, <2>2 DEF Fact
    <3> QED BY <1>2, <1>4, <2>2, <3>1 DEF EarnedAs, Roles
  <2>3. CASE e.ref = f /\ e.role \in money /\ e.role \in {"sale", "saleFee"}
    BY <1>4, <2>3 DEF EarnedAs
  <2> QED BY <1>5, <2>1, <2>2, <2>3
<1>11. /\ Booked(f, fact, {m \in moves' : m.ref = f}) /\ IsFiniteSet(moves') /\ moves' \subseteq Move
       /\ \A m : m.ref # f => (m \in moves' <=> m \in moves)
  BY <1>1, <1>3, <1>7
<1> QED BY <1>3, <1>4, <1>6, <1>9, <1>10, <1>11, FactChanged

LEMMA Reverts ==
    ASSUME StockInv, NEW f \in DOMAIN facts, revert_auction_sale(f)
    PROVE  StockInv'
<1> DEFINE old == facts[f]
           fact == [old EXCEPT !.status = "pending", !.owns = @ \ {"sale", "saleFee"}]
<1>1. /\ old \in Fact /\ Shaped(old) /\ Booked(f, old, RowsOf(f))
      /\ \A e \in ledger : e.ref \notin Equipment /\ e.ref = f =>
            ~old.undone /\ e.role \in old.owns /\ EarnedAs(old, e.role)
      /\ IsFiniteSet(moves) /\ moves \subseteq Move /\ equip \in [Equipment -> States]
  BY StockRows
<1>2. old.status = "sold" /\ ~old.undone /\ old.kind = "listing"
  BY <1>1 DEF revert_auction_sale, Standing
<1>3. /\ facts' = [facts EXCEPT ![f] = fact] /\ loot' = loot /\ selling' = selling /\ moves' = moves
      /\ equip' = Mark(old.subject, "listed")
      /\ ledger' = {e \in ledger : ~(e.ref = f /\ e.role \in old.owns \cap {"sale", "saleFee"})}
  BY DEF revert_auction_sale, WithoutOwned
<1>4. /\ fact \in Fact /\ fact.status = "pending" /\ fact.owns = old.owns \ {"sale", "saleFee"}
      /\ ~fact.undone /\ fact.kind = old.kind /\ fact.subject = old.subject /\ fact.qty = old.qty
      /\ fact.attributed = old.attributed
  BY <1>1, <1>2 DEF Fact, Roles
<1> HIDE DEF fact
<1>6. Shaped(fact)
  BY <1>1, <1>2, <1>4 DEF Shaped
<1>7. Booked(f, fact, RowsOf(f)) /\ RowsOf(f) = {m \in moves' : m.ref = f}
  BY <1>1, <1>2, <1>3, <1>4, BookedStill DEF RowsOf
<1>8. StockTyped
  BY DEF StockInv
<1>9. /\ equip' \in [Equipment -> States]
      /\ \A e \in Equipment : e # old.subject => equip'[e] = equip[e]
  BY <1>3, <1>8, MarkTyped DEF States
<1>10. ASSUME NEW e \in ledger', e.ref \notin Equipment
       PROVE  IF e.ref = f THEN ~fact.undone /\ e.role \in fact.owns /\ EarnedAs(fact, e.role)
              ELSE e \in ledger
  <2>1. e \in ledger /\ (e.ref = f => e.role \notin old.owns \cap {"sale", "saleFee"})
    BY <1>3
  <2>2. CASE e.ref = f
    <3>1. e.role \in old.owns /\ EarnedAs(old, e.role)
      BY <1>1, <1>10, <2>1, <2>2
    <3>2. e.role \in fact.owns /\ e.role \in {"fee", "gain"}
      BY <1>1, <1>4, <2>1, <2>2, <3>1 DEF Fact, Roles
    <3> QED BY <1>4, <2>2, <3>1, <3>2 DEF EarnedAs
  <2> QED BY <2>1, <2>2
<1>11. \A e \in Equipment : equip'[e] = "listed" =>
               \/ e # facts[f].subject /\ equip[e] = "listed"
               \/ fact.subject = e /\ fact.status = "pending" /\ ~fact.undone
  BY <1>4, <1>9
<1>12. /\ Booked(f, fact, {m \in moves' : m.ref = f}) /\ IsFiniteSet(moves') /\ moves' \subseteq Move
       /\ \A m : m.ref # f => (m \in moves' <=> m \in moves)
  BY <1>1, <1>3, <1>7
<1> QED BY <1>3, <1>4, <1>6, <1>9, <1>10, <1>11, <1>12, FactChanged

LEMMA Expiries ==
    ASSUME StockInv, NEW f \in DOMAIN facts, expire_auction_listing(f)
    PROVE  StockInv'
<1> DEFINE old == facts[f]
           fact == [old EXCEPT !.status = "expired"]
<1>1. /\ old \in Fact /\ Shaped(old) /\ Booked(f, old, RowsOf(f))
      /\ \A e \in ledger : e.ref \notin Equipment /\ e.ref = f =>
            ~old.undone /\ e.role \in old.owns /\ EarnedAs(old, e.role)
      /\ IsFiniteSet(moves) /\ moves \subseteq Move /\ equip \in [Equipment -> States]
  BY StockRows
<1>2. old.status = "pending" /\ ~old.undone /\ old.kind = "listing" /\ Standing(f)
  BY <1>1 DEF expire_auction_listing, Standing, Shaped
<1>3. /\ facts' = [facts EXCEPT ![f] = fact] /\ loot' = loot /\ selling' = selling
      /\ moves' = moves \union Returning(f) /\ ledger' = ledger
      /\ equip' = Mark(old.subject, "held")
  BY DEF expire_auction_listing
<1>4. /\ fact \in Fact /\ fact.status = "expired" /\ fact.owns = old.owns
      /\ ~fact.undone /\ fact.kind = old.kind /\ fact.subject = old.subject /\ fact.qty = old.qty
      /\ fact.attributed = old.attributed
  BY <1>1, <1>2 DEF Fact
<1> HIDE DEF fact
<1>5. StockTyped /\ f \in Nat
  BY FactsTyped DEF StockInv
<1>6. Shaped(fact)
  BY <1>1, <1>2, <1>4 DEF Shaped
<1>7. /\ IsFiniteSet(Returning(f)) /\ Returning(f) \subseteq Move
      /\ \A m \in Returning(f) : m.ref = f
      /\ Booked(f, fact, RowsOf(f) \union Returning(f))
  <2>1. CASE old.subject \in Equipment
    <3>1. RowsOf(f) = {} /\ Returning(f) = {}
      BY <1>2, <2>1, ExpiryRows
    <3>2. Booked(f, fact, {})
      BY <1>4, <2>1 DEF Booked
    <3>3. RowsOf(f) \union Returning(f) = {}
      BY <3>1
    <3> QED BY <3>1, <3>2, <3>3, FS_EmptySet
  <2>2. CASE old.subject \notin Equipment
    <3>1. PICK plan : /\ old.subject \in Items
                      /\ PlanFor(plan, old.qty) /\ plan.attributed = old.attributed
                      /\ RowsOf(f) = Outflow(f, "listing", plan, old.subject)
                      /\ Returning(f) = Rows(f, "listing_return", plan, old.subject, 1)
      BY <1>2, <2>2, ExpiryRows
    <3>2. Leaving(plan)
      BY <3>1, PlanLeaves
    <3>3. LeavesAs(fact) = "listing" /\ Returning(f) \in CameBack(f, fact, plan)
      BY <1>2, <1>4, <3>1 DEF LeavesAs, CameBack
    <3>4. Booked(f, fact, RowsOf(f) \union Returning(f))
      BY <1>4, <2>2, <3>1, <3>3 DEF Booked
    <3>5. /\ IsFiniteSet(Returning(f)) /\ Returning(f) \subseteq Move
          /\ \A m \in Returning(f) : m.ref = f
      BY <1>5, <3>1, <3>2, InflowIsMoves
    <3> QED BY <3>4, <3>5
  <2> QED BY <2>1, <2>2
<1>8. /\ {m \in moves' : m.ref = f} = RowsOf(f) \union Returning(f)
      /\ IsFiniteSet(moves') /\ moves' \subseteq Move
      /\ \A m : m.ref # f => (m \in moves' <=> m \in moves)
  BY <1>1, <1>3, <1>7, FS_Union DEF RowsOf
<1>9. /\ equip' \in [Equipment -> States]
      /\ \A e \in Equipment : equip'[e] = "listed" => e # old.subject /\ equip[e] = "listed"
  BY <1>3, <1>5, MarkTyped DEF States
<1>10. ASSUME NEW e \in ledger', e.ref \notin Equipment, e.ref = f
       PROVE  ~fact.undone /\ e.role \in fact.owns /\ EarnedAs(fact, e.role)
  <2>1. e.role \in old.owns /\ EarnedAs(old, e.role) /\ e.role \in Roles
    BY <1>1, <1>3, <1>10 DEF Fact
  <2> QED BY <1>2, <1>4, <2>1 DEF EarnedAs, Roles
<1>11. Booked(f, fact, {m \in moves' : m.ref = f})
  BY <1>7, <1>8
<1>12. \A e \in ledger' : e.ref \notin Equipment =>
           IF e.ref = f THEN ~fact.undone /\ e.role \in fact.owns /\ EarnedAs(fact, e.role)
           ELSE e \in ledger
  BY <1>3, <1>10
<1> QED BY <1>3, <1>4, <1>6, <1>8, <1>9, <1>11, <1>12, FactChanged

LEMMA Undos ==
    ASSUME StockInv, NEW f \in DOMAIN facts,
           \/ undo_auction_listing(f) \/ undo_stock_conversion(f)
           \/ undo_private_sale(f) \/ undo_stock_removal(f)
    PROVE  StockInv'
<1> DEFINE old == facts[f]
           fact == [old EXCEPT !.undone = TRUE, !.owns = {}]
<1>1. /\ old \in Fact /\ Shaped(old)
      /\ \A e \in ledger : e.ref \notin Equipment /\ e.ref = f =>
            ~old.undone /\ e.role \in old.owns /\ EarnedAs(old, e.role)
      /\ IsFiniteSet(moves) /\ moves \subseteq Move /\ equip \in [Equipment -> States]
  BY StockRows
<1>2. /\ facts' = [facts EXCEPT ![f] = fact] /\ loot' = loot /\ selling' = selling
      /\ moves' = moves \ RowsOf(f)
      /\ ledger' = {e \in ledger : ~(e.ref = f /\ e.role \in old.owns)}
  BY DEF undo_auction_listing, undo_stock_conversion, undo_private_sale, undo_stock_removal,
         Undo, WithoutOwned
<1>3. fact \in Fact /\ fact.undone /\ fact.owns = {} /\ fact.kind = old.kind
      /\ fact.status = old.status /\ fact.subject = old.subject
  BY <1>1 DEF Fact
<1> HIDE DEF fact
<1>4. Shaped(fact)
  BY <1>1, <1>3 DEF Shaped
<1>5. /\ {m \in moves' : m.ref = f} = {} /\ IsFiniteSet(moves') /\ moves' \subseteq Move
      /\ \A m : m.ref # f => (m \in moves' <=> m \in moves)
  BY <1>1, <1>2, FS_Subset DEF RowsOf
<1>6. Booked(f, fact, {m \in moves' : m.ref = f})
  BY <1>3, <1>5 DEF Booked
<1>7. StockTyped
  BY DEF StockInv
<1>8. /\ equip' \in [Equipment -> States]
      /\ \A e \in Equipment : equip'[e] = "listed" => e # old.subject /\ equip[e] = "listed"
  <2>1. CASE undo_auction_listing(f)
    <3>1. equip' = Mark(old.subject, "held")
      BY <2>1 DEF undo_auction_listing
    <3> QED BY <1>7, <3>1, MarkTyped DEF States
  <2>2. CASE undo_stock_conversion(f) \/ undo_private_sale(f) \/ undo_stock_removal(f)
    <3>1. equip' = equip /\ old.kind \in {"conversion", "private", "removal"}
      BY <2>2 DEF undo_stock_conversion, undo_private_sale, undo_stock_removal
    <3>2. old.subject \notin Equipment
      BY <1>1, <3>1, StockAssumption DEF Shaped
    <3> QED BY <1>1, <3>1, <3>2
  <2> QED BY <2>1, <2>2
<1>9. \A e \in ledger' : e.ref \notin Equipment => e.ref # f /\ e \in ledger
  BY <1>1, <1>2
<1> QED BY <1>2, <1>3, <1>4, <1>5, <1>6, <1>8, <1>9, FactChanged

-----------------------------------------------------------------------------
(* The invariant and what follows from it.                                 *)

LEMMA NextKeeps == ASSUME StockInv, [SNext]_svars PROVE StockInv'
<1>1. CASE LootNext
  <2>1. CASE \E r \in LootRows : FlipLoot(r)
    BY <2>1, SmallOperations
  <2>2. CASE \E i \in Items, q \in Quantities :
                \/ \E fee \in Charges : create_auction_listing(i, q, fee)
                \/ \E result \in Charges : create_private_sale(i, q, result)
                \/ remove_stock(i, q)
    BY <2>2, LootOperations, StockAssumption
  <2>3. CASE \E p \in Recipes, q \in Quantities : convert_stock(p[1], p[2], q)
    BY <2>3, Conversions
  <2>4. CASE \E i \in Ammo, q \in Quantities, gain \in Charges : convert_shrapnel(i, q, gain)
    BY <2>4, LootOperations, StockAssumption
  <2>5. CASE \E f \in DOMAIN facts :
                undo_stock_conversion(f) \/ undo_private_sale(f) \/ undo_stock_removal(f)
    BY <2>5, Undos
  <2> QED BY <1>1, <2>1, <2>2, <2>3, <2>4, <2>5 DEF LootNext
<1>2. CASE EquipmentNext
  <2>1. PICK e \in Equipment :
            \/ \E fee \in Charges : create_equipment_listing(e, fee)
            \/ \E result \in Charges : trade_equipment(e, result)
            \/ \E result \in Charges : sell_inventory_item(e, result)
            \/ ReadForSale(e)
            \/ delete_inventory_item(e)
    BY <1>2 DEF EquipmentNext
  <2>2. \A b \in Charges : b \in BOOLEAN
    BY StockAssumption
  <2>3. CASE \E b \in Charges : create_equipment_listing(e, b) \/ trade_equipment(e, b)
    BY <2>2, <2>3, EquipmentOperations
  <2>4. CASE \E result \in Charges : sell_inventory_item(e, result)
    BY <2>2, <2>4, SmallOperations
  <2>5. CASE ReadForSale(e) \/ delete_inventory_item(e)
    BY <2>5, SmallOperations
  <2> QED BY <2>1, <2>3, <2>4, <2>5
<1>3. CASE ListingNext
  <2>1. CASE \E e \in ledger : delete_ledger_entry(e)
    BY <2>1, SmallOperations
  <2>2. ASSUME NEW f \in DOMAIN facts,
               \/ \E result, saleFee \in Charges : confirm_auction_listing(f, result, saleFee)
               \/ expire_auction_listing(f)
               \/ revert_auction_sale(f)
               \/ undo_auction_listing(f)
        PROVE  StockInv'
    <3>1. CASE \E result, saleFee \in Charges : confirm_auction_listing(f, result, saleFee)
      BY <3>1, Confirmations, StockAssumption
    <3>2. CASE expire_auction_listing(f)
      BY <3>2, Expiries
    <3>3. CASE revert_auction_sale(f)
      BY <3>3, Reverts
    <3>4. CASE undo_auction_listing(f)
      BY <3>4, Undos
    <3> QED BY <2>2, <3>1, <3>2, <3>3, <3>4
  <2> QED BY <1>3, <2>1, <2>2 DEF ListingNext
<1>4. CASE UNCHANGED svars
  BY <1>4, SmallOperations
<1> QED BY <1>1, <1>2, <1>3, <1>4 DEF SNext

\* Throughout, the movements of every fact are those of one plan and the market
\* agrees with the facts.
THEOREM StockInvariant == SSpec => []StockInv
<1>1. SInit => StockInv
  BY InitHolds
<1>2. StockInv /\ [SNext]_svars => StockInv'
  BY NextKeeps
<1> QED BY <1>1, <1>2, PTL DEF SSpec

LEMMA BooksBalance == StockInv => FactsBalance
<1> SUFFICES ASSUME StockInv, NEW f \in LootFacts
             PROVE  IF facts[f].undone THEN RowsOf(f) = {} /\ facts[f].owns = {}
                    ELSE Balanced(facts[f], RowsOf(f))
  BY Zenon DEF FactsBalance, Balanced
<1>1. f \in DOMAIN facts /\ facts[f].subject \in Items
  BY DEF LootFacts
<1>2. facts[f] \in Fact /\ Shaped(facts[f]) /\ Booked(f, facts[f], RowsOf(f))
  BY <1>1, StockRows
<1>3. CASE facts[f].undone
  BY <1>2, <1>3 DEF Booked, Shaped
<1>4. CASE ~facts[f].undone
  BY <1>1, <1>2, <1>4, BookedBalances
<1> QED BY <1>3, <1>4

\* Every fact has taken exactly its quantity and credited what it took, an
\* expiry has given everything back and an undo left nothing behind.
THEOREM EveryFactBalances == SSpec => []FactsBalance
BY StockInvariant, BooksBalance, PTL

\* The market's money and inventory follow its standing facts.
THEOREM MarketStaysSound == SSpec => []MarketSound
<1>1. StockInv => MarketSound
  BY DEF StockInv
<1> QED BY <1>1, StockInvariant, PTL

-----------------------------------------------------------------------------
(* Holdings.  What a source and an item come to, as operators of the tables, *)
(* so that a step's two states can be compared.                            *)

Held(l, m, i, s) == Total({r \in l : r.item = i /\ r.source = s})
                    + Total({x \in m : x.item = i /\ x.source = s})
Raw(l, m, i) == Total({r \in l : r.item = i}) + Total({x \in m : x.item = i})
Tables(l, m) == Rowy(l) /\ Rowy(m) /\ \A r \in l \union m : r.source \in Sources

LEMMA HeldInt ==
    ASSUME NEW l, NEW m, Tables(l, m), NEW i, NEW s
    PROVE  Held(l, m, i, s) \in Int /\ Raw(l, m, i) \in Int
<1>1. /\ Rowy({r \in l : r.item = i /\ r.source = s}) /\ Rowy({x \in m : x.item = i /\ x.source = s})
      /\ Rowy({r \in l : r.item = i}) /\ Rowy({x \in m : x.item = i})
  BY SomeRows DEF Tables
<1> QED BY <1>1, TotalIsSum DEF Held, Raw

\* An item none of whose sources is overdrawn is not overdrawn.
LEMMA RawNotNegative ==
    ASSUME NEW l, NEW m, Tables(l, m), NEW i, \A s \in Sources : Held(l, m, i, s) >= 0
    PROVE  Raw(l, m, i) >= 0
<1> DEFINE li == {r \in l : r.item = i}
           mi == {x \in m : x.item = i}
           g == [s \in Sources |-> Total({r \in li : r.source = s})]
           h == [s \in Sources |-> Total({x \in mi : x.source = s})]
           k == [s \in Sources |-> Held(l, m, i, s)]
<1>1. Rowy(li) /\ Rowy(mi) /\ (\A r \in li : r.source \in Sources) /\ \A x \in mi : x.source \in Sources
  BY SomeRows DEF Tables
<1>2. /\ \A s \in Sources : g[s] = Total({r \in li : r.source = s})
      /\ \A s \in Sources : h[s] = Total({x \in mi : x.source = s})
  OBVIOUS
<1>3. \A s \in Sources : k[s] = g[s] + h[s]
  <2> TAKE s \in Sources
  <2>1. /\ {r \in li : r.source = s} = {r \in l : r.item = i /\ r.source = s}
        /\ {x \in mi : x.source = s} = {x \in m : x.item = i /\ x.source = s}
    OBVIOUS
  <2> QED BY <2>1 DEF Held
<1>4. \A s \in Sources : k[s] \in Nat
  <2> TAKE s \in Sources
  <2>1. Held(l, m, i, s) \in Int /\ Held(l, m, i, s) >= 0
    BY HeldInt
  <2> QED BY <2>1
<1> HIDE DEF li, mi, g, h, k
<1>5. IntValued(g, Sources) /\ Total(li) = SumOf(g, Sources)
  BY <1>1, <1>2, TotalBySource
<1>6. IntValued(h, Sources) /\ Total(mi) = SumOf(h, Sources)
  BY <1>1, <1>2, TotalBySource
<1>7. SumOf(k, Sources) = SumOf(g, Sources) + SumOf(h, Sources)
  BY <1>3, <1>5, <1>6, SumOfBoth
<1>8. SumOf(k, Sources) \in Nat
  BY <1>4, SourcesFinite, SumOfNaturals
<1>9. Raw(l, m, i) = Total(li) + Total(mi)
  BY DEF Raw, li, mi
<1> QED BY <1>5, <1>6, <1>7, <1>8, <1>9

ItemAt(x, i, s) == {m \in x : m.item = i /\ m.source = s}

LEMMA HeldMore ==
    ASSUME NEW l, NEW m, Tables(l, m), NEW x, Rowy(x), x \cap m = {}, NEW i, NEW s
    PROVE  Held(l, m \union x, i, s) = Held(l, m, i, s) + Total(ItemAt(x, i, s))
<1> DEFINE a == {r \in l : r.item = i /\ r.source = s}
           b == {r \in m : r.item = i /\ r.source = s}
           c == ItemAt(x, i, s)
<1>1. Rowy(a) /\ Rowy(b) /\ Rowy(c) /\ b \cap c = {}
  BY SomeRows DEF Tables, ItemAt
<1>2. {r \in m \union x : r.item = i /\ r.source = s} = b \union c
  BY DEF ItemAt
<1>3. Held(l, m, i, s) = Total(a) + Total(b) /\ Held(l, m \union x, i, s) = Total(a) + Total(b \union c)
  BY <1>2 DEF Held
<1> HIDE DEF a, b, c
<1>4. Total(b \union c) = Total(b) + Total(c)
  BY <1>1, TotalOfParts
<1>5. Total(a) \in Int /\ Total(b) \in Int /\ Total(c) \in Int
  BY <1>1, TotalIsSum
<1>6. Held(l, m \union x, i, s) = Held(l, m, i, s) + Total(c)
  BY <1>3, <1>4, <1>5
<1> QED BY <1>6 DEF c

LEMMA HeldLess ==
    ASSUME NEW l, NEW m, Tables(l, m), NEW x \in SUBSET m, NEW i, NEW s
    PROVE  /\ Held(l, m \ x, i, s) = Held(l, m, i, s) - Total(ItemAt(x, i, s))
           /\ Raw(l, m \ x, i) = Raw(l, m, i) - Total({r \in x : r.item = i})
<1> DEFINE a == {r \in l : r.item = i /\ r.source = s}
           b == {r \in m : r.item = i /\ r.source = s}
           c == ItemAt(x, i, s)
           a2 == {r \in l : r.item = i}
           b2 == {r \in m : r.item = i}
           c2 == {r \in x : r.item = i}
<1>1. /\ Rowy(a) /\ Rowy(b) /\ c \in SUBSET b /\ Rowy(a2) /\ Rowy(b2) /\ c2 \in SUBSET b2
      /\ Rowy(c) /\ Rowy(c2)
  BY SomeRows DEF Tables, ItemAt
<1>2. /\ {r \in m \ x : r.item = i /\ r.source = s} = b \ c
      /\ {r \in m \ x : r.item = i} = b2 \ c2
  BY DEF ItemAt
<1>3. /\ Held(l, m, i, s) = Total(a) + Total(b) /\ Held(l, m \ x, i, s) = Total(a) + Total(b \ c)
      /\ Raw(l, m, i) = Total(a2) + Total(b2) /\ Raw(l, m \ x, i) = Total(a2) + Total(b2 \ c2)
  BY <1>2 DEF Held, Raw
<1> HIDE DEF a, b, c, a2, b2, c2
<1>4. Total(b \ c) = Total(b) - Total(c) /\ Total(b2 \ c2) = Total(b2) - Total(c2)
  BY <1>1, TotalWithout
<1>5. /\ Total(a) \in Int /\ Total(b) \in Int /\ Total(c) \in Int
      /\ Total(a2) \in Int /\ Total(b2) \in Int /\ Total(c2) \in Int
  BY <1>1, TotalIsSum
<1>6. /\ Held(l, m \ x, i, s) = Held(l, m, i, s) - Total(c)
      /\ Raw(l, m \ x, i) = Raw(l, m, i) - Total(c2)
  BY <1>3, <1>4, <1>5
<1> QED BY <1>6 DEF c, c2

\* What HoldingsKept asks of one item, and the way most steps keep it.
Covered(l, m, n, i) == Raw(l, n, i) >= 0 \/ \E s \in Sources : Held(l, m, i, s) < 0
Kept(l, m, n, i) ==
    /\ Covered(l, m, n, i)
    /\ \A s \in Sources : Held(l, n, i, s) >= 0 \/ Held(l, n, i, s) >= Held(l, m, i, s)

LEMMA KeptBySources ==
    ASSUME NEW l, NEW m, NEW n, Tables(l, m), Tables(l, n), NEW i,
           \A s \in Sources : Held(l, n, i, s) >= 0 \/ Held(l, n, i, s) >= Held(l, m, i, s)
    PROVE  Kept(l, m, n, i)
<1>1. CASE \A s \in Sources : Held(l, m, i, s) >= 0
  <2>1. ASSUME NEW s \in Sources PROVE Held(l, n, i, s) >= 0
    <3>1. Held(l, n, i, s) \in Int /\ Held(l, m, i, s) \in Int
      BY HeldInt
    <3> QED BY <1>1, <3>1
  <2>2. Raw(l, n, i) >= 0
    BY <2>1, RawNotNegative
  <2> QED BY <2>2 DEF Kept, Covered
<1>2. CASE \E s \in Sources : ~(Held(l, m, i, s) >= 0)
  <2>1. PICK s \in Sources : ~(Held(l, m, i, s) >= 0)
    BY <1>2
  <2>2. Held(l, m, i, s) \in Int
    BY HeldInt
  <2>3. Held(l, m, i, s) < 0
    BY <2>1, <2>2
  <2> QED BY <2>3 DEF Kept, Covered
<1> QED BY <1>1, <1>2

\* Adding rows that leave no source overdrawn.
LEMMA KeptByAdding ==
    ASSUME NEW l, NEW m, NEW x, Tables(l, m), Tables(l, x), x \cap m = {}, NEW i,
           \A s \in Sources : \/ Total(ItemAt(x, i, s)) >= 0
                              \/ Held(l, m, i, s) + Total(ItemAt(x, i, s)) >= 0
    PROVE  Kept(l, m, m \union x, i)
<1>1. Rowy(l) /\ Rowy(m) /\ Rowy(x)
  BY DEF Tables
<1>2. Tables(l, m \union x)
  BY <1>1, TotalOfParts DEF Tables
<1>3. ASSUME NEW s \in Sources
      PROVE  Held(l, m \union x, i, s) >= 0 \/ Held(l, m \union x, i, s) >= Held(l, m, i, s)
  <2>1. Held(l, m \union x, i, s) = Held(l, m, i, s) + Total(ItemAt(x, i, s))
    BY <1>1, HeldMore
  <2>2. Held(l, m, i, s) \in Int
    BY HeldInt
  <2>3. ItemAt(x, i, s) \in SUBSET x
    BY DEF ItemAt
  <2>4. Total(ItemAt(x, i, s)) \in Int
    BY <1>1, <2>3, SomeRows, TotalIsSum
  <2>5. Total(ItemAt(x, i, s)) >= 0 \/ Held(l, m, i, s) + Total(ItemAt(x, i, s)) >= 0
    OBVIOUS
  <2> QED BY <2>1, <2>2, <2>4, <2>5
<1> QED BY <1>2, <1>3, KeptBySources

LEMMA TablesHere == ASSUME StockInv PROVE Tables(loot, moves)
<1>1. StockTyped
  BY DEF StockInv
<1>2. Rowy(loot) /\ Rowy(moves)
  BY <1>1, BucketInt
<1>3. \A r \in loot \union moves : r.source \in Sources
  BY <1>1, StockAssumption DEF StockTyped, Move, Sources
<1> QED BY <1>2, <1>3 DEF Tables

\* Nothing of the next fact is in the tables yet.
LEMMA NewRows == ASSUME StockInv, NEW x, \A m \in x : m.ref = New PROVE x \cap moves = {}
<1>1. New \notin DOMAIN facts /\ \A m \in moves : m.ref \in DOMAIN facts
  BY FactsTyped DEF StockInv, StockTyped
<1> QED BY <1>1

LEMMA OutflowKept ==
    ASSUME StockInv, NEW i \in Items, NEW q \in Quantities, NEW plan \in Plans(i, q),
           NEW kind \in {"listing", "trade", "conversion_out", "removal"},
           NEW back, back = {} \/ \E j \in Items \ {i} : back = Rows(New, "conversion_in", plan, j, 1),
           NEW k \in Items
    PROVE  Kept(loot, moves, moves \union (Outflow(New, kind, plan, i) \union back), k)
<1> DEFINE out == Outflow(New, kind, plan, i)
<1>1. StockTyped /\ New \in Nat
  BY FactsTyped DEF StockInv, New
<1>2. PlanFor(plan, q) /\ Leaving(plan) /\ kind # "opening_balance"
  BY <1>1, PlansFit, PlanLeaves
<1>3. /\ Rowy(out) /\ \A m \in out : m.ref = New /\ m.item = i /\ m.source \in Sources
  <2>1. PICK n : n = New
    OBVIOUS
  <2>2. /\ Rowy(Outflow(n, kind, plan, i))
        /\ \A m \in Outflow(n, kind, plan, i) : 
              /\ m.ref = n /\ m.item = i /\ m.source \in Sources /\ m.qty \in Int
              /\ m.kind \in {"opening_balance", kind}
    BY <1>2, OutflowRows
  <2> QED BY <2>1, <2>2
<1>4. PICK j \in Items \union {Unattributed} :
          back # {} => j \in Items \ {i} /\ back = Rows(New, "conversion_in", plan, j, 1)
  OBVIOUS
<1>5. Rowy(back) /\ \A m \in back : m.ref = New /\ m.item = j /\ m.item # i /\ m.source \in Sources
  <2>1. CASE back = {}
    BY <2>1, TotalOfNone
  <2>2. CASE back # {}
    <3>1. j \in Items \ {i} /\ back = Rows(New, "conversion_in", plan, j, 1)
      BY <1>4, <2>2
    <3> QED BY <1>2, <3>1, RowsAreRowy, RowsFields
  <2> QED BY <2>1, <2>2
<1>6. out \cap back = {} /\ Rowy(out \union back)
  <2>1. out \cap back = {}
    BY <1>3, <1>5
  <2> HIDE DEF out
  <2> QED BY <1>3, <1>5, <2>1, TotalOfParts
<1>7. Tables(loot, moves) /\ Tables(loot, out \union back)
  BY <1>3, <1>5, <1>6, TablesHere DEF Tables
<1>8. (out \union back) \cap moves = {}
  <2>1. \A m \in out \union back : m.ref = New
    BY <1>3, <1>5
  <2> HIDE DEF out
  <2> QED BY <2>1, NewRows
<1>9. ASSUME NEW s \in Sources
      PROVE  \/ Total(ItemAt(out \union back, k, s)) >= 0
             \/ Held(loot, moves, k, s) + Total(ItemAt(out \union back, k, s)) >= 0
  <2>1. CASE k = i
    <3>1. ItemAt(out \union back, k, s) = At(out, s)
      BY <1>3, <1>5, <2>1 DEF ItemAt, At
    <3>2. Total(At(out, s)) = (IF s = Unattributed THEN plan.excess ELSE 0) - plan.leaves[s]
      BY <1>2, OutflowAt
    <3>3. PICK given \in Nat :
              /\ plan.leaves[s] = given + IF s = Unattributed THEN plan.excess ELSE 0
              /\ given = 0 \/ given <= Bucket(i, s)
      BY <1>1, PlansFit
    <3>4. PICK x \in Nat : x = IF s = Unattributed THEN plan.excess ELSE 0
      BY <1>2 DEF Leaving
    <3>5. Total(At(out, s)) = x - (given + x)
      BY <3>2, <3>3, <3>4
    <3>6. x - (given + x) = 0 - given
      OBVIOUS
    <3>7. Bucket(i, s) = Held(loot, moves, k, s) /\ Bucket(i, s) \in Int
      BY <1>1, <2>1, BucketInt DEF Bucket, Held
    <3>8. PICK t \in Int : t = Total(ItemAt(out \union back, k, s)) /\ t = 0 - given
      BY <3>1, <3>5, <3>6
    <3>9. t >= 0 \/ Held(loot, moves, k, s) + t >= 0
      BY <3>3, <3>7, <3>8
    <3> QED BY <3>8, <3>9
  <2>2. CASE k # i /\ back # {} /\ k = j
    <3>1. back = Rows(New, "conversion_in", plan, k, 1)
      BY <1>4, <2>2
    <3>2. ItemAt(out \union back, k, s) = At(back, s)
      BY <1>3, <1>5, <2>2 DEF ItemAt, At
    <3>3. Total(At(back, s)) = 1 * plan.leaves[s] /\ plan.leaves[s] \in Nat
      BY <1>2, <3>1, RowsAt DEF Leaving
    <3>4. Total(ItemAt(out \union back, k, s)) >= 0
      BY <3>2, <3>3
    <3> QED BY <3>4
  <2>3. CASE k # i /\ (back = {} \/ k # j)
    <3>1. ItemAt(out \union back, k, s) = {}
      BY <1>3, <1>5, <2>3 DEF ItemAt
    <3>2. Total(ItemAt(out \union back, k, s)) >= 0
      BY <3>1, TotalOfNone
    <3> QED BY <3>2
  <2> QED BY <2>1, <2>2, <2>3
<1> HIDE DEF out
<1> QED BY <1>7, <1>8, <1>9, KeptByAdding DEF out

LEMMA ExpiryKept ==
    ASSUME StockInv, NEW f, Standing(f), facts[f].status = "pending", NEW k \in Items
    PROVE  Kept(loot, moves, moves \union Returning(f), k)
<1> DEFINE i == facts[f].subject
<1>1. Tables(loot, moves)
  BY TablesHere
<1>2. CASE i \in Equipment
  <2>1. Returning(f) = {} /\ moves \union {} = moves
    BY <1>2, ExpiryRows
  <2>2. \A s \in Sources : Held(loot, moves, k, s) >= Held(loot, moves, k, s)
    BY <1>1, HeldInt
  <2>3. Kept(loot, moves, moves, k)
    BY <1>1, <2>2, KeptBySources
  <2> QED BY <2>1, <2>3
<1>3. CASE i \notin Equipment
  <2>1. PICK plan : /\ i \in Items
                    /\ PlanFor(plan, facts[f].qty) /\ plan.attributed = facts[f].attributed
                    /\ RowsOf(f) = Outflow(f, "listing", plan, i)
                    /\ Returning(f) = Rows(f, "listing_return", plan, i, 1)
    BY <1>3, ExpiryRows
  <2>2. Leaving(plan)
    BY <2>1, PlanLeaves
  <2>3. /\ Rowy(Returning(f))
        /\ \A m \in Returning(f) : /\ m.ref = f /\ m.item = i /\ m.source \in Sources
                                   /\ m.kind = "listing_return"
    BY <2>1, <2>2, RowsAreRowy, RowsFields
  <2>4. Tables(loot, Returning(f))
    BY <1>1, <2>3 DEF Tables
  <2>5. Returning(f) \cap moves = {}
    <3>1. \A m \in RowsOf(f) : m.kind \in {"opening_balance", "listing"}
      BY <2>1, <2>2, OutflowRows
    <3> QED BY <2>3, <3>1 DEF RowsOf
  <2>6. ASSUME NEW s \in Sources PROVE Total(ItemAt(Returning(f), k, s)) >= 0
    <3>1. CASE k = i
      <4>1. ItemAt(Returning(f), k, s) = At(Rows(f, "listing_return", plan, i, 1), s)
        BY <2>1, <2>3, <3>1 DEF ItemAt, At
      <4>2. Total(At(Rows(f, "listing_return", plan, i, 1), s)) = 1 * plan.leaves[s]
            /\ plan.leaves[s] \in Nat
        BY <2>2, RowsAt DEF Leaving
      <4> QED BY <4>1, <4>2
    <3>2. CASE k # i
      <4>1. ItemAt(Returning(f), k, s) = {}
        BY <2>3, <3>2 DEF ItemAt
      <4> QED BY <4>1, TotalOfNone
    <3> QED BY <3>1, <3>2
  <2> QED BY <1>1, <2>4, <2>5, <2>6, KeptByAdding
<1> QED BY <1>2, <1>3

\* An undo that is checked covers every item it touches.
LEMMA BlockedKept ==
    ASSUME StockInv, NEW f, ~Blocked(f), NEW k \in Items
    PROVE  Covered(loot, moves, moves \ RowsOf(f), k)
<1>1. Tables(loot, moves) /\ RowsOf(f) \in SUBSET moves
  BY TablesHere DEF RowsOf
<1>2. PICK t : t = Total({m \in RowsOf(f) : m.item = k})
  OBVIOUS
<1>3. t \in Int /\ Raw(loot, moves, k) \in Int
  <2>1. {m \in RowsOf(f) : m.item = k} \in SUBSET moves
    BY <1>1
  <2> QED BY <1>1, <1>2, <2>1, SomeRows, TotalIsSum, HeldInt DEF Tables
<1>4. Raw(loot, moves \ RowsOf(f), k) = Raw(loot, moves, k) - t
  BY <1>1, <1>2, HeldLess
<1>5. CASE k \in {m.item : m \in RowsOf(f)}
  <2>1. RawPosition(k) = Raw(loot, moves, k)
    BY DEF RawPosition, Raw
  <2>2. ~(RawPosition(k) - t < 0)
    BY <1>2, <1>5 DEF Blocked
  <2>3. Raw(loot, moves \ RowsOf(f), k) >= 0
    BY <1>3, <1>4, <2>1, <2>2
  <2> QED BY <2>3 DEF Covered
<1>6. CASE k \notin {m.item : m \in RowsOf(f)}
  <2>1. {m \in RowsOf(f) : m.item = k} = {}
    BY <1>6
  <2>2. Raw(loot, moves \ RowsOf(f), k) = Raw(loot, moves, k)
    BY <1>2, <1>3, <1>4, <2>1, TotalOfNone
  <2>3. \A s \in Sources : Held(loot, moves, k, s) >= Held(loot, moves, k, s)
    BY <1>1, HeldInt
  <2>4. Covered(loot, moves, moves, k)
    BY <1>1, <2>3, KeptBySources DEF Kept
  <2> QED BY <2>2, <2>4 DEF Covered
<1> QED BY <1>5, <1>6

\* An undo that is not checked only gives back.
LEMMA GiveBackKept ==
    ASSUME StockInv, NEW f, Standing(f), facts[f].kind \in {"private", "removal"}, NEW k \in Items
    PROVE  Covered(loot, moves, moves \ RowsOf(f), k)
<1> DEFINE i == facts[f].subject
           x == RowsOf(f)
<1>1. Tables(loot, moves) /\ x \in SUBSET moves
  BY TablesHere DEF RowsOf
<1>2. f \in DOMAIN facts /\ ~facts[f].undone
  BY DEF Standing
<1>3. facts[f] \in Fact /\ Shaped(facts[f]) /\ Booked(f, facts[f], x)
  BY <1>2, StockRows
<1>4. i \in Items /\ i \notin Equipment /\ facts[f].status = "done"
  BY <1>3, StockAssumption DEF Shaped
<1>5. PICK plan : /\ PlanFor(plan, facts[f].qty)
                  /\ \E back \in CameBack(f, facts[f], plan) :
                        x = Outflow(f, LeavesAs(facts[f]), plan, i) \union back
  BY <1>2, <1>3, <1>4 DEF Booked
<1>6. x = Outflow(f, LeavesAs(facts[f]), plan, i)
  <2>1. CameBack(f, facts[f], plan) = {{}}
    BY <1>4 DEF CameBack
  <2> QED BY <1>5, <2>1
<1>7. Leaving(plan) /\ plan.excess <= plan.leaves[Unattributed] /\ LeavesAs(facts[f]) # "opening_balance"
  BY <1>5, PlanLeaves, LeavesKinds
<1>8. \A m \in x : m.item = i
  <2> DEFINE kind == LeavesAs(facts[f])
  <2> HIDE DEF kind, i
  <2> QED BY <1>6, <1>7, OutflowRows DEF kind
<1>9. ASSUME NEW s \in Sources PROVE Total(ItemAt(x, k, s)) <= 0
  <2>1. CASE k = i
    <3>1. ItemAt(x, k, s) = At(x, s)
      BY <1>8, <2>1 DEF ItemAt, At
    <3>2. Total(At(x, s)) = (IF s = Unattributed THEN plan.excess ELSE 0) - plan.leaves[s]
      BY <1>6, <1>7, OutflowAt
    <3>3. plan.leaves[s] \in Nat /\ plan.excess \in Nat
      BY <1>7 DEF Leaving
    <3>4. (IF s = Unattributed THEN plan.excess ELSE 0) - plan.leaves[s] <= 0
      BY <1>7, <3>3
    <3> QED BY <3>1, <3>2, <3>4
  <2>2. CASE k # i
    <3>1. ItemAt(x, k, s) = {}
      BY <1>8, <2>2 DEF ItemAt
    <3> QED BY <3>1, TotalOfNone
  <2> QED BY <2>1, <2>2
<1> HIDE DEF x
<1>10. Tables(loot, moves \ x)
  BY <1>1, SomeRows DEF Tables
<1>11. ASSUME NEW s \in Sources
       PROVE  Held(loot, moves \ x, k, s) >= Held(loot, moves, k, s)
  <2>1. Held(loot, moves \ x, k, s) = Held(loot, moves, k, s) - Total(ItemAt(x, k, s))
    <3>1. Tables(loot, moves) /\ x \in SUBSET moves
      BY <1>1
    <3>2. /\ Held(loot, moves \ x, k, s) = Held(loot, moves, k, s) - Total(ItemAt(x, k, s))
          /\ Raw(loot, moves \ x, k) = Raw(loot, moves, k) - Total({r \in x : r.item = k})
      BY <3>1, HeldLess
    <3> QED BY <3>2
  <2>2. ItemAt(x, k, s) \in SUBSET moves
    BY <1>1 DEF ItemAt
  <2>3. Total(ItemAt(x, k, s)) \in Int /\ Held(loot, moves, k, s) \in Int
    BY <1>1, <2>2, SomeRows, TotalIsSum, HeldInt DEF Tables
  <2> QED BY <1>9, <2>1, <2>3
<1>12. Kept(loot, moves, moves \ x, k)
  BY <1>1, <1>10, <1>11, KeptBySources
<1> QED BY <1>12 DEF Kept, x

\* What HoldingsKept says of one step.
HoldingsStep ==
    (moves' # moves /\ loot' = loot) =>
        \A i \in Items :
            /\ RawPosition(i)' >= 0 \/ \E s \in Sources : Bucket(i, s) < 0
            /\ UndoStep \/ \A s \in Sources : Bucket(i, s)' >= 0 \/
                                              Bucket(i, s)' >= Bucket(i, s)

LEMMA StepIsKept ==
    ASSUME \A k \in Items : /\ Covered(loot, moves, moves', k)
                            /\ UndoStep \/ Kept(loot, moves, moves', k)
    PROVE  HoldingsStep
<1> SUFFICES ASSUME moves' # moves, loot' = loot, NEW i \in Items
             PROVE  /\ RawPosition(i)' >= 0 \/ \E s \in Sources : Bucket(i, s) < 0
                    /\ UndoStep \/ \A s \in Sources : Bucket(i, s)' >= 0 \/
                                                      Bucket(i, s)' >= Bucket(i, s)
  BY DEF HoldingsStep
<1>1. RawPosition(i)' = Raw(loot, moves', i)
  BY DEF RawPosition, Raw
<1>2. \A s : Bucket(i, s)' = Held(loot, moves', i, s)
  BY DEF Bucket, Held
<1>3. \A s : Bucket(i, s) = Held(loot, moves, i, s)
  BY DEF Bucket, Held
<1>4. RawPosition(i)' >= 0 \/ \E s \in Sources : Bucket(i, s) < 0
  BY <1>1, <1>3 DEF Covered
<1>5. UndoStep \/ \A s \in Sources : Bucket(i, s)' >= 0 \/ Bucket(i, s)' >= Bucket(i, s)
  BY <1>2, <1>3 DEF Kept
<1> QED BY <1>4, <1>5

LEMMA KeptStep ==
    ASSUME \A k \in Items : Kept(loot, moves, moves', k)
    PROVE  HoldingsStep
BY StepIsKept DEF Kept

LEMMA UndoIsKept ==
    ASSUME StockInv, NEW f \in DOMAIN facts, Standing(f), Undo(f),
           \A k \in Items : Covered(loot, moves, moves \ RowsOf(f), k)
    PROVE  HoldingsStep
<1>1. moves' = moves \ RowsOf(f)
  BY DEF Undo
<1>2. UndoStep
  <2>1. facts' = [facts EXCEPT ![f] = [facts[f] EXCEPT !.undone = TRUE, !.owns = {}]]
    BY DEF Undo
  <2>2. facts[f] \in Fact
    BY StockRows
  <2>3. facts'[f] = [facts[f] EXCEPT !.undone = TRUE, !.owns = {}]
    BY <2>1
  <2>4. facts'[f].undone
    BY <2>2, <2>3 DEF Fact
  <2> QED BY <2>4 DEF UndoStep, Standing
<1> QED BY <1>1, <1>2, StepIsKept

LEMMA HoldingsAreKept == ASSUME StockInv, [SNext]_svars PROVE HoldingsStep
<1>1. CASE moves' = moves
  BY <1>1 DEF HoldingsStep
<1>2. ASSUME NEW i \in Items, NEW q \in Quantities, NEW plan \in Plans(i, q),
             NEW kind \in {"listing", "trade", "conversion_out", "removal"},
             moves' = moves \union Outflow(New, kind, plan, i)
      PROVE  HoldingsStep
  <2>1. moves' = moves \union (Outflow(New, kind, plan, i) \union {})
    BY <1>2
  <2>2. PICK back : back = {}
    OBVIOUS
  <2>3. \A k \in Items : Kept(loot, moves, moves \union (Outflow(New, kind, plan, i) \union back), k)
    BY <2>2, OutflowKept
  <2> QED BY <2>1, <2>2, <2>3, KeptStep
<1>3. CASE LootNext
  <2>1. CASE \E r \in LootRows : FlipLoot(r)
    BY <1>1, <2>1 DEF FlipLoot
  <2>2. CASE \E i \in Items, q \in Quantities, fee \in Charges : create_auction_listing(i, q, fee)
    BY <1>2, <2>2 DEF create_auction_listing
  <2>3. CASE \E i \in Items, q \in Quantities, result \in Charges : create_private_sale(i, q, result)
    BY <1>2, <2>3 DEF create_private_sale
  <2>4. CASE \E i \in Items, q \in Quantities : remove_stock(i, q)
    <3>1. PICK i \in Items, q \in Quantities : remove_stock(i, q)
      BY <2>4
    <3>2. PICK plan \in Plans(i, q) :
              plan.excess = 0 /\ moves' = moves \union Rows(New, "removal", plan, i, -1)
      BY <3>1 DEF remove_stock
    <3>3. moves' = moves \union Outflow(New, "removal", plan, i)
      BY <3>2 DEF Outflow, OpeningBalance
    <3> QED BY <1>2, <3>3
  <2>5. CASE \E i \in Ammo, q \in Quantities, gain \in Charges : convert_shrapnel(i, q, gain)
    <3>1. \A i \in Ammo : i \in Items
      BY StockAssumption
    <3> QED BY <1>2, <2>5, <3>1 DEF convert_shrapnel
  <2>6. CASE \E p \in Recipes, q \in Quantities : convert_stock(p[1], p[2], q)
    <3>1. PICK p \in Recipes, q \in Quantities : convert_stock(p[1], p[2], q)
      BY <2>6
    <3>2. p[1] \in Items /\ p[2] \in Items \ {p[1]}
      BY StockAssumption
    <3>3. PICK i \in Items : i = p[1]
      BY <3>2
    <3>4. PICK j \in Items \ {i} : j = p[2]
      BY <3>2, <3>3
    <3>5. PICK plan \in Plans(i, q) :
              moves' = (moves \union Outflow(New, "conversion_out", plan, i))
                       \union Rows(New, "conversion_in", plan, j, 1)
      BY <3>1, <3>3, <3>4 DEF convert_stock
    <3>6. PICK back : back = Rows(New, "conversion_in", plan, j, 1)
      OBVIOUS
    <3>7. moves' = moves \union (Outflow(New, "conversion_out", plan, i) \union back)
      BY <3>5, <3>6
    <3>8. \A k \in Items :
              Kept(loot, moves, moves \union (Outflow(New, "conversion_out", plan, i) \union back), k)
      <4>1. back = {} \/ \E to \in Items \ {i} : back = Rows(New, "conversion_in", plan, to, 1)
        BY <3>6
      <4> QED BY <4>1, OutflowKept
    <3> QED BY <3>7, <3>8, KeptStep
  <2>7. CASE \E f \in DOMAIN facts : undo_stock_conversion(f)
    <3>1. PICK f \in DOMAIN facts : Standing(f) /\ ~Blocked(f) /\ Undo(f)
      BY <2>7 DEF undo_stock_conversion
    <3> QED BY <3>1, BlockedKept, UndoIsKept
  <2>8. CASE \E f \in DOMAIN facts : undo_private_sale(f) \/ undo_stock_removal(f)
    <3>1. PICK f \in DOMAIN facts :
              Standing(f) /\ facts[f].kind \in {"private", "removal"} /\ Undo(f)
      BY <2>8 DEF undo_private_sale, undo_stock_removal
    <3> QED BY <3>1, GiveBackKept, UndoIsKept
  <2> QED BY <1>3, <2>1, <2>2, <2>3, <2>4, <2>5, <2>6, <2>7, <2>8 DEF LootNext
<1>4. CASE EquipmentNext
  <2>1. moves' = moves
    BY <1>4 DEF EquipmentNext, create_equipment_listing, trade_equipment, sell_inventory_item,
                ReadForSale, delete_inventory_item
  <2> QED BY <1>1, <2>1
<1>5. CASE ListingNext
  <2>1. CASE \/ \E e \in ledger : delete_ledger_entry(e)
             \/ \E f \in DOMAIN facts :
                   \/ \E result, saleFee \in Charges : confirm_auction_listing(f, result, saleFee)
                   \/ revert_auction_sale(f)
    <3>1. moves' = moves
      BY <2>1 DEF delete_ledger_entry, confirm_auction_listing, revert_auction_sale
    <3> QED BY <1>1, <3>1
  <2>2. CASE \E f \in DOMAIN facts : expire_auction_listing(f)
    <3>1. PICK f \in DOMAIN facts : /\ Standing(f) /\ facts[f].status = "pending"
                                    /\ moves' = moves \union Returning(f)
      BY <2>2 DEF expire_auction_listing
    <3> QED BY <3>1, ExpiryKept, KeptStep
  <2>3. CASE \E f \in DOMAIN facts : undo_auction_listing(f)
    <3>1. PICK f \in DOMAIN facts : Standing(f) /\ ~Blocked(f) /\ Undo(f)
      BY <2>3 DEF undo_auction_listing
    <3> QED BY <3>1, BlockedKept, UndoIsKept
  <2> QED BY <1>5, <2>1, <2>2, <2>3 DEF ListingNext
<1>6. CASE UNCHANGED svars
  <2>1. moves' = moves
    BY <1>6 DEF svars
  <2> QED BY <1>1, <2>1
<1> QED BY <1>3, <1>4, <1>5, <1>6 DEF SNext

\* No outflow overdraws a source, and no operation leaves an item below zero
\* that was covered source by source.
THEOREM HoldingsStayKept == SSpec => HoldingsKept
<1>1. StockInv /\ [SNext]_svars => HoldingsStep
  BY HoldingsAreKept
<1>2. StockInv /\ [SNext]_svars => [HoldingsStep]_svars
  BY <1>1
<1> QED BY <1>2, StockInvariant, PTL DEF SSpec, HoldingsKept, HoldingsStep

=============================================================================
