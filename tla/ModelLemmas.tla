------------------------------- MODULE ModelLemmas -------------------------------
(***************************************************************************)
(* Facts about the operators the models are built from, used by the proofs *)
(* of several components: rows appended to a table, messages taken from a  *)
(* queue, the newest of a set of identifiers, and sums over finite sets,   *)
(* which may be taken in any order.  A sum is a fold, defined by recursion *)
(* over a set; what it comes to is shown by looking at a smallest set that *)
(* would be an exception.                                                  *)
(***************************************************************************)
EXTENDS Integers, Sequences, FiniteSets, FiniteSetsExt, SequenceTheorems, FiniteSetTheorems,
        WellFoundedInduction, Selection, TLAPS

\* What appending one row to a table does.
LEMMA AppendRow ==
    ASSUME NEW S, NEW rows \in Seq(S), NEW r \in S
    PROVE  /\ Append(rows, r) \in Seq(S)
           /\ Len(rows) \in Nat
           /\ DOMAIN rows = 1 .. Len(rows)
           /\ DOMAIN Append(rows, r) = 1 .. Len(rows) + 1
           /\ Len(Append(rows, r)) = Len(rows) + 1
           /\ Append(rows, r)[Len(rows) + 1] = r
           /\ \A i \in DOMAIN rows : Append(rows, r)[i] = rows[i]
BY AppendProperties, LenProperties

\* What taking the first message of a queue does: the others move up by one.
LEMMA TakeFirst ==
    ASSUME NEW S, NEW q \in Seq(S), q # << >>
    PROVE  /\ Len(q) \in Nat \ {0} /\ DOMAIN q = 1 .. Len(q)
           /\ 1 \in DOMAIN q /\ Head(q) = q[1] /\ Head(q) \in S
           /\ Tail(q) \in Seq(S)
           /\ Len(Tail(q)) = Len(q) - 1
           /\ DOMAIN Tail(q) = 1 .. Len(q) - 1
           /\ \A k \in DOMAIN Tail(q) : k + 1 \in DOMAIN q /\ Tail(q)[k] = q[k + 1]
<1>1. Len(q) \in Nat \ {0} /\ DOMAIN q = 1 .. Len(q)
  BY EmptySeq, LenProperties
<1>2. /\ Head(q) \in S /\ Tail(q) \in Seq(S) /\ Len(Tail(q)) = Len(q) - 1
      /\ \A i \in 1 .. Len(Tail(q)) : Tail(q)[i] = q[i + 1]
  BY HeadTailProperties
<1>3. DOMAIN Tail(q) = 1 .. Len(q) - 1
  BY <1>1, <1>2, LenProperties
<1>4. Head(q) = q[1]
  OBVIOUS
<1> QED BY <1>1, <1>2, <1>3, <1>4

\* The greatest member of a bounded set of numbers.
LEMMA MaxExists ==
    ASSUME NEW n \in Nat, NEW T \in SUBSET (1 .. n), T # {}
    PROVE  \E x \in T : \A y \in T : y <= x
<1> DEFINE D == {n - c : c \in T}
<1>1. \A c \in T : c \in Nat /\ n - c \in Nat
  OBVIOUS
<1>2. D \subseteq Nat /\ D # {}
  BY <1>1
<1>3. \E d \in D : \A e \in D : ~ (<<e, d>> \in OpToRel(<, Nat))
  <2> DEFINE R == OpToRel(<, Nat)
  <2> HIDE DEF R, D
  <2>1. IsWellFoundedOn(R, Nat)
    BY Zenon, NatLessThanWellFounded DEF R
  <2> QED BY Zenon, <1>2, <2>1, WFMin DEF R
<1>4. PICK d \in D : \A e \in D : ~ (e < d)
  BY <1>2, <1>3 DEF OpToRel
<1>5. PICK x \in T : d = n - x
  BY <1>4
<1>6. \A y \in T : ~ (n - y < n - x)
  BY <1>4, <1>5
<1> QED BY <1>1, <1>6

\* The least member of a set of numbers.
LEMMA LeastExists ==
    ASSUME NEW T \in SUBSET Nat, T # {}
    PROVE  \E x \in T : \A y \in T : x <= y
<1>1. \E x \in T : \A y \in T : ~ (<<y, x>> \in OpToRel(<, Nat))
  <2> DEFINE R == OpToRel(<, Nat)
  <2> HIDE DEF R
  <2>1. IsWellFoundedOn(R, Nat)
    BY Zenon, NatLessThanWellFounded DEF R
  <2> QED BY Zenon, <2>1, WFMin DEF R
<1>2. PICK x \in T : \A y \in T : ~ (y < x)
  BY <1>1 DEF OpToRel
<1> QED BY <1>2

\* What replacing one row of a table does.
LEMMA ReplaceRow ==
    ASSUME NEW S, NEW rows \in Seq(S), NEW i \in DOMAIN rows, NEW r \in S
    PROVE  /\ [rows EXCEPT ![i] = r] \in Seq(S)
           /\ DOMAIN [rows EXCEPT ![i] = r] = DOMAIN rows
           /\ Len([rows EXCEPT ![i] = r]) = Len(rows)
           /\ [rows EXCEPT ![i] = r][i] = r
           /\ \A j \in DOMAIN rows : j # i => [rows EXCEPT ![i] = r][j] = rows[j]
<1>1. Len(rows) \in Nat /\ DOMAIN rows = 1 .. Len(rows) /\ \A j \in DOMAIN rows : rows[j] \in S
  BY LenProperties, ElementOfSeq
<1> DEFINE new == [rows EXCEPT ![i] = r]
<1>2. new \in [1 .. Len(rows) -> S] /\ new[i] = r
      /\ \A j \in DOMAIN rows : j # i => new[j] = rows[j]
  BY <1>1
<1> HIDE DEF new
<1>3. new \in Seq(S) /\ DOMAIN new = DOMAIN rows
  BY <1>1, <1>2
<1>4. Len(new) = Len(rows)
  BY <1>1, <1>3, LenProperties
<1> QED BY <1>2, <1>3, <1>4 DEF new

-----------------------------------------------------------------------------

\* The member a fold takes first.
Chosen(s) == CHOOSE x \in s : TRUE

\* `it` sums g over every subset of S, taking the chosen member first.
IsFold(it, g, S) ==
    it = [s \in SUBSET S |-> IF s = {} THEN 0 ELSE g[Chosen(s)] + it[s \ {Chosen(s)}]]

\* MapThenSumSet of a function.
SumOf(g, S) == MapThenSumSet(LAMBDA x : g[x], S)

IntValued(g, S) == IsFiniteSet(S) /\ \A x \in S : g[x] \in Int

LEMMA ChosenIsMember == ASSUME NEW s, s # {} PROVE Chosen(s) \in s
BY DEF Chosen

\* What a subset of a finite set loses with one member.
LEMMA OneLess ==
    ASSUME NEW S, IsFiniteSet(S), NEW s \in SUBSET S, NEW x \in s
    PROVE  /\ IsFiniteSet(s) /\ s \ {x} \in SUBSET S /\ s # {}
           /\ Cardinality(s) \in Nat \ {0} /\ Cardinality(s \ {x}) = Cardinality(s) - 1
<1>1. IsFiniteSet(s)
  BY FS_Subset
<1>2. Cardinality(s) \in Nat
  BY <1>1, FS_CardinalityType
<1>3. Cardinality(s) # 0
  BY <1>1, FS_EmptySet
<1>4. Cardinality(s \ {x}) = Cardinality(s) - 1
  BY <1>1, FS_RemoveElement
<1> QED BY <1>1, <1>2, <1>3, <1>4

\* A fold of the subsets of at most n members.
FoldUpTo(h, g, S, n) ==
    /\ h \in [{s \in SUBSET S : Cardinality(s) <= n} -> Int]
    /\ \A s \in SUBSET S : Cardinality(s) <= n =>
           h[s] = IF s = {} THEN 0 ELSE g[Chosen(s)] + h[s \ {Chosen(s)}]

LEMMA FoldGrows ==
    ASSUME NEW g, NEW S, IntValued(g, S), NEW n \in Nat, NEW h, FoldUpTo(h, g, S, n)
    PROVE  \E k : FoldUpTo(k, g, S, n + 1)
<1> DEFINE D == {s \in SUBSET S : Cardinality(s) <= n}
           E == {s \in SUBSET S : Cardinality(s) <= n + 1}
           k == [s \in E |-> IF Cardinality(s) <= n THEN h[s]
                             ELSE g[Chosen(s)] + h[s \ {Chosen(s)}]]
<1>0. IsFiniteSet(S)
  BY DEF IntValued
<1>1. ASSUME NEW s \in SUBSET S, s # {}
      PROVE  /\ Chosen(s) \in s /\ g[Chosen(s)] \in Int /\ s \ {Chosen(s)} \in SUBSET S
             /\ Cardinality(s) \in Nat /\ Cardinality(s \ {Chosen(s)}) = Cardinality(s) - 1
  <2>1. Chosen(s) \in s
    BY <1>1, ChosenIsMember
  <2>2. g[Chosen(s)] \in Int
    BY <2>1 DEF IntValued
  <2> QED BY <1>0, <2>1, <2>2, OneLess
<1>2. IsFiniteSet({}) /\ Cardinality({}) = 0 /\ {} \in D
  BY FS_EmptySet
<1>3. ASSUME NEW s \in E, ~(Cardinality(s) <= n)
      PROVE  s # {} /\ s \ {Chosen(s)} \in D /\ g[Chosen(s)] \in Int
  <2>1. s # {} /\ s \in SUBSET S /\ Cardinality(s) <= n + 1
    BY <1>2, <1>3
  <2>2. s \ {Chosen(s)} \in SUBSET S /\ g[Chosen(s)] \in Int
        /\ Cardinality(s) \in Nat /\ Cardinality(s \ {Chosen(s)}) = Cardinality(s) - 1
    BY <1>1, <2>1
  <2>3. Cardinality(s \ {Chosen(s)}) <= n
    BY <2>1, <2>2
  <2> QED BY <2>1, <2>2, <2>3
<1>4. \A s \in D : h[s] \in Int
  BY DEF FoldUpTo
<1>5. \A s \in E : (IF Cardinality(s) <= n THEN h[s] ELSE g[Chosen(s)] + h[s \ {Chosen(s)}]) \in Int
  <2> SUFFICES ASSUME NEW s \in E
               PROVE  (IF Cardinality(s) <= n THEN h[s] ELSE g[Chosen(s)] + h[s \ {Chosen(s)}]) \in Int
    OBVIOUS
  <2>1. CASE Cardinality(s) <= n
    <3>1. s \in D
      BY <2>1
    <3> QED BY <1>4, <2>1, <3>1
  <2>2. CASE ~(Cardinality(s) <= n)
    <3>1. g[Chosen(s)] \in Int /\ h[s \ {Chosen(s)}] \in Int
      BY <1>3, <1>4, <2>2
    <3> QED BY <2>2, <3>1
  <2> QED BY <2>1, <2>2
<1>6. k \in [E -> Int] /\ (\A s \in E : k[s] = IF Cardinality(s) <= n THEN h[s] ELSE g[Chosen(s)] + h[s \ {Chosen(s)}])
  BY <1>5
<1> HIDE DEF k
<1>7. D \subseteq E
  <2> SUFFICES ASSUME NEW s \in SUBSET S, Cardinality(s) <= n PROVE Cardinality(s) <= n + 1
    OBVIOUS
  <2>1. IsFiniteSet(s)
    BY <1>0, FS_Subset
  <2>2. Cardinality(s) \in Nat
    BY <2>1, FS_CardinalityType
  <2> QED BY <2>2
<1>8. \A s \in D : k[s] = h[s]
  BY <1>6, <1>7
<1>9. ASSUME NEW s \in SUBSET S, Cardinality(s) <= n + 1
      PROVE  k[s] = IF s = {} THEN 0 ELSE g[Chosen(s)] + k[s \ {Chosen(s)}]
  <2>0. s \in E
    BY <1>9
  <2>1. CASE Cardinality(s) <= n
    <3>1. s \in D
      BY <2>1
    <3>2. h[s] = IF s = {} THEN 0 ELSE g[Chosen(s)] + h[s \ {Chosen(s)}]
      BY <2>1 DEF FoldUpTo
    <3>3. CASE s = {}
      BY <1>8, <3>1, <3>2, <3>3
    <3>4. CASE s # {}
      <4>1. s \ {Chosen(s)} \in D
        <5>1. s \ {Chosen(s)} \in SUBSET S /\ Cardinality(s) \in Nat
              /\ Cardinality(s \ {Chosen(s)}) = Cardinality(s) - 1
          BY <1>1, <3>4
        <5>2. Cardinality(s \ {Chosen(s)}) <= n
          BY <2>1, <5>1
        <5> QED BY <5>1, <5>2
      <4> QED BY <1>8, <3>1, <3>2, <3>4, <4>1
    <3> QED BY <3>3, <3>4
  <2>2. CASE ~(Cardinality(s) <= n)
    <3>1. s # {} /\ s \ {Chosen(s)} \in D
      BY <1>3, <2>0, <2>2
    <3>2. k[s] = g[Chosen(s)] + h[s \ {Chosen(s)}]
      BY <1>6, <2>0, <2>2
    <3> QED BY <1>8, <3>1, <3>2
  <2> QED BY <2>1, <2>2
<1>10. k \in [{s \in SUBSET S : Cardinality(s) <= n + 1} -> Int]
  BY <1>6
<1>11. FoldUpTo(k, g, S, n + 1)
  BY <1>9, <1>10 DEF FoldUpTo
<1> QED BY <1>11

LEMMA FoldExists ==
    ASSUME NEW g, NEW S, IntValued(g, S)
    PROVE  \E it \in [SUBSET S -> Int] : IsFold(it, g, S)
<1>0. IsFiniteSet(S) /\ Cardinality(S) \in Nat
  BY FS_CardinalityType DEF IntValued
<1> DEFINE Bad == {n \in Nat : ~ \E h : FoldUpTo(h, g, S, n)}
<1>1. 0 \notin Bad
  <2> DEFINE D == {s \in SUBSET S : Cardinality(s) <= 0}
             h == [s \in D |-> 0]
  <2>1. \A s \in SUBSET S : Cardinality(s) <= 0 => s = {}
    <3> SUFFICES ASSUME NEW s \in SUBSET S, Cardinality(s) <= 0 PROVE s = {}
      OBVIOUS
    <3>1. IsFiniteSet(s)
      BY <1>0, FS_Subset
    <3>2. Cardinality(s) \in Nat
      BY <3>1, FS_CardinalityType
    <3>3. Cardinality(s) = 0
      BY <3>2
    <3> QED BY <3>1, <3>3, FS_EmptySet
  <2>2. h \in [D -> Int] /\ \A s \in D : h[s] = 0
    OBVIOUS
  <2> HIDE DEF h
  <2>3. h \in [{s \in SUBSET S : Cardinality(s) <= 0} -> Int]
    BY <2>2
  <2>4. FoldUpTo(h, g, S, 0)
    BY <2>1, <2>2, <2>3 DEF FoldUpTo
  <2> QED BY <2>4
<1>2. \A n \in Nat : n \notin Bad => n + 1 \notin Bad
  BY FoldGrows
<1>3. Bad = {}
  <2> SUFFICES ASSUME Bad # {} PROVE FALSE
    OBVIOUS
  <2>1. Bad \in SUBSET Nat
    OBVIOUS
  <2> HIDE DEF Bad
  <2>2. PICK m \in Bad : \A n \in Bad : m <= n
    BY <2>1, LeastExists
  <2>3. m \in Nat /\ m # 0
    BY <1>1, <2>1, <2>2
  <2>4. m - 1 \in Nat /\ m - 1 \notin Bad
    BY <2>1, <2>2, <2>3
  <2>5. (m - 1) + 1 \notin Bad
    BY <1>2, <2>4
  <2> QED BY <2>2, <2>3, <2>5
<1>4. PICK it : FoldUpTo(it, g, S, Cardinality(S))
  BY <1>0, <1>3
<1>5. \A s \in SUBSET S : Cardinality(s) <= Cardinality(S)
  BY <1>0, FS_Subset
<1>6. {s \in SUBSET S : Cardinality(s) <= Cardinality(S)} = SUBSET S
  BY <1>5
<1>7. it \in [SUBSET S -> Int]
  BY <1>4, <1>6 DEF FoldUpTo
<1>8. \A s \in SUBSET S : it[s] = IF s = {} THEN 0 ELSE g[Chosen(s)] + it[s \ {Chosen(s)}]
  BY <1>4, <1>5 DEF FoldUpTo
<1>9. IsFold(it, g, S)
  BY <1>7, <1>8 DEF IsFold
<1> QED BY <1>7, <1>9

LEMMA FoldStep ==
    ASSUME NEW g, NEW S, NEW it, IsFold(it, g, S)
    PROVE  /\ it[{}] = 0
           /\ \A s \in SUBSET S : s # {} => it[s] = g[Chosen(s)] + it[s \ {Chosen(s)}]
<1>1. it = [s \in SUBSET S |-> IF s = {} THEN 0 ELSE g[Chosen(s)] + it[s \ {Chosen(s)}]]
  BY DEF IsFold
<1>2. \A s \in SUBSET S : it[s] = IF s = {} THEN 0 ELSE g[Chosen(s)] + it[s \ {Chosen(s)}]
  BY <1>1
<1>3. {} \in SUBSET S
  OBVIOUS
<1> QED BY <1>2, <1>3

\* Two folds agree wherever what they sum agrees.
LEMMA FoldAgree ==
    ASSUME NEW S, IsFiniteSet(S), NEW T \in SUBSET S, NEW g, NEW h,
           \A x \in T : g[x] = h[x],
           NEW a, IsFold(a, g, S), NEW b, IsFold(b, h, T)
    PROVE  \A s \in SUBSET T : a[s] = b[s]
<1> DEFINE Bad == {n \in Nat : \E s \in SUBSET T : Cardinality(s) = n /\ a[s] # b[s]}
<1>1. \A s \in SUBSET T : Cardinality(s) \in Nat
  <2> SUFFICES ASSUME NEW s \in SUBSET T PROVE Cardinality(s) \in Nat
    OBVIOUS
  <2>1. IsFiniteSet(s)
    BY FS_Subset
  <2> QED BY <2>1, FS_CardinalityType
<1>2. Bad = {}
  <2> SUFFICES ASSUME Bad # {} PROVE FALSE
    OBVIOUS
  <2>1. Bad \in SUBSET Nat
    OBVIOUS
  <2>2. PICK m \in Bad : \A n \in Bad : m <= n
    <3> HIDE DEF Bad
    <3> QED BY <2>1, LeastExists
  <2>3. PICK s \in SUBSET T : Cardinality(s) = m /\ a[s] # b[s]
    BY <2>2
  <2>4. s # {}
    <3>1. a[{}] = 0
      BY FoldStep
    <3>2. b[{}] = 0
      BY FoldStep
    <3> QED BY <2>3, <3>1, <3>2
  <2>5. Chosen(s) \in s
    BY <2>4, ChosenIsMember
  <2>6. a[s] = g[Chosen(s)] + a[s \ {Chosen(s)}]
    BY <2>3, <2>4, FoldStep
  <2>7. b[s] = h[Chosen(s)] + b[s \ {Chosen(s)}]
    BY <2>3, <2>4, FoldStep
  <2>8. s \ {Chosen(s)} \in SUBSET T /\ m \in Nat /\ Cardinality(s \ {Chosen(s)}) = m - 1 /\ m - 1 \in Nat
    BY <2>3, <2>5, OneLess
  <2>9. a[s \ {Chosen(s)}] = b[s \ {Chosen(s)}]
    <3> SUFFICES ASSUME a[s \ {Chosen(s)}] # b[s \ {Chosen(s)}] PROVE FALSE
      OBVIOUS
    <3>1. m - 1 \in Bad
      BY <2>8
    <3>2. m <= m - 1
      BY <2>2, <3>1
    <3> QED BY <2>8, <3>2
  <2>10. g[Chosen(s)] = h[Chosen(s)]
    BY <2>3, <2>5
  <2> QED BY <2>3, <2>6, <2>7, <2>9, <2>10
<1> QED BY <1>1, <1>2

\* The sum of the whole set is what any of its folds comes to.
LEMMA FoldIsSum ==
    ASSUME NEW g, NEW S, IntValued(g, S), NEW it, IsFold(it, g, S)
    PROVE  SumOf(g, S) = it[S]
<1> DEFINE f == CHOOSE k : IsFold(k, g, S)
<1>1. SumOf(g, S) = f[S]
  BY Zenon DEF SumOf, MapThenSumSet, MapThenFoldSet, IsFold, Chosen
<1>2. IsFold(f, g, S)
  BY FoldExists
<1> HIDE DEF f
<1>3. IsFiniteSet(S)
  BY DEF IntValued
<1> QED BY <1>1, <1>2, <1>3, FoldAgree

\* One fold gives the sums of all subsets.
LEMMA SumsOfSubsets ==
    ASSUME NEW g, NEW S, IntValued(g, S)
    PROVE  \E it \in [SUBSET S -> Int] :
               IsFold(it, g, S) /\ \A T \in SUBSET S : SumOf(g, T) = it[T]
<1>1. PICK it \in [SUBSET S -> Int] : IsFold(it, g, S)
  BY FoldExists
<1>2. ASSUME NEW T \in SUBSET S PROVE SumOf(g, T) = it[T]
  <2>1. IntValued(g, T)
    BY FS_Subset DEF IntValued
  <2>2. PICK k \in [SUBSET T -> Int] : IsFold(k, g, T)
    BY <2>1, FoldExists
  <2>3. IsFiniteSet(S)
    BY DEF IntValued
  <2>4. it[T] = k[T]
    BY <1>1, <2>2, <2>3, FoldAgree
  <2> QED BY <2>1, <2>2, <2>4, FoldIsSum
<1> QED BY <1>1, <1>2

\* Nothing sums to nothing.
LEMMA SumOfEmpty == ASSUME NEW g PROVE SumOf(g, {}) = 0
<1>1. IntValued(g, {})
  BY FS_EmptySet DEF IntValued
<1>2. PICK it \in [SUBSET {} -> Int] : IsFold(it, g, {}) /\ \A T \in SUBSET {} : SumOf(g, T) = it[T]
  BY <1>1, SumsOfSubsets
<1> QED BY <1>2, FoldStep

LEMMA SumIsInt == ASSUME NEW g, NEW S, IntValued(g, S) PROVE SumOf(g, S) \in Int
<1>1. PICK it \in [SUBSET S -> Int] : IsFold(it, g, S) /\ \A T \in SUBSET S : SumOf(g, T) = it[T]
  BY SumsOfSubsets
<1>2. S \in SUBSET S
  OBVIOUS
<1> QED BY <1>1, <1>2

\* A sum may be taken in any order: any member can be split off.
LEMMA SumOfRemove ==
    ASSUME NEW g, NEW S, IntValued(g, S), NEW y \in S
    PROVE  SumOf(g, S) = g[y] + SumOf(g, S \ {y})
<1>0. IsFiniteSet(S) /\ \A x \in S : g[x] \in Int
  BY DEF IntValued
<1>1. PICK it \in [SUBSET S -> Int] : IsFold(it, g, S) /\ \A T \in SUBSET S : SumOf(g, T) = it[T]
  BY SumsOfSubsets
<1> DEFINE Bad == {n \in Nat : \E s \in SUBSET S : \E x \in s :
                                   Cardinality(s) = n /\ it[s] # g[x] + it[s \ {x}]}
<1>2. Bad = {}
  <2> SUFFICES ASSUME Bad # {} PROVE FALSE
    OBVIOUS
  <2>1. Bad \in SUBSET Nat
    OBVIOUS
  <2>2. PICK m \in Bad : \A n \in Bad : m <= n
    <3> HIDE DEF Bad
    <3> QED BY <2>1, LeastExists
  <2>3. PICK s \in SUBSET S : \E x \in s : Cardinality(s) = m /\ it[s] # g[x] + it[s \ {x}]
    BY <2>2
  <2>4. PICK x \in s : Cardinality(s) = m /\ it[s] # g[x] + it[s \ {x}]
    BY <2>3
  <2>5. PICK c : c = Chosen(s)
    OBVIOUS
  <2>6. c \in s /\ it[s] = g[c] + it[s \ {c}]
    BY <1>1, <2>3, <2>4, <2>5, FoldStep, ChosenIsMember
  <2>7. c # x
    BY <2>4, <2>6
  <2>8. s \ {c} \in SUBSET S /\ x \in s \ {c} /\ c \in s \ {x} /\ s \ {x} \in SUBSET S
    BY <2>3, <2>4, <2>6, <2>7
  <2>9. m \in Nat \ {0} /\ Cardinality(s \ {c}) = m - 1 /\ Cardinality(s \ {x}) = m - 1
    BY <1>0, <2>3, <2>4, <2>6, OneLess
  <2>10. \A t \in SUBSET S : \A z \in t : Cardinality(t) = m - 1 => it[t] = g[z] + it[t \ {z}]
    <3> SUFFICES ASSUME NEW t \in SUBSET S, NEW z \in t, Cardinality(t) = m - 1,
                        it[t] # g[z] + it[t \ {z}]
                 PROVE  FALSE
      OBVIOUS
    <3>1. m - 1 \in Nat
      BY <2>9
    <3>2. m - 1 \in Bad
      BY <3>1
    <3>3. m <= m - 1
      BY <2>2, <3>2
    <3> QED BY <2>9, <3>3
  <2> HIDE DEF Bad
  <2>11. it[s \ {c}] = g[x] + it[(s \ {c}) \ {x}]
    BY <2>8, <2>9, <2>10
  <2>12. it[s \ {x}] = g[c] + it[(s \ {x}) \ {c}]
    BY <2>8, <2>9, <2>10
  <2>13. (s \ {c}) \ {x} = (s \ {x}) \ {c} /\ (s \ {c}) \ {x} \in SUBSET S
    BY <2>3
  <2>14. PICK r \in Int : r = it[(s \ {c}) \ {x}]
    BY <1>1, <2>13
  <2>15. g[x] \in Int /\ g[c] \in Int
    BY <1>0, <2>3, <2>4, <2>6
  <2>16. it[s] = g[c] + (g[x] + r) /\ it[s \ {x}] = g[c] + r
    BY <2>6, <2>11, <2>12, <2>13, <2>14
  <2>17. g[c] + (g[x] + r) = g[x] + (g[c] + r)
    BY <2>14, <2>15
  <2> QED BY <2>4, <2>16, <2>17
<1>3. Cardinality(S) \in Nat /\ S \in SUBSET S /\ S \ {y} \in SUBSET S
  BY <1>0, FS_CardinalityType
<1>4. it[S] = g[y] + it[S \ {y}]
  BY <1>2, <1>3
<1> QED BY <1>1, <1>3, <1>4

\* What a new member adds.
LEMMA SumOfAdd ==
    ASSUME NEW g, NEW S, IntValued(g, S), NEW y, y \notin S, g[y] \in Int
    PROVE  IntValued(g, S \union {y}) /\ SumOf(g, S \union {y}) = g[y] + SumOf(g, S)
<1>1. IntValued(g, S \union {y})
  BY FS_AddElement DEF IntValued
<1>2. (S \union {y}) \ {y} = S
  OBVIOUS
<1> QED BY <1>1, <1>2, SumOfRemove

\* Functions that agree on a set have the same sum over it.
LEMMA SumOfAgrees ==
    ASSUME NEW g, NEW h, NEW S, IntValued(g, S), \A x \in S : g[x] = h[x]
    PROVE  IntValued(h, S) /\ SumOf(g, S) = SumOf(h, S)
<1>1. IntValued(h, S) /\ IsFiniteSet(S)
  BY DEF IntValued
<1>2. PICK a \in [SUBSET S -> Int] : IsFold(a, g, S)
  BY FoldExists
<1>3. PICK b \in [SUBSET S -> Int] : IsFold(b, h, S)
  BY <1>1, FoldExists
<1>4. a[S] = b[S]
  BY <1>1, <1>2, <1>3, FoldAgree
<1> QED BY <1>1, <1>2, <1>3, <1>4, FoldIsSum

\* A property of the empty set that survives one more member holds of every
\* finite set; the property is given as the set of subsets that have it.
LEMMA SubsetInduction ==
    ASSUME NEW S, IsFiniteSet(S), NEW P \in SUBSET (SUBSET S), {} \in P,
           \A t \in P : \A x \in S \ t : t \union {x} \in P
    PROVE  S \in P
<1> DEFINE Bad == {n \in Nat : \E t \in SUBSET S : Cardinality(t) = n /\ t \notin P}
<1>1. Bad = {}
  <2> SUFFICES ASSUME Bad # {} PROVE FALSE
    OBVIOUS
  <2>1. Bad \in SUBSET Nat
    OBVIOUS
  <2>2. PICK m \in Bad : \A n \in Bad : m <= n
    <3> HIDE DEF Bad
    <3> QED BY <2>1, LeastExists
  <2>3. PICK t \in SUBSET S : Cardinality(t) = m /\ t \notin P
    BY <2>2
  <2>4. PICK x \in t : TRUE
    BY <2>3
  <2>5. t \ {x} \in SUBSET S /\ m \in Nat \ {0} /\ Cardinality(t \ {x}) = m - 1
    BY <2>3, <2>4, OneLess
  <2>6. t \ {x} \in P
    <3> SUFFICES ASSUME t \ {x} \notin P PROVE FALSE
      OBVIOUS
    <3>0. m - 1 \in Nat
      BY <2>5
    <3>1. m - 1 \in Bad
      BY <2>5, <3>0
    <3>2. m <= m - 1
      BY <2>2, <3>1
    <3> QED BY <2>5, <3>2
  <2>7. x \in S \ (t \ {x}) /\ (t \ {x}) \union {x} = t
    BY <2>3, <2>4
  <2>8. (t \ {x}) \union {x} \in P
    BY <2>6, <2>7
  <2> QED BY <2>3, <2>7, <2>8
<1>2. Cardinality(S) \in Nat /\ S \in SUBSET S
  BY FS_CardinalityType
<1> QED BY <1>1, <1>2

LEMMA IntValuedParts ==
    ASSUME NEW g, NEW S, IntValued(g, S), NEW T \in SUBSET S
    PROVE  IntValued(g, T) /\ IsFiniteSet(T)
BY FS_Subset DEF IntValued

\* What lies outside the support adds nothing.
LEMMA SumOfSupport ==
    ASSUME NEW g, NEW S, IntValued(g, S), NEW T \in SUBSET S, \A x \in S \ T : g[x] = 0
    PROVE  SumOf(g, S) = SumOf(g, T)
<1> DEFINE P == {t \in SUBSET (S \ T) : SumOf(g, T \union t) = SumOf(g, T)}
<1>0. IntValued(g, T) /\ IsFiniteSet(S \ T) /\ SumOf(g, T) \in Int
  BY IntValuedParts, SumIsInt
<1>1. {} \in P
  <2>1. T \union {} = T
    OBVIOUS
  <2> QED BY <2>1
<1>2. ASSUME NEW t \in P, NEW x \in (S \ T) \ t PROVE t \union {x} \in P
  <2>1. t \in SUBSET (S \ T) /\ SumOf(g, T \union t) = SumOf(g, T)
    OBVIOUS
  <2>2. PICK u : u = T \union t
    OBVIOUS
  <2>3. u \in SUBSET S /\ x \notin u /\ g[x] = 0 /\ T \union (t \union {x}) = u \union {x}
    BY <2>1, <2>2
  <2>4. IntValued(g, u)
    BY <2>3, IntValuedParts
  <2>5. SumOf(g, u \union {x}) = g[x] + SumOf(g, u)
    BY <2>3, <2>4, SumOfAdd
  <2>6. SumOf(g, u \union {x}) = SumOf(g, T)
    BY <1>0, <2>1, <2>2, <2>3, <2>5
  <2> QED BY <2>1, <2>3, <2>6
<1>3. S \ T \in P
  <2>1. P \in SUBSET (SUBSET (S \ T))
    OBVIOUS
  <2> HIDE DEF P
  <2> QED BY <1>0, <1>1, <1>2, <2>1, SubsetInduction
<1>4. T \union (S \ T) = S
  OBVIOUS
<1> QED BY <1>3, <1>4

\* A function that is everywhere a / v of another sums to a / v of its sum.
LEMMA SumOfScaled ==
    ASSUME NEW g, NEW h, NEW S, IntValued(g, S), IntValued(h, S), NEW a \in Int, NEW v \in Int,
           \A x \in S : h[x] * v = a * g[x]
    PROVE  SumOf(h, S) * v = a * SumOf(g, S)
<1> DEFINE P == {t \in SUBSET S : SumOf(h, t) * v = a * SumOf(g, t)}
<1>1. {} \in P
  BY SumOfEmpty
<1>2. ASSUME NEW t \in P, NEW x \in S \ t PROVE t \union {x} \in P
  <2>1. t \in SUBSET S /\ SumOf(h, t) * v = a * SumOf(g, t)
    OBVIOUS
  <2>2. IntValued(g, t) /\ IntValued(h, t)
    BY <2>1, IntValuedParts
  <2>3. g[x] \in Int /\ h[x] \in Int /\ h[x] * v = a * g[x]
    BY DEF IntValued
  <2>4. SumOf(g, t \union {x}) = g[x] + SumOf(g, t)
    BY <2>2, <2>3, SumOfAdd
  <2>5. SumOf(h, t \union {x}) = h[x] + SumOf(h, t)
    BY <2>2, <2>3, SumOfAdd
  <2>6. PICK p \in Int : p = SumOf(g, t)
    BY <2>2, SumIsInt
  <2>7. PICK q \in Int : q = SumOf(h, t)
    BY <2>2, SumIsInt
  <2>8. PICK y \in Int : y = g[x]
    BY <2>3
  <2>9. PICK z \in Int : z = h[x]
    BY <2>3
  <2>10. (z + q) * v = z * v + q * v /\ a * (y + p) = a * y + a * p
    OBVIOUS
  <2>11. z * v = a * y /\ q * v = a * p
    BY <2>1, <2>3, <2>6, <2>7, <2>8, <2>9
  <2>12. SumOf(h, t \union {x}) * v = a * SumOf(g, t \union {x})
    BY <2>4, <2>5, <2>6, <2>7, <2>8, <2>9, <2>10, <2>11
  <2> QED BY <2>1, <2>12
<1>3. IsFiniteSet(S) /\ P \in SUBSET (SUBSET S)
  BY DEF IntValued
<1>4. S \in P
  <2> HIDE DEF P
  <2> QED BY <1>1, <1>2, <1>3, SubsetInduction
<1> QED BY <1>4

\* Sums of what is smaller are smaller.
LEMMA SumOfMonotone ==
    ASSUME NEW g, NEW h, NEW S, IntValued(g, S), IntValued(h, S), \A x \in S : g[x] <= h[x]
    PROVE  SumOf(g, S) <= SumOf(h, S)
<1> DEFINE P == {t \in SUBSET S : SumOf(g, t) <= SumOf(h, t)}
<1>1. {} \in P
  BY SumOfEmpty
<1>2. ASSUME NEW t \in P, NEW x \in S \ t PROVE t \union {x} \in P
  <2>1. t \in SUBSET S /\ SumOf(g, t) <= SumOf(h, t)
    OBVIOUS
  <2>2. IntValued(g, t) /\ IntValued(h, t)
    BY <2>1, IntValuedParts
  <2>3. g[x] \in Int /\ h[x] \in Int /\ g[x] <= h[x]
    BY DEF IntValued
  <2>4. SumOf(g, t \union {x}) = g[x] + SumOf(g, t)
    BY <2>2, <2>3, SumOfAdd
  <2>5. SumOf(h, t \union {x}) = h[x] + SumOf(h, t)
    BY <2>2, <2>3, SumOfAdd
  <2>6. SumOf(g, t) \in Int /\ SumOf(h, t) \in Int
    BY <2>2, SumIsInt
  <2>7. SumOf(g, t \union {x}) <= SumOf(h, t \union {x})
    BY <2>1, <2>3, <2>4, <2>5, <2>6
  <2> QED BY <2>1, <2>7
<1>3. IsFiniteSet(S) /\ P \in SUBSET (SUBSET S)
  BY DEF IntValued
<1>4. S \in P
  <2> HIDE DEF P
  <2> QED BY <1>1, <1>2, <1>3, SubsetInduction
<1> QED BY <1>4

\* Two disjoint parts.
LEMMA SumOfParts ==
    ASSUME NEW g, NEW S, NEW T, IntValued(g, S), IntValued(g, T), S \cap T = {}
    PROVE  IntValued(g, S \union T) /\ SumOf(g, S \union T) = SumOf(g, S) + SumOf(g, T)
<1> DEFINE P == {t \in SUBSET T : SumOf(g, S \union t) = SumOf(g, S) + SumOf(g, t)}
<1>0. IsFiniteSet(S) /\ IsFiniteSet(T) /\ IntValued(g, S \union T) /\ SumOf(g, S) \in Int
  BY FS_Union, SumIsInt DEF IntValued
<1>1. {} \in P
  <2>1. S \union {} = S
    OBVIOUS
  <2> QED BY <1>0, <2>1, SumOfEmpty
<1>2. ASSUME NEW t \in P, NEW x \in T \ t PROVE t \union {x} \in P
  <2>1. t \in SUBSET T /\ SumOf(g, S \union t) = SumOf(g, S) + SumOf(g, t)
    OBVIOUS
  <2>2. PICK u : u = S \union t
    OBVIOUS
  <2>3. u \in SUBSET (S \union T) /\ x \notin u /\ S \union (t \union {x}) = u \union {x}
    BY <2>1, <2>2
  <2>4. IntValued(g, u) /\ IntValued(g, t) /\ g[x] \in Int
    BY <1>0, <2>1, <2>3, IntValuedParts DEF IntValued
  <2>5. SumOf(g, u \union {x}) = g[x] + SumOf(g, u)
    BY <2>3, <2>4, SumOfAdd
  <2>6. SumOf(g, t \union {x}) = g[x] + SumOf(g, t)
    BY <2>1, <2>4, SumOfAdd
  <2>7. SumOf(g, t) \in Int /\ SumOf(g, u) = SumOf(g, S) + SumOf(g, t)
    BY <2>1, <2>2, <2>4, SumIsInt
  <2>8. SumOf(g, u \union {x}) = SumOf(g, S) + SumOf(g, t \union {x})
    BY <1>0, <2>4, <2>5, <2>6, <2>7
  <2> QED BY <2>1, <2>3, <2>8
<1>3. P \in SUBSET (SUBSET T)
  OBVIOUS
<1>4. T \in P
  <2> HIDE DEF P
  <2> QED BY <1>0, <1>1, <1>2, <1>3, SubsetInduction
<1> QED BY <1>0, <1>4

\* Members may be renamed.
LEMMA SumOfRenamed ==
    ASSUME NEW g, NEW h, NEW f, NEW S, NEW R, IntValued(h, S),
           \A x \in S : f[x] \in R /\ g[f[x]] = h[x],
           \A x \in S, y \in S : f[x] = f[y] => x = y,
           \A r \in R : \E x \in S : r = f[x]
    PROVE  IntValued(g, R) /\ SumOf(g, R) = SumOf(h, S)
<1> DEFINE Im(t) == {r \in R : \E x \in t : r = f[x]}
           P == {t \in SUBSET S : IntValued(g, Im(t)) /\ SumOf(g, Im(t)) = SumOf(h, t)}
<1>1. {} \in P
  <2>1. Im({}) = {} /\ IntValued(g, {})
    BY FS_EmptySet DEF IntValued
  <2> HIDE DEF Im
  <2> QED BY <2>1, SumOfEmpty
<1>2. ASSUME NEW t \in P, NEW x \in S \ t PROVE t \union {x} \in P
  <2>1. t \in SUBSET S /\ IntValued(g, Im(t)) /\ SumOf(g, Im(t)) = SumOf(h, t)
    OBVIOUS
  <2>2. Im(t \union {x}) = Im(t) \union {f[x]} /\ f[x] \notin Im(t)
    <3>1. f[x] \in R
      OBVIOUS
    <3>2. \A y \in t : y \in S /\ y # x
      BY <2>1
    <3>3. f[x] \notin Im(t)
      BY <3>1, <3>2
    <3>4. ASSUME NEW r PROVE r \in Im(t \union {x}) <=> r \in Im(t) \union {f[x]}
      BY <3>1
    <3> QED BY <3>3, <3>4
  <2>3. g[f[x]] = h[x] /\ h[x] \in Int /\ IntValued(h, t)
    BY <2>1, IntValuedParts DEF IntValued
  <2> HIDE DEF Im
  <2>4. IntValued(g, Im(t) \union {f[x]}) /\ SumOf(g, Im(t) \union {f[x]}) = g[f[x]] + SumOf(g, Im(t))
    BY <2>1, <2>2, <2>3, SumOfAdd
  <2>5. SumOf(h, t \union {x}) = h[x] + SumOf(h, t)
    BY <2>1, <2>3, SumOfAdd
  <2>6. IntValued(g, Im(t \union {x})) /\ SumOf(g, Im(t \union {x})) = SumOf(h, t \union {x})
    BY <2>1, <2>2, <2>3, <2>4, <2>5
  <2> QED BY <2>1, <2>6
<1>3. IsFiniteSet(S) /\ P \in SUBSET (SUBSET S)
  BY DEF IntValued
<1>4. S \in P
  <2> HIDE DEF P
  <2> QED BY <1>1, <1>2, <1>3, SubsetInduction
<1>5. Im(S) = R
  OBVIOUS
<1> QED BY <1>4, <1>5

\* Two sums over the same members.
LEMMA SumOfBoth ==
    ASSUME NEW g, NEW h, NEW k, NEW S, IntValued(g, S), IntValued(h, S),
           \A x \in S : k[x] = g[x] + h[x]
    PROVE  IntValued(k, S) /\ SumOf(k, S) = SumOf(g, S) + SumOf(h, S)
<1> DEFINE P == {t \in SUBSET S : SumOf(k, t) = SumOf(g, t) + SumOf(h, t)}
<1>0. IntValued(k, S)
  BY DEF IntValued
<1>1. {} \in P
  BY SumOfEmpty
<1>2. ASSUME NEW t \in P, NEW x \in S \ t PROVE t \union {x} \in P
  <2>1. t \in SUBSET S /\ SumOf(k, t) = SumOf(g, t) + SumOf(h, t)
    OBVIOUS
  <2>2. IntValued(g, t) /\ IntValued(h, t) /\ IntValued(k, t)
    BY <1>0, <2>1, IntValuedParts
  <2>3. g[x] \in Int /\ h[x] \in Int /\ k[x] \in Int /\ k[x] = g[x] + h[x]
    BY <1>0 DEF IntValued
  <2>4. SumOf(g, t \union {x}) = g[x] + SumOf(g, t)
    BY <2>2, <2>3, SumOfAdd
  <2>5. SumOf(h, t \union {x}) = h[x] + SumOf(h, t)
    BY <2>2, <2>3, SumOfAdd
  <2>6. SumOf(k, t \union {x}) = k[x] + SumOf(k, t)
    BY <2>2, <2>3, SumOfAdd
  <2>7. SumOf(g, t) \in Int /\ SumOf(h, t) \in Int
    BY <2>2, SumIsInt
  <2>8. SumOf(k, t \union {x}) = SumOf(g, t \union {x}) + SumOf(h, t \union {x})
    BY <2>1, <2>3, <2>4, <2>5, <2>6, <2>7
  <2> QED BY <2>1, <2>8
<1>3. IsFiniteSet(S) /\ P \in SUBSET (SUBSET S)
  BY DEF IntValued
<1>4. S \in P
  <2> HIDE DEF P
  <2> QED BY <1>1, <1>2, <1>3, SubsetInduction
<1> QED BY <1>0, <1>4

\* Nothing negative sums to something negative.
LEMMA SumOfNaturals ==
    ASSUME NEW g, NEW S, IsFiniteSet(S), \A s \in S : g[s] \in Nat
    PROVE  IntValued(g, S) /\ SumOf(g, S) \in Nat
<1> DEFINE z == [s \in S |-> 0]
<1>1. IntValued(g, S) /\ IntValued(z, S) /\ \A s \in S : z[s] <= g[s]
  BY DEF IntValued
<1>2. SumOf(z, S) = SumOf(z, {})
  <2>1. {} \in SUBSET S /\ \A s \in S \ {} : z[s] = 0
    OBVIOUS
  <2> HIDE DEF z
  <2> QED BY <1>1, <2>1, SumOfSupport
<1>3. SumOf(z, S) <= SumOf(g, S)
  <2> HIDE DEF z
  <2> QED BY <1>1, SumOfMonotone
<1> QED BY <1>1, <1>2, <1>3, SumOfEmpty, SumIsInt

\* A sum over one is its value.
LEMMA SumOfOne == ASSUME NEW g, NEW x, g[x] \in Int PROVE SumOf(g, {x}) = g[x]
<1>1. IntValued(g, {x})
  BY FS_Singleton DEF IntValued
<1>2. SumOf(g, {x}) = g[x] + SumOf(g, {x} \ {x})
  BY <1>1, SumOfRemove
<1>3. {x} \ {x} = {}
  OBVIOUS
<1> QED BY <1>2, <1>3, SumOfEmpty

\* Counting up from 0 reaches every number.
LEMMA CountUp ==
    ASSUME NEW n \in Nat, NEW G, 0 \in G, \A k \in Nat : k < n /\ k \in G => k + 1 \in G
    PROVE  \A k \in 0 .. n : k \in G
<1> DEFINE Bad == {k \in 0 .. n : k \notin G}
<1>1. SUFFICES ASSUME Bad # {} PROVE FALSE
  OBVIOUS
<1>2. Bad \in SUBSET Nat
  OBVIOUS
<1>3. PICK m \in Bad : \A k \in Bad : m <= k
  BY <1>1, <1>2, LeastExists
<1>4. m \in Nat /\ m # 0 /\ m <= n /\ m \notin G
  BY <1>3
<1>5. m - 1 \in Nat /\ m - 1 < n /\ m - 1 \notin Bad
  BY <1>3, <1>4
<1>6. m - 1 \in G
  BY <1>4, <1>5
<1> QED BY <1>4, <1>5, <1>6

\* f[k] is what is selected of the first k elements.
SelectsUpTo(f, s, S, n) ==
    f = [k \in 0 .. n |-> IF k = 0 THEN << >>
                          ELSE IF s[k] \in S THEN Append(f[k - 1], s[k]) ELSE f[k - 1]]

LEMMA SelectsNone ==
    ASSUME NEW s, NEW S, NEW n \in Nat, NEW f, SelectsUpTo(f, s, S, n)
    PROVE  f[0] = << >>
<1>1. f = [k \in 0 .. n |-> IF k = 0 THEN << >>
                            ELSE IF s[k] \in S THEN Append(f[k - 1], s[k]) ELSE f[k - 1]]
  BY DEF SelectsUpTo
<1>2. 0 \in 0 .. n
  OBVIOUS
<1>3. \A k \in 0 .. n : k = 0 => f[k] = << >>
  BY <1>1
<1> QED BY <1>2, <1>3

LEMMA SelectsNext ==
    ASSUME NEW s, NEW S, NEW n \in Nat, NEW f, SelectsUpTo(f, s, S, n)
    PROVE  \A k \in Nat : k < n => f[k + 1] = IF s[k + 1] \in S THEN Append(f[k], s[k + 1]) ELSE f[k]
<1>1. f = [k \in 0 .. n |-> IF k = 0 THEN << >>
                            ELSE IF s[k] \in S THEN Append(f[k - 1], s[k]) ELSE f[k - 1]]
  BY DEF SelectsUpTo
<1>2. \A k \in 0 .. n : f[k] = IF k = 0 THEN << >>
                               ELSE IF s[k] \in S THEN Append(f[k - 1], s[k]) ELSE f[k - 1]
  BY <1>1
<1>3. \A k \in Nat : k < n => k + 1 \in 0 .. n /\ k + 1 # 0 /\ (k + 1) - 1 = k
  OBVIOUS
<1> QED BY <1>2, <1>3

LEMMA SelectionGrows ==
    ASSUME NEW s, NEW S, NEW n \in Nat, NEW h, SelectsUpTo(h, s, S, n)
    PROVE  \E f : SelectsUpTo(f, s, S, n + 1)
<1> DEFINE f == [k \in 0 .. n + 1 |-> IF k <= n THEN h[k]
                                      ELSE IF s[k] \in S THEN Append(h[k - 1], s[k]) ELSE h[k - 1]]
           g == [k \in 0 .. n + 1 |-> IF k = 0 THEN << >>
                                      ELSE IF s[k] \in S THEN Append(f[k - 1], s[k]) ELSE f[k - 1]]
<1>1. /\ h[0] = << >>
      /\ \A k \in Nat : k < n => h[k + 1] = IF s[k + 1] \in S THEN Append(h[k], s[k + 1]) ELSE h[k]
  BY SelectsNone, SelectsNext
<1>2. \A k \in 0 .. n + 1 : f[k] = g[k]
  <2> SUFFICES ASSUME NEW k \in 0 .. n + 1 PROVE f[k] = g[k]
    OBVIOUS
  <2>1. CASE k = 0
    BY <1>1, <2>1
  <2>2. CASE k # 0
    <3>1. k - 1 \in 0 .. n + 1 /\ k - 1 <= n /\ f[k - 1] = h[k - 1]
      BY <2>2
    <3>2. g[k] = IF s[k] \in S THEN Append(h[k - 1], s[k]) ELSE h[k - 1]
      BY <2>2, <3>1
    <3>3. CASE k <= n
      <4>1. k - 1 \in Nat /\ k - 1 < n /\ (k - 1) + 1 = k /\ f[k] = h[k]
        BY <2>2, <3>3
      <4> HIDE DEF f, g
      <4>2. h[(k - 1) + 1] = IF s[(k - 1) + 1] \in S THEN Append(h[k - 1], s[(k - 1) + 1]) ELSE h[k - 1]
        BY <1>1, <4>1
      <4> QED BY <3>2, <4>1, <4>2
    <3>4. CASE ~(k <= n)
      <4>1. f[k] = IF s[k] \in S THEN Append(h[k - 1], s[k]) ELSE h[k - 1]
        BY <3>4
      <4> QED BY <3>2, <4>1
    <3> QED BY <3>3, <3>4
  <2> QED BY <2>1, <2>2
<1>3. f = g
  BY <1>2
<1>4. SelectsUpTo(f, s, S, n + 1)
  BY <1>3 DEF SelectsUpTo
<1> QED BY <1>4

LEMMA SelectionExists ==
    ASSUME NEW s, NEW S, NEW n \in Nat
    PROVE  \E f : SelectsUpTo(f, s, S, n)
<1> DEFINE G == {k \in Nat : \E f : SelectsUpTo(f, s, S, k)}
<1>1. 0 \in G
  <2> DEFINE f == [k \in 0 .. 0 |-> << >>]
  <2>1. f = [k \in 0 .. 0 |-> IF k = 0 THEN << >>
                              ELSE IF s[k] \in S THEN Append(f[k - 1], s[k]) ELSE f[k - 1]]
    OBVIOUS
  <2>2. SelectsUpTo(f, s, S, 0)
    BY <2>1 DEF SelectsUpTo
  <2> QED BY <2>2
<1>2. \A k \in Nat : k < n /\ k \in G => k + 1 \in G
  BY SelectionGrows
<1> HIDE DEF G
<1>3. n \in G
  BY <1>1, <1>2, CountUp
<1> QED BY <1>3 DEF G

\* Sequences that agree at first are selected from alike at first.
LEMMA SelectionAgrees ==
    ASSUME NEW s, NEW S, NEW t, NEW T, NEW n \in Nat, NEW m \in Nat, n <= m,
           NEW f, SelectsUpTo(f, s, S, n), NEW g, SelectsUpTo(g, t, T, m),
           \A k \in 1 .. n : s[k] = t[k] /\ (s[k] \in S <=> t[k] \in T)
    PROVE  \A k \in 0 .. n : f[k] = g[k]
<1> DEFINE G == {k \in Nat : f[k] = g[k]}
<1>1. 0 \in G
  BY SelectsNone
<1>2. ASSUME NEW k \in Nat, k < n, k \in G PROVE k + 1 \in G
  <2>1. f[k + 1] = IF s[k + 1] \in S THEN Append(f[k], s[k + 1]) ELSE f[k]
    BY <1>2, SelectsNext
  <2>2. g[k + 1] = IF t[k + 1] \in T THEN Append(g[k], t[k + 1]) ELSE g[k]
    <3>1. k < m
      BY <1>2
    <3> QED BY <3>1, SelectsNext
  <2>3. k + 1 \in 1 .. n
    BY <1>2
  <2>4. s[k + 1] = t[k + 1] /\ (s[k + 1] \in S <=> t[k + 1] \in T)
    BY <2>3
  <2> QED BY <1>2, <2>1, <2>2, <2>4
<1> HIDE DEF G
<1>3. \A k \in 0 .. n : k \in G
  BY <1>1, <1>2, CountUp
<1> QED BY <1>3 DEF G

LEMMA SelectedByCount ==
    ASSUME NEW s, NEW S, NEW n \in Nat, n = Len(s)
    PROVE  \E f : SelectsUpTo(f, s, S, n) /\ Selected(s, S) = f[n]
<1> DEFINE f == CHOOSE f : f = [k \in 0 .. n |->
                    IF k = 0 THEN << >>
                    ELSE IF s[k] \in S THEN Append(f[k - 1], s[k]) ELSE f[k - 1]]
<1>1. Selected(s, S) = f[n]
  BY DEF Selected
<1>2. \E g : g = [k \in 0 .. n |->
                    IF k = 0 THEN << >>
                    ELSE IF s[k] \in S THEN Append(g[k - 1], s[k]) ELSE g[k - 1]]
  <2>1. PICK g : SelectsUpTo(g, s, S, n)
    BY SelectionExists
  <2> QED BY <2>1 DEF SelectsUpTo
<1>3. f = [k \in 0 .. n |-> IF k = 0 THEN << >>
                            ELSE IF s[k] \in S THEN Append(f[k - 1], s[k]) ELSE f[k - 1]]
  BY <1>2
<1> HIDE DEF f
<1>4. SelectsUpTo(f, s, S, n)
  BY <1>3 DEF SelectsUpTo
<1> QED BY <1>1, <1>4

LEMMA SelectedOfEmpty == ASSUME NEW S PROVE Selected(<< >>, S) = << >>
<1>1. PICK s, n : s = << >> /\ n \in Nat /\ n = 0 /\ n = Len(s)
  OBVIOUS
<1>2. PICK f : SelectsUpTo(f, s, S, n) /\ Selected(s, S) = f[n]
  BY <1>1, SelectedByCount
<1>3. f[0] = << >>
  BY <1>1, <1>2, SelectsNone
<1> QED BY <1>1, <1>2, <1>3

OneLonger(t, s, n) == n = Len(s) /\ n + 1 = Len(t) /\ \A k \in 1 .. n : s[k] = t[k]

\* One more element is looked at last.
LEMMA SelectedOfLonger ==
    ASSUME NEW s, NEW t, NEW S, NEW n \in Nat, OneLonger(t, s, n)
    PROVE  Selected(t, S) = IF t[n + 1] \in S THEN Append(Selected(s, S), t[n + 1])
                            ELSE Selected(s, S)
<1>1. PICK f : SelectsUpTo(f, s, S, n) /\ Selected(s, S) = f[n]
  BY SelectedByCount DEF OneLonger
<1>2. PICK m \in Nat : m = n + 1 /\ m = Len(t)
  BY DEF OneLonger
<1>3. PICK g : SelectsUpTo(g, t, S, m) /\ Selected(t, S) = g[m]
  BY <1>2, SelectedByCount
<1>4. n <= m /\ \A k \in 1 .. n : s[k] = t[k] /\ (s[k] \in S <=> t[k] \in S)
  BY <1>2 DEF OneLonger
<1>5. \A k \in 0 .. n : f[k] = g[k]
  BY <1>1, <1>3, <1>4, SelectionAgrees
<1>6. f[n] = g[n]
  BY <1>5
<1>7. \A k \in Nat : k < m => g[k + 1] = IF t[k + 1] \in S THEN Append(g[k], t[k + 1]) ELSE g[k]
  BY <1>3, SelectsNext
<1>8. g[n + 1] = IF t[n + 1] \in S THEN Append(g[n], t[n + 1]) ELSE g[n]
  BY <1>2, <1>7
<1> QED BY <1>1, <1>2, <1>3, <1>6, <1>8

LEMMA SelectedOfAppend ==
    ASSUME NEW E, NEW s \in Seq(E), NEW x \in E, NEW S
    PROVE  Selected(Append(s, x), S) = IF x \in S THEN Append(Selected(s, S), x) ELSE Selected(s, S)
<1>1. PICK n \in Nat : n = Len(s)
  BY LenProperties
<1>2. PICK t : t = Append(s, x)
  OBVIOUS
<1>3. n + 1 = Len(t) /\ t[n + 1] = x /\ \A k \in 1 .. n : s[k] = t[k]
  BY <1>1, <1>2, AppendRow
<1>4. Selected(t, S) = IF t[n + 1] \in S THEN Append(Selected(s, S), t[n + 1]) ELSE Selected(s, S)
  BY <1>1, <1>3, SelectedOfLonger DEF OneLonger
<1> QED BY <1>2, <1>3, <1>4

\* What is selected depends on the elements there are.
LEMMA SelectedAlike ==
    ASSUME NEW s, Len(s) \in Nat, NEW S, NEW T, \A k \in 1 .. Len(s) : s[k] \in S <=> s[k] \in T
    PROVE  Selected(s, S) = Selected(s, T)
<1>0. PICK n \in Nat : n = Len(s)
  OBVIOUS
<1>1. PICK f : SelectsUpTo(f, s, S, n) /\ Selected(s, S) = f[n]
  BY <1>0, SelectedByCount
<1>2. PICK g : SelectsUpTo(g, s, T, n) /\ Selected(s, T) = g[n]
  BY <1>0, SelectedByCount
<1>3. \A k \in 1 .. n : s[k] = s[k] /\ (s[k] \in S <=> s[k] \in T)
  BY <1>0
<1>4. \A k \in 0 .. n : f[k] = g[k]
  BY <1>1, <1>2, <1>3, SelectionAgrees
<1> QED BY <1>1, <1>2, <1>4

Occurs(e, q) == \E i \in DOMAIN q : q[i] = e
NoneTwice(q) == \A i, j \in DOMAIN q : q[i] = q[j] => i = j

\* What is in a sequence, and that nothing is twice, when one element is added.
LEMMA AppendedElements ==
    ASSUME NEW E, NEW q \in Seq(E), NEW x \in E, NEW t, t = Append(q, x)
    PROVE  /\ t \in Seq(E)
           /\ \A e : Occurs(e, t) <=> Occurs(e, q) \/ e = x
           /\ NoneTwice(q) /\ ~Occurs(x, q) => NoneTwice(t)
<1>1. PICK n \in Nat : n = Len(q)
  BY LenProperties
<1>2. /\ t \in Seq(E) /\ DOMAIN q = 1 .. n /\ DOMAIN t = 1 .. n + 1 /\ t[n + 1] = x
      /\ \A i \in DOMAIN q : t[i] = q[i]
  BY <1>1, AppendRow
<1>3. \A i \in DOMAIN t : i \in DOMAIN q \/ i = n + 1
  BY <1>2
<1>4. n + 1 \in DOMAIN t /\ \A i \in DOMAIN q : i \in DOMAIN t
  BY <1>2
<1> QED BY <1>2, <1>3, <1>4 DEF Occurs, NoneTwice

\* What is selected are the elements in S, each as often as it was there.
LEMMA SelectedMembers ==
    ASSUME NEW E, NEW s \in Seq(E), NEW S
    PROVE  /\ Selected(s, S) \in Seq(E)
           /\ \A e : Occurs(e, Selected(s, S)) <=> e \in S /\ Occurs(e, s)
           /\ NoneTwice(s) => NoneTwice(Selected(s, S))
<1> DEFINE Part(n, e) == e \in S /\ \E i \in 1 .. n : s[i] = e
<1>0. PICK n \in Nat : n = Len(s)
  BY LenProperties
<1>1. DOMAIN s = 1 .. n /\ \A k \in 1 .. n : s[k] \in E
  BY <1>0, LenProperties, ElementOfSeq
<1>2. PICK f : SelectsUpTo(f, s, S, n) /\ Selected(s, S) = f[n]
  BY <1>0, SelectedByCount
<1>s. /\ f[0] = << >>
      /\ \A k \in Nat : k < n => f[k + 1] = IF s[k + 1] \in S THEN Append(f[k], s[k + 1]) ELSE f[k]
  <2>1. f[0] = << >>
    BY <1>2, SelectsNone
  <2>2. \A k \in Nat : k < n => f[k + 1] = IF s[k + 1] \in S THEN Append(f[k], s[k + 1]) ELSE f[k]
    BY <1>2, SelectsNext
  <2> QED BY <2>1, <2>2
<1> DEFINE G == {k \in Nat : /\ f[k] \in Seq(E)
                             /\ \A e : Occurs(e, f[k]) <=> Part(k, e)
                             /\ NoneTwice(s) => NoneTwice(f[k])}
<1>3. 0 \in G
  <2>1. << >> \in Seq(E) /\ NoneTwice(<< >>) /\ (\A e : ~Occurs(e, << >>)) /\ (\A e : ~Part(0, e))
    BY DEF Occurs, NoneTwice
  <2> HIDE DEF Part
  <2> QED BY <1>s, <2>1
<1>4. ASSUME NEW k \in Nat, k < n, k \in G PROVE k + 1 \in G
  <2>1. PICK q, r, x : q = f[k] /\ r = f[k + 1] /\ x = s[k + 1]
    OBVIOUS
  <2>2. (r = IF x \in S THEN Append(q, x) ELSE q) /\ x \in E
    BY <1>1, <1>s, <1>4, <2>1
  <2>3. \A e : Part(k + 1, e) <=> Part(k, e) \/ (e = x /\ e \in S)
    BY <2>1
  <2>4. q \in Seq(E) /\ (\A e : Occurs(e, q) <=> Part(k, e)) /\ (NoneTwice(s) => NoneTwice(q))
    BY <1>4, <2>1
  <2>5. NoneTwice(s) => ~Part(k, x)
    <3>1. \A i \in 1 .. k : i \in 1 .. n /\ i # k + 1
      BY <1>4
    <3>2. k + 1 \in 1 .. n
      BY <1>4
    <3> QED BY <1>1, <2>1, <3>1, <3>2 DEF NoneTwice
  <2>6. r \in Seq(E) /\ (\A e : Occurs(e, r) <=> Part(k + 1, e)) /\ (NoneTwice(s) => NoneTwice(r))
    <3>1. CASE x \notin S
      <4> HIDE DEF Part
      <4> QED BY <2>2, <2>3, <2>4, <3>1
    <3>2. CASE x \in S
      <4>0. r = Append(q, x)
        BY <2>2, <3>2
      <4>1. /\ r \in Seq(E)
            /\ \A e : Occurs(e, r) <=> Occurs(e, q) \/ e = x
            /\ NoneTwice(q) /\ ~Occurs(x, q) => NoneTwice(r)
        BY <2>2, <2>4, <4>0, AppendedElements
      <4> HIDE DEF Part
      <4> QED BY <2>3, <2>4, <2>5, <3>2, <4>1
    <3> QED BY <3>1, <3>2
  <2> HIDE DEF Part
  <2> QED BY <2>1, <2>6
<1>5. n \in G
  <2> HIDE DEF G
  <2>1. \A k \in 0 .. n : k \in G
    BY <1>3, <1>4, CountUp
  <2> QED BY <2>1
<1>6. \A e : Part(n, e) <=> e \in S /\ Occurs(e, s)
  BY <1>1 DEF Occurs
<1> QED BY <1>2, <1>5, <1>6

LEMMA OccursInRange ==
    ASSUME NEW q
    PROVE  (\A e : Occurs(e, q) <=> e \in Range(q)) /\ (NoneTwice(q) <=> IsInjective(q))
BY DEF Occurs, NoneTwice, Range, IsInjective

\* What is in a sequence, and that nothing is in it twice, when one element is added.
LEMMA AppendRange ==
    ASSUME NEW E, NEW q \in Seq(E), NEW x \in E
    PROVE  /\ Append(q, x) \in Seq(E) /\ Append(q, x) # << >>
           /\ Range(Append(q, x)) = Range(q) \cup {x}
           /\ IsInjective(q) /\ x \notin Range(q) => IsInjective(Append(q, x))
<1>1. PICK t : t = Append(q, x)
  OBVIOUS
<1>2. /\ t \in Seq(E)
      /\ \A e : Occurs(e, t) <=> Occurs(e, q) \/ e = x
      /\ NoneTwice(q) /\ ~Occurs(x, q) => NoneTwice(t)
  BY <1>1, AppendedElements
<1>3. t # << >>
  <2>1. Occurs(x, t)
    BY <1>2
  <2> QED BY <2>1 DEF Occurs
<1> QED BY <1>1, <1>2, <1>3, OccursInRange

\* What is selected are the elements in S, none more often than it was there.
LEMMA SelectedRange ==
    ASSUME NEW E, NEW s \in Seq(E), NEW S
    PROVE  /\ Selected(s, S) \in Seq(E)
           /\ Range(Selected(s, S)) = S \cap Range(s)
           /\ IsInjective(s) => IsInjective(Selected(s, S))
<1>1. PICK t : t = Selected(s, S)
  OBVIOUS
<1>2. /\ t \in Seq(E)
      /\ \A e : Occurs(e, t) <=> e \in S /\ Occurs(e, s)
      /\ NoneTwice(s) => NoneTwice(t)
  BY <1>1, SelectedMembers
<1>3. Range(t) = S \cap Range(s)
  BY <1>2, OccursInRange
<1>4. IsInjective(s) => IsInjective(t)
  BY <1>2, OccursInRange
<1> QED BY <1>1, <1>2, <1>3, <1>4

\* Two sequences one after the other.
LEMMA ConcatRange ==
    ASSUME NEW E, NEW s \in Seq(E), NEW t \in Seq(E)
    PROVE  /\ s \o t \in Seq(E)
           /\ Range(s \o t) = Range(s) \cup Range(t)
           /\ IsInjective(s) /\ IsInjective(t) /\ Range(s) \cap Range(t) = {} => IsInjective(s \o t)
<1>1. PICK m \in Nat, n \in Nat : m = Len(s) /\ n = Len(t)
  BY LenProperties
<1>2. DOMAIN s = 1 .. m /\ DOMAIN t = 1 .. n
  BY <1>1, LenProperties
<1>3. PICK u : u = s \o t
  OBVIOUS
<1>4. /\ u \in Seq(E) /\ Len(u) = m + n
      /\ \A i \in 1 .. m + n : u[i] = IF i <= m THEN s[i] ELSE t[i - m]
  BY <1>1, <1>3, ConcatProperties
<1>5. DOMAIN u = 1 .. m + n
  BY <1>4, LenProperties
<1>6. Range(u) = Range(s) \cup Range(t)
  BY <1>3, RangeConcatenation
<1>7. ASSUME IsInjective(s), IsInjective(t), Range(s) \cap Range(t) = {} PROVE IsInjective(u)
  <2> SUFFICES ASSUME NEW i \in 1 .. m + n, NEW j \in 1 .. m + n, u[i] = u[j] PROVE i = j
    BY <1>5 DEF IsInjective
  <2>1. ASSUME NEW k \in 1 .. m + n, k <= m PROVE k \in DOMAIN s /\ u[k] = s[k] /\ u[k] \in Range(s)
    <3>1. k \in DOMAIN s /\ u[k] = s[k]
      BY <1>2, <1>4, <2>1
    <3> QED BY <3>1 DEF Range
  <2>2. ASSUME NEW k \in 1 .. m + n, ~(k <= m)
        PROVE  k - m \in DOMAIN t /\ u[k] = t[k - m] /\ u[k] \in Range(t)
    <3>1. k - m \in 1 .. n
      BY <2>2
    <3>2. k - m \in DOMAIN t /\ u[k] = t[k - m]
      BY <1>2, <1>4, <2>2, <3>1
    <3> QED BY <3>2 DEF Range
  <2>3. CASE i <= m /\ j <= m
    BY <1>7, <2>1, <2>3 DEF IsInjective
  <2>4. CASE ~(i <= m) /\ ~(j <= m)
    <3>1. i - m = j - m
      <4>1. i - m \in DOMAIN t /\ j - m \in DOMAIN t /\ t[i - m] = t[j - m]
        BY <2>2, <2>4
      <4> QED BY <1>7, <4>1 DEF IsInjective
    <3> QED BY <3>1
  <2>5. CASE (i <= m) # (j <= m)
    <3>1. (u[i] \in Range(s) /\ u[j] \in Range(t)) \/ (u[i] \in Range(t) /\ u[j] \in Range(s))
      BY <2>1, <2>2, <2>5
    <3> QED BY <1>7, <3>1
  <2> QED BY <2>3, <2>4, <2>5
<1> QED BY <1>3, <1>4, <1>6, <1>7

\* A sequence that is not empty is its front and its last element.
LEMMA FrontAndLast ==
    ASSUME NEW E, NEW q \in Seq(E), q # << >>
    PROVE  \E f \in Seq(E), x \in E :
               /\ f = SubSeq(q, 1, Len(q) - 1) /\ x = q[Len(q)]
               /\ q = Append(f, x) /\ Range(q) = Range(f) \cup {x}
               /\ IsInjective(q) => IsInjective(f) /\ x \notin Range(f)
<1>1. PICK n \in Nat \ {0} : n = Len(q)
  BY EmptySeq
<1>2. DOMAIN q = 1 .. n /\ \A i \in 1 .. n : q[i] \in E
  BY <1>1, LenProperties, ElementOfSeq
<1>3. PICK f, x : f = SubSeq(q, 1, n - 1) /\ x = q[n]
  OBVIOUS
<1>4. f \in Seq(E) /\ Len(f) = n - 1 /\ \A i \in 1 .. n - 1 : f[i] = q[i]
  <2>1. n - 1 \in Int /\ 1 \in Int /\ \A i \in 1 .. n - 1 : q[i] \in E
    BY <1>2
  <2>2. PICK m \in Int : m = n - 1 /\ \A i \in 1 .. m : q[i] \in E
    BY <2>1
  <2>3. /\ SubSeq(q, 1, m) \in Seq(E)
        /\ Len(SubSeq(q, 1, m)) = IF 1 <= m THEN m - 1 + 1 ELSE 0
        /\ \A i \in 1 .. m - 1 + 1 : SubSeq(q, 1, m)[i] = q[1 + i - 1]
    BY <2>2, SubSeqProperties
  <2>4. f = SubSeq(q, 1, m)
    BY <1>3, <2>2
  <2>5. Len(f) = m /\ \A i \in 1 .. m : f[i] = q[i]
    BY <1>1, <2>2, <2>3, <2>4
  <2> QED BY <2>2, <2>3, <2>4, <2>5
<1>5. DOMAIN f = 1 .. n - 1 /\ x \in E
  BY <1>2, <1>3, <1>4, LenProperties
<1>6. q = Append(f, x)
  <2>1. PICK t : t = Append(f, x)
    OBVIOUS
  <2>2. t \in Seq(E) /\ Len(t) = n /\ t[n] = x /\ \A i \in 1 .. n - 1 : t[i] = f[i]
    <3>1. /\ t \in Seq(E) /\ Len(f) \in Nat /\ DOMAIN f = 1 .. Len(f)
          /\ Len(t) = Len(f) + 1 /\ t[Len(f) + 1] = x /\ \A i \in DOMAIN f : t[i] = f[i]
      BY <1>4, <1>5, <2>1, AppendRow
    <3>2. Len(f) + 1 = n
      BY <1>4
    <3> QED BY <1>5, <3>1, <3>2
  <2>3. \A i \in 1 .. n : q[i] = t[i]
    <3> SUFFICES ASSUME NEW i \in 1 .. n PROVE q[i] = t[i]
      OBVIOUS
    <3>1. CASE i = n
      BY <1>3, <2>2, <3>1
    <3>2. CASE i # n
      <4>1. i \in 1 .. n - 1
        BY <3>2
      <4> QED BY <1>4, <2>2, <4>1
    <3> QED BY <3>1, <3>2
  <2>4. q = t
    BY <1>1, <2>2, <2>3, SeqEqual
  <2> QED BY <2>1, <2>4
<1>7. Range(q) = Range(f) \cup {x}
  BY <1>4, <1>5, <1>6, AppendRange
<1>8. ASSUME IsInjective(q) PROVE IsInjective(f) /\ x \notin Range(f)
  <2>1. \A i \in 1 .. n - 1 : i \in DOMAIN q /\ i # n /\ f[i] = q[i]
    BY <1>2, <1>4
  <2>2. n \in DOMAIN q
    BY <1>2
  <2> QED BY <1>3, <1>5, <1>8, <2>1, <2>2 DEF IsInjective, Range
<1> QED BY <1>1, <1>3, <1>4, <1>5, <1>6, <1>7, <1>8

\* The last element of a sequence does not tell what comes before it.
LEMMA FrontOfAppend ==
    ASSUME NEW E, NEW q \in Seq(E), NEW x \in E
    PROVE  SubSeq(Append(q, x), 1, Len(Append(q, x)) - 1) = q
<1>1. Append(q, x) \in Seq(E) /\ Append(q, x) # << >>
  BY AppendRange
<1>2. PICK f \in Seq(E), y \in E : f = SubSeq(Append(q, x), 1, Len(Append(q, x)) - 1)
                                   /\ Append(q, x) = Append(f, y)
  BY <1>1, FrontAndLast
<1>3. f = q
  BY <1>2, AppendInjective
<1> QED BY <1>2, <1>3

LEMMA SelectedSame ==
    ASSUME NEW E, NEW s \in Seq(E), NEW S, NEW T, S \cap Range(s) = T \cap Range(s)
    PROVE  Selected(s, S) = Selected(s, T)
<1>1. Len(s) \in Nat /\ DOMAIN s = 1 .. Len(s)
  BY LenProperties
<1>2. \A k \in 1 .. Len(s) : s[k] \in Range(s)
  BY <1>1 DEF Range
<1>3. \A k \in 1 .. Len(s) : s[k] \in S <=> s[k] \in T
  BY <1>2
<1> QED BY <1>1, <1>3, SelectedAlike

\* The sequences of all the elements of a finite set.
LEMMA SequencesOfSet ==
    ASSUME NEW S, IsFiniteSet(S), NEW f \in [1 .. Cardinality(S) -> S],
           \A i, j \in 1 .. Cardinality(S) : i # j => f[i] # f[j]
    PROVE  f \in Seq(S) /\ IsInjective(f) /\ Range(f) = S /\ (S # {} => f # << >>)
<1>1. PICK n \in Nat : n = Cardinality(S)
  BY FS_CardinalityType
<1>2. f \in [1 .. n -> S] /\ \A i, j \in 1 .. n : f[i] = f[j] => i = j
  BY <1>1
<1>3. f \in Injection(1 .. n, S) /\ IsInjective(f)
  BY <1>2 DEF Injection, IsInjective
<1>4. IsFiniteSet(1 .. n) /\ Cardinality(1 .. n) = n
  BY FS_Interval
<1>5. f \in Surjection(1 .. n, S)
  BY <1>1, <1>3, <1>4, FS_Injection
<1>6. Range(f) = S
  <2>1. DOMAIN f = 1 .. n /\ (\A i \in 1 .. n : f[i] \in S) /\ \A e \in S : \E i \in 1 .. n : f[i] = e
    BY <1>2, <1>5 DEF Surjection
  <2> QED BY <2>1 DEF Range
<1>7. f \in Seq(S)
  BY <1>2
<1>8. S # {} => f # << >>
  <2>1. Range(<< >>) = {}
    BY DEF Range
  <2> QED BY <1>6, <2>1
<1> QED BY <1>3, <1>6, <1>7, <1>8
=============================================================================
