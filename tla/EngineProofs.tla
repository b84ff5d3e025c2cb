---------------------------- MODULE EngineProofs ---------------------------
(***************************************************************************)
(* Proofs about the engine: its decisions (module Keepers), for every      *)
(* catalogue of versions, every profile and every group; and the groups it *)
(* makes of the servers' items (module Grouping), for every shelf.         *)
(***************************************************************************)
EXTENDS Keepers, Grouping, FiniteSetTheorems, SequenceTheorems, WellFoundedInduction, TLAPS

-----------------------------------------------------------------------------
(* Least and greatest members.                                             *)

\* A set of naturals has a least member: Min chooses it.
LEMMA LeastMember ==
  ASSUME NEW S, S \subseteq Nat, S # {}
  PROVE  /\ \E x \in S : \A y \in S : x <= y
         /\ Min(S) \in S /\ \A y \in S : Min(S) <= y
  <1>1. PICK x \in S : \A y \in S : ~(<<y, x>> \in OpToRel(<, Nat))
    BY NatLessThanWellFounded, WFMin
  <1>2. \A y \in S : ~(y < x) BY <1>1 DEF OpToRel
  <1>3. \A y \in S : x <= y BY <1>2
  <1>4. \E z \in S : \A y \in S : z <= y BY <1>3
  <1> QED BY <1>4, Zenon DEF Min

\* Of finitely many things with an integer value each, one has the highest.
LEMMA HighestValue ==
  ASSUME NEW S, IsFiniteSet(S), S # {}, NEW f \in [S -> Int]
  PROVE  \E x \in S : \A y \in S : f[x] >= f[y]
  <1> DEFINE above(x) == {y \in S : f[y] > f[x]}
             N == {Cardinality(above(x)) : x \in S}
  <1>1. \A x \in S : IsFiniteSet(above(x)) BY FS_Subset
  <1>2. N \subseteq Nat /\ N # {}
    <2>1. \A x \in S : Cardinality(above(x)) \in Nat BY <1>1, FS_CardinalityType
    <2> QED BY <2>1
  <1> HIDE DEF N
  <1>3. PICK n \in N : \A m \in N : n <= m BY <1>2, LeastMember
  <1>4. PICK x \in S : n = Cardinality(above(x)) BY <1>3 DEF N
  <1>5. ASSUME NEW y \in S, ~(f[x] >= f[y]) PROVE FALSE
    <2>1. above(y) \subseteq above(x) \ {y} /\ y \in above(x) BY <1>5
    <2>2. /\ Cardinality(above(x) \ {y}) = Cardinality(above(x)) - 1
          /\ IsFiniteSet(above(x) \ {y})
      BY <2>1, <1>1, FS_RemoveElement
    <2>3. Cardinality(above(y)) <= Cardinality(above(x)) - 1
      <3> HIDE DEF above
      <3> QED BY <2>1, <2>2, FS_Subset
    <2>4. Cardinality(above(y)) \in N BY DEF N
    <2>5. Cardinality(above(y)) \in Nat /\ Cardinality(above(x)) \in Nat BY <1>1, FS_CardinalityType
    <2> HIDE DEF above
    <2> QED BY <2>3, <2>4, <2>5, <1>3, <1>4
  <1> QED BY <1>5

\* The maximum of 0 and of finitely many integers, and of two integers.
LEMMA HighestOfAll ==
  ASSUME NEW S, IsFiniteSet(S), NEW f \in [S -> Int]
  PROVE  Max({0} \cup {f[x] : x \in S}) \in Int
  <1> DEFINE T == {0} \cup {f[x] : x \in S}
  <1>1. T \subseteq Int OBVIOUS
  <1>2. \E m \in T : \A t \in T : m >= t
    <2>1. CASE S = {}
      <3>1. T = {0} BY <2>1
      <3> QED BY <3>1
    <2>2. CASE S # {}
      <3>1. PICK x \in S : \A y \in S : f[x] >= f[y] BY <2>2, HighestValue
      <3>2. CASE f[x] >= 0
        <4>1. f[x] \in T /\ \A t \in T : f[x] >= t BY <3>1, <3>2
        <4> QED BY <4>1
      <3>3. CASE ~(f[x] >= 0)
        <4>1. \A t \in T : 0 >= t BY <3>1, <3>3
        <4> QED BY <4>1
      <3> QED BY <3>2, <3>3
    <2> QED BY <2>1, <2>2
  <1> HIDE DEF T
  <1>3. Max(T) \in T BY <1>2, Zenon DEF Max
  <1> QED BY <1>1, <1>3 DEF T

\* The largest of four integers.
LEMMA LargestOfFour ==
  ASSUME NEW a \in Int, NEW b \in Int, NEW c \in Int, NEW d \in Int
  PROVE  LET m == Max({a, b, c, d})
         IN  m \in {a, b, c, d} /\ m >= a /\ m >= b /\ m >= c /\ m >= d
  <1> DEFINE T == {a, b, c, d}
  <1>1. \E m \in T : \A t \in T : m >= t
    <2>1. CASE a >= b /\ a >= c /\ a >= d BY <2>1
    <2>2. CASE b >= a /\ b >= c /\ b >= d BY <2>2
    <2>3. CASE c >= a /\ c >= b /\ c >= d BY <2>3
    <2>4. CASE d >= a /\ d >= b /\ d >= c BY <2>4
    <2> QED BY <2>1, <2>2, <2>3, <2>4
  <1> HIDE DEF T
  <1>2. Max(T) \in T /\ \A t \in T : Max(T) >= t BY <1>1, Zenon DEF Max
  <1> QED BY <1>2 DEF T

-----------------------------------------------------------------------------
(* Metrics: what "beats" and "survivors" promise.                          *)

\* A metric over the versions: an integer score, floor, tolerance and
\* minimum difference.
MetricOK(m) ==
  /\ m.score \in [V -> Int] /\ m.floor \in [V -> Int]
  /\ m.tol \in 0..100 /\ m.minDelta \in Int

\* Multiplying by a percentage keeps the order.
LEMMA ScaledUp ==
  ASSUME NEW x \in Int, NEW y \in Int, NEW t \in Nat, x <= y
  PROVE  x * t <= y * t
  OBVIOUS

\* "a beats b" is monotone in a's score: a tolerance of at most 100 % makes it
\* so (criteria.go survivors relies on it).
LEMMA BeatsIsMonotone ==
  ASSUME NEW m, MetricOK(m), NEW a \in V, NEW c \in V, NEW b \in V, beats(m, a, b),
         m.class[c] = m.class[a], m.present[c], m.score[c] >= m.score[a]
  PROVE  beats(m, c, b)
  <1>1. CASE ~m.present[b] BY <1>1 DEF beats
  <1>2. CASE m.present[b]
    <2> DEFINE x == m.score[a]
               y == m.score[c]
               z == m.score[b]
               s == Max({x, -x, z, -z})
               t == Max({y, -y, z, -z})
               f == m.floor[b]
               d == m.minDelta
               p == m.tol
    <2>1. x \in Int /\ y \in Int /\ z \in Int /\ f \in Int /\ d \in Int /\ p \in Nat /\ p <= 100 BY DEF MetricOK
    <2>2. x >= f /\ x - z > 0 /\ x - z >= d /\ 100 * (x - z) > s * p BY <1>2 DEF beats
    <2>3. y >= x OBVIOUS
    <2>4. s \in Int /\ s >= x /\ s >= -x /\ s >= z /\ s >= -z
      <3> HIDE DEF x, y, z
      <3>1. -x \in Int /\ -z \in Int BY <2>1
      <3>2. s \in {x, -x, z, -z} /\ s >= x /\ s >= -x /\ s >= z /\ s >= -z BY <2>1, <3>1, LargestOfFour
      <3> QED BY <2>1, <3>1, <3>2
    <2>5. t \in Int /\ t \in {y, -y, z, -z}
      <3> HIDE DEF x, y, z
      <3>1. -y \in Int /\ -z \in Int BY <2>1
      <3>2. t \in {y, -y, z, -z} BY <2>1, <3>1, LargestOfFour
      <3> QED BY <2>1, <3>1, <3>2
    <2>6. 100 * (y - z) > t * p
      <3> HIDE DEF x, y, z, s, t, p
      <3>1. t <= s + (y - x) BY <2>1, <2>3, <2>4, <2>5
      <3>2. s + (y - x) \in Int BY <2>1, <2>4
      <3>3. t * p <= (s + (y - x)) * p BY <3>1, <3>2, <2>1, <2>5, ScaledUp
      <3>4. (s + (y - x)) * p = s * p + (y - x) * p BY <2>1, <2>4
      <3>5. (y - x) * p <= (y - x) * 100
        <4>1. y - x \in Nat BY <2>1, <2>3
        <4>2. p * (y - x) <= 100 * (y - x) BY <4>1, <2>1, ScaledUp
        <4> QED BY <4>1, <4>2, <2>1
      <3>6. s * p \in Int /\ (y - x) * p \in Int /\ t * p \in Int BY <2>1, <2>4, <2>5
      <3> QED BY <3>3, <3>4, <3>5, <3>6, <2>1, <2>2
    <2>7. y >= f /\ y - z > 0 /\ y - z >= d
      <3> HIDE DEF x, y, z, f, d
      <3> QED BY <2>1, <2>2, <2>3
    <2>8. m.class[c] # "" /\ m.class[c] = m.class[b] BY DEF beats
    <2> QED BY <2>6, <2>7, <2>8 DEF beats
  <1> QED BY <1>1, <1>2

\* A group's versions are numbered from one, and there is at least one.
LEMMA VersionsAreNumbered ==
  ASSUME group \in KeeperCases
  PROVE  /\ group.vs \in Seq(DOMAIN Catalogue) /\ V = 1..Len(group.vs)
         /\ V # {} /\ V \subseteq Nat /\ \A S \in SUBSET V : IsFiniteSet(S)
  <1>1. /\ group.vs \in Seq(ToSet(group.vs)) /\ group.vs # <<>>
        /\ ToSet(group.vs) \subseteq DOMAIN Catalogue
    BY KeeperAssumption DEF IsList
  <1>2. group.vs \in Seq(DOMAIN Catalogue) /\ V = 1..Len(group.vs) /\ Len(group.vs) \in Nat /\ Len(group.vs) # 0
    BY <1>1 DEF V
  <1>3. IsFiniteSet(V) BY <1>2, FS_Interval
  <1>4. \A S \in SUBSET V : IsFiniteSet(S) BY <1>3, FS_Subset
  <1>5. V # {} /\ V \subseteq Nat
    <2>1. 1 \in 1..Len(group.vs) BY <1>2
    <2> QED BY <1>2, <2>1
  <1> QED BY <1>2, <1>4, <1>5

\* The best of some versions on a metric: the first of those with the highest score.
LEMMA BestExists ==
  ASSUME group \in KeeperCases, NEW m, MetricOK(m), NEW K \in SUBSET V, K # {}
  PROVE  \E i \in K : \A j \in K : m.score[i] > m.score[j] \/ (m.score[i] = m.score[j] /\ i <= j)
  <1> DEFINE f == [i \in K |-> m.score[i]]
  <1>1. f \in [K -> Int] /\ \A i \in K : f[i] = m.score[i] BY DEF MetricOK
  <1> HIDE DEF f
  <1>2. PICK h \in K : \A j \in K : f[h] >= f[j] BY <1>1, VersionsAreNumbered, HighestValue
  <1> DEFINE T == {i \in K : f[i] = f[h]}
  <1>3. T \subseteq Nat /\ T # {} BY VersionsAreNumbered
  <1>4. PICK i \in T : \A j \in T : i <= j BY <1>3, LeastMember
  <1>5. ASSUME NEW j \in K PROVE f[i] > f[j] \/ (f[i] = f[j] /\ i <= j)
    <2>1. CASE f[j] = f[h] BY <2>1, <1>4
    <2>2. CASE f[j] # f[h] BY <2>2, <1>1, <1>2, <1>4
    <2> QED BY <2>1, <2>2
  <1> QED BY <1>1, <1>4, <1>5

\* Somebody survives a criterion, and nobody of those compared beats a survivor,
\* though each is compared with the best of its class alone.
LEMMA SurvivorsUnbeaten ==
  ASSUME group \in KeeperCases, NEW m, MetricOK(m), NEW S \in SUBSET V, S # {}
  PROVE  /\ survivors(m, S) \in SUBSET S /\ survivors(m, S) # {}
         /\ \A w \in survivors(m, S), b \in S : ~beats(m, b, w)
  <1> DEFINE known(c) == {i \in S : m.present[i] /\ m.class[i] # "" /\ m.class[i] = c}
             top(c, i) == \A j \in known(c) : m.score[i] > m.score[j] \/ (m.score[i] = m.score[j] /\ i <= j)
             best(c) == CHOOSE i \in known(c) : top(c, i)
             out == {i \in S : known(m.class[i]) = {} \/ best(m.class[i]) = i \/ ~beats(m, best(m.class[i]), i)}
  <1>1. survivors(m, S) = out BY DEF survivors
  <1>2. ASSUME NEW c, known(c) # {} PROVE best(c) \in known(c) /\ top(c, best(c))
    <2> HIDE DEF top
    <2>1. \E i \in known(c) : top(c, i)
      <3>1. known(c) \in SUBSET V OBVIOUS
      <3> HIDE DEF known
      <3>2. \E i \in known(c) : \A j \in known(c) : m.score[i] > m.score[j] \/ (m.score[i] = m.score[j] /\ i <= j)
        BY <3>1, <1>2, BestExists
      <3> QED BY <3>2 DEF top
    <2> HIDE DEF known
    <2> QED BY <2>1, Zenon
  <1>3. out # {}
    <2>1. CASE \E i \in S : known(m.class[i]) # {}
      <3>1. PICK i \in S : known(m.class[i]) # {} BY <2>1
      <3> DEFINE b == best(m.class[i])
      <3>2. b \in known(m.class[i]) BY <3>1, <1>2
      <3>3. b \in S /\ m.class[b] = m.class[i] BY <3>2
      <3> HIDE DEF best, known
      <3>4. best(m.class[b]) = b BY <3>3
      <3>5. b \in out BY <3>3, <3>4
      <3> QED BY <3>5
    <2>2. CASE \A i \in S : known(m.class[i]) = {}
      <3> HIDE DEF best, known
      <3> QED BY <2>2
    <2> QED BY <2>1, <2>2
  <1>4. ASSUME NEW w \in out, NEW b \in S, beats(m, b, w) PROVE FALSE
    <2>1. m.class[b] # "" /\ m.class[b] = m.class[w] /\ m.present[b] BY <1>4 DEF beats
    <2>2. b \in known(m.class[w]) BY <2>1
    <2>3. PICK t : t = best(m.class[w]) /\ t \in known(m.class[w]) /\ top(m.class[w], t)
      <3> HIDE DEF known, top, best
      <3> QED BY <2>2, <1>2
    <2>4. t \in S /\ m.present[t] /\ m.class[t] = m.class[w] BY <2>3
    <2>5. m.score[t] \in Int /\ m.score[b] \in Int /\ m.score[t] >= m.score[b]
      <3>1. m.score[t] \in Int /\ m.score[b] \in Int
        <4>1. t \in V /\ b \in V BY <2>4
        <4> QED BY <4>1 DEF MetricOK
      <3>2. m.score[t] > m.score[b] \/ m.score[t] = m.score[b]
        <4> HIDE DEF known
        <4> QED BY <2>2, <2>3
      <3> HIDE DEF known, best, top, out
      <3> QED BY <3>1, <3>2
    <2>6. beats(m, t, w)
      <3> HIDE DEF known, best, top
      <3> QED BY <2>1, <2>4, <2>5, <1>4, BeatsIsMonotone
    <2>7. t = w
      <3> HIDE DEF top, best, known
      <3> QED BY <2>2, <2>3, <2>6, <1>4
    <2>8. ~beats(m, b, t)
      <3>1. ASSUME beats(m, b, t) PROVE m.score[b] - m.score[t] > 0 BY <3>1, <2>4 DEF beats
      <3> HIDE DEF known, best, top
      <3> QED BY <3>1, <2>5
    <2> QED BY <2>7, <2>8, <1>4
  <1>5. out \in SUBSET S OBVIOUS
  <1> HIDE DEF out
  <1> QED BY <1>1, <1>3, <1>4, <1>5

-----------------------------------------------------------------------------
(* What the criteria compute is a metric.                                  *)

\* The scores of the patterns that match a file name add up to an integer.
LEMMA SumOfScores ==
  ASSUME NEW S, IsFiniteSet(S), \A p \in S : p.score \in Int
  PROVE  FoldSet(LAMBDA p, n : n + p.score, 0, S) \in Int
  <1> DEFINE one(s) == CHOOSE x \in s : TRUE
             sum(g, s) == IF s = {} THEN 0 ELSE g[s \ {one(s)}] + one(s).score
             upTo(g, n) == \A s \in SUBSET S : Cardinality(s) <= n => g[s] = sum(g, s)
             Reached(n) == \E g \in [SUBSET S -> Int] : upTo(g, n)
             Missing == {n \in Nat : ~Reached(n)}
  <1>1. \A s \in SUBSET S : IsFiniteSet(s) /\ Cardinality(s) \in Nat BY FS_Subset, FS_CardinalityType
  <1>2. \A s \in SUBSET S : s # {} => /\ one(s) \in s /\ one(s).score \in Int
                                     /\ s \ {one(s)} \in SUBSET S /\ Cardinality(s \ {one(s)}) = Cardinality(s) - 1
    <2> TAKE s \in SUBSET S
    <2> HAVE s # {}
    <2>1. one(s) \in s BY Zenon
    <2> HIDE DEF one
    <2>2. Cardinality(s \ {one(s)}) = Cardinality(s) - 1 BY <2>1, <1>1, FS_RemoveElement
    <2> QED BY <2>1, <2>2
  <1> HIDE DEF one
  <1>3. ASSUME NEW g \in [SUBSET S -> Int], NEW s \in SUBSET S PROVE sum(g, s) \in Int
    <2>1. CASE s = {} BY <2>1
    <2>2. CASE s # {}
      <3>1. s \ {one(s)} \in SUBSET S /\ one(s).score \in Int BY <2>2, <1>2
      <3>2. g[s \ {one(s)}] \in Int BY <3>1
      <3> QED BY <2>2, <3>1, <3>2
    <2> QED BY <2>1, <2>2
  <1>4. Reached(0)
    <2> DEFINE g == [s \in SUBSET S |-> 0]
    <2>1. g \in [SUBSET S -> Int] OBVIOUS
    <2>2. \A s \in SUBSET S : Cardinality(s) <= 0 => s = {} BY <1>1, FS_EmptySet
    <2>3. upTo(g, 0) BY <2>2
    <2> HIDE DEF g, upTo
    <2> QED BY <2>1, <2>3
  <1>5. ASSUME NEW n \in Nat, Reached(n) PROVE Reached(n + 1)
    <2>1. PICK g \in [SUBSET S -> Int] : upTo(g, n) BY <1>5
    <2> DEFINE h == [s \in SUBSET S |-> sum(g, s)]
    <2> HIDE DEF sum
    <2>2. h \in [SUBSET S -> Int] BY <1>3
    <2>3. ASSUME NEW s \in SUBSET S, Cardinality(s) <= n + 1 PROVE h[s] = sum(h, s)
      <3>1. CASE s = {} BY <3>1 DEF sum
      <3>2. CASE s # {}
        <4> DEFINE r == s \ {one(s)}
        <4>1. r \in SUBSET S /\ Cardinality(r) <= n BY <3>2, <2>3, <1>1, <1>2
        <4> HIDE DEF r
        <4>2. g[r] = h[r] BY <4>1, <2>1
        <4> QED BY <4>2, <3>2 DEF sum, r
      <3> QED BY <3>1, <3>2
    <2> HIDE DEF h
    <2> QED BY <2>2, <2>3
  <1>6. \A n \in Nat : Reached(n)
    <2> HIDE DEF Reached
    <2> SUFFICES ASSUME Missing # {} PROVE FALSE OBVIOUS
    <2>1. PICK m \in Missing : \A k \in Missing : m <= k BY LeastMember
    <2>2. m # 0 BY <1>4, <2>1
    <2>3. m - 1 \in Nat /\ Reached(m - 1) BY <2>1, <2>2
    <2> QED BY <2>1, <2>3, <1>5
  <1>7. PICK g \in [SUBSET S -> Int] : upTo(g, Cardinality(S)) BY <1>1, <1>6
  <1>8. \A s \in SUBSET S : Cardinality(s) <= Cardinality(S) BY FS_Subset
  <1> DEFINE rec(f) == f = [s \in SUBSET S |-> sum(f, s)]
             it == CHOOSE f : rec(f)
  <1>9. rec(g) BY <1>7, <1>8
  <1>10. rec(it)
    <2> HIDE DEF rec
    <2> QED BY <1>9, Zenon
  <1> DEFINE Bad == {n \in Nat : \E s \in SUBSET S : n = Cardinality(s) /\ it[s] \notin Int}
  <1> HIDE DEF it
  <1>11. Bad = {}
    <2> SUFFICES ASSUME Bad # {} PROVE FALSE OBVIOUS
    <2>1. PICK n \in Bad : \A k \in Bad : n <= k
      <3> HIDE DEF Bad
      <3>1. Bad \subseteq Nat BY DEF Bad
      <3> QED BY <3>1, LeastMember
    <2>2. PICK s \in SUBSET S : n = Cardinality(s) /\ it[s] \notin Int BY <2>1
    <2>3. it[s] = sum(it, s) BY <1>10
    <2>4. s # {} BY <2>2, <2>3
    <2> DEFINE r == s \ {one(s)}
    <2>5. r \in SUBSET S /\ Cardinality(r) = n - 1 /\ one(s).score \in Int BY <2>2, <2>4, <1>2
    <2>6. it[r] \in Int BY <2>1, <2>5, <1>1
    <2> QED BY <2>2, <2>3, <2>4, <2>5, <2>6
  <1>12. it[S] \in Int BY <1>1, <1>11
  <1>13. FoldSet(LAMBDA p, n : n + p.score, 0, S) = it[S]
    BY DEF FoldSet, MapThenFoldSet, it, rec, sum, one
  <1> QED BY <1>12, <1>13

\* The versions of a group are versions, its profile is a profile.
LEMMA GroupIsTyped ==
  ASSUME group \in KeeperCases
  PROVE  (\A i \in V : IsVersion(Ver(i))) /\ IsProfile(Profile)
  <1>1. ASSUME NEW i \in V PROVE IsVersion(Ver(i))
    <2>1. group.vs[i] \in DOMAIN Catalogue BY VersionsAreNumbered
    <2> QED BY <2>1, KeeperAssumption DEF Ver
  <1>2. group.profile \in DOMAIN ProfileSeq BY KeeperAssumption
  <1> QED BY <1>1, <1>2, KeeperAssumption DEF Profile

\* A value's place in a list of preferences is a natural number.
LEMMA OrderIndexType ==
  ASSUME NEW order, IsList(order), NEW val
  PROVE  orderIndex(order, val) \in Nat
  <1>1. Len(order) \in Nat BY DEF IsList
  <1> DEFINE S == {k \in 1..Len(order) : order[k] = val}
  <1>2. CASE S # {}
    <2>1. S \subseteq Nat BY <1>1
    <2>2. Min(S) \in S
      <3> HIDE DEF S
      <3> QED BY <1>2, <2>1, LeastMember
    <2>3. Min(S) - 1 \in Nat BY <2>2, <1>1
    <2> QED BY <1>1, <1>2, <2>3 DEF orderIndex
  <1>3. CASE S = {} BY <1>1, <1>3 DEF orderIndex
  <1> QED BY <1>2, <1>3

\* So is the place of the best of a version's audio tracks.
LEMMA AudioRankType ==
  ASSUME NEW order, IsList(order), NEW v, orderedPresent("audio_format", v)
  PROVE  audioRank(v, order) \in Nat
  <1> DEFINE place(t) == LET f == orderIndex(order, t.format) IN
                         IF v.disc = "none" THEN f ELSE Min({f, orderIndex(order, discVariant(t.format))})
             S == {place(t) : t \in {x \in v.audio : x.format # ""}}
  <1>1. ASSUME NEW t PROVE place(t) \in Nat
    <2> DEFINE f == orderIndex(order, t.format)
               d == orderIndex(order, discVariant(t.format))
    <2>1. f \in Nat /\ d \in Nat BY OrderIndexType
    <2> HIDE DEF f, d
    <2>2. Min({f, d}) \in Nat
      <3>1. {f, d} \subseteq Nat /\ {f, d} # {} BY <2>1
      <3>2. Min({f, d}) \in {f, d} BY <3>1, LeastMember
      <3> QED BY <3>2, <2>1
    <2> QED BY <2>1, <2>2 DEF f, d
  <1>2. S # {} BY DEF orderedPresent
  <1> HIDE DEF place
  <1>3. S \subseteq Nat BY <1>1
  <1> HIDE DEF S
  <1>4. Min(S) \in Nat BY <1>2, <1>3, LeastMember
  <1> QED BY <1>4 DEF audioRank, S, place

\* The number of channels of a version's widest track is an integer.
LEMMA ChannelsType ==
  ASSUME NEW v, IsVersion(v)
  PROVE  Max({0} \cup {t.channels : t \in v.audio}) \in Int
  <1> DEFINE f == [t \in v.audio |-> t.channels]
  <1>1. f \in [v.audio -> Int] /\ IsFiniteSet(v.audio) BY DEF IsVersion
  <1>2. {t.channels : t \in v.audio} = {f[t] : t \in v.audio} OBVIOUS
  <1> HIDE DEF f
  <1> QED BY <1>1, <1>2, HighestOfAll

\* So is what a numeric criterion compares.
LEMMA NumericValueType ==
  ASSUME NEW v, IsVersion(v),
         NEW type \in {"video_bitrate", "audio_channels", "file_size", "custom_format_score",
                       "date_added", "last_played", "audio_tracks", "bit_depth", "subtitle_tracks"}
  PROVE  numericValue(type, v) \in Int
  <1> USE DEF numericValue
  <1>1. CASE type = "audio_channels" BY <1>1, ChannelsType
  <1>2. CASE type = "file_size" BY <1>2 DEF rankingSize, IsVersion
  <1>3. CASE type = "custom_format_score" BY <1>3 DEF IsVersion
  <1>4. CASE type = "date_added" BY <1>4 DEF IsVersion, dateAdded
  <1>5. CASE type = "last_played" BY <1>5 DEF IsVersion, lastPlayedValue, lastPlayedKnown, knownWatch
  <1>6. CASE type = "audio_tracks"
    <2>1. Cardinality(v.audio) \in Nat BY FS_CardinalityType DEF IsVersion
    <2> QED BY <1>6, <2>1
  <1>7. CASE type = "video_bitrate" BY <1>7 DEF IsVersion
  <1>8. CASE type = "bit_depth" BY <1>8 DEF IsVersion
  <1>9. CASE type = "subtitle_tracks" BY <1>9 DEF IsVersion
  <1> QED BY <1>1, <1>2, <1>3, <1>4, <1>5, <1>6, <1>7, <1>8, <1>9

LEMMA WatchFloorType ==
  ASSUME NEW v, IsVersion(v), NEW type
  PROVE  watchFloor(type, v) \in Int
  BY DEF watchFloor, knownWatch, Infinity, IsVersion

\* A metric without floor or tolerance needs an integer score alone.
LEMMA PlainlyOK ==
  ASSUME NEW id, NEW present, NEW score \in [V -> Int]
  PROVE  MetricOK(Plainly(id, present, score))
  BY DEF MetricOK, Plainly, Infinity

LEMMA OrderedOK ==
  ASSUME group \in KeeperCases, NEW c, IsCriterion(c), c.kind = "ordered"
  PROVE  MetricOK(orderedMetric(c))
  <1> DEFINE known == [i \in V |-> orderedPresent(c.type, Ver(i))]
             score == [i \in V |-> IF ~known[i] THEN 0
                                   ELSE IF c.type = "audio_format" THEN -audioRank(Ver(i), c.order)
                                   ELSE -orderIndex(c.order, orderedValue(c.type, Ver(i)))]
             P == Plainly(c.type, known, score)
             class == IF c.type = "container" /\ \E i \in V : Ver(i).disc # "none"
                      THEN [i \in V |-> IF Ver(i).disc = "none" THEN "file" ELSE ""] ELSE P.class
  <1>1. score \in [V -> Int]
    <2>1. ASSUME NEW i \in V PROVE score[i] \in Int
      <3>1. IsList(c.order) BY DEF IsCriterion
      <3>2. orderIndex(c.order, orderedValue(c.type, Ver(i))) \in Nat BY <3>1, OrderIndexType
      <3>3. orderedPresent("audio_format", Ver(i)) => audioRank(Ver(i), c.order) \in Nat BY <3>1, AudioRankType
      <3> QED BY <3>2, <3>3
    <2> HIDE DEF known
    <2> QED BY <2>1
  <1> HIDE DEF known, score
  <1>2. MetricOK(P) BY <1>1, PlainlyOK
  <1>3. orderedMetric(c) = [P EXCEPT !.class = class] BY DEF orderedMetric, known, score
  <1> HIDE DEF class
  <1>4. /\ orderedMetric(c).score = P.score /\ orderedMetric(c).floor = P.floor
        /\ orderedMetric(c).tol = P.tol /\ orderedMetric(c).minDelta = P.minDelta
    BY <1>3 DEF Plainly
  <1> HIDE DEF P
  <1> QED BY <1>2, <1>4 DEF MetricOK

LEMMA NumericOK ==
  ASSUME group \in KeeperCases, NEW c, IsCriterion(c), c.kind = "numeric"
  PROVE  MetricOK(numericMetric(c))
  <1> DEFINE value(i) == numericValue(c.type, Ver(i))
             score == [i \in V |-> IF c.lower /\ c.type # "last_played" THEN -value(i) ELSE value(i)]
             P == Plainly(c.type, [i \in V |-> numericPresent(c.type, Ver(i))], score)
             tol == IF c.type \in tolerant THEN c.tol ELSE 0
             minDelta == IF c.type \in tolerant \cup {"last_played"} THEN c.minDelta ELSE 0
             class == [i \in V |-> numericClass(c.type, Ver(i))]
             floor == IF c.type = "last_played" THEN [i \in V |-> watchFloor(c.type, Ver(i))] ELSE P.floor
  <1>1. score \in [V -> Int]
    <2>1. ASSUME NEW i \in V PROVE value(i) \in Int
      <3>1. IsVersion(Ver(i)) BY GroupIsTyped
      <3> QED BY <3>1, NumericValueType DEF IsCriterion
    <2> HIDE DEF value
    <2> QED BY <2>1
  <1> HIDE DEF score
  <1>2. MetricOK(P) BY <1>1, PlainlyOK
  <1>3. numericMetric(c) = [P EXCEPT !.tol = tol, !.minDelta = minDelta, !.class = class, !.floor = floor]
    BY DEF numericMetric, score
  <1>4. tol \in 0..100 /\ minDelta \in Int BY DEF IsCriterion
  <1>5. floor \in [V -> Int]
    <2>1. \A i \in V : watchFloor(c.type, Ver(i)) \in Int BY GroupIsTyped, WatchFloorType
    <2>2. P.floor \in [V -> Int] BY <1>2 DEF MetricOK
    <2> HIDE DEF P
    <2> QED BY <2>1, <2>2
  <1> HIDE DEF tol, minDelta, class, floor
  <1>6. /\ numericMetric(c).score = P.score /\ numericMetric(c).floor = floor
        /\ numericMetric(c).tol = tol /\ numericMetric(c).minDelta = minDelta
    BY <1>3 DEF Plainly
  <1> HIDE DEF P
  <1> QED BY <1>2, <1>4, <1>5, <1>6 DEF MetricOK

LEMMA BooleanOK ==
  ASSUME group \in KeeperCases, NEW c, IsCriterion(c), c.kind = "boolean"
  PROVE  MetricOK(booleanMetric(c))
  <1> DEFINE known == [i \in V |-> CASE c.type = "played" -> knownWatch(Ver(i))
                                   [] c.type = "audio_language" -> Ver(i).langs # {}
                                   [] OTHER -> TRUE]
             score == [i \in V |-> booleanScore(c, i)]
             P == Plainly(c.type, known, score)
             class == IF c.type = "played" THEN [i \in V |-> IF known[i] THEN "watch" ELSE ""] ELSE P.class
             floor == IF c.type = "played" THEN [i \in V |-> watchFloor(c.type, Ver(i))] ELSE P.floor
  <1>1. score \in [V -> Int]
    <2>1. ASSUME NEW i \in V PROVE booleanScore(c, i) \in Int
      <3>1. IsVersion(Ver(i)) BY GroupIsTyped
      <3>2. lastPlayedKnown(Ver(i)) => lastPlayedValue(Ver(i)) \in Int
        BY <3>1 DEF IsVersion, lastPlayedValue, lastPlayedKnown, knownWatch
      <3> QED BY <3>2 DEF booleanScore, IsCriterion
    <2> QED BY <2>1
  <1> HIDE DEF score, known
  <1>2. MetricOK(P) BY <1>1, PlainlyOK
  <1>3. booleanMetric(c) = [P EXCEPT !.class = class, !.floor = floor] BY DEF booleanMetric, score, known
  <1>4. floor \in [V -> Int]
    <2>1. \A i \in V : watchFloor(c.type, Ver(i)) \in Int BY GroupIsTyped, WatchFloorType
    <2>2. P.floor \in [V -> Int] BY <1>2 DEF MetricOK
    <2> HIDE DEF P
    <2> QED BY <2>1, <2>2
  <1> HIDE DEF class, floor
  <1>5. /\ booleanMetric(c).score = P.score /\ booleanMetric(c).floor = floor
        /\ booleanMetric(c).tol = P.tol /\ booleanMetric(c).minDelta = P.minDelta
    BY <1>3 DEF Plainly
  <1> HIDE DEF P
  <1> QED BY <1>2, <1>4, <1>5 DEF MetricOK

LEMMA PatternOK ==
  ASSUME group \in KeeperCases, NEW c, IsCriterion(c)
  PROVE  MetricOK(patternMetric(c))
  <1>1. ASSUME NEW i \in V PROVE patternScore(c, Ver(i)) \in Int
    <2> DEFINE S == {p \in c.patterns : p.glob \in Ver(i).globs}
    <2>1. IsFiniteSet(S) BY FS_Subset DEF IsCriterion
    <2>2. \A p \in S : p.score \in Int BY DEF IsCriterion
    <2> HIDE DEF S
    <2>3. FoldSet(LAMBDA p, n : n + p.score, 0, S) \in Int BY <2>1, <2>2, SumOfScores
    <2> QED BY <2>3 DEF patternScore, S
  <1> DEFINE score == [i \in V |-> IF c.lower THEN -patternScore(c, Ver(i)) ELSE patternScore(c, Ver(i))]
  <1>2. score \in [V -> Int] BY <1>1
  <1> HIDE DEF score
  <1> QED BY <1>2, PlainlyOK DEF patternMetric, score

\* The profile's criteria and the tiebreakers behind them: at least one metric.
MetricsOK(ms) ==
  /\ Len(ms) \in Nat \ {0} /\ DOMAIN ms = 1..Len(ms)
  /\ \A k \in DOMAIN ms : MetricOK(ms[k])

LEMMA TiebreaksOK ==
  ASSUME group \in KeeperCases
  PROVE  /\ Len(tiebreakMetrics) = 4 /\ DOMAIN tiebreakMetrics = 1..4
         /\ \A k \in 1..4 : MetricOK(tiebreakMetrics[k])
         /\ \E R : tiebreakMetrics \in Seq(R)
  <1> DEFINE oldest(v) == IF v.added # 0 THEN v.added ELSE dateAdded(v)
             a == [i \in V |-> IF Ver(i).arr # 0 THEN 1 ELSE 0]
             b == [i \in V |-> rankingSize(Ver(i))]
             c == [i \in V |-> -oldest(Ver(i))]
             d == [i \in V |-> -Ver(i).mediaID]
  <1>1. ASSUME NEW i \in V PROVE rankingSize(Ver(i)) \in Int /\ oldest(Ver(i)) \in Int /\ Ver(i).mediaID \in Int
    BY GroupIsTyped DEF IsVersion, rankingSize, dateAdded
  <1>2. a \in [V -> Int] OBVIOUS
  <1>3. b \in [V -> Int] BY <1>1
  <1>4. c \in [V -> Int]
    <2> HIDE DEF oldest
    <2> QED BY <1>1
  <1>5. d \in [V -> Int] BY <1>1
  <1> DEFINE A == Plainly("arr_managed", [i \in V |-> TRUE], a)
             B == Plainly("file_size", [i \in V |-> rankingSize(Ver(i)) > 0], b)
             C == Plainly("date_added", [i \in V |-> oldest(Ver(i)) # 0], c)
             D == Plainly("media_id", [i \in V |-> Ver(i).mediaID > 0], d)
  <1>6. tiebreakMetrics = <<A, B, C, D>> BY DEF tiebreakMetrics
  <1> HIDE DEF a, b, c, d, oldest
  <1>7. MetricOK(A) /\ MetricOK(B) /\ MetricOK(C) /\ MetricOK(D) BY <1>2, <1>3, <1>4, <1>5, PlainlyOK
  <1> HIDE DEF A, B, C, D
  <1>8. ASSUME NEW k \in 1..4 PROVE MetricOK(<<A, B, C, D>>[k])
    <2>1. k = 1 \/ k = 2 \/ k = 3 \/ k = 4 OBVIOUS
    <2> QED BY <1>7, <2>1
  <1>9. <<A, B, C, D>> \in Seq({A, B, C, D}) OBVIOUS
  <1>10. Len(<<A, B, C, D>>) = 4 /\ DOMAIN <<A, B, C, D>> = 1..4 OBVIOUS
  <1>11. \E R : tiebreakMetrics \in Seq(R) BY <1>6, <1>9, Zenon
  <1> HIDE DEF MetricOK
  <1>12. \A k \in 1..4 : MetricOK(tiebreakMetrics[k]) BY <1>6, <1>8
  <1> QED BY <1>6, <1>10, <1>11, <1>12

LEMMA CriteriaAreMetrics ==
  ASSUME group \in KeeperCases
  PROVE  MetricsOK(Metrics)
  <1> DEFINE n == Len(Profile.criteria)
             built == [k \in 1..n |-> buildMetric(Profile.criteria[k])]
  <1>1. n \in Nat /\ DOMAIN Profile.criteria = 1..n BY GroupIsTyped DEF IsProfile, IsList
  <1>2. ASSUME NEW k \in 1..n PROVE MetricOK(built[k])
    <2> DEFINE c == Profile.criteria[k]
    <2>1. IsCriterion(c) BY <1>1, GroupIsTyped DEF IsProfile
    <2> HIDE DEF c
    <2>2. c.kind = "ordered" \/ c.kind = "numeric" \/ c.kind = "boolean" \/ c.kind = "patterns" BY <2>1 DEF IsCriterion
    <2>3. CASE c.kind = "ordered" BY <2>1, <2>3, OrderedOK DEF buildMetric, c
    <2>4. CASE c.kind = "numeric" BY <2>1, <2>4, NumericOK DEF buildMetric, c
    <2>5. CASE c.kind = "boolean" BY <2>1, <2>5, BooleanOK DEF buildMetric, c
    <2>6. CASE c.kind = "patterns" BY <2>1, <2>6, PatternOK DEF buildMetric, c
    <2> QED BY <2>2, <2>3, <2>4, <2>5, <2>6
  <1> DEFINE T == tiebreakMetrics
  <1>3. Metrics = built \o T BY DEF Metrics
  <1>4. Len(T) = 4 /\ \A k \in 1..4 : MetricOK(T[k]) BY TiebreaksOK
  <1>8. PICK Q : T \in Seq(Q) BY TiebreaksOK
  <1> DEFINE R == {built[k] : k \in 1..n} \cup Q
  <1>5. Len(built) = n /\ built \in Seq(R) /\ T \in Seq(R)
    <2>1. built \in Seq(R) /\ Len(built) = n BY <1>1
    <2>2. T \in Seq(R)
      <3> HIDE DEF built, T
      <3> QED BY <1>8
    <2> QED BY <2>1, <2>2
  <1> HIDE DEF built, T, n, R
  <1>9. /\ Metrics \in Seq(R) /\ Len(Metrics) = Len(built) + Len(T)
        /\ \A k \in 1..(Len(built) + Len(T)) : Metrics[k] = IF k <= Len(built) THEN built[k] ELSE T[k - Len(built)]
    BY <1>3, <1>5, ConcatProperties
  <1>6. Len(Metrics) = n + 4 /\ DOMAIN Metrics = 1..(n + 4) BY <1>1, <1>4, <1>5, <1>9
  <1>7. ASSUME NEW k \in 1..(n + 4) PROVE MetricOK(Metrics[k])
    <2>1. CASE k <= n
      <3>1. Metrics[k] = built[k] BY <1>1, <1>4, <1>5, <1>9, <2>1
      <3> QED BY <1>2, <2>1, <3>1
    <2>2. CASE ~(k <= n)
      <3>1. k - n \in 1..4 BY <1>1, <2>2
      <3>2. Metrics[k] = T[k - n] BY <1>1, <1>4, <1>5, <1>9, <2>2
      <3> QED BY <1>4, <3>1, <3>2
    <2> QED BY <2>1, <2>2
  <1> QED BY <1>1, <1>6, <1>7 DEF MetricsOK

-----------------------------------------------------------------------------
(* The choice of keepers, operator by operator.                            *)

\* A choice: what is kept, protected, and changed by the user.
KeptSets == [keep : SUBSET V, prot : SUBSET V, applied : SUBSET V]

\* What is protected from the start: all of it in a report-only group.
Protected == IF ReportOnly THEN V ELSE {i \in V : protectionReasons(i)}

\* A choice the engine may make: what is protected is kept, and something
\* available is kept unless nothing at all is removed.
SafeChoice(st) ==
  /\ st.prot \subseteq st.keep /\ Protected \subseteq st.prot
  /\ st.keep \cap Eligible # {} \/ st.keep = V

\* With a version, every version of its file is kept.
FilesWhole(st) == \A i \in V, j \in st.keep : ev.comp[i] = ev.comp[j] => i \in st.keep

\* No version is removed that is the only copy of another server's item.
OthersKept(st) ==
  \A i \in V \ st.keep : \A e \in Ver(i).others : e.match = "same_file" => survivor(e, V \ st.keep)

\* A partition that keeps anything keeps a playable copy if it has one.
PlayableFor(st, keep) ==
  \A i \in Eligible : plexPlayable(Ver(i)) /\ Available(i) \cap st.keep # {}
    => \E j \in Available(i) \cap keep : plexPlayable(Ver(j))

\* Every version has a place in the finished ranking.
AllRanked == group \in KeeperCases /\ ev.order \in Seq(V) /\ V \subseteq ToSet(ev.order)

\* Of some versions, one is ranked first.
LEMMA FirstRanked ==
  ASSUME AllRanked, NEW S \in SUBSET V, S # {}
  PROVE  (\A i \in V : pos(i) \in Nat) /\ \E i \in S : \A j \in S : pos(i) <= pos(j)
  <1>1. ASSUME NEW i \in V PROVE pos(i) \in Nat
    <2>1. \E k \in DOMAIN ev.order : ev.order[k] = i BY DEF AllRanked, ToSet
    <2>2. pos(i) \in DOMAIN ev.order BY <2>1, Zenon DEF pos
    <2> QED BY <2>2 DEF AllRanked
  <1> DEFINE P == {pos(i) : i \in S}
  <1>2. P \subseteq Nat /\ P # {} BY <1>1
  <1>3. PICK p \in P : \A q \in P : p <= q
    <2> HIDE DEF P
    <2> QED BY <1>2, LeastMember
  <1>4. PICK i \in S : p = pos(i) BY <1>3
  <1>5. \A j \in S : pos(i) <= pos(j) BY <1>3, <1>4
  <1> QED BY <1>1, <1>5

\* What is unavailable or optimized is protected.
LEMMA EligibleOrProtected ==
  ASSUME NEW i \in V, i \notin Eligible
  PROVE  i \in Protected
  BY DEF Eligible, Protected, protectionReasons

\* The engine's first choice keeps something available, if there is anything.
LEMMA EngineKeepSafe ==
  ASSUME AllRanked
  PROVE  engineKeep \in KeptSets /\ SafeChoice(engineKeep)
  <1>1. Protected \subseteq V BY DEF Protected
  <1>2. RankKeep \subseteq V BY DEF RankKeep, Eligible
  <1>3. /\ engineKeep = [keep |-> RankKeep \cup Protected, prot |-> Protected, applied |-> {}]
    BY DEF engineKeep, Protected
  <1>4. CASE Eligible = {}
    <2>1. V \subseteq Protected BY <1>4, EligibleOrProtected
    <2> QED BY <1>1, <1>2, <1>3, <2>1 DEF KeptSets, SafeChoice
  <1>5. CASE Eligible # {}
    <2>1. Eligible \in SUBSET V BY DEF Eligible
    <2>2. PICK i \in Eligible : \A j \in Eligible : pos(i) <= pos(j) BY <1>5, <2>1, FirstRanked
    <2>3. \A j \in V : pos(j) \in Nat BY <1>5, <2>1, FirstRanked
    <2>4. {j \in Available(i) : pos(j) < pos(i)} = {} BY <2>1, <2>2, <2>3 DEF Available
    <2>5. Max({Profile.keepCount, 1}) \in Int /\ Max({Profile.keepCount, 1}) >= 1
      <3> DEFINE n == Profile.keepCount
      <3>1. n \in Int BY GroupIsTyped DEF AllRanked, IsProfile
      <3> HIDE DEF n
      <3>2. {n, 1} = {n, n, 1, 1} OBVIOUS
      <3>3. Max({n, n, 1, 1}) \in {n, n, 1, 1} /\ Max({n, n, 1, 1}) >= 1 BY <3>1, LargestOfFour
      <3>4. Max({n, 1}) \in Int /\ Max({n, 1}) >= 1 BY <3>1, <3>2, <3>3
      <3> QED BY <3>4 DEF n
    <2>7. i \in RankKeep BY <2>4, <2>5, FS_EmptySet DEF RankKeep
    <2>8. RankKeep \cap Eligible # {} BY <2>7
    <2> QED BY <1>1, <1>2, <1>3, <2>8 DEF KeptSets, SafeChoice
  <1> QED BY <1>4, <1>5

\* Adding the same versions to what is kept and protected leaves a safe choice.
LEMMA MoreKeptIsSafe ==
  ASSUME NEW st \in KeptSets, NEW X \in SUBSET V, NEW A \in SUBSET V, SafeChoice(st)
  PROVE  LET new == [keep |-> st.keep \cup X, prot |-> st.prot \cup X, applied |-> A]
         IN  new \in KeptSets /\ SafeChoice(new)
  BY DEF KeptSets, SafeChoice

\* keepPlayable: where a playable copy is asked for, a partition that keeps
\* anything keeps one.
LEMMA KeepPlayableSafe ==
  ASSUME AllRanked, NEW st \in KeptSets, SafeChoice(st), NEW after \in BOOLEAN
  PROVE  LET new == keepPlayable(st, after)
         IN  /\ new \in KeptSets /\ SafeChoice(new) /\ st.keep \subseteq new.keep
             /\ Env.keepPlayableCopy => PlayableFor(st, new.keep)
  <1> DEFINE new == keepPlayable(st, after)
             X == playableNeeded(st)
  <1>1. X \in SUBSET V BY DEF playableNeeded, Eligible
  <1>2. CASE ~Env.keepPlayableCopy BY <1>2 DEF keepPlayable
  <1>3. CASE Env.keepPlayableCopy
    <2> DEFINE A == IF after THEN st.applied \ X ELSE st.applied
    <2>1. new = [keep |-> st.keep \cup X, prot |-> st.prot \cup X, applied |-> A] BY <1>3 DEF keepPlayable
    <2>2. A \in SUBSET V BY DEF KeptSets
    <2> HIDE DEF A, X
    <2>3. new \in KeptSets /\ SafeChoice(new) BY <2>1, <2>2, <1>1, MoreKeptIsSafe
    <2>4. new.keep = st.keep \cup X BY <2>1
    <2> HIDE DEF new
    <2>5. PlayableFor(st, new.keep)
      <3> SUFFICES ASSUME NEW i \in Eligible, plexPlayable(Ver(i)), Available(i) \cap st.keep # {}
                   PROVE  \E j \in Available(i) \cap new.keep : plexPlayable(Ver(j))
        BY DEF PlayableFor
      <3>1. CASE \E j \in Available(i) \cap st.keep : plexPlayable(Ver(j)) BY <3>1, <2>4
      <3>2. CASE \A j \in Available(i) \cap st.keep : ~plexPlayable(Ver(j))
        <4> DEFINE rivals == {j \in Available(i) \ st.keep : plexPlayable(Ver(j))}
        <4>1. i \in Available(i) BY DEF Available
        <4>2. i \in rivals BY <3>2, <4>1
        <4>3. rivals \in SUBSET V BY DEF Available, Eligible
        <4>4. PICK m \in rivals : \A j \in rivals : pos(m) <= pos(j)
          <5> HIDE DEF rivals
          <5> QED BY <4>2, <4>3, FirstRanked
        <4>5. m \in Eligible /\ Available(m) = Available(i) BY <4>4 DEF Available
        <4>6. m \in X BY <4>4, <4>5, <3>2 DEF X, playableNeeded
        <4> QED BY <4>4, <4>6, <2>4
      <3> QED BY <3>1, <3>2
    <2> QED BY <2>3, <2>4, <2>5 DEF new
  <1> QED BY <1>2, <1>3

\* protectSameFile: every version of a kept version's file is kept.
LEMMA ProtectSameFileSafe ==
  ASSUME AllRanked, NEW st \in KeptSets, SafeChoice(st), NEW after \in BOOLEAN
  PROVE  LET new == protectSameFile(st, after)
         IN  new \in KeptSets /\ SafeChoice(new) /\ st.keep \subseteq new.keep /\ FilesWhole(new)
  <1> DEFINE new == protectSameFile(st, after)
             mates(i) == {j \in V : ev.comp[j] = ev.comp[i]}
             keeper(i) == CHOOSE j \in mates(i) \cap st.keep :
                            \A k \in mates(i) \cap st.keep : pos(j) <= pos(k)
             X == {i \in V : mates(i) \cap st.keep # {} /\ i # keeper(i)}
             A == IF after THEN st.applied \ {i \in X \ st.keep : override[i] = "remove"} ELSE st.applied
  <1>1. new = [keep |-> st.keep \cup X, prot |-> st.prot \cup X, applied |-> A] BY DEF protectSameFile
  <1>2. X \in SUBSET V OBVIOUS
  <1>3. A \in SUBSET V BY DEF KeptSets
  <1>4. ASSUME NEW i \in V, mates(i) \cap st.keep # {} PROVE i \in st.keep \cup X
    <2> DEFINE M == mates(i) \cap st.keep
    <2>1. M \in SUBSET V /\ M # {} BY <1>4
    <2> HIDE DEF M
    <2>2. \E j \in M : \A k \in M : pos(j) <= pos(k) BY <2>1, FirstRanked
    <2>3. (CHOOSE j \in M : \A k \in M : pos(j) <= pos(k)) \in M BY <2>2, Zenon
    <2>4. keeper(i) \in st.keep BY <2>3 DEF M
    <2> HIDE DEF keeper
    <2> QED BY <2>4, <1>4
  <1> HIDE DEF X, A
  <1>5. new \in KeptSets /\ SafeChoice(new) BY <1>1, <1>2, <1>3, MoreKeptIsSafe
  <1>6. new.keep = st.keep \cup X BY <1>1
  <1> HIDE DEF new
  <1>7. ASSUME NEW i \in V, NEW j \in new.keep, ev.comp[i] = ev.comp[j] PROVE i \in new.keep
    <2>1. CASE j \in st.keep
      <3>1. j \in mates(i) BY <2>1, <1>7 DEF KeptSets
      <3> QED BY <3>1, <2>1, <1>4, <1>6
    <2>2. CASE j \in X
      <3>1. mates(j) \cap st.keep # {} BY <2>2 DEF X
      <3>2. mates(i) = mates(j) BY <1>7
      <3> QED BY <3>1, <3>2, <1>4, <1>6
    <2> QED BY <2>1, <2>2, <1>6, <1>7
  <1>8. FilesWhole(new) BY <1>7 DEF FilesWhole
  <1> QED BY <1>5, <1>6, <1>8 DEF new

\* protectOtherServers: what it adds is protected, and once it adds nothing no
\* other server's item loses its only copy.
LEMMA ProtectOthersSafe ==
  ASSUME NEW st \in KeptSets, SafeChoice(st), NEW after \in BOOLEAN
  PROVE  LET new == protectOtherServers(st, after)
         IN  /\ new \in KeptSets /\ SafeChoice(new) /\ st.keep \subseteq new.keep
             /\ new.keep = st.keep => OthersKept(st)
  <1> DEFINE new == protectOtherServers(st, after)
             removed == V \ st.keep
             X == {i \in removed : \E e \in Ver(i).others : e.match = "same_file" /\ ~survivor(e, removed)}
             A == IF after THEN st.applied \ {i \in X : override[i] = "remove"} ELSE st.applied
  <1>1. new = [keep |-> st.keep \cup X, prot |-> st.prot \cup X, applied |-> A] BY DEF protectOtherServers
  <1>2. X \in SUBSET V OBVIOUS
  <1>3. A \in SUBSET V BY DEF KeptSets
  <1>4. X \subseteq st.keep => OthersKept(st) BY DEF OthersKept
  <1> HIDE DEF X, A
  <1>5. new \in KeptSets /\ SafeChoice(new) BY <1>1, <1>2, <1>3, MoreKeptIsSafe
  <1> HIDE DEF new
  <1>6. new.keep = st.keep \cup X BY <1>1
  <1> QED BY <1>4, <1>5, <1>6 DEF new

\* applyOverrides: whatever the user overrides, the choice stays a safe one.
LEMMA OverridesSafe ==
  ASSUME NEW e \in KeptSets, SafeChoice(e)
  PROVE  applyOverrides(e) \in KeptSets /\ SafeChoice(applyOverrides(e))
  <1> DEFINE added == {i \in V \ e.keep : override[i] = "keep"}
             dropped == {i \in e.keep \ e.prot : override[i] = "remove"}
             keep == (e.keep \cup added) \ dropped
             restored == IF keep \cap Eligible = {} THEN dropped \cap Eligible ELSE {}
             new == [keep |-> keep \cup restored, prot |-> e.prot, applied |-> (added \cup dropped) \ restored]
  <1>1. applyOverrides(e) = new BY DEF applyOverrides
  <1>2. e.keep \subseteq V /\ e.prot \subseteq V /\ e.prot \subseteq e.keep /\ Protected \subseteq e.prot
    BY DEF KeptSets, SafeChoice
  <1>3. new \in KeptSets BY <1>2 DEF KeptSets
  <1>4. e.prot \subseteq keep BY <1>2
  <1>5. keep \cup restored = V \/ (keep \cup restored) \cap Eligible # {}
    <2>1. CASE e.keep \cap Eligible # {}
      <3>1. PICK i \in e.keep \cap Eligible : TRUE BY <2>1
      <3>2. i \in keep \/ i \in dropped OBVIOUS
      <3> HIDE DEF keep, dropped
      <3> QED BY <3>1, <3>2
    <2>2. CASE e.keep \cap Eligible = {}
      <3>1. e.keep = V BY <2>2 DEF SafeChoice
      <3>2. Eligible = {} BY <2>2, <3>1 DEF Eligible
      <3>3. V \subseteq e.prot BY <3>2, <1>2, EligibleOrProtected
      <3> QED BY <3>1, <3>3, <1>2
    <2> QED BY <2>1, <2>2
  <1>6. new.keep = keep \cup restored /\ new.prot = e.prot OBVIOUS
  <1> HIDE DEF keep, restored, new
  <1>7. SafeChoice(new) BY <1>2, <1>4, <1>5, <1>6 DEF SafeChoice
  <1> QED BY <1>1, <1>3, <1>7

-----------------------------------------------------------------------------
(* The inductive invariant.                                                *)

EvalSteps == {"idle", "ranking", "ranked", "engine", "engine decided", "overrides", "decided", "done"}

\* What the variables are; the evaluation under way is a record of these parts.
KeeperTypeOK ==
  /\ group \in KeeperCases
  /\ ev \in [step : EvalSteps, metrics : {ev.metrics}, comp : {ev.comp}, order : Seq(V), rounds : {ev.rounds},
             left : SUBSET V, tried : Nat, elim : {ev.elim}, kept : KeptSets, engine : KeptSets]

\* Those ranked before place a.
Before(a) == {ev.order[k] : k \in 1..(a - 1)}

\* The ranking so far: nobody is ranked twice, and when each was ranked nobody
\* who was left beat it on the first criterion; the round under way has
\* candidates, and beyond the first criterion they are unbeaten there.
RankedSoFar ==
  ev.step # "idle" =>
    /\ MetricsOK(ev.metrics)
    /\ \A a \in DOMAIN ev.order : /\ ev.order[a] \notin Before(a)
                                 /\ \A x \in V \ Before(a) : ~beats(ev.metrics[1], x, ev.order[a])
    /\ ev.step # "ranking" => V \subseteq ToSet(ev.order)
    /\ ev.step = "ranking" =>
         /\ ev.left # {} /\ ev.left \cap ToSet(ev.order) = {} /\ ev.tried <= Len(ev.metrics)
         /\ ev.tried = 0 => ev.left = V \ ToSet(ev.order)
         /\ ev.tried # 0 => \A w \in ev.left, x \in V \ ToSet(ev.order) : ~beats(ev.metrics[1], x, w)

\* The choice so far, step by step of decide.
KeptSoFar ==
  /\ ev.step \in {"engine", "engine decided", "overrides", "decided", "done"}
       => SafeChoice(ev.kept) /\ FilesWhole(ev.kept)
  /\ ev.step \in {"engine decided", "overrides", "decided", "done"} => SafeChoice(ev.engine)
  /\ ev.step \in {"overrides", "decided", "done"} /\ Env.keepPlayableCopy
       => PlayableFor(applyOverrides(ev.engine), ev.kept.keep)
  /\ ev.step \in {"decided", "done"} => OthersKept(ev.kept)

\* What the flags must tell: a kept version whose file is missing, and no
\* intentional instances where there are none.
FlagsTell(flags, keep) ==
  /\ "intentional_arr" \in flags => Intentional
  /\ (\E i \in keep \cap Eligible : Ver(i).inaccessible) => "missing_keeper_file" \in flags

\* The stored decision is the finished evaluation's.
DecidedSoFar ==
  Decided =>
    /\ ev.step = "done" /\ decision.order = ev.order
    /\ decision.keep = ev.kept.keep /\ decision.prot = ev.kept.prot
    /\ FlagsTell(decision.flags, decision.keep)
    /\ decision.status = finishStatus(decision.flags, decision.keep)

KeeperInv == KeeperTypeOK /\ RankedSoFar /\ KeptSoFar /\ DecidedSoFar

\* A group offered or left approved is not report-only, waits for no review,
\* no minimum age and no import, and removes something.
LEMMA StatusTells ==
  ASSUME NEW flags, NEW keep, finishStatus(flags, keep) \in {"pending", "queued"}
  PROVE  ~ReportOnly /\ flags \cap reviewFlags = {} /\ {"min_age", "arr_queue_busy"} \cap flags = {}
  <1>1. status(flags, keep) \in {"protected", "review", "deferred", "pending"} BY DEF status
  <1>2. \/ status(flags, keep) = "pending"
        \/ status(flags, keep) = "deferred" /\ flags \cap deferFlags = {"playing"}
    BY <1>1 DEF finishStatus
  <1>3. ~ReportOnly /\ flags \cap reviewFlags = {} BY <1>2 DEF status
  <1>4. flags \cap deferFlags = {} \/ flags \cap deferFlags = {"playing"} BY <1>2 DEF status
  <1>5. "min_age" \notin flags /\ "arr_queue_busy" \notin flags BY <1>4 DEF deferFlags
  <1> QED BY <1>3, <1>5

\* The flags of a decision tell what they must.
LEMMA FlagsAreTold ==
  ASSUME NEW keep
  PROVE  FlagsTell(Flags(keep), keep)
  <1>1. "intentional_arr" \in engineOwnedFlag BY DEF engineOwnedFlag
  <1>2. "intentional_arr" \notin versionFlags BY DEF versionFlags
  <1>3. "intentional_arr" \notin crossServerFlags(keep) BY DEF crossServerFlags
  <1>4. "intentional_arr" \in Flags(keep) => Intentional BY <1>1, <1>2, <1>3 DEF Flags
  <1>5. (\E i \in keep \cap Eligible : Ver(i).inaccessible) => "missing_keeper_file" \in Flags(keep) BY DEF Flags
  <1> QED BY <1>4, <1>5 DEF FlagsTell

\* What is removed of an evaluated group is protected by nothing.
LEMMA RemovedIsFree ==
  ASSUME KeeperTypeOK, SafeChoice(ev.kept), NEW r \in V \ ev.kept.keep
  PROVE  r \notin ev.kept.prot /\ ~ReportOnly /\ ~protectionReasons(r)
  BY DEF SafeChoice, Protected

\* The invariant gives what is checked of every decision that is acted on.
LEMMA InvGivesPending ==
  ASSUME KeeperInv
  PROVE  PendingIsValid
  <1> SUFFICES ASSUME Decided, decision.status \in {"pending", "queued"} PROVE ValidateDecisions
    BY DEF PendingIsValid
  <1> DEFINE kept == decision.keep
             removed == V \ kept
  <1>1. /\ ev.step = "done" /\ kept = ev.kept.keep /\ decision.prot = ev.kept.prot
        /\ FlagsTell(decision.flags, kept) /\ decision.status = finishStatus(decision.flags, kept)
    BY DEF KeeperInv, DecidedSoFar
  <1>2. SafeChoice(ev.kept) /\ FilesWhole(ev.kept) /\ OthersKept(ev.kept) BY <1>1 DEF KeeperInv, KeptSoFar
  <1>3. /\ ~ReportOnly /\ decision.flags \cap reviewFlags = {}
        /\ {"min_age", "arr_queue_busy"} \cap decision.flags = {}
    BY <1>1, StatusTells
  <1>4. V # {} /\ kept \subseteq V
    <2>1. ev.kept \in KeptSets BY DEF KeeperInv, KeeperTypeOK
    <2> QED BY <1>1, <2>1, VersionsAreNumbered DEF KeeperInv, KeeperTypeOK, KeptSets
  <1>5. kept # {} BY <1>1, <1>2, <1>4 DEF SafeChoice
  <1>6. removed # {} => {i \in kept \cap Eligible : ~Ver(i).inaccessible} # {}
    <2>1. "missing_keeper_file" \notin decision.flags BY <1>3 DEF reviewFlags
    <2>2. \A i \in kept \cap Eligible : ~Ver(i).inaccessible BY <1>1, <2>1 DEF FlagsTell
    <2>3. removed # {} => kept \cap Eligible # {} BY <1>1, <1>2, <1>4 DEF SafeChoice
    <2> QED BY <2>2, <2>3
  <1>7. ASSUME NEW r \in removed
        PROVE  /\ r \notin decision.prot /\ ~isShared(Ver(r)) /\ ~isOptimized(Ver(r)) /\ ~discMember(Ver(r))
               /\ Ver(r).disc # "none" => /\ group.mediaType # "episode"
                                         /\ ~discProtectOnly(Ver(r).disc) /\ Ver(r).removable /\ Ver(r).reachable
               /\ ~("intentional_arr" \in decision.flags /\ Ver(r).arr # 0)
               /\ \A k \in kept : ev.comp[k] # ev.comp[r]
               /\ \A e \in Ver(r).others : e.match = "same_file" => survivor(e, removed)
    <2>1. r \notin ev.kept.prot /\ ~protectionReasons(r) BY <1>1, <1>2, RemovedIsFree DEF KeeperInv
    <2>2. ~isShared(Ver(r)) /\ ~isOptimized(Ver(r)) /\ ~discMember(Ver(r)) BY <2>1 DEF protectionReasons
    <2>3. Ver(r).disc # "none" => /\ group.mediaType # "episode"
                                  /\ ~discProtectOnly(Ver(r).disc) /\ Ver(r).removable /\ Ver(r).reachable
      BY <2>1 DEF protectionReasons, discProtected
    <2>4. ~("intentional_arr" \in decision.flags /\ Ver(r).arr # 0) BY <1>1, <2>1 DEF protectionReasons, FlagsTell
    <2>5. \A k \in kept : ev.comp[k] # ev.comp[r] BY <1>1, <1>2 DEF FilesWhole
    <2>6. \A e \in Ver(r).others : e.match = "same_file" => survivor(e, removed) BY <1>1, <1>2 DEF OthersKept
    <2> QED BY <1>1, <2>1, <2>2, <2>3, <2>4, <2>5, <2>6
  <1> HIDE DEF removed
  <1> QED BY <1>3, <1>5, <1>6, <1>7 DEF ValidateDecisions, removed

\* It gives that a playable copy is kept, and that the ranking is sound.
LEMMA InvGivesTheRest ==
  ASSUME KeeperInv
  PROVE  PlayableCopyKept /\ BestUnbeaten
  <1>1. PlayableCopyKept
    <2> SUFFICES ASSUME Decided, Env.keepPlayableCopy PROVE PlayableFor(applyOverrides(ev.engine), decision.keep)
      BY DEF PlayableCopyKept, PlayableFor
    <2> QED BY DEF KeeperInv, KeptSoFar, DecidedSoFar
  <1>2. BestUnbeaten
    <2> SUFFICES ASSUME Decided, NEW a \in DOMAIN decision.order, NEW b \in a..Len(decision.order)
                 PROVE  ~beats(ev.metrics[1], decision.order[b], decision.order[a])
      BY DEF BestUnbeaten
    <2>1. decision.order = ev.order /\ ev.step = "done" BY DEF KeeperInv, DecidedSoFar
    <2>2. ev.order \in Seq(V) BY DEF KeeperInv, KeeperTypeOK
    <2>3. a \in 1..Len(ev.order) /\ b \in 1..Len(ev.order) /\ a <= b BY <2>1, <2>2
    <2>4. ev.order[b] \notin Before(b) /\ \A x \in V \ Before(a) : ~beats(ev.metrics[1], x, ev.order[a])
      BY <2>1, <2>2, <2>3 DEF KeeperInv, RankedSoFar
    <2>5. Before(a) \subseteq Before(b) BY <2>3 DEF Before
    <2>6. ev.order[b] \in V BY <2>2, <2>3
    <2> QED BY <2>1, <2>4, <2>5, <2>6
  <1> QED BY <1>1, <1>2

-----------------------------------------------------------------------------
(* The steps of Evaluate keep the invariant.                               *)

\* No step changes the group, so what is computed from it alone stays.
LEMMA SameProtected ==
  ASSUME group' = group
  PROVE  Protected' = Protected
  <1>1. V' = V /\ ReportOnly' = ReportOnly BY DEF V, ReportOnly, Ver
  <1>2. ASSUME NEW i \in V PROVE protectionReasons(i)' <=> protectionReasons(i)
    <2>1. Ver(i)' = Ver(i) /\ Profile' = Profile /\ Env' = Env BY DEF Ver, Profile, Env
    <2>2. Intentional' <=> Intentional BY DEF Intentional, Env, Ver, V
    <2>3. discProtected(group.mediaType, Ver(i))' <=> discProtected(group.mediaType, Ver(i)) BY <2>1 DEF discProtected
    <2> QED BY <2>1, <2>2, <2>3 DEF protectionReasons
  <1>3. {i \in V : protectionReasons(i)}' = {i \in V : protectionReasons(i)}
    <2> QED BY <1>1, <1>2
  <1> QED BY <1>1, <1>3 DEF Protected

LEMMA SameGroup ==
  ASSUME group' = group
  PROVE  /\ V' = V /\ Eligible' = Eligible /\ Env' = Env /\ Protected' = Protected /\ KeptSets' = KeptSets
         /\ Intentional' = Intentional /\ ReportOnly' = ReportOnly
         /\ \A i \in V : Ver(i)' = Ver(i) /\ Available(i)' = Available(i)
  <1>1. V' = V /\ Env' = Env /\ \A i \in V : Ver(i)' = Ver(i) BY DEF V, Env, Ver
  <1>2. Eligible' = Eligible BY <1>1 DEF Eligible
  <1>3. Intentional' = Intentional /\ ReportOnly' = ReportOnly BY <1>1 DEF Intentional, ReportOnly, Ver, Env
  <1>4. \A i \in V : Available(i)' = Available(i) BY <1>1, <1>2 DEF Available, partitionOf, Profile, Ver
  <1>5. KeptSets' = KeptSets BY <1>1 DEF KeptSets
  <1> QED BY <1>1, <1>2, <1>3, <1>4, <1>5, SameProtected

\* The ranking stands while only the choice of keepers changes.
LEMMA RankingStands ==
  ASSUME KeeperInv, group' = group, ev.step \notin {"idle", "ranking"}, ev'.step \notin {"idle", "ranking"},
         ev'.metrics = ev.metrics, ev'.order = ev.order
  PROVE  RankedSoFar'
  <1>1. V' = V BY SameGroup
  <1>2. MetricsOK(ev.metrics)' BY <1>1 DEF KeeperInv, RankedSoFar, MetricsOK, MetricOK
  <1>3. \A a \in DOMAIN ev.order : Before(a)' = Before(a) BY DEF Before
  <1>4. ASSUME NEW a \in DOMAIN ev'.order
        PROVE  ev'.order[a] \notin Before(a)' /\ \A x \in V' \ Before(a)' : ~beats(ev'.metrics[1], x, ev'.order[a])
    BY <1>1, <1>3 DEF KeeperInv, RankedSoFar
  <1>5. V' \subseteq ToSet(ev'.order) BY <1>1 DEF KeeperInv, RankedSoFar
  <1> QED BY <1>2, <1>4, <1>5 DEF RankedSoFar

LEMMA NewEvaluationKeeps ==
  ASSUME KeeperInv, NewEvaluation
  PROVE  KeeperInv'
  <1>1. group' = group /\ decision' = decision /\ decision = Undecided BY DEF NewEvaluation
  <1>2. ev' = [step |-> "ranking", metrics |-> Metrics, comp |-> sameFileComponents, order |-> <<>>,
               rounds |-> <<>>, left |-> V, tried |-> 0, elim |-> [i \in V |-> 0],
               kept |-> NothingKept, engine |-> NothingKept]
    BY DEF NewEvaluation, IdleEval
  <1>3. group \in KeeperCases BY DEF KeeperInv, KeeperTypeOK
  <1>4. V' = V /\ KeptSets' = KeptSets BY <1>1, SameGroup
  <1>5. V # {} BY <1>3, VersionsAreNumbered
  <1> PICK ms : ms = Metrics OBVIOUS
  <1>6. MetricsOK(ms) BY <1>3, CriteriaAreMetrics
  <1>7. /\ ev'.step = "ranking" /\ ev'.metrics = ms /\ ev'.order = <<>> /\ ev'.left = V /\ ev'.tried = 0
        /\ ev'.kept = NothingKept /\ ev'.engine = NothingKept
    BY <1>2
  <1>8. KeeperTypeOK'
    <2>1. NothingKept \in KeptSets BY DEF NothingKept, KeptSets
    <2>2. <<>> \in Seq(V) /\ 0 \in Nat /\ V \in SUBSET V OBVIOUS
    <2> QED BY <1>1, <1>2, <1>3, <1>4, <1>7, <2>1, <2>2 DEF KeeperTypeOK, EvalSteps
  <1>9. RankedSoFar'
    <2>1. MetricsOK(ev.metrics)' BY <1>4, <1>6, <1>7 DEF MetricsOK, MetricOK
    <2>2. DOMAIN ev'.order = {} /\ ToSet(ev.order)' = {} BY <1>7 DEF ToSet
    <2>3. 0 <= Len(ms) BY <1>6 DEF MetricsOK
    <2> QED BY <1>4, <1>5, <1>7, <2>1, <2>2, <2>3 DEF RankedSoFar
  <1>10. KeptSoFar' BY <1>7 DEF KeptSoFar
  <1>11. DecidedSoFar' BY <1>1 DEF DecidedSoFar, Decided, Undecided
  <1> QED BY <1>8, <1>9, <1>10, <1>11 DEF KeeperInv

\* While versions are ranked nothing is decided, and nothing is chosen yet.
LEMMA RankingDecidesNothing ==
  ASSUME KeeperInv, ev.step \in {"ranking", "ranked"}, decision' = decision, ev'.step \in {"ranking", "ranked"}
  PROVE  KeptSoFar' /\ DecidedSoFar'
  <1>1. KeptSoFar' BY DEF KeptSoFar
  <1>2. decision = Undecided BY DEF KeeperInv, DecidedSoFar, Decided
  <1> QED BY <1>1, <1>2 DEF DecidedSoFar, Decided, Undecided

LEMMA NarrowRoundKeeps ==
  ASSUME KeeperInv, NarrowRound
  PROVE  KeeperInv'
  <1> DEFINE k == ev.tried + 1
             next == survivors(ev.metrics[k], ev.left)
  <1>1. /\ group' = group /\ decision' = decision /\ ev.step = "ranking" /\ ev.tried < Len(ev.metrics)
        /\ ev' = [ev EXCEPT !.tried = k, !.left = next,
                    !.elim = [i \in V |-> IF i \in ev.left \ next THEN k ELSE ev.elim[i]]]
    BY DEF NarrowRound
  <1>2. KeeperTypeOK /\ RankedSoFar BY DEF KeeperInv
  <1>3. group \in KeeperCases /\ ev.left \in SUBSET V /\ ev.tried \in Nat BY <1>2 DEF KeeperTypeOK
  <1>4. MetricsOK(ev.metrics) /\ ev.left # {} BY <1>1, <1>2 DEF RankedSoFar
  <1>5. MetricOK(ev.metrics[k]) /\ k \in Nat /\ k # 0 /\ k <= Len(ev.metrics) BY <1>1, <1>3, <1>4 DEF MetricsOK
  <1> HIDE DEF k
  <1>6. /\ next \in SUBSET ev.left /\ next # {}
        /\ \A w \in next, b \in ev.left : ~beats(ev.metrics[k], b, w)
    BY <1>3, <1>4, <1>5, SurvivorsUnbeaten
  <1> HIDE DEF next
  <1>7. /\ ev'.step = ev.step /\ ev'.metrics = ev.metrics /\ ev'.order = ev.order /\ ev'.left = next
        /\ ev'.tried = k /\ ev'.kept = ev.kept /\ ev'.engine = ev.engine /\ ev'.comp = ev.comp /\ ev'.rounds = ev.rounds
    BY <1>1, <1>2 DEF KeeperTypeOK
  <1>8. V' = V /\ KeptSets' = KeptSets BY <1>1, SameGroup
  <1>9. KeeperTypeOK'
    <2> DEFINE el == [i \in V |-> IF i \in ev.left \ next THEN k ELSE ev.elim[i]]
    <2>1. ev' = [ev EXCEPT !.tried = k, !.left = next, !.elim = el] BY <1>1
    <2> HIDE DEF el
    <2>2. ev'.elim = el BY <2>1, <1>2 DEF KeeperTypeOK
    <2>3. ev' \in [step : EvalSteps, metrics : {ev.metrics}, comp : {ev.comp}, order : Seq(V), rounds : {ev.rounds},
                   left : SUBSET V, tried : Nat, elim : {el}, kept : KeptSets, engine : KeptSets]
      BY <2>1, <1>2, <1>3, <1>5, <1>6 DEF KeeperTypeOK
    <2> QED BY <2>2, <2>3, <1>1, <1>3, <1>7, <1>8 DEF KeeperTypeOK
  <1>10. RankedSoFar'
    <2>1. MetricsOK(ev.metrics)' BY <1>4, <1>7, <1>8 DEF MetricsOK, MetricOK
    <2>2. \A a \in DOMAIN ev.order : Before(a)' = Before(a) BY <1>7 DEF Before
    <2>3. ASSUME NEW a \in DOMAIN ev'.order
          PROVE  ev'.order[a] \notin Before(a)' /\ \A x \in V' \ Before(a)' : ~beats(ev'.metrics[1], x, ev'.order[a])
      BY <1>1, <1>2, <1>7, <1>8, <2>2 DEF RankedSoFar
    <2>4. \A w \in next, x \in V \ ToSet(ev.order) : ~beats(ev.metrics[1], x, w)
      <3>1. CASE ev.tried = 0
        <4>1. k = 1 BY <3>1 DEF k
        <4>2. ev.left = V \ ToSet(ev.order) BY <1>1, <1>2, <3>1 DEF RankedSoFar
        <4> QED BY <4>1, <4>2, <1>6
      <3>2. CASE ev.tried # 0 BY <1>1, <1>2, <1>6, <3>2 DEF RankedSoFar
      <3> QED BY <3>1, <3>2
    <2>5. next \cap ToSet(ev.order) = {} BY <1>1, <1>2, <1>6 DEF RankedSoFar
    <2> QED BY <1>1, <1>5, <1>6, <1>7, <1>8, <2>1, <2>3, <2>4, <2>5 DEF RankedSoFar
  <1>11. KeptSoFar' /\ DecidedSoFar' BY <1>1, <1>7, RankingDecidesNothing
  <1> QED BY <1>9, <1>10, <1>11 DEF KeeperInv

\* The winner of a round is unbeaten on the first criterion by all that were left.
LEMMA EndRoundKeeps ==
  ASSUME KeeperInv, EndRound
  PROVE  KeeperInv'
  <1> PICK w : w = Min(ev.left) OBVIOUS
  <1> PICK o : o = Append(ev.order, w) OBVIOUS
  <1> DEFINE rest == V \ ({w} \cup ToSet(ev.order))
             st == IF rest = {} THEN "ranked" ELSE "ranking"
             round == [i \in V |-> IF i \in ev.left \ {w} THEN Len(ev.metrics) + 1 ELSE ev.elim[i]]
             el == [i \in V |-> 0]
  <1>1. /\ group' = group /\ decision' = decision /\ ev.step = "ranking"
        /\ Cardinality(ev.left) = 1 \/ ev.tried = Len(ev.metrics)
        /\ ev' = [ev EXCEPT !.step = st, !.order = o, !.rounds = Append(ev.rounds, round),
                    !.left = rest, !.tried = 0, !.elim = el]
    BY DEF EndRound
  <1>2. KeeperTypeOK /\ RankedSoFar BY DEF KeeperInv
  <1>3. group \in KeeperCases /\ ev.left \in SUBSET V /\ ev.tried \in Nat /\ ev.order \in Seq(V)
    BY <1>2 DEF KeeperTypeOK
  <1>4. MetricsOK(ev.metrics) /\ ev.left # {} /\ ev.left \cap ToSet(ev.order) = {} BY <1>1, <1>2 DEF RankedSoFar
  <1>5. w \in ev.left
    <2>1. ev.left \subseteq Nat BY <1>3, VersionsAreNumbered
    <2> QED BY <2>1, <1>4, LeastMember
  <1>6. \A x \in V \ ToSet(ev.order) : ~beats(ev.metrics[1], x, w)
    <2>1. CASE ev.tried # 0 BY <2>1, <1>1, <1>2, <1>5 DEF RankedSoFar
    <2>2. CASE ev.tried = 0
      <3>1. Cardinality(ev.left) = 1 BY <2>2, <1>1, <1>4 DEF MetricsOK
      <3>2. IsFiniteSet(ev.left) BY <1>3, VersionsAreNumbered
      <3>3. ev.left = {w} BY <3>1, <3>2, <1>5, FS_Singleton
      <3>4. V \ ToSet(ev.order) = {w} BY <2>2, <3>3, <1>1, <1>2 DEF RankedSoFar
      <3>5. MetricOK(ev.metrics[1]) BY <1>4 DEF MetricsOK
      <3>6. {w} \in SUBSET V /\ {w} # {} BY <1>3, <1>5
      <3>7. /\ survivors(ev.metrics[1], {w}) \in SUBSET {w} /\ survivors(ev.metrics[1], {w}) # {}
            /\ \A v \in survivors(ev.metrics[1], {w}), x \in {w} : ~beats(ev.metrics[1], x, v)
        BY <3>5, <3>6, <1>3, SurvivorsUnbeaten
      <3>8. w \in survivors(ev.metrics[1], {w}) BY <3>7
      <3> QED BY <3>4, <3>7, <3>8
    <2> QED BY <2>1, <2>2
  <1>7. /\ o \in Seq(V) /\ Len(o) = Len(ev.order) + 1 /\ o[Len(o)] = w /\ DOMAIN o = 1..(Len(ev.order) + 1)
        /\ \A k \in 1..Len(ev.order) : o[k] = ev.order[k]
    BY <1>3, <1>5
  <1>8. ToSet(o) = {w} \cup ToSet(ev.order)
    <2>1. Len(ev.order) \in Nat /\ DOMAIN ev.order = 1..Len(ev.order) BY <1>3
    <2> QED BY <1>7, <2>1 DEF ToSet
  <1> HIDE DEF rest, st, round, el
  <1>9. /\ ev'.step = st /\ ev'.metrics = ev.metrics /\ ev'.order = o /\ ev'.left = rest
        /\ ev'.tried = 0 /\ ev'.kept = ev.kept /\ ev'.engine = ev.engine /\ ev'.comp = ev.comp
        /\ ev'.rounds = Append(ev.rounds, round) /\ ev'.elim = el
    BY <1>1, <1>2 DEF KeeperTypeOK
  <1>10. V' = V /\ KeptSets' = KeptSets BY <1>1, SameGroup
  <1>11. rest \in SUBSET V /\ st \in {"ranked", "ranking"} BY DEF rest, st
  <1>12. KeeperTypeOK'
    <2>1. ev' \in [step : EvalSteps, metrics : {ev.metrics}, comp : {ev.comp}, order : Seq(V), rounds : {Append(ev.rounds, round)},
                   left : SUBSET V, tried : Nat, elim : {el}, kept : KeptSets, engine : KeptSets]
      BY <1>1, <1>2, <1>7, <1>11 DEF KeeperTypeOK, EvalSteps
    <2> QED BY <2>1, <1>1, <1>3, <1>9, <1>10 DEF KeeperTypeOK
  <1>13. RankedSoFar'
    <2>1. MetricsOK(ev.metrics)' BY <1>4, <1>9, <1>10 DEF MetricsOK, MetricOK
    <2>2. \A a \in DOMAIN ev.order : Before(a)' = Before(a) /\ o[a] = ev.order[a]
      <3> TAKE a \in DOMAIN ev.order
      <3>1. DOMAIN ev.order = 1..Len(ev.order) /\ Len(ev.order) \in Nat BY <1>3
      <3>2. \A k \in 1..(a - 1) : o[k] = ev.order[k] BY <3>1, <1>7
      <3>3. Before(a)' = {o[k] : k \in 1..(a - 1)} BY <1>9 DEF Before
      <3>4. o[a] = ev.order[a] BY <3>1, <1>7
      <3>5. {o[k] : k \in 1..(a - 1)} = {ev.order[k] : k \in 1..(a - 1)} BY <3>2
      <3>6. Before(a) = {ev.order[k] : k \in 1..(a - 1)} BY DEF Before
      <3>7. Before(a)' = Before(a) BY <3>3, <3>5, <3>6
      <3> QED BY <3>4, <3>7
    <2>3. Before(Len(o))' = ToSet(ev.order)
      <3>1. DOMAIN ev.order = 1..Len(ev.order) /\ Len(ev.order) \in Nat BY <1>3
      <3>2. Before(Len(o))' = {o[k] : k \in 1..(Len(o) - 1)} BY <1>9 DEF Before
      <3>3. Len(o) - 1 = Len(ev.order) BY <3>1, <1>7
      <3> QED BY <3>1, <3>2, <3>3, <1>7 DEF ToSet
    <2>4. ASSUME NEW a \in DOMAIN o
          PROVE  o[a] \notin Before(a)' /\ \A x \in V \ Before(a)' : ~beats(ev.metrics[1], x, o[a])
      <3>1. a \in DOMAIN ev.order \/ a = Len(o) BY <1>3, <1>7
      <3>2. CASE a \in DOMAIN ev.order BY <3>2, <2>2, <1>1, <1>2 DEF RankedSoFar
      <3>3. CASE a = Len(o) BY <3>3, <2>3, <1>4, <1>5, <1>6, <1>7
      <3> QED BY <3>1, <3>2, <3>3
    <2>5. rest = V \ ToSet(o) BY <1>8 DEF rest
    <2>6. st # "ranking" => rest = {} BY DEF st
    <2>7. st = "ranking" => rest # {} BY DEF st
    <2>8. 0 <= Len(ev.metrics) BY <1>4 DEF MetricsOK
    <2> QED BY <1>8, <1>9, <1>10, <2>1, <2>4, <2>5, <2>6, <2>7, <2>8 DEF RankedSoFar
  <1>14. KeptSoFar' /\ DecidedSoFar' BY <1>1, <1>9, <1>11, RankingDecidesNothing
  <1> QED BY <1>12, <1>13, <1>14 DEF KeeperInv

\* What is true of a choice of keepers stays true of it in the next state.
LEMMA ChoiceStands ==
  ASSUME group' = group, override' = override, ev'.comp = ev.comp,
         NEW K \in KeptSets, NEW E \in KeptSets, ev'.kept = K, ev'.engine = E
  PROVE  /\ SafeChoice(K) => SafeChoice(ev.kept)'
         /\ FilesWhole(K) => FilesWhole(ev.kept)'
         /\ OthersKept(K) => OthersKept(ev.kept)'
         /\ SafeChoice(E) => SafeChoice(ev.engine)'
         /\ PlayableFor(applyOverrides(E), K.keep) => PlayableFor(applyOverrides(ev.engine), ev.kept.keep)'
  <1>1. /\ V' = V /\ Eligible' = Eligible /\ Protected' = Protected
        /\ \A i \in V : Ver(i)' = Ver(i) /\ Available(i)' = Available(i)
    BY SameGroup
  <1>2. SafeChoice(K) => SafeChoice(ev.kept)' BY <1>1 DEF SafeChoice
  <1>3. FilesWhole(K) => FilesWhole(ev.kept)' BY <1>1 DEF FilesWhole
  <1>4. OthersKept(K) => OthersKept(ev.kept)' BY <1>1 DEF OthersKept
  <1>5. SafeChoice(E) => SafeChoice(ev.engine)' BY <1>1 DEF SafeChoice
  <1>6. applyOverrides(ev.engine)' = applyOverrides(E) BY <1>1 DEF applyOverrides
  <1>7. PlayableFor(applyOverrides(E), K.keep) => PlayableFor(applyOverrides(ev.engine), ev.kept.keep)'
    <2> PICK a : a = applyOverrides(E) OBVIOUS
    <2> SUFFICES ASSUME PlayableFor(a, K.keep) PROVE PlayableFor(applyOverrides(ev.engine), ev.kept.keep)'
      OBVIOUS
    <2>1. applyOverrides(ev.engine)' = a BY <1>6
    <2>2. Eligible \subseteq V BY DEF Eligible
    <2>3. ASSUME NEW i \in Eligible', plexPlayable(Ver(i))', (Available(i) \cap applyOverrides(ev.engine).keep)' # {}
          PROVE  \E j \in (Available(i) \cap ev.kept.keep)' : plexPlayable(Ver(j))'
      <3>1. i \in Eligible /\ i \in V /\ Available(i)' = Available(i) /\ Ver(i)' = Ver(i) BY <1>1, <2>2, <2>3
      <3>2. plexPlayable(Ver(i)) BY <3>1, <2>3
      <3>3. Available(i) \cap a.keep # {} BY <3>1, <2>1, <2>3
      <3>4. PICK j \in Available(i) \cap K.keep : plexPlayable(Ver(j)) BY <3>1, <3>2, <3>3 DEF PlayableFor
      <3>5. j \in V BY <3>4 DEF KeptSets
      <3>6. plexPlayable(Ver(j))' BY <3>4, <3>5, <1>1
      <3>7. j \in (Available(i) \cap ev.kept.keep)' BY <3>1, <3>4
      <3> QED BY <3>6, <3>7
    <2> QED BY <2>3 DEF PlayableFor
  <1> QED BY <1>2, <1>3, <1>4, <1>5, <1>7

\* Once ranked, every version has its place.
LEMMA RankedAll ==
  ASSUME KeeperInv, ev.step \notin {"idle", "ranking"}
  PROVE  AllRanked
  BY DEF KeeperInv, KeeperTypeOK, RankedSoFar, AllRanked

\* A step that only moves on and changes the choice keeps the types.
LEMMA ChoiceTyped ==
  ASSUME KeeperTypeOK, group' = group, NEW st \in EvalSteps, NEW K \in KeptSets, NEW E \in KeptSets,
         ev' = [ev EXCEPT !.step = st, !.kept = K, !.engine = E]
  PROVE  /\ KeeperTypeOK'
         /\ ev'.step = st /\ ev'.kept = K /\ ev'.engine = E
         /\ ev'.metrics = ev.metrics /\ ev'.order = ev.order /\ ev'.comp = ev.comp
  <1>1. /\ ev'.step = st /\ ev'.kept = K /\ ev'.engine = E
        /\ ev'.metrics = ev.metrics /\ ev'.order = ev.order /\ ev'.comp = ev.comp
        /\ ev'.rounds = ev.rounds /\ ev'.elim = ev.elim
    BY DEF KeeperTypeOK
  <1>2. V' = V /\ KeptSets' = KeptSets BY SameGroup
  <1>3. ev' \in [step : EvalSteps, metrics : {ev.metrics}, comp : {ev.comp}, order : Seq(V), rounds : {ev.rounds},
                 left : SUBSET V, tried : Nat, elim : {ev.elim}, kept : KeptSets, engine : KeptSets]
    BY DEF KeeperTypeOK
  <1>4. group' \in KeeperCases BY DEF KeeperTypeOK
  <1> QED BY <1>1, <1>2, <1>3, <1>4 DEF KeeperTypeOK

\* Nothing is decided before the evaluation is done.
LEMMA NotYetDecided ==
  ASSUME KeeperInv, ev.step # "done", decision' = decision
  PROVE  DecidedSoFar'
  <1>1. decision = Undecided BY DEF KeeperInv, DecidedSoFar, Decided
  <1> QED BY <1>1 DEF DecidedSoFar, Decided, Undecided

LEMMA DecideEngineKeeps ==
  ASSUME KeeperInv, DecideEngine
  PROVE  KeeperInv'
  <1> PICK a : a = keepPlayable(engineKeep, FALSE) OBVIOUS
  <1> PICK K : K = protectSameFile(a, FALSE) OBVIOUS
  <1> PICK E : E = ev.engine OBVIOUS
  <1>1. /\ ev.step = "ranked" /\ group' = group /\ decision' = decision /\ override' = override
    BY DEF DecideEngine
  <1>2. AllRanked BY <1>1, RankedAll
  <1>3. a \in KeptSets /\ SafeChoice(a) BY <1>2, EngineKeepSafe, KeepPlayableSafe
  <1>4. K \in KeptSets /\ SafeChoice(K) /\ FilesWhole(K) BY <1>2, <1>3, ProtectSameFileSafe
  <1>5. KeeperTypeOK /\ E \in KeptSets BY DEF KeeperInv, KeeperTypeOK
  <1> PICK st : st = "engine" OBVIOUS
  <1>6. ev' = [ev EXCEPT !.step = st, !.kept = K, !.engine = E]
    <2>1. ev' = [ev EXCEPT !.step = st, !.kept = K] BY DEF DecideEngine
    <2> QED BY <2>1, <1>5 DEF KeeperTypeOK
  <1>7. st \in EvalSteps BY DEF EvalSteps
  <1>8. /\ KeeperTypeOK' /\ ev'.step = st /\ ev'.kept = K /\ ev'.engine = E
        /\ ev'.metrics = ev.metrics /\ ev'.order = ev.order /\ ev'.comp = ev.comp
    BY <1>1, <1>4, <1>5, <1>6, <1>7, ChoiceTyped
  <1>9. RankedSoFar' BY <1>1, <1>8, RankingStands
  <1>10. SafeChoice(ev.kept)' /\ FilesWhole(ev.kept)' BY <1>1, <1>4, <1>5, <1>8, ChoiceStands
  <1>11. KeptSoFar' BY <1>8, <1>10 DEF KeptSoFar
  <1>12. DecidedSoFar' BY <1>1, NotYetDecided
  <1> QED BY <1>8, <1>9, <1>11, <1>12 DEF KeeperInv

LEMMA DecideOverridesKeeps ==
  ASSUME KeeperInv, DecideOverrides
  PROVE  KeeperInv'
  <1> PICK E : E = ev.engine OBVIOUS
  <1> PICK u : u = applyOverrides(E) OBVIOUS
  <1> PICK a : a = keepPlayable(u, TRUE) OBVIOUS
  <1> PICK K : K = protectSameFile(a, TRUE) OBVIOUS
  <1>1. /\ ev.step = "engine decided" /\ group' = group /\ decision' = decision /\ override' = override
    BY DEF DecideOverrides
  <1>2. AllRanked BY <1>1, RankedAll
  <1>3. KeeperTypeOK /\ E \in KeptSets /\ SafeChoice(E) BY <1>1 DEF KeeperInv, KeeperTypeOK, KeptSoFar
  <1>4. u \in KeptSets /\ SafeChoice(u) BY <1>3, OverridesSafe
  <1>5. a \in KeptSets /\ SafeChoice(a) /\ (Env.keepPlayableCopy => PlayableFor(u, a.keep))
    BY <1>2, <1>4, KeepPlayableSafe
  <1>6. K \in KeptSets /\ SafeChoice(K) /\ FilesWhole(K) /\ a.keep \subseteq K.keep BY <1>2, <1>5, ProtectSameFileSafe
  <1>7. Env.keepPlayableCopy => PlayableFor(u, K.keep) BY <1>5, <1>6 DEF PlayableFor
  <1> PICK st : st = "overrides" OBVIOUS
  <1>8. ev' = [ev EXCEPT !.step = st, !.kept = K, !.engine = E]
    <2>1. ev' = [ev EXCEPT !.step = st, !.kept = K] BY DEF DecideOverrides
    <2> QED BY <2>1, <1>3 DEF KeeperTypeOK
  <1>9. st \in EvalSteps BY DEF EvalSteps
  <1>10. /\ KeeperTypeOK' /\ ev'.step = st /\ ev'.kept = K /\ ev'.engine = E
         /\ ev'.metrics = ev.metrics /\ ev'.order = ev.order /\ ev'.comp = ev.comp
    BY <1>1, <1>3, <1>6, <1>8, <1>9, ChoiceTyped
  <1>11. RankedSoFar' BY <1>1, <1>10, RankingStands
  <1>12. /\ SafeChoice(ev.kept)' /\ FilesWhole(ev.kept)' /\ SafeChoice(ev.engine)'
         /\ Env.keepPlayableCopy => PlayableFor(applyOverrides(ev.engine), ev.kept.keep)'
    BY <1>1, <1>3, <1>6, <1>7, <1>10, ChoiceStands
  <1>13. Env' = Env BY <1>1, SameGroup
  <1>14. KeptSoFar' BY <1>10, <1>12, <1>13 DEF KeptSoFar
  <1>15. DecidedSoFar' BY <1>1, NotYetDecided
  <1> QED BY <1>10, <1>11, <1>14, <1>15 DEF KeeperInv

\* Keeping another server's item's only copy, with its file, spoils nothing
\* that was settled before.
LEMMA KeepForOthersKeeps ==
  ASSUME KeeperInv, KeepForOthers
  PROVE  KeeperInv'
  <1> PICK k : k = ev.kept OBVIOUS
  <1> PICK e : e = ev.engine OBVIOUS
  <1> PICK after : after = (ev.step = "overrides") OBVIOUS
  <1> PICK o : o = protectOtherServers(k, after) OBVIOUS
  <1>1. /\ ev.step \in {"engine", "overrides"} /\ group' = group /\ decision' = decision /\ override' = override
    BY DEF KeepForOthers
  <1>2. ev' = IF o.keep # k.keep THEN [ev EXCEPT !.kept = protectSameFile(o, after)]
              ELSE IF after THEN [ev EXCEPT !.step = "decided"]
              ELSE [ev EXCEPT !.step = "engine decided", !.engine = ev.kept]
    BY DEF KeepForOthers
  <1>3. AllRanked BY <1>1, RankedAll
  <1>4. KeeperTypeOK /\ k \in KeptSets /\ e \in KeptSets BY DEF KeeperInv, KeeperTypeOK
  <1>5. SafeChoice(k) /\ FilesWhole(k) BY <1>1 DEF KeeperInv, KeptSoFar
  <1>6. ev.step = "overrides" => /\ SafeChoice(e)
                                 /\ Env.keepPlayableCopy => PlayableFor(applyOverrides(e), k.keep)
    BY DEF KeeperInv, KeptSoFar
  <1>7. after \in BOOLEAN OBVIOUS
  <1>8. /\ o \in KeptSets /\ SafeChoice(o) /\ k.keep \subseteq o.keep
        /\ o.keep = k.keep => OthersKept(k)
    BY <1>4, <1>5, <1>7, ProtectOthersSafe
  <1>9. Env' = Env BY <1>1, SameGroup
  <1>10. DecidedSoFar' BY <1>1, NotYetDecided
  <1>11. CASE o.keep # k.keep
    <2> PICK K : K = protectSameFile(o, after) OBVIOUS
    <2> PICK st : st = ev.step OBVIOUS
    <2>1. K \in KeptSets /\ SafeChoice(K) /\ FilesWhole(K) /\ o.keep \subseteq K.keep
      BY <1>3, <1>7, <1>8, ProtectSameFileSafe
    <2>2. ev' = [ev EXCEPT !.step = st, !.kept = K, !.engine = e]
      <3>1. ev' = [ev EXCEPT !.kept = K] BY <1>2, <1>11
      <3> QED BY <3>1, <1>4 DEF KeeperTypeOK
    <2>9. st \in EvalSteps BY <1>1 DEF EvalSteps
    <2>10. K \in KeptSets BY <2>1
    <2>11. group' = group BY <1>1
    <2>3. st \in {"engine", "overrides"} BY <1>1
    <2>4. /\ KeeperTypeOK' /\ ev'.step = st /\ ev'.kept = K /\ ev'.engine = e
          /\ ev'.metrics = ev.metrics /\ ev'.order = ev.order /\ ev'.comp = ev.comp
      BY <1>4, <2>2, <2>9, <2>10, <2>11, ChoiceTyped
    <2>5. RankedSoFar' BY <1>1, <2>3, <2>4, RankingStands
    <2>6. st = "overrides" /\ Env.keepPlayableCopy => PlayableFor(applyOverrides(e), K.keep)
      BY <1>6, <1>8, <2>1 DEF PlayableFor
    <2>7. /\ SafeChoice(ev.kept)' /\ FilesWhole(ev.kept)'
          /\ st = "overrides" => SafeChoice(ev.engine)'
          /\ st = "overrides" /\ Env.keepPlayableCopy => PlayableFor(applyOverrides(ev.engine), ev.kept.keep)'
      BY <1>1, <1>4, <1>6, <2>1, <2>4, <2>6, ChoiceStands
    <2>8. KeptSoFar' BY <1>9, <2>3, <2>4, <2>7 DEF KeptSoFar
    <2> QED BY <1>10, <2>4, <2>5, <2>8 DEF KeeperInv
  <1>12. CASE o.keep = k.keep /\ after
    <2> PICK st : st = "decided" OBVIOUS
    <2>1. ev' = [ev EXCEPT !.step = st, !.kept = k, !.engine = e]
      <3>1. ev' = [ev EXCEPT !.step = st] BY <1>2, <1>12
      <3> QED BY <3>1, <1>4 DEF KeeperTypeOK
    <2>2. st \in EvalSteps BY DEF EvalSteps
    <2>3. /\ KeeperTypeOK' /\ ev'.step = st /\ ev'.kept = k /\ ev'.engine = e
          /\ ev'.metrics = ev.metrics /\ ev'.order = ev.order /\ ev'.comp = ev.comp
      BY <1>1, <1>4, <2>1, <2>2, ChoiceTyped
    <2>4. RankedSoFar' BY <1>1, <2>3, RankingStands
    <2>5. /\ SafeChoice(ev.kept)' /\ FilesWhole(ev.kept)' /\ OthersKept(ev.kept)' /\ SafeChoice(ev.engine)'
          /\ Env.keepPlayableCopy => PlayableFor(applyOverrides(ev.engine), ev.kept.keep)'
      BY <1>1, <1>4, <1>5, <1>6, <1>8, <1>12, <2>3, ChoiceStands
    <2>6. KeptSoFar' BY <1>9, <2>3, <2>5 DEF KeptSoFar
    <2> QED BY <1>10, <2>3, <2>4, <2>6 DEF KeeperInv
  <1>13. CASE o.keep = k.keep /\ ~after
    <2> PICK st : st = "engine decided" OBVIOUS
    <2>1. ev' = [ev EXCEPT !.step = st, !.kept = k, !.engine = k]
      <3>1. ev' = [ev EXCEPT !.step = st, !.engine = ev.kept] BY <1>2, <1>13
      <3> QED BY <3>1, <1>4 DEF KeeperTypeOK
    <2>2. st \in EvalSteps BY DEF EvalSteps
    <2>3. /\ KeeperTypeOK' /\ ev'.step = st /\ ev'.kept = k /\ ev'.engine = k
          /\ ev'.metrics = ev.metrics /\ ev'.order = ev.order /\ ev'.comp = ev.comp
      BY <1>1, <1>4, <2>1, <2>2, ChoiceTyped
    <2>4. RankedSoFar' BY <1>1, <2>3, RankingStands
    <2>5. SafeChoice(ev.kept)' /\ FilesWhole(ev.kept)' /\ SafeChoice(ev.engine)'
      BY <1>1, <1>4, <1>5, <2>3, ChoiceStands
    <2>6. KeptSoFar' BY <2>3, <2>5 DEF KeptSoFar
    <2> QED BY <1>10, <2>3, <2>4, <2>6 DEF KeeperInv
  <1> QED BY <1>7, <1>11, <1>12, <1>13

LEMMA FinishKeeps ==
  ASSUME KeeperInv, Finish
  PROVE  KeeperInv'
  <1> PICK k : k = ev.kept OBVIOUS
  <1> PICK e : e = ev.engine OBVIOUS
  <1> PICK f : f = Flags(k.keep) OBVIOUS
  <1> PICK s : s = finishStatus(f, k.keep) OBVIOUS
  <1> PICK st : st = "done" OBVIOUS
  <1>1. ev.step = "decided" /\ group' = group /\ override' = override BY DEF Finish
  <1>2. /\ decision'.order = ev.order /\ decision'.keep = k.keep /\ decision'.prot = k.prot
        /\ decision'.flags = f /\ decision'.status = s
    BY DEF Finish
  <1>3. KeeperTypeOK /\ k \in KeptSets /\ e \in KeptSets BY DEF KeeperInv, KeeperTypeOK
  <1>4. ev' = [ev EXCEPT !.step = st, !.kept = k, !.engine = e]
    <2>1. ev' = [ev EXCEPT !.step = st] BY DEF Finish
    <2> QED BY <2>1, <1>3 DEF KeeperTypeOK
  <1>5. st \in EvalSteps BY DEF EvalSteps
  <1>6. /\ KeeperTypeOK' /\ ev'.step = st /\ ev'.kept = k /\ ev'.engine = e
        /\ ev'.metrics = ev.metrics /\ ev'.order = ev.order /\ ev'.comp = ev.comp
    BY <1>1, <1>3, <1>4, <1>5, ChoiceTyped
  <1>7. RankedSoFar' BY <1>1, <1>6, RankingStands
  <1>8. /\ SafeChoice(k) /\ FilesWhole(k) /\ OthersKept(k) /\ SafeChoice(e)
        /\ Env.keepPlayableCopy => PlayableFor(applyOverrides(e), k.keep)
    BY <1>1 DEF KeeperInv, KeptSoFar
  <1>9. Env' = Env /\ V' = V /\ ReportOnly' = ReportOnly /\ Eligible' = Eligible /\ Intentional' = Intentional
        /\ \A i \in V : Ver(i)' = Ver(i)
    BY <1>1, SameGroup
  <1>10. KeptSoFar'
    <2>1. /\ SafeChoice(ev.kept)' /\ FilesWhole(ev.kept)' /\ OthersKept(ev.kept)' /\ SafeChoice(ev.engine)'
          /\ Env.keepPlayableCopy => PlayableFor(applyOverrides(ev.engine), ev.kept.keep)'
      BY <1>1, <1>3, <1>6, <1>8, ChoiceStands
    <2> QED BY <1>6, <1>9, <2>1 DEF KeptSoFar
  <1>11. DecidedSoFar'
    <2>1. FlagsTell(f, k.keep) BY FlagsAreTold
    <2>2. FlagsTell(decision.flags, decision.keep)'
      <3>1. Eligible \subseteq V BY DEF Eligible
      <3> QED BY <1>2, <1>9, <2>1, <3>1 DEF FlagsTell
    <2>3. s = finishStatus(decision.flags, decision.keep)' BY <1>1, <1>2, <1>9 DEF finishStatus, status
    <2> QED BY <1>2, <1>6, <2>2, <2>3 DEF DecidedSoFar
  <1> QED BY <1>6, <1>7, <1>10, <1>11 DEF KeeperInv

LEMMA SetOverrideKeeps ==
  ASSUME KeeperInv, ev' = IdleEval, group' = group, decision' = Undecided
  PROVE  KeeperInv'
  <1>1. V' = V /\ KeptSets' = KeptSets BY SameGroup
  <1>2. group \in KeeperCases BY DEF KeeperInv, KeeperTypeOK
  <1>3. NothingKept \in KeptSets BY DEF NothingKept, KeptSets
  <1>4. /\ ev' = [step |-> "idle", metrics |-> <<>>, comp |-> <<>>, order |-> <<>>, rounds |-> <<>>,
                  left |-> {}, tried |-> 0, elim |-> <<>>, kept |-> NothingKept, engine |-> NothingKept]
    BY DEF IdleEval
  <1>5. <<>> \in Seq(V) /\ 0 \in Nat /\ {} \in SUBSET V OBVIOUS
  <1> HIDE DEF NothingKept
  <1>6. ev'.step = "idle" BY <1>4
  <1>7. KeeperTypeOK' BY <1>1, <1>2, <1>3, <1>4, <1>5 DEF KeeperTypeOK, EvalSteps
  <1> QED BY <1>6, <1>7 DEF KeeperInv, RankedSoFar, KeptSoFar, DecidedSoFar, Decided, Undecided

-----------------------------------------------------------------------------
(* The theorems.                                                           *)

LEMMA KeeperInitOK ==
  ASSUME KeeperInit
  PROVE  KeeperInv
  <1>1. /\ ev = [step |-> "idle", metrics |-> <<>>, comp |-> <<>>, order |-> <<>>, rounds |-> <<>>,
                  left |-> {}, tried |-> 0, elim |-> <<>>, kept |-> NothingKept, engine |-> NothingKept]
    BY DEF KeeperInit, IdleEval
  <1>2. NothingKept \in KeptSets BY DEF NothingKept, KeptSets
  <1>3. <<>> \in Seq(V) /\ 0 \in Nat /\ {} \in SUBSET V OBVIOUS
  <1>4. ev.step = "idle" BY <1>1
  <1>5. group \in KeeperCases BY DEF KeeperInit
  <1>6. KeeperTypeOK BY <1>1, <1>2, <1>3, <1>5 DEF KeeperTypeOK, EvalSteps
  <1> QED BY <1>4, <1>6 DEF KeeperInv, RankedSoFar, KeptSoFar, DecidedSoFar, Decided, KeeperInit

LEMMA KeeperStep ==
  ASSUME KeeperInv, [KeepersNext]_keeperVars
  PROVE  KeeperInv'
  <1>1. CASE NewEvaluation BY <1>1, NewEvaluationKeeps
  <1>2. CASE NarrowRound BY <1>2, NarrowRoundKeeps
  <1>3. CASE EndRound BY <1>3, EndRoundKeeps
  <1>4. CASE DecideEngine BY <1>4, DecideEngineKeeps
  <1>5. CASE DecideOverrides BY <1>5, DecideOverridesKeeps
  <1>6. CASE KeepForOthers BY <1>6, KeepForOthersKeeps
  <1>7. CASE Finish BY <1>7, FinishKeeps
  <1>8. ASSUME NEW i \in V, NEW x \in {"", "keep", "remove"}, SetOverride(i, x) PROVE KeeperInv'
    <2>1. ev' = IdleEval /\ group' = group /\ decision' = Undecided BY <1>8 DEF SetOverride
    <2> QED BY <2>1, SetOverrideKeeps
  <1>9. CASE UNCHANGED keeperVars
    <2>1. /\ group' = group /\ ev' = ev /\ decision' = decision /\ override' = override
      BY <1>9 DEF keeperVars
    <2>2. V' = V /\ KeptSets' = KeptSets BY <2>1, SameGroup
    <2>3. KeeperTypeOK' BY <2>1, <2>2 DEF KeeperInv, KeeperTypeOK
    <2>4. KeptSoFar'
      <3> PICK k : k = ev.kept OBVIOUS
      <3> PICK e : e = ev.engine OBVIOUS
      <3>1. k \in KeptSets /\ e \in KeptSets BY DEF KeeperInv, KeeperTypeOK
      <3>2. ev'.kept = k /\ ev'.engine = e /\ ev'.comp = ev.comp /\ ev'.step = ev.step BY <2>1
      <3>3. Env' = Env BY <2>1, SameGroup
      <3>4. /\ SafeChoice(k) => SafeChoice(ev.kept)'
            /\ FilesWhole(k) => FilesWhole(ev.kept)'
            /\ OthersKept(k) => OthersKept(ev.kept)'
            /\ SafeChoice(e) => SafeChoice(ev.engine)'
            /\ PlayableFor(applyOverrides(e), k.keep) => PlayableFor(applyOverrides(ev.engine), ev.kept.keep)'
        BY <2>1, <3>1, <3>2, ChoiceStands
      <3> QED BY <3>2, <3>3, <3>4 DEF KeeperInv, KeptSoFar
    <2>5. DecidedSoFar'
      <3>1. /\ Env' = Env /\ ReportOnly' = ReportOnly /\ Eligible' = Eligible /\ Intentional' = Intentional
            /\ \A i \in V : Ver(i)' = Ver(i)
        BY <2>1, SameGroup
      <3>2. FlagsTell(decision.flags, decision.keep)' <=> FlagsTell(decision.flags, decision.keep)
        <4>1. Eligible \subseteq V BY DEF Eligible
        <4> QED BY <2>1, <3>1, <4>1 DEF FlagsTell
      <3>3. finishStatus(decision.flags, decision.keep)' = finishStatus(decision.flags, decision.keep)
        BY <2>1, <2>2, <3>1 DEF finishStatus, status
      <3>4. Decided' <=> Decided BY <2>1 DEF Decided, Undecided
      <3> QED BY <2>1, <3>2, <3>3, <3>4 DEF KeeperInv, DecidedSoFar
    <2>6. RankedSoFar'
      <3>1. MetricsOK(ev.metrics)' <=> MetricsOK(ev.metrics) BY <2>1, <2>2 DEF MetricsOK, MetricOK
      <3>2. \A a \in DOMAIN ev.order : Before(a)' = Before(a) BY <2>1 DEF Before
      <3> QED BY <2>1, <2>2, <3>1, <3>2 DEF KeeperInv, RankedSoFar
    <2> QED BY <2>3, <2>4, <2>5, <2>6 DEF KeeperInv
  <1> QED BY <1>1, <1>2, <1>3, <1>4, <1>5, <1>6, <1>7, <1>8, <1>9 DEF KeepersNext

LEMMA KeepersAreInv == KeepersSpec => []KeeperInv
  <1>1. KeeperInit => KeeperInv BY KeeperInitOK
  <1>2. KeeperInv /\ [KeepersNext]_keeperVars => KeeperInv' BY KeeperStep
  <1> QED BY <1>1, <1>2, PTL DEF KeepersSpec

\* The engine's decisions, whatever the versions, the profile and the
\* overrides: what is offered for removal, or left approved, passes the
\* independent check made before it is acted on, and a playable copy is kept
\* where one is asked for (Evaluate, ValidateDecisions, SetOverride).
THEOREM DecisionsAreValid == KeepersSpec => []DecisionsHold
  <1>1. KeeperInv => DecisionsHold BY InvGivesPending, InvGivesTheRest DEF DecisionsHold
  <1> QED BY <1>1, KeepersAreInv, PTL

\* The ranking: no version ranked after another beats it on the first
\* criterion, though comparison within tolerances and classes is not
\* transitive (rank, survivors, beats).
THEOREM RankingIsSound == KeepersSpec => []BestUnbeaten
  <1>1. KeeperInv => BestUnbeaten BY InvGivesTheRest
  <1> QED BY <1>1, KeepersAreInv, PTL

\* Once evaluated, a decision keeps what is protected and, unless it removes
\* nothing, something that is available (decide's invariants).
THEOREM ChoicesAreSafe ==
  KeepersSpec => [](Decided => SafeChoice(ev.kept) /\ FilesWhole(ev.kept) /\ OthersKept(ev.kept))
  <1>1. KeeperInv => (Decided => SafeChoice(ev.kept) /\ FilesWhole(ev.kept) /\ OthersKept(ev.kept))
    BY DEF KeeperInv, DecidedSoFar, KeptSoFar
  <1> QED BY <1>1, KeepersAreInv, PTL

-----------------------------------------------------------------------------
(* Grouping: entries, units and groups.                                    *)

\* The (server, item) of an entry, and what may be a version of it.
Name(n) == <<Item(n).server, Item(n).key>>
Lists(name, v) == \E n \in DOMAIN Shelf : v \in Item(n).versions /\ Name(n) = name

\* No two candidates have one key.
OneEach(cands) == \A v, w \in cands : v.key = w.key => v = w

\* An entry: candidates of its item, each version key once.
EntryOK(e) ==
  /\ e.item \in DOMAIN Shelf
  /\ IsFiniteSet(e.cands) /\ OneEach(e.cands)
  /\ \A v \in e.cands : Lists(Name(e.item), v)

\* Entries of a scan: one for each item.
EntriesOK(es) ==
  /\ IsFiniteSet(es) /\ \A e \in es : EntryOK(e)
  /\ \A e, f \in es : Name(e.item) = Name(f.item) => e = f

\* Sets that have nothing in common.
Apart(S) == \A x, y \in S : x # y => x \cap y = {}

\* The units of a scan: nonempty sets of entries that share none.
UnitsOK(us) ==
  /\ IsFiniteSet(us)
  /\ \A u \in us : /\ {"entries", "cands", "key", "meta"} \subseteq DOMAIN u
                   /\ u.entries # {} /\ EntriesOK(u.entries)
                   /\ IsFiniteSet(u.cands) /\ OneEach(u.cands)
                   /\ \A v \in u.cands : \E e \in u.entries : Lists(Name(e.item), v)
  /\ \A u, w \in us : \A e \in u.entries, f \in w.entries : Name(e.item) = Name(f.item) => u = w

\* The image of a finite set is finite.
LEMMA ImageFinite ==
  ASSUME NEW S, IsFiniteSet(S), NEW f
  PROVE  IsFiniteSet({f[x] : x \in S})
  <1> DEFINE T == {f[x] : x \in S}
             g == [x \in S |-> f[x]]
  <1>1. g \in Surjection(S, T) BY DEF Surjection
  <1> QED BY <1>1, FS_Surjection

\* Two items that list the same version are one.
LEMMA OneLister ==
  ASSUME NEW a, NEW b, NEW v, NEW w, Lists(a, v), Lists(b, w), v.key = w.key
  PROVE  a = b
  <1>1. PICK n \in DOMAIN Shelf : v \in Item(n).versions /\ Name(n) = a BY DEF Lists
  <1>2. PICK m \in DOMAIN Shelf : w \in Item(m).versions /\ Name(m) = b BY DEF Lists
  <1>3. sameItem(n, m) BY <1>1, <1>2, GroupingAssumption
  <1> QED BY <1>1, <1>2, <1>3 DEF sameItem, Name

\* Candidates taken in turn, those with a key already seen left out, have each
\* key once.
LEMMA CollectedOnce ==
  ASSUME NEW seq, seq \in Seq(DOMAIN Shelf)
  PROVE  EntriesOK(collectItems(seq))
  <1> DEFINE kept == {k \in DOMAIN seq : ~itemExcluded(Item(seq[k]))}
             rest(k) == {j \in kept : sameItem(seq[j], seq[k])}
             seen(j) == UNION {candidates(Item(seq[i])) : i \in {x \in rest(j) : x < j}}
             id(k, sp) == LET known == {j \in rest(k) : Item(seq[j]).ids[sp] # ""}
                          IN  IF known = {} THEN "" ELSE Item(seq[Min(known)]).ids[sp]
             new(j) == newTo(seen(j), candidates(Item(seq[j])))
             cs(k) == UNION {new(j) : j \in rest(k)}
             entry == [k \in kept |-> [item |-> seq[k], ids |-> [sp \in Spaces |-> id(k, sp)], cands |-> cs(k),
                          unavailable |-> \E j \in rest(k) : \E v \in Item(seq[j]).versions : v.missing]]
             first == {x \in kept : \A j \in rest(x) : x <= j}
  <1>1. collectItems(seq) = {entry[k] : k \in first} BY Zenon DEF collectItems
  <1>2. DOMAIN seq = 1..Len(seq) /\ Len(seq) \in Nat /\ \A k \in DOMAIN seq : seq[k] \in DOMAIN Shelf OBVIOUS
  <1>3. IsFiniteSet(kept) /\ IsFiniteSet(first) /\ \A k \in kept : IsFiniteSet(rest(k))
    <2>1. IsFiniteSet(1..Len(seq)) BY <1>2, FS_Interval
    <2>2. kept \subseteq 1..Len(seq) BY <1>2
    <2>3. IsFiniteSet(kept) BY <2>1, <2>2, FS_Subset
    <2>4. first \subseteq kept /\ \A k \in kept : rest(k) \subseteq kept OBVIOUS
    <2> QED BY <2>3, <2>4, FS_Subset
  <1>4. ASSUME NEW j \in kept
        PROVE  new(j) \subseteq Item(seq[j]).versions /\ IsFiniteSet(new(j)) /\ seq[j] \in DOMAIN Shelf
    <2>1. seq[j] \in DOMAIN Shelf BY <1>2
    <2>2. candidates(Item(seq[j])) \subseteq Item(seq[j]).versions BY DEF candidates
    <2>3. new(j) \subseteq candidates(Item(seq[j])) BY DEF newTo
    <2>4. IsFiniteSet(Item(seq[j]).versions) BY <2>1, GroupingAssumption
    <2>5. new(j) \subseteq Item(seq[j]).versions BY <2>2, <2>3
    <2> HIDE DEF new
    <2> QED BY <2>1, <2>4, <2>5, FS_Subset
  <1>5. ASSUME NEW k \in kept PROVE IsFiniteSet(cs(k))
    <2> DEFINE part == [j \in kept |-> new(j)]
    <2>1. {new(j) : j \in rest(k)} = {part[j] : j \in rest(k)} OBVIOUS
    <2>2. IsFiniteSet(rest(k)) BY <1>3
    <2> HIDE DEF part
    <2>3. IsFiniteSet({part[j] : j \in rest(k)}) BY <2>2, ImageFinite
    <2>4. \A T \in {new(j) : j \in rest(k)} : IsFiniteSet(T)
      <3> HIDE DEF new
      <3> QED BY <1>4
    <2>5. IsFiniteSet({new(j) : j \in rest(k)}) BY <2>1, <2>3
    <2> HIDE DEF new, rest
    <2> QED BY <2>4, <2>5, FS_UNION
  <1>6. ASSUME NEW k \in kept PROVE OneEach(cs(k))
    <2> SUFFICES ASSUME NEW v \in cs(k), NEW w \in cs(k), v.key = w.key PROVE v = w BY DEF OneEach
    <2>1. PICK i \in rest(k) : v \in new(i) OBVIOUS
    <2>2. PICK j \in rest(k) : w \in new(j) OBVIOUS
    <2>3. rest(i) = rest(k) /\ rest(j) = rest(k) BY Zenon DEF sameItem
    <2>4. v \in candidates(Item(seq[i])) /\ w \in candidates(Item(seq[j])) BY <2>1, <2>2 DEF newTo
    <2>5. ~(i < j)
      <3> SUFFICES ASSUME i < j PROVE FALSE OBVIOUS
      <3>1. v \in seen(j) BY <2>3, <2>4
      <3> QED BY <3>1, <2>2 DEF newTo
    <2>6. ~(j < i)
      <3> SUFFICES ASSUME j < i PROVE FALSE OBVIOUS
      <3>1. w \in seen(i) BY <2>3, <2>4
      <3> QED BY <3>1, <2>1 DEF newTo
    <2>7. i = j BY <2>5, <2>6, <1>2
    <2>8. v \in Item(seq[i]).versions /\ w \in Item(seq[i]).versions /\ seq[i] \in DOMAIN Shelf
      BY <2>1, <2>2, <2>7, <1>4
    <2> QED BY <2>8, GroupingAssumption
  <1>7. ASSUME NEW k \in kept, NEW v \in cs(k) PROVE Lists(Name(seq[k]), v)
    <2>1. PICK j \in rest(k) : v \in new(j) OBVIOUS
    <2>2. Name(seq[j]) = Name(seq[k]) BY DEF Name, sameItem
    <2>3. v \in Item(seq[j]).versions /\ seq[j] \in DOMAIN Shelf BY <2>1, <1>4
    <2> QED BY <2>2, <2>3 DEF Lists
  <1>8. ASSUME NEW k \in first PROVE EntryOK(entry[k]) /\ entry[k].item = seq[k]
    <2>1. k \in kept OBVIOUS
    <2>2. entry[k].item = seq[k] /\ entry[k].cands = cs(k) BY <2>1
    <2>3. seq[k] \in DOMAIN Shelf BY <2>1, <1>2
    <2> HIDE DEF entry, cs
    <2> QED BY <2>1, <2>2, <2>3, <1>5, <1>6, <1>7 DEF EntryOK
  <1>9. ASSUME NEW k \in first, NEW l \in first, Name(entry[k].item) = Name(entry[l].item) PROVE entry[k] = entry[l]
    <2>1. Name(seq[k]) = Name(seq[l]) BY <1>8, <1>9
    <2>2. sameItem(seq[l], seq[k]) /\ sameItem(seq[k], seq[l]) BY <2>1 DEF Name, sameItem
    <2>3. l \in rest(k) /\ k \in rest(l) BY <2>2
    <2>4. k = l BY <2>3, <1>2
    <2> QED BY <2>4
  <1>10. IsFiniteSet({entry[k] : k \in first})
    <2> HIDE DEF entry, first
    <2> QED BY <1>3, ImageFinite
  <1> HIDE DEF entry, first
  <1> QED BY <1>1, <1>8, <1>9, <1>10 DEF EntriesOK

\* The order of a scan's entries is strict and total: they are of distinct items.
LEMMA EntriesOrdered ==
  ASSUME NEW es, EntriesOK(es), NEW a \in es, NEW b \in es, NEW c \in es
  PROVE  /\ a # b => entryLess(a, b) \/ entryLess(b, a)
         /\ ~(entryLess(a, b) /\ entryLess(b, a))
         /\ entryLess(a, b) /\ entryLess(b, c) => entryLess(a, c)
  <1>1. \A e \in {a, b, c} : Item(e.item).library \in Int /\ Item(e.item).server \in Int /\ Item(e.item).key \in Int
    <2>1. \A e \in {a, b, c} : e.item \in DOMAIN Shelf BY DEF EntriesOK, EntryOK
    <2> QED BY <2>1, GroupingAssumption
  <1>2. a # b => Item(a.item).server # Item(b.item).server \/ Item(a.item).key # Item(b.item).key
    BY DEF EntriesOK, Name
  <1> DEFINE L(e) == Item(e.item).library
             S(e) == Item(e.item).server
             K(e) == Item(e.item).key
  <1>3. /\ L(a) \in Int /\ L(b) \in Int /\ L(c) \in Int /\ S(a) \in Int /\ S(b) \in Int /\ S(c) \in Int
        /\ K(a) \in Int /\ K(b) \in Int /\ K(c) \in Int
    BY <1>1
  <1>4. a # b => S(a) # S(b) \/ K(a) # K(b) BY <1>2
  <1>5. \A x, y : entryLess(x, y) <=> \/ L(x) < L(y)
                                      \/ L(x) = L(y) /\ S(x) < S(y)
                                      \/ L(x) = L(y) /\ S(x) = S(y) /\ K(x) < K(y)
    BY DEF entryLess
  <1> HIDE DEF L, S, K
  <1>6. a # b => entryLess(a, b) \/ entryLess(b, a) BY <1>3, <1>4, <1>5
  <1>7. ~(entryLess(a, b) /\ entryLess(b, a)) BY <1>3, <1>5
  <1>8. entryLess(a, b) /\ entryLess(b, c) => entryLess(a, c) BY <1>3, <1>5
  <1> QED BY <1>6, <1>7, <1>8

\* Some entry comes first: leadOf is it.
LEMMA LeadIsFirst ==
  ASSUME NEW es, EntriesOK(es), es # {}
  PROVE  leadOf(es) \in es
  <1> DEFINE before(e) == {f \in es : entryLess(f, e)}
             rank == [e \in es |-> -Cardinality(before(e))]
  <1>1. IsFiniteSet(es) BY DEF EntriesOK
  <1>2. \A e \in es : IsFiniteSet(before(e)) BY <1>1, FS_Subset
  <1>3. \A e \in es : Cardinality(before(e)) \in Nat BY <1>2, FS_CardinalityType
  <1>4. rank \in [es -> Int]
    <2> HIDE DEF before
    <2> QED BY <1>3
  <1>5. PICK e \in es : \A f \in es : rank[e] >= rank[f]
    <2> HIDE DEF rank
    <2> QED BY <1>1, <1>4, HighestValue
  <1>6. ASSUME NEW f \in es \ {e} PROVE entryLess(e, f)
    <2> SUFFICES ASSUME ~entryLess(e, f) PROVE FALSE OBVIOUS
    <2>1. entryLess(f, e) /\ ~entryLess(f, f) BY EntriesOrdered
    <2>2. before(f) \subseteq before(e) \ {f} /\ f \in before(e) BY <2>1, EntriesOrdered
    <2>3. /\ Cardinality(before(e) \ {f}) = Cardinality(before(e)) - 1
          /\ IsFiniteSet(before(e) \ {f})
      BY <2>2, <1>2, FS_RemoveElement
    <2>4. Cardinality(before(f)) <= Cardinality(before(e) \ {f}) BY <2>2, <2>3, FS_Subset
    <2>5. -Cardinality(before(e)) >= -Cardinality(before(f)) BY <1>5
    <2> HIDE DEF before
    <2> QED BY <2>3, <2>4, <2>5, <1>3
  <1> QED BY <1>6, Zenon DEF leadOf

\* The parts of some sets, and the classes of the values of a function.
PartsOf(P, f) == UNION {f[p] : p \in P}
Classes(S, f) == {{e \in S : f[e] = f[x]} : x \in S}

\* Parts of sets that share nothing, and which share nothing within their set,
\* share nothing.
LEMMA PartsApart ==
  ASSUME NEW P, Apart(P), NEW f, \A p \in P : f[p] \subseteq (SUBSET p) \ {{}} /\ Apart(f[p])
  PROVE  Apart(PartsOf(P, f)) /\ PartsOf(P, f) \subseteq (SUBSET UNION P) \ {{}}
  BY DEF Apart, PartsOf

\* Classes share nothing.
LEMMA ClassesApart ==
  ASSUME NEW S, NEW f
  PROVE  Apart(Classes(S, f)) /\ Classes(S, f) \subseteq (SUBSET S) \ {{}}
  BY DEF Apart, Classes

\* One set, or its members one by one.
LEMMA WholeOrSingles ==
  ASSUME NEW S, S # {}
  PROVE  /\ Apart({S}) /\ {S} \subseteq (SUBSET S) \ {{}}
         /\ Apart({{e} : e \in S}) /\ {{e} : e \in S} \subseteq (SUBSET S) \ {{}}
  BY DEF Apart

\* Two components of a bucket are one or share nothing: what is linked to a
\* component is in it, in both directions.
LEMMA ComponentsApart ==
  ASSUME NEW bucket
  PROVE  /\ Apart(idComponents(bucket))
         /\ idComponents(bucket) \subseteq (SUBSET bucket) \ {{}}
  <1>1. \A a, b : linked(a, b) => linked(b, a) BY Zenon DEF linked
  <1>2. \A e \in bucket : /\ e \in component(e, bucket) /\ component(e, bucket) \in SUBSET bucket
                          /\ closed(component(e, bucket), bucket)
    BY DEF component, closed
  <1>3. \A e \in bucket, S \in SUBSET bucket : e \in S /\ closed(S, bucket) => component(e, bucket) \subseteq S
    BY DEF component
  <1>4. ASSUME NEW e \in bucket, NEW f \in component(e, bucket)
        PROVE  component(f, bucket) = component(e, bucket)
    <2> DEFINE C == component(e, bucket)
               D == component(f, bucket)
    <2>1. f \in bucket BY <1>2
    <2>2. D \subseteq C BY <2>1, <1>2, <1>3
    <2>3. closed(bucket \ D, bucket) BY <2>1, <1>1, <1>2 DEF closed
    <2>4. e \in D
      <3> SUFFICES ASSUME e \notin D PROVE FALSE OBVIOUS
      <3>1. C \subseteq bucket \ D BY <2>3, <1>3
      <3> QED BY <3>1, <2>1, <1>2
    <2>5. C \subseteq D BY <2>1, <2>4, <1>2, <1>3
    <2> QED BY <2>2, <2>5
  <1>5. Apart(idComponents(bucket))
    <2> SUFFICES ASSUME NEW e \in bucket, NEW f \in bucket, NEW x \in component(e, bucket), x \in component(f, bucket)
                 PROVE  component(e, bucket) = component(f, bucket)
      BY DEF Apart, idComponents
    <2> QED BY <1>4
  <1> QED BY <1>2, <1>5 DEF idComponents

\* A component is kept or cut along its entries' own keys.
LEMMA SplitApart ==
  ASSUME NEW comp, comp # {}
  PROVE  Apart(splitConflicting(comp)) /\ splitConflicting(comp) \subseteq (SUBSET comp) \ {{}}
  <1> DEFINE key(e) == GroupKey([Item(e.item) EXCEPT !.ids = e.ids])
             f == [e \in comp |-> key(e)]
  <1>1. splitConflicting(comp) \in {{comp}, {{e \in comp : key(e) = key(x)} : x \in comp}}
    BY Zenon DEF splitConflicting
  <1>2. {{e \in comp : key(e) = key(x)} : x \in comp} = Classes(comp, f)
    <2> HIDE DEF key
    <2> QED BY DEF Classes
  <1> HIDE DEF f
  <1>3. Apart(Classes(comp, f)) /\ Classes(comp, f) \subseteq (SUBSET comp) \ {{}} BY ClassesApart
  <1>5. Apart({comp}) /\ {comp} \subseteq (SUBSET comp) \ {{}} BY WholeOrSingles
  <1> HIDE DEF key
  <1> QED BY <1>1, <1>2, <1>3, <1>5

\* The entries of the units: none in two.
LEMMA UnitSetsApart ==
  ASSUME NEW es, EntriesOK(es)
  PROVE  /\ Apart(unitSets(es)) /\ IsFiniteSet(unitSets(es))
         /\ unitSets(es) \subseteq (SUBSET es) \ {{}}
  <1> DEFINE usable == {e \in es : e.cands # {}}
             alone == {e \in usable : Item(e.item).scope = "" \/ \A sp \in Spaces : e.ids[sp] = ""}
             bucketOf(e) == <<Item(e.item).server, Item(e.item).scope, Item(e.item).type>>
             rest == usable \ alone
             where == [e \in rest |-> bucketOf(e)]
             buckets == {{e \in rest : bucketOf(e) = bucketOf(f)} : f \in rest}
             comps == [b \in buckets |-> idComponents(b)]
             C == PartsOf(buckets, comps)
             parts == [c \in C |-> splitConflicting(c)]
             K == PartsOf(C, parts)
             sets == [c \in K |-> clusterSets(c)]
             L == PartsOf(K, sets)
             singles == {{e} : e \in alone}
  <1>1. unitSets(es) = singles \cup L
    <2> DEFINE clusters == UNION {UNION {splitConflicting(c) : c \in idComponents(b)} : b \in buckets}
    <2>1. unitSets(es) = singles \cup UNION {clusterSets(c) : c \in clusters} BY Zenon DEF unitSets
    <2>2. clusters = K
      <3>1. clusters = UNION {UNION {splitConflicting(c) : c \in idComponents(b)} : b \in buckets} OBVIOUS
      <3>2. \A c : c \in C <=> \E b \in buckets : c \in idComponents(b)
        <4> HIDE DEF buckets
        <4> QED BY DEF PartsOf
      <3>3. \A x : x \in K <=> \E c \in C : x \in splitConflicting(c)
        <4> HIDE DEF C
        <4> QED BY DEF PartsOf
      <3> HIDE DEF clusters, K, C, buckets
      <3>4. \A x \in K : x \in clusters BY <3>1, <3>2, <3>3
      <3>5. \A x \in clusters : x \in K BY <3>1, <3>2, <3>3
      <3> QED BY <3>4, <3>5
    <2> HIDE DEF K, clusters
    <2>3. {clusterSets(c) : c \in clusters} = {sets[c] : c \in K} BY <2>2
    <2>4. UNION {clusterSets(c) : c \in clusters} = L
      <3> HIDE DEF sets
      <3> QED BY <2>3 DEF PartsOf
    <2> HIDE DEF L
    <2> QED BY <2>1, <2>4
  <1>2. Apart(buckets) /\ buckets \subseteq (SUBSET rest) \ {{}}
    <2>1. buckets = Classes(rest, where)
      <3> HIDE DEF rest
      <3> QED BY DEF Classes
    <2> HIDE DEF where, rest, buckets
    <2> QED BY <2>1, ClassesApart
  <1>3. Apart(C) /\ C \subseteq (SUBSET rest) \ {{}}
    <2> HIDE DEF buckets, rest
    <2>1. \A b \in buckets : comps[b] \subseteq (SUBSET b) \ {{}} /\ Apart(comps[b]) BY ComponentsApart
    <2> HIDE DEF comps
    <2>2. Apart(C) /\ C \subseteq (SUBSET UNION buckets) \ {{}} BY <1>2, <2>1, PartsApart
    <2> HIDE DEF C
    <2> QED BY <1>2, <2>2
  <1>4. Apart(K) /\ K \subseteq (SUBSET rest) \ {{}}
    <2> HIDE DEF C, rest
    <2>1. \A c \in C : parts[c] \subseteq (SUBSET c) \ {{}} /\ Apart(parts[c]) BY <1>3, SplitApart
    <2> HIDE DEF parts
    <2>2. Apart(K) /\ K \subseteq (SUBSET UNION C) \ {{}} BY <1>3, <2>1, PartsApart
    <2> HIDE DEF K
    <2> QED BY <1>3, <2>2
  <1>5. Apart(L) /\ L \subseteq (SUBSET rest) \ {{}}
    <2> HIDE DEF K, rest
    <2>1. \A c \in K : sets[c] \subseteq (SUBSET c) \ {{}} /\ Apart(sets[c])
      <3> SUFFICES ASSUME NEW c \in K PROVE clusterSets(c) \subseteq (SUBSET c) \ {{}} /\ Apart(clusterSets(c))
        BY Zenon DEF sets
      <3> HIDE DEF sets
      <3>1. clusterSets(c) \in {{c}, {{e} : e \in c}} BY Zenon DEF clusterSets
      <3>2. c # {} BY <1>4
      <3>3. /\ Apart({c}) /\ {c} \subseteq (SUBSET c) \ {{}}
            /\ Apart({{e} : e \in c}) /\ {{e} : e \in c} \subseteq (SUBSET c) \ {{}}
        BY <3>2, WholeOrSingles
      <3>4. CASE clusterSets(c) = {c} BY <3>3, <3>4
      <3>5. CASE clusterSets(c) = {{e} : e \in c} BY <3>3, <3>5
      <3> QED BY <3>1, <3>4, <3>5
    <2> HIDE DEF sets
    <2>2. Apart(L) /\ L \subseteq (SUBSET UNION K) \ {{}} BY <1>4, <2>1, PartsApart
    <2> HIDE DEF L
    <2> QED BY <1>4, <2>2
  <1>6. Apart(singles) /\ singles \subseteq (SUBSET alone) \ {{}} BY DEF Apart
  <1>7. alone \cap rest = {} /\ alone \subseteq es /\ rest \subseteq es OBVIOUS
  <1> HIDE DEF singles, L, alone, rest
  <1>8. Apart(unitSets(es)) BY <1>1, <1>5, <1>6, <1>7 DEF Apart
  <1>9. unitSets(es) \subseteq (SUBSET es) \ {{}} BY <1>1, <1>5, <1>6, <1>7
  <1>10. IsFiniteSet(SUBSET es) BY FS_SUBSET DEF EntriesOK
  <1>11. IsFiniteSet(unitSets(es)) BY <1>9, <1>10, FS_Subset
  <1> QED BY <1>8, <1>9, <1>11

\* A unit has the candidates of its entries, each version key once.
LEMMA NewUnitOK ==
  ASSUME NEW es, EntriesOK(es), NEW u, u = newUnit(es)
  PROVE  /\ u.entries = es /\ {"entries", "cands", "key", "meta"} \subseteq DOMAIN u
         /\ IsFiniteSet(u.cands) /\ OneEach(u.cands)
         /\ \A v \in u.cands : \E e \in es : Lists(Name(e.item), v)
  <1> DEFINE earlier(e) == UNION {f.cands : f \in {x \in es : entryLess(x, e)}}
             new == [e \in es |-> newTo(earlier(e), e.cands)]
             cands == UNION {new[e] : e \in es}
  <1>1. u.entries = es /\ {"entries", "cands", "key", "meta"} \subseteq DOMAIN u
    BY DEF newUnit
  <1>2. u.cands = UNION {newTo(earlier(e), e.cands) : e \in es} BY DEF newUnit
  <1>3. u.cands = cands BY <1>2
  <1>4. \A e \in es : new[e] \subseteq e.cands /\ IsFiniteSet(e.cands) BY DEF newTo, EntriesOK, EntryOK
  <1>5. \A e \in es : IsFiniteSet(new[e])
    <2> HIDE DEF new
    <2> QED BY <1>4, FS_Subset
  <1>6. IsFiniteSet(cands)
    <2> HIDE DEF new
    <2>1. IsFiniteSet({new[e] : e \in es}) BY ImageFinite DEF EntriesOK
    <2> QED BY <2>1, <1>5, FS_UNION
  <1>7. \A v \in cands : \E e \in es : Lists(Name(e.item), v)
    <2> HIDE DEF new
    <2> QED BY <1>4 DEF EntriesOK, EntryOK
  <1>8. OneEach(cands)
    <2> SUFFICES ASSUME NEW e \in es, NEW f \in es, NEW v \in new[e], NEW w \in new[f], v.key = w.key PROVE v = w
      <3> HIDE DEF new
      <3> QED BY DEF OneEach
    <2>1. Lists(Name(e.item), v) /\ Lists(Name(f.item), w) BY <1>4 DEF EntriesOK, EntryOK
    <2>2. Name(e.item) = Name(f.item) BY <2>1, OneLister
    <2>3. e = f BY <2>2 DEF EntriesOK
    <2>4. v \in e.cands /\ w \in e.cands BY <2>3, <1>4
    <2> QED BY <2>4 DEF EntriesOK, EntryOK, OneEach
  <1> HIDE DEF cands
  <1> QED BY <1>1, <1>3, <1>6, <1>7, <1>8

\* Some of a scan's entries.
LEMMA SomeEntriesOK ==
  ASSUME NEW es, EntriesOK(es), NEW fs, fs \subseteq es
  PROVE  EntriesOK(fs)
  <1>1. IsFiniteSet(fs) BY FS_Subset DEF EntriesOK
  <1> QED BY <1>1 DEF EntriesOK

\* The units of the entries.
LEMMA UnitsBuilt ==
  ASSUME NEW es, EntriesOK(es), NEW sets, Apart(sets), IsFiniteSet(sets), sets \subseteq (SUBSET es) \ {{}}
  PROVE  UnitsOK({newUnit(x) : x \in sets})
  <1> DEFINE unit == [x \in sets |-> newUnit(x)]
             us == {unit[x] : x \in sets}
  <1>1. {newUnit(x) : x \in sets} = us OBVIOUS
  <1>2. \A x \in sets : x # {} /\ EntriesOK(x) BY SomeEntriesOK
  <1>3. ASSUME NEW x \in sets
        PROVE  LET u == unit[x]
               IN  /\ u.entries = x /\ {"entries", "cands", "key", "meta"} \subseteq DOMAIN u
                   /\ IsFiniteSet(u.cands) /\ OneEach(u.cands)
                   /\ \A v \in u.cands : \E e \in x : Lists(Name(e.item), v)
    <2>1. unit[x] = newUnit(x) OBVIOUS
    <2> HIDE DEF unit
    <2> QED BY <2>1, <1>2, NewUnitOK
  <1> HIDE DEF unit
  <1>4. IsFiniteSet(us) BY ImageFinite
  <1>5. ASSUME NEW x \in sets, NEW y \in sets, NEW e \in x, NEW f \in y, Name(e.item) = Name(f.item)
        PROVE  x = y
    <2>1. e = f BY <1>5 DEF EntriesOK
    <2> QED BY <2>1 DEF Apart
  <1>6. UnitsOK(us) BY <1>2, <1>3, <1>4, <1>5 DEF UnitsOK
  <1> QED BY <1>1, <1>6

\* Only keys change.
LEMMA DisambiguatedOK ==
  ASSUME NEW us, UnitsOK(us)
  PROVE  UnitsOK(disambiguateKeys(us))
  <1> DEFINE big == {u \in us : Cardinality(u.cands) >= 2}
             clash(u) == u \in big /\ \E w \in big \ {u} : w.key = u.key
             at(u) == LET p == Item(leadOf(u.entries).item) IN <<"@", ToString(p.server), ToString(p.key)>>
             named == [u \in us |-> IF clash(u) THEN [u EXCEPT !.key = @ \o at(u)] ELSE u]
             ws == {named[u] : u \in us}
  <1>1. disambiguateKeys(us) = {IF clash(u) THEN [u EXCEPT !.key = @ \o at(u)] ELSE u : u \in us}
    BY Zenon DEF disambiguateKeys
  <1>2. disambiguateKeys(us) = ws BY <1>1
  <1>3. ASSUME NEW u \in us
        PROVE  /\ named[u].entries = u.entries /\ named[u].cands = u.cands
               /\ {"entries", "cands", "key", "meta"} \subseteq DOMAIN named[u]
    <2>1. {"entries", "cands", "key", "meta"} \subseteq DOMAIN u BY DEF UnitsOK
    <2> HIDE DEF clash, at
    <2>2. named[u] \in {u, [u EXCEPT !.key = @ \o at(u)]} OBVIOUS
    <2> HIDE DEF named
    <2> QED BY <2>1, <2>2
  <1> HIDE DEF named
  <1>4. IsFiniteSet(ws) BY ImageFinite DEF UnitsOK
  <1>5. \A x \in ws : \E u \in us : x = named[u] /\ x.entries = u.entries /\ x.cands = u.cands
                                    /\ {"entries", "cands", "key", "meta"} \subseteq DOMAIN x
    BY <1>3
  <1>6. \A x, y \in ws : \A e \in x.entries, f \in y.entries : Name(e.item) = Name(f.item) => x = y
    BY <1>5 DEF UnitsOK
  <1> HIDE DEF ws
  <1>7. \A x \in ws : /\ {"entries", "cands", "key", "meta"} \subseteq DOMAIN x
                      /\ x.entries # {} /\ EntriesOK(x.entries)
                      /\ IsFiniteSet(x.cands) /\ OneEach(x.cands)
                      /\ \A v \in x.cands : \E e \in x.entries : Lists(Name(e.item), v)
    BY <1>5 DEF UnitsOK
  <1> QED BY <1>2, <1>4, <1>6, <1>7 DEF UnitsOK

-----------------------------------------------------------------------------
\* The variants of some candidates: finitely many, told apart by their suffix,
\* that share no candidate.
VariantsOK(vs, cands) ==
  /\ IsFiniteSet(vs)
  /\ \A x \in vs : IsFiniteSet(x.cands) /\ x.cands \subseteq cands
  /\ \A x, y \in vs : x # y => x.suffix # y.suffix /\ x.cands \cap y.cands = {}

\* Variants of variants whose suffixes stay apart.
LEMMA VariantsOfVariants ==
  ASSUME NEW vs, NEW cands, VariantsOK(vs, cands), NEW f,
         \A g \in vs : VariantsOK(f[g], g.cands),
         \A g, h \in vs : g # h => \A x \in f[g], y \in f[h] : x.suffix # y.suffix
  PROVE  VariantsOK(PartsOf(vs, f), cands)
  <1>1. IsFiniteSet({f[g] : g \in vs}) BY ImageFinite DEF VariantsOK
  <1>2. \A T \in {f[g] : g \in vs} : IsFiniteSet(T) BY DEF VariantsOK
  <1>3. IsFiniteSet(UNION {f[g] : g \in vs}) BY <1>1, <1>2, FS_UNION
  <1>4. \A x : x \in PartsOf(vs, f) <=> \E g \in vs : x \in f[g] BY DEF PartsOf
  <1>5. IsFiniteSet(PartsOf(vs, f)) BY <1>3 DEF PartsOf
  <1>6. \A x \in PartsOf(vs, f) : IsFiniteSet(x.cands) /\ x.cands \subseteq cands BY <1>4 DEF VariantsOK
  <1>7. ASSUME NEW x \in PartsOf(vs, f), NEW y \in PartsOf(vs, f), x # y
        PROVE  x.suffix # y.suffix /\ x.cands \cap y.cands = {}
    <2>1. PICK g \in vs : x \in f[g] BY <1>4
    <2>2. PICK h \in vs : y \in f[h] BY <1>4
    <2>3. CASE g = h BY <2>1, <2>2, <2>3, <1>7 DEF VariantsOK
    <2>4. CASE g # h
      <3>1. x.cands \subseteq g.cands /\ y.cands \subseteq h.cands BY <2>1, <2>2 DEF VariantsOK
      <3>2. g.cands \cap h.cands = {} BY <2>4 DEF VariantsOK
      <3> QED BY <3>1, <3>2, <2>1, <2>2, <2>4
    <2> QED BY <2>3, <2>4
  <1> QED BY <1>5, <1>6, <1>7 DEF VariantsOK

\* The values of a field, the candidates that have one.
Values(cands, field) == {field[c] : c \in cands}
Having(cands, field, k) == {c \in cands : field[c] = k}

\* A split along a field: the parts by its value.
LEMMA SplitByField ==
  ASSUME NEW cands, IsFiniteSet(cands), NEW field, NEW keys, keys = Values(cands, field), NEW part,
         \A k \in keys : part[k].cands = Having(cands, field, k),
         \A k, l \in keys : k # l => part[k].suffix # part[l].suffix
  PROVE  VariantsOK({part[k] : k \in keys}, cands)
  <1>1. IsFiniteSet(keys) BY ImageFinite DEF Values
  <1>2. IsFiniteSet({part[k] : k \in keys}) BY <1>1, ImageFinite
  <1>3. \A k \in keys : part[k].cands \subseteq cands BY DEF Having
  <1>4. \A k \in keys : IsFiniteSet(part[k].cands) BY <1>3, FS_Subset
  <1>5. ASSUME NEW k \in keys, NEW l \in keys, k # l PROVE part[k].cands \cap part[l].cands = {}
    <2>1. part[k].cands = {c \in cands : field[c] = k} /\ part[l].cands = {c \in cands : field[c] = l} BY DEF Having
    <2> QED BY <2>1, <1>5
  <1> DEFINE T == {part[k] : k \in keys}
  <1>6. \A x \in T : \E k \in keys : x = part[k] OBVIOUS
  <1>7. \A x \in T : IsFiniteSet(x.cands) /\ x.cands \subseteq cands BY <1>3, <1>4, <1>6
  <1>8. ASSUME NEW x \in T, NEW y \in T, x # y PROVE x.suffix # y.suffix /\ x.cands \cap y.cands = {}
    <2>1. PICK k \in keys : x = part[k] BY <1>6
    <2>2. PICK l \in keys : y = part[l] BY <1>6
    <2>3. k # l BY <2>1, <2>2, <1>8
    <2> QED BY <2>1, <2>2, <2>3, <1>5
  <1> QED BY <1>2, <1>7, <1>8 DEF VariantsOK

\* A suffix, by its parts.
Suffix(k, b, p) == [edition |-> k, threeD |-> b, langs |-> p]

\* A suffix, changed; it tells its parts.
LEMMA SuffixParts ==
  ASSUME NEW k, NEW b, NEW p, NEW j
  PROVE  /\ [Suffix(k, b, p) EXCEPT !.edition = j] = Suffix(j, b, p)
         /\ [Suffix(k, b, p) EXCEPT !.threeD = j] = Suffix(k, j, p)
         /\ [Suffix(k, b, p) EXCEPT !.langs = j] = Suffix(k, b, j)
         /\ Suffix(k, b, p).edition = k /\ Suffix(k, b, p).threeD = b /\ Suffix(k, b, p).langs = p
  BY DEF Suffix

\* The editions of some candidates.
LEMMA EditionsSplit ==
  ASSUME NEW g, IsFiniteSet(g.cands), NEW e, NEW b, g.suffix = Suffix(e, b, {})
  PROVE  /\ VariantsOK(splitEditions(g), g.cands)
         /\ \A x \in splitEditions(g) : \E k : x.suffix = Suffix(k, b, {})
  <1> DEFINE field == [c \in g.cands |-> c.edition]
             keys == {field[c] : c \in g.cands}
             flags == splitFlags(g, {c.edition : c \in g.cands}, "edition_split")
             part == [k \in keys |-> [cands |-> {c \in g.cands : c.edition = k}, suffix |-> [g.suffix EXCEPT !.edition = k],
                                      flags |-> flags]]
  <1>1. keys = {c.edition : c \in g.cands} OBVIOUS
  <1>2. splitEditions(g) = {part[k] : k \in keys} BY <1>1 DEF splitEditions
  <1>3. ASSUME NEW k \in keys
        PROVE  part[k].cands = Having(g.cands, field, k) /\ part[k].suffix = Suffix(k, b, {})
    <2>1. part[k].cands = Having(g.cands, field, k) BY DEF Having
    <2>2. part[k].suffix = [g.suffix EXCEPT !.edition = k]
      <3> HIDE DEF keys
      <3> QED OBVIOUS
    <2>3. [g.suffix EXCEPT !.edition = k] = Suffix(k, b, {}) BY SuffixParts
    <2> QED BY <2>1, <2>2, <2>3
  <1>4. \A k, l : Suffix(k, b, {}) = Suffix(l, b, {}) => k = l BY DEF Suffix
  <1> HIDE DEF part, field
  <1>5. VariantsOK({part[k] : k \in keys}, g.cands)
    <2>1. \A k, l \in keys : k # l => part[k].suffix # part[l].suffix
      <3> HIDE DEF keys
      <3> SUFFICES ASSUME NEW k \in keys, NEW l \in keys, part[k].suffix = part[l].suffix PROVE k = l OBVIOUS
      <3>1. part[k].suffix = Suffix(k, b, {}) BY <1>3
      <3>2. part[l].suffix = Suffix(l, b, {}) BY <1>3
      <3> QED BY <3>1, <3>2, <1>4
    <2>2. \A k \in keys : part[k].cands = Having(g.cands, field, k) BY <1>3
    <2>3. keys = Values(g.cands, field) BY DEF Values
    <2> HIDE DEF keys
    <2> QED BY <2>1, <2>2, <2>3, SplitByField
  <1> QED BY <1>2, <1>3, <1>5

\* The 3D versions of some candidates, and the others.
LEMMA ThreeDSplit ==
  ASSUME NEW g, IsFiniteSet(g.cands), NEW e, NEW b, g.suffix = Suffix(e, b, {})
  PROVE  /\ VariantsOK(split3D(g), g.cands)
         /\ \A x \in split3D(g) : \E k : x.suffix = Suffix(e, k, {})
  <1> DEFINE field == [c \in g.cands |-> c.is3D]
             keys == {field[c] : c \in g.cands}
             flags == splitFlags(g, {c.is3D : c \in g.cands}, "variant_3d")
             part == [k \in keys |-> [cands |-> {c \in g.cands : c.is3D = k}, suffix |-> [g.suffix EXCEPT !.threeD = k],
                                      flags |-> flags]]
  <1>1. keys = {c.is3D : c \in g.cands} OBVIOUS
  <1>2. split3D(g) = {part[k] : k \in keys} BY <1>1 DEF split3D
  <1>3. ASSUME NEW k \in keys
        PROVE  part[k].cands = Having(g.cands, field, k) /\ part[k].suffix = Suffix(e, k, {})
    <2>1. part[k].cands = Having(g.cands, field, k) BY DEF Having
    <2>2. part[k].suffix = [g.suffix EXCEPT !.threeD = k]
      <3> HIDE DEF keys
      <3> QED OBVIOUS
    <2>3. [g.suffix EXCEPT !.threeD = k] = Suffix(e, k, {}) BY DEF Suffix
    <2> QED BY <2>1, <2>2, <2>3
  <1>4. \A k, l : Suffix(e, k, {}) = Suffix(e, l, {}) => k = l BY DEF Suffix
  <1> HIDE DEF part, field
  <1>5. VariantsOK({part[k] : k \in keys}, g.cands)
    <2>1. \A k, l \in keys : k # l => part[k].suffix # part[l].suffix
      <3> HIDE DEF keys
      <3> SUFFICES ASSUME NEW k \in keys, NEW l \in keys, part[k].suffix = part[l].suffix PROVE k = l OBVIOUS
      <3>1. part[k].suffix = Suffix(e, k, {}) BY <1>3
      <3>2. part[l].suffix = Suffix(e, l, {}) BY <1>3
      <3> QED BY <3>1, <3>2, <1>4
    <2>2. \A k \in keys : part[k].cands = Having(g.cands, field, k) BY <1>3
    <2>3. keys = Values(g.cands, field) BY DEF Values
    <2> HIDE DEF keys
    <2> QED BY <2>1, <2>2, <2>3, SplitByField
  <1> QED BY <1>2, <1>3, <1>5

\* A variant alone.
LEMMA WholeOK ==
  ASSUME NEW g, IsFiniteSet(g.cands)
  PROVE  VariantsOK({g}, g.cands)
  BY FS_Singleton DEF VariantsOK

\* The languages of some candidates, when there is more than one part.
LEMMA LanguagesSplit ==
  ASSUME NEW g, IsFiniteSet(g.cands), NEW e, NEW b, g.suffix = Suffix(e, b, {})
  PROVE  /\ VariantsOK(splitLanguages(g), g.cands)
         /\ \A x \in splitLanguages(g) : \E p : x.suffix = Suffix(e, b, p)
  <1> DEFINE spoken(c) == languagePart(g.cands, c)
             field == [c \in g.cands |-> spoken(c)]
             keys == {field[c] : c \in g.cands}
             split == {[cands |-> {c \in g.cands : spoken(c) = p}, suffix |-> [g.suffix EXCEPT !.langs = {p}],
                        flags |-> g.flags \cup {"language_variant"}] : p \in {spoken(c) : c \in g.cands}}
             part == [p \in keys |-> [cands |-> {c \in g.cands : spoken(c) = p}, suffix |-> [g.suffix EXCEPT !.langs = {p}],
                                      flags |-> g.flags \cup {"language_variant"}]]
  <1>1. splitLanguages(g) \in {{g}, split} BY Zenon DEF splitLanguages
  <1> HIDE DEF spoken
  <1>2. keys = {spoken(c) : c \in g.cands} OBVIOUS
  <1>3. split = {part[p] : p \in keys} BY <1>2
  <1>4. ASSUME NEW p \in keys
        PROVE  part[p].cands = Having(g.cands, field, p) /\ part[p].suffix = Suffix(e, b, {p})
    <2>1. part[p].cands = Having(g.cands, field, p) BY DEF Having
    <2>2. part[p].suffix = [g.suffix EXCEPT !.langs = {p}]
      <3> HIDE DEF keys
      <3> QED OBVIOUS
    <2>3. [g.suffix EXCEPT !.langs = {p}] = Suffix(e, b, {p}) BY DEF Suffix
    <2> QED BY <2>1, <2>2, <2>3
  <1>5. \A p, q : Suffix(e, b, {p}) = Suffix(e, b, {q}) => p = q BY DEF Suffix
  <1> HIDE DEF part, field, split
  <1>6. VariantsOK({part[p] : p \in keys}, g.cands)
    <2>1. \A p, q \in keys : p # q => part[p].suffix # part[q].suffix
      <3> HIDE DEF keys
      <3> SUFFICES ASSUME NEW p \in keys, NEW q \in keys, part[p].suffix = part[q].suffix PROVE p = q OBVIOUS
      <3>1. part[p].suffix = Suffix(e, b, {p}) BY <1>4
      <3>2. part[q].suffix = Suffix(e, b, {q}) BY <1>4
      <3> QED BY <3>1, <3>2, <1>5
    <2>2. \A p \in keys : part[p].cands = Having(g.cands, field, p) BY <1>4
    <2>3. keys = Values(g.cands, field) BY DEF Values
    <2> HIDE DEF keys
    <2> QED BY <2>1, <2>2, <2>3, SplitByField
  <1>7. CASE splitLanguages(g) = {g} BY <1>7, WholeOK
  <1>8. CASE splitLanguages(g) = split
    <2>1. \A x \in split : \E p : x.suffix = Suffix(e, b, p)
      <3> HIDE DEF keys
      <3> QED BY <1>3, <1>4, Zenon
    <2> QED BY <1>8, <2>1, <1>3, <1>6
  <1> QED BY <1>1, <1>7, <1>8

\* The variants of a unit.
LEMMA VariantsSplit ==
  ASSUME NEW cands, IsFiniteSet(cands)
  PROVE  VariantsOK(splitVariants(cands), cands)
  <1> DEFINE g0 == [cands |-> cands, suffix |-> NoSuffix, flags |-> {}]
             whole == {g0}
             byEdition == [g \in whole |-> splitEditions(g)]
             E == IF GroupOpts.editions THEN PartsOf(whole, byEdition) ELSE whole
             by3D == [g \in E |-> split3D(g)]
             D == IF GroupOpts.threeD THEN PartsOf(E, by3D) ELSE E
             byLanguage == [g \in D |-> splitLanguages(g)]
             L == IF GroupOpts.languages THEN PartsOf(D, byLanguage) ELSE D
  <1>1. splitVariants(cands) = L
    <2> DEFINE E0 == IF GroupOpts.editions THEN UNION {splitEditions(g) : g \in whole} ELSE whole
               D0 == IF GroupOpts.threeD THEN UNION {split3D(g) : g \in E0} ELSE E0
               L0 == IF GroupOpts.languages THEN UNION {splitLanguages(g) : g \in D0} ELSE D0
    <2>1. splitVariants(cands) = L0 BY Zenon DEF splitVariants
    <2>2. E0 = E
      <3> HIDE DEF whole
      <3> QED BY DEF PartsOf
    <2> HIDE DEF E0, E
    <2>3. D0 = D BY <2>2 DEF PartsOf
    <2> HIDE DEF D0, D
    <2>4. L0 = L BY <2>3 DEF PartsOf
    <2> QED BY <2>1, <2>4
  <1>2. g0.cands = cands /\ g0.suffix = NoSuffix OBVIOUS
  <1>3. PICK none, no : NoSuffix = Suffix(none, no, {})
    <2>1. NoSuffix = Suffix("", FALSE, {}) BY DEF NoSuffix, Suffix
    <2> QED BY <2>1
  <1> HIDE DEF g0
  <1>4. VariantsOK(whole, cands) BY <1>2, WholeOK
  <1>5. VariantsOK(E, cands) /\ \A g \in E : \E k : g.suffix = Suffix(k, no, {})
    <2>1. VariantsOK(splitEditions(g0), cands) /\ \A x \in splitEditions(g0) : \E k : x.suffix = Suffix(k, no, {})
      BY <1>2, <1>3, EditionsSplit
    <2>2. PartsOf(whole, byEdition) = splitEditions(g0) BY DEF PartsOf
    <2>3. \A g \in whole : g.suffix = Suffix(none, no, {}) BY <1>2, <1>3
    <2> HIDE DEF byEdition, whole
    <2>4. CASE GroupOpts.editions
      <3>1. E = splitEditions(g0) BY <2>2, <2>4
      <3> QED BY <1>2, <2>1, <3>1
    <2>5. CASE ~GroupOpts.editions
      <3>1. E = whole BY <2>5
      <3> QED BY <1>4, <2>3, <3>1
    <2> QED BY <2>4, <2>5
  <1> HIDE DEF E, whole
  <1>6. VariantsOK(D, cands) /\ \A g \in D : \E k, b : g.suffix = Suffix(k, b, {})
    <2>1. \A g \in E : IsFiniteSet(g.cands) BY <1>5 DEF VariantsOK
    <2>2. ASSUME NEW g \in E, NEW k, g.suffix = Suffix(k, no, {})
          PROVE  VariantsOK(by3D[g], g.cands) /\ \A x \in by3D[g] : \E b : x.suffix = Suffix(k, b, {})
      BY <2>1, <2>2, ThreeDSplit
    <2>3. ASSUME NEW g \in E, NEW h \in E, g # h, NEW x \in by3D[g], NEW y \in by3D[h] PROVE x.suffix # y.suffix
      <3> HIDE DEF by3D
      <3>1. PICK k : g.suffix = Suffix(k, no, {}) BY <1>5
      <3>2. PICK l : h.suffix = Suffix(l, no, {}) BY <1>5
      <3>3. g.suffix # h.suffix BY <2>3, <1>5 DEF VariantsOK
      <3>4. k # l BY <3>1, <3>2, <3>3
      <3>5. PICK b : x.suffix = Suffix(k, b, {}) BY <3>1, <2>2
      <3>6. PICK c : y.suffix = Suffix(l, c, {}) BY <3>2, <2>2
      <3> QED BY <3>4, <3>5, <3>6 DEF Suffix
    <2> HIDE DEF by3D
    <2>4. \A g \in E : VariantsOK(by3D[g], g.cands) BY <2>2, <1>5
    <2>5. \A x \in PartsOf(E, by3D) : \E k, b : x.suffix = Suffix(k, b, {})
      <3> SUFFICES ASSUME NEW g \in E, NEW x \in by3D[g] PROVE \E k, b : x.suffix = Suffix(k, b, {}) BY DEF PartsOf
      <3>1. PICK k : g.suffix = Suffix(k, no, {}) BY <1>5
      <3>2. PICK b : x.suffix = Suffix(k, b, {}) BY <3>1, <2>2
      <3> QED BY <3>2
    <2>6. VariantsOK(PartsOf(E, by3D), cands) BY <1>5, <2>3, <2>4, VariantsOfVariants
    <2> QED BY <1>5, <2>5, <2>6
  <1> HIDE DEF D
  <1>7. VariantsOK(L, cands)
    <2>1. \A g \in D : IsFiniteSet(g.cands) BY <1>6 DEF VariantsOK
    <2>2. ASSUME NEW g \in D, NEW k, NEW b, g.suffix = Suffix(k, b, {})
          PROVE  VariantsOK(byLanguage[g], g.cands) /\ \A x \in byLanguage[g] : \E p : x.suffix = Suffix(k, b, p)
      BY <2>1, <2>2, LanguagesSplit
    <2>3. ASSUME NEW g \in D, NEW h \in D, g # h, NEW x \in byLanguage[g], NEW y \in byLanguage[h]
          PROVE  x.suffix # y.suffix
      <3> HIDE DEF byLanguage
      <3>1. PICK k, b : g.suffix = Suffix(k, b, {}) BY <1>6
      <3>2. PICK l, c : h.suffix = Suffix(l, c, {}) BY <1>6
      <3>3. g.suffix # h.suffix BY <2>3, <1>6 DEF VariantsOK
      <3>4. k # l \/ b # c BY <3>1, <3>2, <3>3
      <3>5. PICK p : x.suffix = Suffix(k, b, p) BY <3>1, <2>2
      <3>6. PICK q : y.suffix = Suffix(l, c, q) BY <3>2, <2>2
      <3> QED BY <3>4, <3>5, <3>6 DEF Suffix
    <2> HIDE DEF byLanguage
    <2>4. \A g \in D : VariantsOK(byLanguage[g], g.cands) BY <2>2, <1>6
    <2>5. VariantsOK(PartsOf(D, byLanguage), cands) BY <1>6, <2>3, <2>4, VariantsOfVariants
    <2> QED BY <1>6, <2>5
  <1> QED BY <1>1, <1>7

-----------------------------------------------------------------------------
\* The entries of all units.
AllEntries(us) == UNION {u.entries : u \in us}

\* The units' entries are entries of one scan.
LEMMA AllEntriesOK ==
  ASSUME NEW us, UnitsOK(us)
  PROVE  EntriesOK(AllEntries(us))
  <1> DEFINE f == [u \in us |-> u.entries]
             T == {f[u] : u \in us}
  <1>1. IsFiniteSet(T)
    <2> HIDE DEF f
    <2> QED BY ImageFinite DEF UnitsOK
  <1>2. T = {u.entries : u \in us} OBVIOUS
  <1>3. \A x \in T : IsFiniteSet(x)
    <2>1. \A x \in T : \E u \in us : x = u.entries OBVIOUS
    <2> HIDE DEF T
    <2> QED BY <2>1 DEF UnitsOK, EntriesOK
  <1> HIDE DEF T
  <1>4. IsFiniteSet(AllEntries(us)) BY <1>1, <1>2, <1>3, FS_UNION DEF AllEntries
  <1>5. \A e \in AllEntries(us) : \E u \in us : e \in u.entries BY DEF AllEntries
  <1>6. \A e \in AllEntries(us) : EntryOK(e) BY <1>5 DEF UnitsOK, EntriesOK
  <1>7. ASSUME NEW e \in AllEntries(us), NEW g \in AllEntries(us), Name(e.item) = Name(g.item) PROVE e = g
    <2>1. PICK u \in us : e \in u.entries BY <1>5
    <2>2. PICK w \in us : g \in w.entries BY <1>5
    <2>3. u = w BY <2>1, <2>2, <1>7 DEF UnitsOK
    <2> QED BY <2>1, <2>2, <2>3, <1>7 DEF UnitsOK, EntriesOK
  <1> QED BY <1>4, <1>6, <1>7 DEF EntriesOK

\* The variants of some units.
LEMMA VariantsFinite ==
  ASSUME NEW us, UnitsOK(us)
  PROVE  /\ IsFiniteSet(variantsOf(us))
         /\ \A x \in variantsOf(us) : x[1] \in us /\ x[2] \in splitVariants(x[1].cands) /\ x = <<x[1], x[2]>>
  <1> DEFINE f == [u \in us |-> {u} \X splitVariants(u.cands)]
             T == {f[u] : u \in us}
  <1>1. IsFiniteSet(T)
    <2> HIDE DEF f
    <2> QED BY ImageFinite DEF UnitsOK
  <1>2. T = {{u} \X splitVariants(u.cands) : u \in us} OBVIOUS
  <1>3. ASSUME NEW u \in us PROVE IsFiniteSet(f[u])
    <2>1. IsFiniteSet(splitVariants(u.cands)) BY VariantsSplit DEF UnitsOK, VariantsOK
    <2>2. IsFiniteSet({u}) BY FS_Singleton
    <2>3. IsFiniteSet({u} \X splitVariants(u.cands)) BY <2>1, <2>2, FS_Product
    <2> QED BY <2>3
  <1>4. \A x \in T : IsFiniteSet(x)
    <2> HIDE DEF f
    <2> QED BY <1>3
  <1>5. variantsOf(us) \subseteq UNION {{u} \X splitVariants(u.cands) : u \in us} BY Zenon DEF variantsOf
  <1>6. IsFiniteSet(UNION T)
    <2> HIDE DEF T
    <2> QED BY <1>1, <1>4, FS_UNION
  <1>7. variantsOf(us) \subseteq UNION T BY <1>2, <1>5
  <1>8. \A x \in UNION T : x[1] \in us /\ x[2] \in splitVariants(x[1].cands) /\ x = <<x[1], x[2]>>
    <2> SUFFICES ASSUME NEW u \in us, NEW x \in {u} \X splitVariants(u.cands)
                 PROVE  x[1] \in us /\ x[2] \in splitVariants(x[1].cands) /\ x = <<x[1], x[2]>>
      BY <1>2
    <2> QED OBVIOUS
  <1> HIDE DEF T
  <1>9. IsFiniteSet(variantsOf(us)) BY <1>6, <1>7, FS_Subset
  <1> QED BY <1>7, <1>8, <1>9

\* The first entries of the units of two variants of one key.
LEMMA VariantsOrdered ==
  ASSUME NEW us, UnitsOK(us), NEW x \in variantsOf(us), NEW y \in variantsOf(us), NEW z \in variantsOf(us)
  PROVE  /\ x # y /\ sameKey(x, y) => comesBefore(x, y) \/ comesBefore(y, x)
         /\ ~comesBefore(x, x)
         /\ comesBefore(x, y) /\ comesBefore(y, z) => comesBefore(x, z)
  <1> DEFINE lead(v) == leadOf(v[1].entries)
  <1>1. \A v \in {x, y, z} : v[1] \in us /\ v[2] \in splitVariants(v[1].cands) /\ v = <<v[1], v[2]>>
    BY VariantsFinite
  <1>2. \A v \in {x, y, z} : lead(v) \in v[1].entries BY <1>1, LeadIsFirst DEF UnitsOK
  <1>3. \A v \in {x, y, z} : lead(v) \in AllEntries(us) BY <1>1, <1>2 DEF AllEntries
  <1>4. EntriesOK(AllEntries(us)) BY AllEntriesOK
  <1>5. \A v, w : comesBefore(v, w) <=> sameKey(v, w) /\ entryLess(lead(v), lead(w)) BY Zenon DEF comesBefore
  <1>6. ASSUME x # y, sameKey(x, y) PROVE lead(x) # lead(y)
    <2>1. x[1] # y[1]
      <3> SUFFICES ASSUME x[1] = y[1] PROVE FALSE OBVIOUS
      <3>1. VariantsOK(splitVariants(x[1].cands), x[1].cands) BY <1>1, VariantsSplit DEF UnitsOK
      <3>2. x[2].suffix = y[2].suffix BY <1>6 DEF sameKey
      <3>3. x[2] = y[2] BY <1>1, <3>1, <3>2 DEF VariantsOK
      <3> QED BY <1>1, <1>6, <3>3
    <2> QED BY <2>1, <1>1, <1>2 DEF UnitsOK
  <1>7. /\ sameKey(x, y) => sameKey(y, x)
        /\ sameKey(x, y) /\ sameKey(y, z) => sameKey(x, z)
    BY DEF sameKey
  <1> HIDE DEF lead
  <1>8. /\ lead(x) # lead(y) => entryLess(lead(x), lead(y)) \/ entryLess(lead(y), lead(x))
        /\ ~entryLess(lead(x), lead(x))
        /\ entryLess(lead(x), lead(y)) /\ entryLess(lead(y), lead(z)) => entryLess(lead(x), lead(z))
    <2>1. lead(x) \in AllEntries(us) /\ lead(y) \in AllEntries(us) /\ lead(z) \in AllEntries(us) BY <1>3
    <2> QED BY <2>1, <1>4, EntriesOrdered
  <1> QED BY <1>5, <1>6, <1>7, <1>8

\* A variant after another of its key gets a higher number.
LEMMA NumbersDiffer ==
  ASSUME NEW us, UnitsOK(us), NEW x \in variantsOf(us), NEW y \in variantsOf(us), comesBefore(x, y)
  PROVE  LET before(v) == {w \in variantsOf(us) : comesBefore(w, v)}
         IN  /\ Cardinality(before(x)) \in Nat /\ Cardinality(before(y)) \in Nat
             /\ Cardinality(before(x)) < Cardinality(before(y))
  <1> DEFINE before(v) == {w \in variantsOf(us) : comesBefore(w, v)}
  <1>1. before(x) \subseteq before(y) \ {x} /\ x \in before(y) BY VariantsOrdered
  <1>2. IsFiniteSet(before(x)) /\ IsFiniteSet(before(y)) BY VariantsFinite, FS_Subset
  <1> HIDE DEF before
  <1>3. Cardinality(before(y) \ {x}) = Cardinality(before(y)) - 1 /\ IsFiniteSet(before(y) \ {x})
    BY <1>1, <1>2, FS_RemoveElement
  <1>4. Cardinality(before(x)) <= Cardinality(before(y) \ {x}) BY <1>1, <1>3, FS_Subset
  <1>5. Cardinality(before(x)) \in Nat /\ Cardinality(before(y)) \in Nat BY <1>2, FS_CardinalityType
  <1>6. Cardinality(before(x)) < Cardinality(before(y)) BY <1>3, <1>4, <1>5
  <1> QED BY <1>5, <1>6 DEF before

\* The groups of the units share no version and no key.
LEMMA GroupsApart ==
  ASSUME NEW us, UnitsOK(us), NEW g \in groupsOf(us), NEW h \in groupsOf(us), g # h
  PROVE  g.key # h.key /\ g.versions \cap h.versions = {}
  <1> DEFINE vs == variantsOf(us)
             before(v) == {w \in vs : comesBefore(w, v)}
             num(v) == 1 + Cardinality(before(v))
  <1>1. groupsOf(us) = {newGroup(x[1], x[2], num(x)) : x \in vs} BY Zenon DEF groupsOf
  <1> HIDE DEF num, vs
  <1>2. PICK x \in vs : g = newGroup(x[1], x[2], num(x)) BY <1>1
  <1>3. PICK y \in vs : h = newGroup(y[1], y[2], num(y)) BY <1>1
  <1>4. x # y BY <1>2, <1>3
  <1>5. /\ g.key = <<x[1].key, x[2].suffix, num(x)>> /\ h.key = <<y[1].key, y[2].suffix, num(y)>>
        /\ g.versions = {c.key : c \in x[2].cands} /\ h.versions = {c.key : c \in y[2].cands}
    BY <1>2, <1>3 DEF newGroup
  <1>6. \A v \in vs : v[1] \in us /\ v[2] \in splitVariants(v[1].cands) /\ v = <<v[1], v[2]>>
    BY VariantsFinite DEF vs
  <1>7. \A u \in us : VariantsOK(splitVariants(u.cands), u.cands) BY VariantsSplit DEF UnitsOK
  <1>8. ASSUME g.key = h.key PROVE FALSE
    <2>1. x[1].key = y[1].key /\ x[2].suffix = y[2].suffix /\ num(x) = num(y)
      <3>1. <<x[1].key, x[2].suffix, num(x)>> = <<y[1].key, y[2].suffix, num(y)>> BY <1>5, <1>8
      <3> QED BY <3>1
    <2>2. sameKey(x, y) BY <2>1 DEF sameKey
    <2>3. comesBefore(x, y) \/ comesBefore(y, x) BY <2>2, <1>4, VariantsOrdered DEF vs
    <2>4. Cardinality(before(x)) # Cardinality(before(y)) /\ Cardinality(before(x)) \in Nat /\ Cardinality(before(y)) \in Nat
      BY <2>3, NumbersDiffer DEF vs
    <2> HIDE DEF before
    <2> QED BY <2>1, <2>4 DEF num
  <1>9. ASSUME NEW k \in g.versions, k \in h.versions PROVE FALSE
    <2>1. PICK v \in x[2].cands : v.key = k BY <1>5
    <2>2. PICK w \in y[2].cands : w.key = k BY <1>5, <1>9
    <2>3. v \in x[1].cands /\ w \in y[1].cands BY <1>6, <1>7 DEF VariantsOK
    <2>4. PICK e \in x[1].entries : Lists(Name(e.item), v) BY <2>3, <1>6 DEF UnitsOK
    <2>5. PICK f \in y[1].entries : Lists(Name(f.item), w) BY <2>3, <1>6 DEF UnitsOK
    <2>6. Name(e.item) = Name(f.item) BY <2>1, <2>2, <2>4, <2>5, OneLister
    <2>7. x[1] = y[1] BY <2>4, <2>5, <2>6, <1>6 DEF UnitsOK
    <2>8. v = w BY <2>1, <2>2, <2>3, <2>7, <1>6 DEF UnitsOK, OneEach
    <2>9. x[2] # y[2] BY <2>7, <1>4, <1>6
    <2>10. x[2].cands \cap y[2].cands = {} BY <2>7, <2>9, <1>6, <1>7 DEF VariantsOK
    <2> QED BY <2>8, <2>10
  <1> QED BY <1>8, <1>9

-----------------------------------------------------------------------------
\* What each step of a scan leaves for the next.
GroupingInv ==
  /\ shelf \in Shelves
  /\ gstep \in {"idle", "listed", "collected", "matched", "units", "keyed", "done"}
  /\ gstep = "listed" => listing \in Seq(DOMAIN Shelf)
  /\ gstep = "collected" => EntriesOK(units)
  /\ gstep = "matched" => /\ EntriesOK(UNION units) /\ Apart(units) /\ IsFiniteSet(units)
                          /\ units \subseteq (SUBSET UNION units) \ {{}}
  /\ gstep \in {"units", "keyed"} => UnitsOK(units)
  /\ GroupsDisjoint

\* Every step of a scan keeps it.
LEMMA GroupingStep ==
  ASSUME GroupingInv, [GroupingNext]_groupingVars
  PROVE  GroupingInv'
  <1> USE DEF GroupingInv
  <1>1. CASE ListItems
    <2>1. shelf' = shelf /\ groups' = groups /\ gstep' = "listed" BY <1>1 DEF ListItems
    <2>2. listing' \in Seq(DOMAIN Shelf)
      <3>1. PICK s \in SetToSeqs(shelf) : listing' = s BY <1>1 DEF ListItems
      <3>2. IsFiniteSet(shelf) /\ shelf \subseteq DOMAIN Shelf BY GroupingAssumption
      <3>3. Cardinality(shelf) \in Nat BY <3>2, FS_CardinalityType
      <3>4. s \in [1..Cardinality(shelf) -> shelf] BY Zenon DEF SetToSeqs
      <3> QED BY <3>1, <3>2, <3>3, <3>4
    <2> QED BY <2>1, <2>2 DEF GroupsDisjoint
  <1>2. CASE Collect
    <2>1. /\ gstep = "listed" /\ gstep' = "collected" /\ units' = collectItems(listing)
          /\ shelf' = shelf /\ groups' = groups
      BY <1>2 DEF Collect
    <2>2. EntriesOK(units') BY <2>1, CollectedOnce
    <2> QED BY <2>1, <2>2 DEF GroupsDisjoint
  <1>3. CASE MatchItems
    <2>1. /\ gstep = "collected" /\ gstep' = "matched" /\ units' = unitSets(units)
          /\ shelf' = shelf /\ groups' = groups
      BY <1>3 DEF MatchItems
    <2>2. Apart(units') /\ IsFiniteSet(units') /\ units' \subseteq (SUBSET units) \ {{}} BY <2>1, UnitSetsApart
    <2>3. UNION (units') \subseteq units BY <2>2
    <2>4. EntriesOK(UNION (units')) BY <2>1, <2>3, SomeEntriesOK
    <2>5. units' \subseteq (SUBSET UNION (units')) \ {{}} BY <2>2
    <2> QED BY <2>1, <2>2, <2>4, <2>5 DEF GroupsDisjoint
  <1>4. CASE BuildUnits
    <2>1. /\ gstep = "matched" /\ gstep' = "units" /\ units' = {newUnit(es) : es \in units}
          /\ shelf' = shelf /\ groups' = groups
      BY <1>4 DEF BuildUnits
    <2>2. UnitsOK(units') BY <2>1, UnitsBuilt
    <2> QED BY <2>1, <2>2 DEF GroupsDisjoint
  <1>5. CASE Disambiguate
    <2>1. /\ gstep = "units" /\ gstep' = "keyed" /\ units' = disambiguateKeys(units)
          /\ shelf' = shelf /\ groups' = groups
      BY <1>5 DEF Disambiguate
    <2>2. UnitsOK(units') BY <2>1, DisambiguatedOK
    <2> QED BY <2>1, <2>2 DEF GroupsDisjoint
  <1>6. CASE BuildGroups
    <2>1. gstep = "keyed" /\ gstep' = "done" /\ groups' = groupsOf(units) /\ shelf' = shelf BY <1>6 DEF BuildGroups
    <2>2. GroupsDisjoint' BY <2>1, GroupsApart DEF GroupsDisjoint
    <2> QED BY <2>1, <2>2
  <1>7. CASE UNCHANGED groupingVars
    <2>1. shelf' = shelf /\ listing' = listing /\ gstep' = gstep /\ units' = units /\ groups' = groups
      BY <1>7 DEF groupingVars
    <2> QED BY <2>1 DEF GroupsDisjoint
  <1> QED BY <1>1, <1>2, <1>3, <1>4, <1>5, <1>6, <1>7 DEF GroupingNext

\* No two groups of a scan share a version or a key, whatever the servers list
\* in whatever order (BuildGroups).
THEOREM GroupsAreDisjoint == GroupingSpec => []GroupsDisjoint
  <1>1. GroupingInit => GroupingInv
    <2> SUFFICES ASSUME GroupingInit PROVE GroupingInv OBVIOUS
    <2>1. GroupsDisjoint BY DEF GroupingInit, GroupsDisjoint
    <2> QED BY <2>1 DEF GroupingInit, GroupingInv
  <1>2. GroupingInv /\ [GroupingNext]_groupingVars => GroupingInv' BY GroupingStep
  <1>3. GroupingInv => GroupsDisjoint BY DEF GroupingInv
  <1> QED BY <1>1, <1>2, <1>3, PTL DEF GroupingSpec
=============================================================================
