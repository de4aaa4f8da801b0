--------------------------- MODULE MatchingProofs ---------------------------
(***************************************************************************)
(* What holds of the stages after selection, for every candidate, subject, *)
(* situation and ontology: the features and scores, what is not known of a *)
(* candidate, the reasons shown, the slate, and what is worse for the one  *)
(* it is shown to.                                                         *)
(*                                                                         *)
(* The stages are functions, so an invariant of theirs is a fact about the *)
(* operators; the theorems state it of a behaviour over any set of cases,  *)
(* and their hypotheses say what a case looks like.                        *)
(***************************************************************************)
EXTENDS SelectionProofs

-----------------------------------------------------------------------------
(* What the features are.                                                   *)

\* A number, or nothing where something is not known.
Amount == Int \cup {None}
Count  == Nat \cup {None}

\* The largest of some numbers within bounds is within them.
LEMMA LargerType ==
  ASSUME NEW bound \in Nat, NEW T \in SUBSET (0..bound), T # {}
  PROVE  Larger(T) \in 0..bound
<1>1. Larger(T) \in T
  BY LargerOf
<1> QED
  BY <1>1

\* How strongly codes match or are related is a number.
LEMMA StrongestType ==
  ASSUME NEW sources, NEW targets, NEW type
  PROVE  /\ MaxMatchStrength(sources, targets) \in Nat
         /\ RelationWeight(sources, type, targets) \in Nat
<1>. DEFINE bound == 1000
            pairs == (sources \cap Concept) \X (targets \cap Concept)
            T == {0} \cup {MatchStrength(q[1], q[2]) : q \in pairs}
            U == {0} \cup {r.weight : r \in {q \in Relations :
                    q.type = type /\ q.source \in sources /\ q.target \in targets}}
<1>1. ASSUME NEW q \in pairs PROVE MatchStrength(q[1], q[2]) \in 0..1000
  <2>1. q[1] \in Concept /\ q[2] \in Concept
    OBVIOUS
  <2> QED
    BY <2>1, StrengthsBounded
<1>2. bound \in Nat /\ T # {} /\ U # {} /\ T \in SUBSET (0..bound) /\ U \in SUBSET (0..bound)
  <2>1. T \in SUBSET (0..1000)
    <3>. DEFINE part(q) == MatchStrength(q[1], q[2])
    <3>1. \A q \in pairs : part(q) \in 0..1000
      BY <1>1
    <3>2. T = {0} \cup {part(q) : q \in pairs}
      OBVIOUS
    <3>. HIDE DEF part, pairs, T
    <3> QED
      BY <3>1, <3>2
  <2>2. \A r \in Relations : r.weight \in 0..1000
    BY OntologyAssumption
  <2>3. U \in SUBSET (0..1000)
    BY <2>2
  <2>4. T # {} /\ U # {}
    OBVIOUS
  <2>. HIDE DEF T, U
  <2> QED
    BY <2>1, <2>3, <2>4
<1>3. MaxMatchStrength(sources, targets) = Larger(T)
      /\ RelationWeight(sources, type, targets) = Larger(U)
  BY DEF MaxMatchStrength, RelationWeight
<1>. HIDE DEF T, U
<1>4. Larger(T) \in 0..bound
  <2>. HIDE DEF bound
  <2> QED
    BY <1>2, LargerType
<1>5. Larger(U) \in 0..bound
  <2>. HIDE DEF bound
  <2> QED
    BY <1>2, LargerType
<1>. HIDE DEF bound
<1>6. Larger(T) \in Nat /\ Larger(U) \in Nat
  BY <1>2, <1>4, <1>5
<1> QED
  BY <1>3, <1>6

\* The matches of sets, services, bands and prices are numbers or unknown.
LEMMA SetMatchType ==
  ASSUME NEW left, NEW right
  PROVE  SetMatch(left, right) \in Amount /\ SetMatch(left, right) \in Count
<1>. DEFINE m == MaxMatchStrength(left, right)
<1>1. m \in Nat
  BY StrongestType
<1>2. SetMatch(left, right) = IF left = {} \/ right = {} THEN None ELSE m \div 10
  BY DEF SetMatch
<1>. HIDE DEF m
<1> QED
  BY <1>1, <1>2 DEF Amount, Count

\* The same of services.
LEMMA ServiceMatchType ==
  ASSUME NEW left, NEW right
  PROVE  ServiceMatch(left, right) \in Amount
<1>. DEFINE m == MaxMatchStrength(left, right)
<1>1. m \in Nat
  BY StrongestType
<1>2. ServiceMatch(left, right) = IF left = {} THEN None ELSE m \div 10
  BY DEF ServiceMatch
<1>. HIDE DEF m
<1> QED
  BY <1>1, <1>2 DEF Amount

\* The same of bands of alcohol.
LEMMA AlcoholMatchType ==
  ASSUME NEW wanted, NEW alcohol
  PROVE  AlcoholMatch(wanted, alcohol) \in Amount
<1>. DEFINE band == DeriveBand(Alcohol, alcohol)
            m == MaxMatchStrength(wanted, {band})
<1>1. m \in Nat
  BY StrongestType
<1>2. AlcoholMatch(wanted, alcohol) = None \/ AlcoholMatch(wanted, alcohol) = m \div 10
  BY DEF AlcoholMatch
<1>. HIDE DEF m
<1> QED
  BY <1>1, <1>2 DEF Amount

\* The same of a price against a limit.
LEMMA PriceScoreType ==
  ASSUME NEW price \in Amount, NEW limit \in Amount
  PROVE  PriceScore(price, limit) \in Amount /\ PriceScore(price, limit) \in Count
<1>1. CASE price = None \/ limit = None \/ limit <= 0 \/ price <= limit
  BY <1>1 DEF PriceScore, Amount, Count
<1>2. CASE price \in Int /\ limit \in Int /\ ~ (limit <= 0) /\ ~ (price <= limit)
  <2>. DEFINE v == 100 - (100 * (price - limit)) \div limit
              naught == 0
  <2>1. v \in Int /\ naught \in Int /\ naught = 0
    BY <1>2
  <2>2. PriceScore(price, limit) = Max({naught, v})
    BY <1>2, NullAssumption DEF PriceScore
  <2>. HIDE DEF v, naught
  <2>3. Max({naught, v}) \in Int /\ Max({naught, v}) >= 0
    BY <2>1, BetterOfTwo
  <2> QED
    BY <2>2, <2>3 DEF Amount, Count
<1> QED
  BY <1>1, <1>2 DEF Amount, Count

Percentage == 0..100
Share(a, b) == (a * b) \div 1000

\* A part of a percentage is a percentage.
LEMMA ShareOf ==
  ASSUME NEW a \in Strength, NEW b \in Percentage
  PROVE  Share(a, b) \in Percentage
<1>. USE DEF Strength, Percentage
<1>. DEFINE x == a * b
<1>1. x \in Int /\ 0 <= x /\ x <= 100000
  <2>1. \A u, v, w \in Nat : u <= v => u * w <= v * w
    OBVIOUS
  <2>2. a \in Nat /\ b \in Nat /\ a <= 1000 /\ b <= 100
    OBVIOUS
  <2>3. a * b \in Nat /\ a * b <= 1000 * b
    BY <2>1, <2>2
  <2> QED
    BY <2>2, <2>3
<1>. HIDE DEF x
<1>2. x \div 1000 \in Int /\ 0 <= x \div 1000 /\ x \div 1000 <= 100
  BY <1>1
<1> QED
  BY <1>2 DEF x, Share

\* Codes with a percentage each.
Weighs(w) == \A k \in DOMAIN w : w[k] \in 0..100

\* A match of weighted codes is a number or unknown.
LEMMA CodeMatchType ==
  ASSUME NEW wanted, NEW offered, Weighs(offered)
  PROVE  CodeMatch(wanted, offered) \in Amount /\ CodeMatch(wanted, offered) \in Count
<1>. DEFINE S == (wanted \cap Concept) \X (DOMAIN offered \cap Concept)
            T == {0} \cup {(MatchStrength(q[1], q[2]) * offered[q[2]]) \div 1000 : q \in S}
            hundred == 100
<1>2. ASSUME NEW q \in S
      PROVE  (MatchStrength(q[1], q[2]) * offered[q[2]]) \div 1000 \in 0..100
  <2>1. q[1] \in Concept /\ q[2] \in Concept /\ q[2] \in DOMAIN offered
    OBVIOUS
  <2>2. MatchStrength(q[1], q[2]) \in 0..1000
    BY <2>1, StrengthsBounded DEF Strength
  <2>3. offered[q[2]] \in 0..100
    BY <2>1 DEF Weighs
  <2>. DEFINE a == MatchStrength(q[1], q[2])
              b == offered[q[2]]
  <2>4. a \in Strength /\ b \in Percentage
    BY <2>2, <2>3 DEF Strength, Percentage
  <2>5. Share(a, b) \in Percentage
    <3>. HIDE DEF a, b
    <3> QED
      BY <2>4, ShareOf
  <2> QED
    BY <2>5 DEF a, b, Share, Percentage
<1>3. T \in SUBSET (0..hundred) /\ T # {} /\ hundred \in Nat
  <2>. DEFINE part(q) == (MatchStrength(q[1], q[2]) * offered[q[2]]) \div 1000
  <2>1. \A q \in S : part(q) \in 0..100
    BY <1>2
  <2>2. T = {0} \cup {part(q) : q \in S}
    OBVIOUS
  <2>. HIDE DEF part, S, T
  <2> QED
    BY <2>1, <2>2
<1>. HIDE DEF T
<1>4. Larger(T) \in Nat
  <2>1. Larger(T) \in 0..hundred
    <3>. HIDE DEF hundred
    <3> QED
      BY <1>3, LargerType
  <2> QED
    BY <2>1
<1>5. CodeMatch(wanted, offered) = IF wanted = {} \/ DOMAIN offered = {} THEN None ELSE Larger(T)
  BY DEF CodeMatch, T
<1> QED
  BY <1>4, <1>5 DEF Amount, Count

\* A weighted mean of some numbers is a number.
LEMMA CombinedType ==
  ASSUME NEW parts, IsFiniteSet(DOMAIN parts),
         \A i \in DOMAIN parts : parts[i][1] \in Amount /\ parts[i][2] \in Nat \ {0}
  PROVE  /\ Combined(parts) \in Amount
         /\ (\A i \in DOMAIN parts : parts[i][1] \in Count) => Combined(parts) \in Count
<1>. DEFINE known == {i \in DOMAIN parts : parts[i][1] # None}
            f == [i \in known |-> parts[i][1] * parts[i][2]]
            w == [i \in known |-> parts[i][2]]
<1>1. IsFiniteSet(known)
  BY FS_Subset
<1>2. f \in [known -> Int] /\ w \in [known -> Int] /\ w \in [known -> Nat \ {0}]
  BY DEF Amount
<1>3. Combined(parts) = IF known = {} THEN None ELSE SumFunction(f) \div SumFunction(w)
  BY DEF Combined
<1>. HIDE DEF known, f, w
<1>4. SumFunction(f) \in Int /\ SumFunction(w) \in Int
  BY <1>1, <1>2, SumType
<1>5. known # {} => SumFunction(w) > 0
  BY <1>1, <1>2, PositiveSum
<1>6. known # {} => SumFunction(f) \div SumFunction(w) \in Int
  BY <1>4, <1>5
<1>7. ASSUME \A i \in DOMAIN parts : parts[i][1] \in Count, known # {}
      PROVE  SumFunction(f) \div SumFunction(w) \in Nat
  <2>1. \A i \in known : parts[i][1] \in Nat /\ parts[i][2] \in Nat
    BY <1>7 DEF Count, known
  <2>2. f \in [known -> Nat]
    BY <2>1 DEF f
  <2>3. SumFunction(f) \in Nat
    BY <1>1, <2>2, SumNatural
  <2> QED
    BY <1>4, <1>5, <1>7, <2>3
<1> QED
  BY <1>3, <1>6, <1>7 DEF Amount, Count

\* So is the mean of two parts.
LEMMA CombinedPairType ==
  ASSUME NEW a \in Amount, NEW b \in Amount, NEW v \in Nat \ {0}, NEW w \in Nat \ {0}
  PROVE  /\ Combined(<<<<a, v>>, <<b, w>>>>) \in Amount
         /\ a \in Count /\ b \in Count => Combined(<<<<a, v>>, <<b, w>>>>) \in Count
<1>. DEFINE parts == <<<<a, v>>, <<b, w>>>>
<1>1. DOMAIN parts = {1, 2}
  OBVIOUS
<1>2. IsFiniteSet({1, 2})
  <2>1. IsFiniteSet({} \cup {1})
    BY FS_EmptySet, FS_AddElement
  <2>2. IsFiniteSet(({} \cup {1}) \cup {2})
    BY <2>1, FS_AddElement
  <2>3. ({} \cup {1}) \cup {2} = {1, 2}
    OBVIOUS
  <2> QED
    BY <2>2, <2>3
<1>3. \A i \in DOMAIN parts : parts[i][1] \in Amount /\ parts[i][2] \in Nat \ {0}
  BY <1>1
<1>5. a \in Count /\ b \in Count => \A i \in DOMAIN parts : parts[i][1] \in Count
  BY <1>1
<1>. HIDE DEF parts
<1>4. Combined(parts) \in Amount
      /\ ((\A i \in DOMAIN parts : parts[i][1] \in Count) => Combined(parts) \in Count)
  BY <1>1, <1>2, <1>3, CombinedType
<1> QED
  BY <1>4, <1>5 DEF parts

\* How much an inferred preference weighs against a set of codes.
LEMMA BehaviorScoreType ==
  ASSUME NEW inferred, NEW codes, IsFiniteSet(DOMAIN inferred),
         \A k \in DOMAIN inferred : inferred[k].score \in Int /\ inferred[k].confidence \in Nat
  PROVE  BehaviorScore(inferred, codes) \in Amount
<1>. DEFINE D == DOMAIN inferred
            weight(k) == (MaxMatchStrength(codes, {k}) * inferred[k].confidence) \div 1000
            w == [k \in D |-> weight(k)]
            f == [k \in D |-> weight(k) * inferred[k].score]
            none == [k \in D |-> 0]
<1>1. ASSUME NEW k \in D PROVE weight(k) \in Nat
  <2>. DEFINE a == MaxMatchStrength(codes, {k})
              b == inferred[k].confidence
              c == a * b
  <2>1. a \in Nat /\ b \in Nat
    BY StrongestType
  <2>. HIDE DEF a, b
  <2>2. c \in Nat
    BY <2>1
  <2>. HIDE DEF c
  <2>3. c \div 1000 \in Nat
    BY <2>2
  <2> QED
    BY <2>3 DEF a, b, c
<1>. HIDE DEF weight
<1>2. w \in [D -> Int] /\ f \in [D -> Int] /\ none \in [D -> Int]
      /\ \A k \in D : none[k] <= w[k] /\ none[k] = 0 * w[k]
  BY <1>1
<1>3. BehaviorScore(inferred, codes) = IF D = {} \/ codes = {} THEN None
        ELSE IF SumFunction(w) = 0 THEN 0 ELSE (SumFunction(f) \div SumFunction(w) + 100) \div 2
  BY DEF BehaviorScore, weight
<1>. HIDE DEF w, f, none, D
<1>4. IsFiniteSet(D)
  BY DEF D
<1>5. SumFunction(w) \in Int /\ SumFunction(f) \in Int
  BY <1>2, <1>4, SumType
<1>6. SumFunction(w) >= 0
  <2>1. SumFunction(none) <= SumFunction(w)
    BY <1>2, <1>4, SumMonotone
  <2>. DEFINE naught == 0
  <2>2. naught \in Int /\ \A k \in D : none[k] = naught * w[k]
    BY <1>2
  <2>3. SumFunction(none) = naught * SumFunction(w)
    <3>. HIDE DEF naught
    <3> QED
      BY <1>2, <1>4, <2>2, SumScaled
  <2> QED
    BY <1>5, <2>1, <2>3
<1>. DEFINE m == SumFunction(f) \div SumFunction(w)
<1>7. SumFunction(w) # 0 => m \in Int
  BY <1>5, <1>6
<1>8. BehaviorScore(inferred, codes) = IF D = {} \/ codes = {} THEN None
        ELSE IF SumFunction(w) = 0 THEN 0 ELSE (m + 100) \div 2
  BY <1>3
<1>. HIDE DEF m
<1> QED
  BY <1>7, <1>8 DEF Amount

\* The weighted sum of the most important is a number.
LEMMA ByPriorityType ==
  ASSUME NEW S, S \subseteq Int, IsFiniteSet(S), NEW items, DOMAIN items = S,
         \A i \in S : items[i].priority \in Int /\ items[i].value \in Int,
         NEW weights, \A n \in 1..3 : \A k \in 1..n : weights[n][k] \in Int
  PROVE  /\ ByPriority(items, weights) \in Amount
         /\ (/\ \A i \in S : items[i].value \in Nat
             /\ \A n \in 1..3 : \A k \in 1..n : weights[n][k] \in Nat)
              => ByPriority(items, weights) \in Count
<1>. DEFINE m == Cardinality(S)
            before(i, j) == items[i].priority < items[j].priority
                              \/ (items[i].priority = items[j].priority /\ i < j)
            below == [j \in S |-> {i \in S : before(i, j)}]
            order == Arranged(DOMAIN items, LAMBDA i, j :
                       items[i].priority < items[j].priority
                         \/ (items[i].priority = items[j].priority /\ i < j))
            three == 3
            n == Min({three, Len(order)})
            f == [k \in 1..n |-> items[order[k]].value * weights[n][k]]
<1>1. m \in Nat
  BY FS_CardinalityType
<1>2. Orders(S, below)
  <2>1. \A i, j \in S : i \in below[j] <=> before(i, j)
    OBVIOUS
  <2>2. below \in [S -> SUBSET S]
    OBVIOUS
  <2>3. \A i \in S : items[i].priority \in Int /\ i \in Int
    OBVIOUS
  <2>. HIDE DEF below
  <2>7. \A i \in S : ~before(i, i)
    BY <2>3
  <2>8. \A i, j \in S : i # j => before(i, j) \/ before(j, i)
    <3>. SUFFICES ASSUME NEW i \in S, NEW j \in S, i # j PROVE before(i, j) \/ before(j, i)
      OBVIOUS
    <3>. DEFINE a == items[i].priority
                b == items[j].priority
    <3>1. a \in Int /\ b \in Int /\ i \in Int /\ j \in Int
      BY <2>3
    <3>2. before(i, j) <=> a < b \/ (a = b /\ i < j)
      OBVIOUS
    <3>3. before(j, i) <=> b < a \/ (b = a /\ j < i)
      OBVIOUS
    <3>. HIDE DEF a, b, before
    <3> QED
      BY <3>1, <3>2, <3>3
  <2>. HIDE DEF before
  <2>4. \A i \in S : i \notin below[i]
    BY <2>1, <2>7
  <2>5. \A i, j \in S : i # j => i \in below[j] \/ j \in below[i]
    BY <2>1, <2>8
  <2>. USE DEF before
  <2>6. ASSUME NEW i \in S, NEW j \in S, i \in below[j], NEW k \in below[i]
        PROVE  k \in below[j]
    <3>1. k \in S
      BY <2>2
    <3>2. ASSUME NEW x \in S, NEW y \in S, NEW z \in S, before(x, y), before(y, z)
          PROVE  before(x, z)
      <4>. DEFINE a == items[x].priority
                  b == items[y].priority
                  c == items[z].priority
      <4>1. a \in Int /\ b \in Int /\ c \in Int /\ x \in Int /\ y \in Int /\ z \in Int
        BY <2>3
      <4>2. (a < b \/ (a = b /\ x < y)) /\ (b < c \/ (b = c /\ y < z))
        BY <3>2
      <4>. HIDE DEF a, b, c
      <4>3. a < c \/ (a = c /\ x < z)
        BY <4>1, <4>2
      <4> QED
        BY <4>3 DEF a, c
    <3>. HIDE DEF before
    <3>3. before(k, i) /\ before(i, j)
      BY <2>1, <2>6, <3>1
    <3>4. before(k, j)
      BY <3>1, <3>2, <3>3
    <3> QED
      BY <2>1, <3>1, <3>4
  <2> QED
    BY <2>2, <2>4, <2>5, <2>6 DEF Orders
<1>3. order = [k \in 1..Cardinality(S) |->
                 CHOOSE x \in S : Cardinality({y \in S : before(y, x)}) = k - 1]
  BY DEF Arranged
<1>4. \A x \in S : below[x] = {y \in S : before(y, x)}
  OBVIOUS
<1>. HIDE DEF below, order
<1>5. ASSUME NEW k \in 1..m, \E x \in S : Cardinality(below[x]) = k - 1
      PROVE  order[k] \in S /\ Cardinality(below[order[k]]) = k - 1
  <2>. DEFINE e == CHOOSE x \in S : Cardinality({y \in S : before(y, x)}) = k - 1
  <2>1. \E x \in S : Cardinality({y \in S : before(y, x)}) = k - 1
    BY <1>4, <1>5
  <2>2. e \in S /\ Cardinality({y \in S : before(y, e)}) = k - 1
    <3>. HIDE DEF before
    <3> QED
      BY <2>1
  <2>3. order[k] = e
    BY <1>3
  <2>. HIDE DEF e
  <2> QED
    BY <1>4, <2>2, <2>3
<1>6. order = [k \in 1..m |-> order[k]]
  <2>. DEFINE e(k) == CHOOSE x \in S : Cardinality({y \in S : before(y, x)}) = k - 1
  <2>1. order = [k \in 1..m |-> e(k)]
    BY <1>3
  <2>. HIDE DEF e
  <2> QED
    BY <2>1
<1>. HIDE DEF before
<1>7. Len(order) = m /\ \A k \in 1..m : order[k] \in S
  <2>1. Lists(order, S, below)
    BY <1>2, <1>5, <1>6, Listing
  <2>2. Len(order) = m
    BY <1>2, <2>1, ListedOnce
  <2>3. \A k \in 1..m : order[k] \in S
    BY <2>1 DEF Lists
  <2> QED
    BY <2>2, <2>3
<1>. HIDE DEF m
<1>8. n = (IF three <= m THEN three ELSE m) /\ three \in Nat
  <2>1. three \in Int /\ m \in Int
    BY <1>1
  <2>2. Min({three, m}) = IF three <= m THEN three ELSE m
    <3>. HIDE DEF three
    <3> QED
      BY <2>1, BetterOfTwo
  <2> QED
    BY <1>7, <2>2
<1>9. n \in 0..3 /\ n <= m
  BY <1>1, <1>8
<1>10. ByPriority(items, weights) = IF n = 0 THEN None ELSE SumFunction(f) \div 100
  BY DEF ByPriority, order
<1>. HIDE DEF n
<1>11. f \in [1..n -> Int]
  <2>. SUFFICES ASSUME NEW k \in 1..n PROVE items[order[k]].value * weights[n][k] \in Int
    OBVIOUS
  <2>1. n \in 1..3 /\ k \in 1..m
    BY <1>1, <1>9
  <2>2. items[order[k]].value \in Int /\ weights[n][k] \in Int
    BY <1>7, <2>1
  <2> QED
    BY <2>2
<1>14. ASSUME \A i \in S : items[i].value \in Nat,
              \A u \in 1..3 : \A k \in 1..u : weights[u][k] \in Nat
       PROVE  f \in [1..n -> Nat]
  <2>. SUFFICES ASSUME NEW k \in 1..n PROVE items[order[k]].value * weights[n][k] \in Nat
    OBVIOUS
  <2>1. n \in 1..3 /\ k \in 1..m
    BY <1>1, <1>9
  <2>2. items[order[k]].value \in Nat /\ weights[n][k] \in Nat
    BY <1>7, <1>14, <2>1
  <2> QED
    BY <2>2
<1>. HIDE DEF f
<1>12. IsFiniteSet(1..n)
  BY <1>9, FirstNumbers
<1>13. SumFunction(f) \in Int
  BY <1>11, <1>12, SumType
<1>15. f \in [1..n -> Nat] => SumFunction(f) \in Nat
  BY <1>12, SumNatural
<1> QED
  BY <1>10, <1>13, <1>14, <1>15 DEF Amount, Count

\* The goals of a profile, each with its priority.
Prioritised(goals) == \E G : goals \in Seq([code : G, priority : Int])

\* So is the match of goals.
LEMMA GoalMatchType ==
  ASSUME NEW goals, Prioritised(goals), NEW codes, NEW services
  PROVE  GoalMatch(goals, codes, services) \in Amount
<1>. DEFINE m == Len(goals)
            tenth(i) == RelationWeight(codes, "MATCHES_GOAL", {goals[i].code}) \div 10
            items == [i \in DOMAIN goals |->
                       [priority |-> goals[i].priority,
                        value |-> IF goals[i].code \in DOMAIN GoalService
                                     /\ GoalService[goals[i].code] \in services
                                  THEN 100 ELSE tenth(i)]]
            weights == <<<<100>>, <<65, 35>>, <<55, 30, 15>>>>
<1>1. m \in Nat /\ DOMAIN goals = 1..m /\ \A i \in 1..m : goals[i].priority \in Int
  <2>1. PICK G : goals \in Seq([code : G, priority : Int])
    BY DEF Prioritised
  <2>2. m \in Nat /\ DOMAIN goals = 1..m
    <3>. DEFINE X == [code : G, priority : Int]
    <3>1. goals \in Seq(X)
      BY <2>1
    <3>. HIDE DEF X
    <3> QED
      BY <3>1
  <2>3. \A i \in 1..m : goals[i] \in [code : G, priority : Int]
    <3>. DEFINE X == [code : G, priority : Int]
    <3>1. goals \in Seq(X)
      BY <2>1
    <3>. HIDE DEF X
    <3>2. \A i \in 1..m : goals[i] \in X
      BY <3>1
    <3> QED
      BY <3>2 DEF X
  <2>. HIDE DEF m
  <2> QED
    BY <2>2, <2>3
<1>2. ASSUME NEW i \in 1..m PROVE tenth(i) \in Int
  <2>. DEFINE r == RelationWeight(codes, "MATCHES_GOAL", {goals[i].code})
  <2>1. r \in Nat
    BY StrongestType
  <2>2. tenth(i) = r \div 10
    OBVIOUS
  <2>. HIDE DEF r, tenth
  <2> QED
    BY <2>1, <2>2
<1>3. GoalMatch(goals, codes, services)
        = IF codes = {} /\ services = {} THEN None ELSE ByPriority(items, weights)
  BY DEF GoalMatch
<1>. HIDE DEF tenth, m
<1>4. DOMAIN items = 1..m /\ \A i \in 1..m : items[i].priority \in Int /\ items[i].value \in Int
  BY <1>1, <1>2
<1>5. \A n \in 1..3 : \A k \in 1..n : weights[n][k] \in Int
  <2>1. \A n \in 1..3 : n = 1 \/ n = 2 \/ n = 3
    OBVIOUS
  <2>2. \A k \in 1..1 : weights[1][k] \in Int
    OBVIOUS
  <2>3. \A k \in 1..2 : weights[2][k] \in Int
    OBVIOUS
  <2>4. \A k \in 1..3 : weights[3][k] \in Int
    OBVIOUS
  <2>. HIDE DEF weights
  <2> QED
    BY <2>1, <2>2, <2>3, <2>4
<1>. HIDE DEF items, weights
<1>6. ByPriority(items, weights) \in Amount
  <2>1. IsFiniteSet(1..m) /\ 1..m \subseteq Int
    BY <1>1, FirstNumbers
  <2> QED
    BY <1>4, <1>5, <2>1, ByPriorityType
<1> QED
  BY <1>3, <1>6 DEF Amount

-----------------------------------------------------------------------------
(* The score of one direction.                                              *)

\* The smallest of one number.
LEMMA MinAlone ==
  ASSUME NEW v \in Int
  PROVE  Min({v} \cup {}) = v
<1>1. \E x \in {v} \cup {} : \A y \in {v} \cup {} : x <= y
  OBVIOUS
<1> QED
  BY <1>1 DEF Min

\* A weighted mean in hundredths does not fall when a part that is below it is
\* taken out.
LEMMA MeanWithout ==
  ASSUME NEW total \in Int, NEW rest \in Int, NEW value \in Int, NEW weight \in Nat \ {0},
         NEW all \in Nat \ {0}, NEW others \in Nat \ {0}, NEW score \in Int,
         total = value * weight + rest, all = weight + others,
         score = (100 * total) \div all, 100 * value <= score
  PROVE  score <= (100 * rest) \div others
<1>. DEFINE u == score * all
            v == score * weight
            w == score * others
            p == value * weight
<1>1. u \in Int /\ v \in Int /\ w \in Int /\ p \in Int
  OBVIOUS
<1>2. u <= 100 * total
  <2>. DEFINE a == 100 * total
  <2>1. a \in Int
    OBVIOUS
  <2>2. score = a \div all
    OBVIOUS
  <2>. HIDE DEF a
  <2>3. score * all <= a
    BY <2>1, <2>2
  <2> QED
    BY <2>3 DEF a
<1>3. u = v + w
  OBVIOUS
<1>4. 100 * p <= v
  <2>1. \A a, b \in Int : \A n \in Nat : a <= b => a * n <= b * n
    OBVIOUS
  <2>2. (100 * value) * weight <= score * weight
    BY <2>1
  <2>3. (100 * value) * weight = 100 * p
    OBVIOUS
  <2> QED
    BY <2>2, <2>3
<1>5. total = p + rest
  OBVIOUS
<1>. HIDE DEF u, v, p
<1>6. w <= 100 * rest
  BY <1>1, <1>2, <1>3, <1>4, <1>5
<1>. DEFINE a == 100 * rest
<1>7. a \in Int /\ w <= a
  BY <1>6
<1>. HIDE DEF a
<1>8. score <= a \div others
  BY <1>7
<1> QED
  BY <1>8 DEF a

\* The score of a direction without caps, of components that are not all unknown.
LEMMA ScoreType ==
  ASSUME NEW D, IsFiniteSet(D), NEW weights, \A n \in D : weights[n] \in Nat \ {0},
         NEW k, DOMAIN k = D, \A n \in D : k[n] \in Amount, Directional(weights, k, {}) # None
  PROVE  Directional(weights, k, {}).score \in Int
<1>. DEFINE P == PresentIn(k)
            f == [n \in P |-> k[n] * weights[n]]
            w == [n \in P |-> weights[n]]
            F == SumFunction(f)
            W == SumFunction(w)
<1>1. P \subseteq D /\ P # {}
  BY DEF PresentIn, Directional
<1>2. IsFiniteSet(P)
  BY <1>1, FS_Subset
<1>3. f \in [P -> Int] /\ w \in [P -> Int] /\ w \in [P -> Nat \ {0}]
  BY <1>1 DEF Amount, PresentIn
<1>4. Directional(weights, k, {}).score = Min({(100 * F) \div W} \cup {})
  BY <1>1 DEF Directional
<1>. HIDE DEF P, f, w
<1>5. F \in Int /\ W \in Int
  BY <1>2, <1>3, SumType
<1>6. W > 0
  BY <1>1, <1>2, <1>3, PositiveSum
<1>. HIDE DEF F, W
<1>7. (100 * F) \div W \in Int
  BY <1>5, <1>6
<1> QED
  BY <1>4, <1>7, MinAlone

\* To forget a component that counted for no more than the score never lowers it.
LEMMA ForgettingKeepsScore ==
  ASSUME NEW D, IsFiniteSet(D), NEW weights, \A n \in D : weights[n] \in Nat \ {0},
         NEW k, DOMAIN k = D, \A n \in D : k[n] \in Amount,
         NEW j, DOMAIN j = D, NEW x \in D, j[x] = None, \A n \in D \ {x} : j[n] = k[n],
         k[x] # None, Directional(weights, j, {}) # None,
         100 * k[x] <= Directional(weights, k, {}).score
  PROVE  Directional(weights, k, {}).score <= Directional(weights, j, {}).score
<1>. DEFINE P == PresentIn(k)
            Q == PresentIn(j)
            f == [n \in P |-> k[n] * weights[n]]
            w == [n \in P |-> weights[n]]
            g == [n \in Q |-> j[n] * weights[n]]
            v == [n \in Q |-> weights[n]]
<1>1. x \in P /\ Q = P \ {x} /\ P \subseteq D
  BY DEF PresentIn
<1>2. IsFiniteSet(P) /\ IsFiniteSet(Q)
  BY <1>1, FS_Subset
<1>3. /\ f \in [P -> Int] /\ g \in [Q -> Int] /\ w \in [P -> Int] /\ v \in [Q -> Int]
      /\ w \in [P -> Nat \ {0}] /\ v \in [Q -> Nat \ {0}]
  BY <1>1 DEF Amount, PresentIn
<1>4. /\ \A n \in P \ {x} : f[n] = g[n] /\ w[n] = v[n]
      /\ f[x] = k[x] * weights[x] /\ w[x] = weights[x]
  BY <1>1
<1>5. Q # {}
  BY DEF Directional
<1>. DEFINE F == SumFunction(f)
            G == SumFunction(g)
            W == SumFunction(w)
            V == SumFunction(v)
<1>6. Directional(weights, k, {}).score = Min({(100 * F) \div W} \cup {})
  BY <1>1 DEF Directional
<1>7. Directional(weights, j, {}).score = Min({(100 * G) \div V} \cup {})
  BY <1>5 DEF Directional
<1>. HIDE DEF P, Q, f, g, w, v
<1>8. F \in Int /\ G \in Int /\ W \in Nat \ {0} /\ V \in Nat \ {0}
  <2>1. F \in Int
    BY <1>2, <1>3, SumType
  <2>2. G \in Int
    BY <1>2, <1>3, SumType
  <2>3. W \in Int
    BY <1>2, <1>3, SumType
  <2>4. V \in Int
    BY <1>2, <1>3, SumType
  <2>5. W > 0
    BY <1>1, <1>2, <1>3, PositiveSum
  <2>6. V > 0
    BY <1>2, <1>3, <1>5, PositiveSum
  <2> QED
    BY <2>1, <2>2, <2>3, <2>4, <2>5, <2>6
<1>9. F = f[x] + G /\ W = w[x] + V
  <2>1. PartOf(f, g, P, x)
    BY <1>1, <1>2, <1>3, <1>4 DEF PartOf
  <2>2. PartOf(w, v, P, x)
    BY <1>1, <1>2, <1>3, <1>4 DEF PartOf
  <2>3. SumFunction(f) = f[x] + SumFunction(g)
    BY <2>1, SumPart
  <2>4. SumFunction(w) = w[x] + SumFunction(v)
    BY <2>2, SumPart
  <2> QED
    BY <2>3, <2>4
<1>. HIDE DEF F, G, W, V
<1>10. (100 * F) \div W \in Int /\ (100 * G) \div V \in Int
  BY <1>8
<1>11. Directional(weights, k, {}).score = (100 * F) \div W
       /\ Directional(weights, j, {}).score = (100 * G) \div V
  BY <1>6, <1>7, <1>10, MinAlone
<1>. DEFINE score == (100 * F) \div W
            value == k[x]
            weight == weights[x]
<1>12. value \in Int /\ weight \in Nat \ {0} /\ score \in Int /\ 100 * value <= score
  BY <1>10, <1>11 DEF Amount
<1>13. F = value * weight + G /\ W = weight + V
  BY <1>4, <1>9
<1>. HIDE DEF value, weight
<1>14. score <= (100 * G) \div V
  BY <1>8, <1>12, <1>13, MeanWithout
<1> QED
  BY <1>11, <1>14

-----------------------------------------------------------------------------
(* What is not known of a candidate.                                        *)

\* What the features of a visitor look at.
OfferFields == {"category", "business", "taste", "aroma", "usage", "features", "services",
                "tasting", "purchase", "consultation", "event_price", "retail_price",
                "alcohol", "trust"}

\* A candidate and a profile as the services give them: the codes of a taste weigh
\* percentages, prices and trust are numbers or unknown, goals have a priority.
OfferShape(c) ==
  /\ OfferFields \subseteq DOMAIN c
  /\ Weighs(c.taste) /\ Weighs(c.aroma)
  /\ c.event_price \in Amount /\ c.retail_price \in Amount /\ c.trust \in Amount

SubjectShape(p) ==
  /\ Prioritised(p.goals) /\ p.price_max \in Amount /\ IsFiniteSet(DOMAIN p.inferred)
  /\ \A k \in DOMAIN p.inferred : p.inferred[k].score \in Int /\ p.inferred[k].confidence \in Nat

VisitorComponents(c, p) ==
  WithBehavior(VisitorFeatures(c, p), BehaviorScore(p.inferred, BehaviorCodes(c)))

\* The price asked is a number or unknown.
LEMMA AskingPriceType ==
  ASSUME NEW c, c.event_price \in Amount, c.retail_price \in Amount
  PROVE  AskingPrice(c) \in Amount
  BY DEF AskingPrice

\* Every component of a visitor's score is a number or unknown.
LEMMA VisitorComponentsType ==
  ASSUME NEW c, OfferShape(c), NEW p, SubjectShape(p)
  PROVE  /\ DOMAIN VisitorComponents(c, p) = DOMAIN ConsumerWeights
         /\ \A n \in DOMAIN ConsumerWeights : VisitorComponents(c, p)[n] \in Amount
         /\ VisitorComponents(c, p) = [n \in DOMAIN ConsumerWeights |-> VisitorComponents(c, p)[n]]
<1>. DEFINE k == VisitorFeatures(c, p)
<1>1. GoalMatch(p.goals, c.usage \cup c.features, ServicesOf(c)) \in Amount
  BY GoalMatchType DEF SubjectShape
<1>2. Weighs(CategoryCodes(c))
  BY DEF Weighs, CategoryCodes
<1>3. CodeMatch(p.categories, CategoryCodes(c)) \in Amount
  BY <1>2, CodeMatchType
<1>4. CodeMatch(p.taste, c.taste) \in Amount /\ CodeMatch(p.aroma, c.aroma) \in Amount
  BY CodeMatchType DEF OfferShape
<1>5. k.sensory \in Amount
  <2>. DEFINE a == CodeMatch(p.taste, c.taste)
              b == CodeMatch(p.aroma, c.aroma)
              v == 70
              w == 30
  <2>1. a \in Amount /\ b \in Amount /\ v \in Nat \ {0} /\ w \in Nat \ {0}
    BY <1>4
  <2>2. k.sensory = Combined(<<<<a, v>>, <<b, w>>>>)
    BY DEF VisitorFeatures
  <2>. HIDE DEF a, b, v, w, k
  <2>3. Combined(<<<<a, v>>, <<b, w>>>>) \in Amount
    BY <2>1, CombinedPairType
  <2> QED
    BY <2>2, <2>3
<1>6. PriceScore(AskingPrice(c), p.price_max) \in Amount
  <2>1. AskingPrice(c) \in Amount /\ p.price_max \in Amount
    BY AskingPriceType DEF OfferShape, SubjectShape
  <2> QED
    BY <2>1, PriceScoreType
<1>7. AlcoholMatch(p.alcohol, c.alcohol) \in Amount
  BY AlcoholMatchType
<1>8. ServiceMatch(p.services, ServicesOf(c)) \in Amount
  BY ServiceMatchType
<1>9. k.usage \in Amount
  <2>. DEFINE a == SetMatch(p.use_cases, c.usage)
              b == SetMatch(p.product_features, c.features)
              v == 60
              w == 40
  <2>1. a \in Amount /\ b \in Amount /\ v \in Nat \ {0} /\ w \in Nat \ {0}
    BY SetMatchType
  <2>2. k.usage = Combined(<<<<a, v>>, <<b, w>>>>)
    BY DEF VisitorFeatures
  <2>. HIDE DEF a, b, v, w, k
  <2>3. Combined(<<<<a, v>>, <<b, w>>>>) \in Amount
    BY <2>1, CombinedPairType
  <2> QED
    BY <2>2, <2>3
<1>10. c.trust \in Amount
  BY DEF OfferShape
<1>11. BehaviorScore(p.inferred, BehaviorCodes(c)) \in Amount
  BY BehaviorScoreType DEF SubjectShape
<1>12. DOMAIN k = {"goal", "category", "sensory", "price", "alcohol", "service", "usage", "trust"}
  BY DEF VisitorFeatures
<1>13. /\ k.goal \in Amount /\ k.category \in Amount /\ k.price \in Amount
       /\ k.alcohol \in Amount /\ k.service \in Amount /\ k.trust \in Amount
  BY <1>1, <1>3, <1>6, <1>7, <1>8, <1>10 DEF VisitorFeatures
<1>14. DOMAIN ConsumerWeights = DOMAIN k \cup {"behavior"}
  BY <1>12 DEF ConsumerWeights
<1>15. \A n \in DOMAIN k : k[n] \in Amount
  BY <1>5, <1>9, <1>12, <1>13
<1>. HIDE DEF k
<1>. DEFINE b == BehaviorScore(p.inferred, BehaviorCodes(c))
<1>16. VisitorComponents(c, p)
         = [n \in DOMAIN k \cup {"behavior"} |-> IF n = "behavior" THEN b ELSE k[n]]
  BY DEF VisitorComponents, WithBehavior, k
<1>. HIDE DEF b
<1> QED
  BY <1>11, <1>14, <1>15, <1>16 DEF b

\* The component that a field of the candidate decides.
PartOfField(f) == IF f = "retail_price" THEN "price" ELSE f

\* To forget one field changes at most the component that it decides, and that to
\* unknown.
LEMMA ForgettingOneField ==
  ASSUME NEW c, OfferShape(c), NEW p, NEW f \in {"retail_price", "alcohol", "trust"},
         NEW d, d = [c EXCEPT ![f] = None]
  PROVE  LET k == VisitorComponents(c, p)
             j == VisitorComponents(d, p)
         IN /\ \A n \in DOMAIN ConsumerWeights \ {PartOfField(f)} : j[n] = k[n]
            /\ j[PartOfField(f)] \in {k[PartOfField(f)], None}
<1>. DEFINE F == VisitorFeatures(c, p)
            G == VisitorFeatures(d, p)
            names == {"goal", "category", "sensory", "price", "alcohol", "service", "usage", "trust"}
<1>1. d[f] = None /\ \A g \in OfferFields \ {f} : d[g] = c[g]
  BY DEF OfferShape, OfferFields
<1>2. /\ d.category = c.category /\ d.business = c.business /\ d.taste = c.taste
      /\ d.aroma = c.aroma /\ d.usage = c.usage /\ d.features = c.features
      /\ d.services = c.services /\ d.tasting = c.tasting /\ d.purchase = c.purchase
      /\ d.consultation = c.consultation /\ d.event_price = c.event_price
  BY <1>1 DEF OfferFields
<1>3. /\ f # "retail_price" => d.retail_price = c.retail_price
      /\ f # "alcohol" => d.alcohol = c.alcohol
      /\ f # "trust" => d.trust = c.trust
  BY <1>1 DEF OfferFields
<1>4. CategoryCodes(d) = CategoryCodes(c) /\ ServicesOf(d) = ServicesOf(c)
      /\ BehaviorCodes(d) = BehaviorCodes(c)
  BY <1>2 DEF CategoryCodes, ServicesOf, BehaviorCodes
<1>5. /\ G.goal = F.goal /\ G.category = F.category /\ G.sensory = F.sensory
      /\ G.service = F.service /\ G.usage = F.usage
  <2>1. G.goal = F.goal
    BY <1>2, <1>4 DEF VisitorFeatures
  <2>2. G.category = F.category
    BY <1>4 DEF VisitorFeatures
  <2>3. G.sensory = F.sensory
    BY <1>2 DEF VisitorFeatures
  <2>4. G.service = F.service
    BY <1>4 DEF VisitorFeatures
  <2>5. G.usage = F.usage
    BY <1>2 DEF VisitorFeatures
  <2> QED
    BY <2>1, <2>2, <2>3, <2>4, <2>5
<1>0. /\ F.price = PriceScore(AskingPrice(c), p.price_max)
      /\ G.price = PriceScore(AskingPrice(d), p.price_max)
      /\ F.alcohol = AlcoholMatch(p.alcohol, c.alcohol) /\ G.alcohol = AlcoholMatch(p.alcohol, d.alcohol)
      /\ F.trust = c.trust /\ G.trust = d.trust
  BY DEF VisitorFeatures
<1>. HIDE DEF F, G
<1>3a. (f = "retail_price" => d.retail_price = None) /\ (f = "alcohol" => d.alcohol = None)
       /\ (f = "trust" => d.trust = None)
  BY <1>1
<1>6. G.price = F.price \/ (f = "retail_price" /\ G.price = None)
  <2>1. AskingPrice(d) = AskingPrice(c) \/ (f = "retail_price" /\ AskingPrice(d) = None)
    BY <1>2, <1>3, <1>3a DEF AskingPrice
  <2>2. PriceScore(None, p.price_max) = None
    BY DEF PriceScore
  <2> QED
    BY <1>0, <2>1, <2>2
<1>7. G.alcohol = F.alcohol \/ (f = "alcohol" /\ G.alcohol = None)
  <2>1. AlcoholMatch(p.alcohol, None) = None
    BY DEF AlcoholMatch
  <2>2. d.alcohol = c.alcohol \/ (f = "alcohol" /\ d.alcohol = None)
    BY <1>3, <1>3a
  <2> QED
    BY <1>0, <2>1, <2>2
<1>8. G.trust = F.trust \/ (f = "trust" /\ G.trust = None)
  BY <1>0, <1>3, <1>3a
<1>9. DOMAIN F = names /\ DOMAIN G = names
  BY DEF VisitorFeatures, F, G
<1>10. DOMAIN ConsumerWeights = names \cup {"behavior"}
  BY DEF ConsumerWeights
<1>11. ASSUME NEW n \in names PROVE G[n] = F[n] \/ (n = PartOfField(f) /\ G[n] = None)
  <2>1. CASE n = "price"
    BY <1>6, <2>1 DEF PartOfField
  <2>2. CASE n = "alcohol"
    BY <1>7, <2>2 DEF PartOfField
  <2>3. CASE n = "trust"
    BY <1>8, <2>3 DEF PartOfField
  <2>4. CASE n \in {"goal", "category", "sensory", "service", "usage"}
    BY <1>5, <2>4
  <2> QED
    BY <2>1, <2>2, <2>3, <2>4
<1>. DEFINE b == BehaviorScore(p.inferred, BehaviorCodes(c))
<1>12. /\ VisitorComponents(c, p)
            = [n \in names \cup {"behavior"} |-> IF n = "behavior" THEN b ELSE F[n]]
       /\ VisitorComponents(d, p)
            = [n \in names \cup {"behavior"} |-> IF n = "behavior" THEN b ELSE G[n]]
  BY <1>4, <1>9 DEF VisitorComponents, WithBehavior, F, G
<1>13. PartOfField(f) \in names
  BY DEF PartOfField
<1>. HIDE DEF b
<1>14. \A n \in names \cup {"behavior"} :
         VisitorComponents(d, p)[n] = VisitorComponents(c, p)[n]
           \/ (n = PartOfField(f) /\ VisitorComponents(d, p)[n] = None)
  <2>. HIDE DEF names
  <2> QED
    BY <1>11, <1>12
<1>. HIDE DEF names
<1> QED
  BY <1>10, <1>13, <1>14

-----------------------------------------------------------------------------
(* What is not known of a candidate never counts against it.                *)

StatedFields == {"master", "approval", "participation", "operating", "tasting", "purchase",
                 "inventory", "program", "retail_price", "wait", "consultation"}
CandidateFields == StatedFields \cup {"type", "codes", "event_price", "alcohol", "supply"}
SupplyFields == {"approval", "moq", "capacity", "oem", "private_label", "export",
                 "regions", "channels", "business_types"}

\* One field of a candidate, or of its supply, is replaced and the others stay.
Replaces(d, c, f, v, fields) == d[f] = v /\ \A g \in fields \ {f} : d[g] = c[g]

\* A record with one field replaced keeps its other fields.
LEMMA ExceptReplaces ==
  ASSUME NEW c, NEW fields, fields \subseteq DOMAIN c, NEW f \in fields, NEW v
  PROVE  Replaces([c EXCEPT ![f] = v], c, f, v, fields)
  BY DEF Replaces

\* A candidate of which one field is unknown has forgotten something of what the
\* hard filter looks at.
LEMMA StatedForgotten ==
  ASSUME NEW c, NEW d, NEW f \in StatedFields, Replaces(d, c, f, None, CandidateFields)
  PROVE  ForgetsStated(d, c)
<1>1. \A g \in StatedFields : d[g] \in {c[g], None}
  BY DEF Replaces, CandidateFields
<1>2. f \notin {"type", "codes", "event_price", "supply"}
  BY DEF StatedFields
<1>3. d.type = c.type /\ d.codes = c.codes /\ d.event_price = c.event_price /\ d.supply = c.supply
  BY <1>2 DEF Replaces, CandidateFields
<1>4. ForgetsSupply(c.supply, c.supply)
  BY DEF ForgetsSupply
<1> QED
  BY <1>1, <1>3, <1>4 DEF ForgetsStated, StatedFields

\* The same of what the evaluator observes.
LEMMA ObservedForgotten ==
  ASSUME NEW c, NEW d, NEW f \in {"alcohol", "master", "codes"},
         Replaces(d, c, f, IF f = "codes" THEN {} ELSE None, CandidateFields)
  PROVE  ForgetsObserved(d, c)
<1>1. \A g \in {"alcohol", "master", "approval"} : d[g] \in {c[g], None}
  BY DEF Replaces, CandidateFields, StatedFields
<1>2. d.codes \in {c.codes, {}}
  BY DEF Replaces, CandidateFields, StatedFields
<1>3. f \notin {"type", "participation", "supply"}
  OBVIOUS
<1>4. d.type = c.type /\ d.participation = c.participation /\ d.supply = c.supply
  BY <1>3 DEF Replaces, CandidateFields, StatedFields
<1>5. ForgetsSupply(c.supply, c.supply)
  BY DEF ForgetsSupply
<1> QED
  BY <1>1, <1>2, <1>4, <1>5 DEF ForgetsObserved

\* What reads as unknown of a field of the supply: an empty list or nothing.
Unknown(f) == IF f \in {"regions", "channels", "business_types"} THEN {} ELSE None

\* To forget a field of the supply conditions of a candidate.
LEMMA SupplyForgotten ==
  ASSUME NEW c, NEW d, c.supply # None, d.supply # None, NEW f \in SupplyFields,
         Replaces(d, c, "supply", d.supply, CandidateFields),
         Replaces(d.supply, c.supply, f, Unknown(f), SupplyFields)
  PROVE  ForgetsStated(d, c) /\ ForgetsObserved(d, c)
<1>1. /\ \A g \in SupplyFields \ {"regions", "channels", "business_types"} :
              d.supply[g] \in {c.supply[g], None}
      /\ \A g \in {"regions", "channels", "business_types"} : d.supply[g] \in {c.supply[g], {}}
  BY DEF Replaces, SupplyFields, Unknown
<1>2. ForgetsSupply(d.supply, c.supply) /\ \A g \in {"moq", "capacity"} : d.supply[g] \in {c.supply[g], None}
  BY <1>1 DEF ForgetsSupply, SupplyFields
<1>3. \A g \in CandidateFields \ {"supply"} : d[g] = c[g]
  BY DEF Replaces
<1>4. /\ d.type = c.type /\ d.codes = c.codes /\ d.event_price = c.event_price
      /\ d.master = c.master /\ d.approval = c.approval /\ d.participation = c.participation
      /\ d.operating = c.operating /\ d.tasting = c.tasting /\ d.purchase = c.purchase
      /\ d.inventory = c.inventory /\ d.program = c.program /\ d.retail_price = c.retail_price
      /\ d.wait = c.wait /\ d.consultation = c.consultation /\ d.alcohol = c.alcohol
  BY <1>3 DEF CandidateFields, StatedFields
<1>5. ForgetsStated(d, c)
  BY <1>2, <1>4 DEF ForgetsStated
<1>6. ForgetsObserved(d, c)
  BY <1>2, <1>4 DEF ForgetsObserved
<1> QED
  BY <1>5, <1>6

\* To replace a field of the supply conditions replaces nothing else.
LEMMA SupplyExcept ==
  ASSUME NEW c, CandidateFields \subseteq DOMAIN c, SupplyFields \subseteq DOMAIN c.supply,
         NEW f \in SupplyFields, NEW v, c.supply # None, [c.supply EXCEPT ![f] = v] # None
  PROVE  /\ Replaces([c EXCEPT !.supply[f] = v], c, "supply",
                     [c EXCEPT !.supply[f] = v].supply, CandidateFields)
         /\ Replaces([c EXCEPT !.supply[f] = v].supply, c.supply, f, v, SupplyFields)
         /\ [c EXCEPT !.supply[f] = v].supply # None
  BY DEF Replaces, CandidateFields

\* A comparison of a candidate and a profile as the services give it: a candidate
\* has all its fields, if only to say that nothing is known; a wait and the minutes
\* left are numbers or unknown; and supply conditions stay a record when something
\* of them is forgotten.
Comparison(t) ==
  /\ CandidateFields \subseteq DOMAIN t.candidate
  /\ t.candidate.wait \in Nat \cup {None}
  /\ t.context.remaining_minutes \in Int \cup {None}
  /\ t.candidate.supply # None =>
       /\ SupplyFields \subseteq DOMAIN t.candidate.supply
       /\ \A f \in SupplyFields : [t.candidate.supply EXCEPT ![f] = Unknown(f)] # None

\* What a profile requires and excludes is in the catalogue, and no service of a booth.
StatesVerifiable(p) ==
  {i.code : i \in p.items} \in SUBSET {k \in Concept : TypeOf[k] # "BOOTH_SERVICE"}

ComparesAndPresents(t) ==
  /\ t.kind = "filter" => Comparison(t) /\ StatesVerifiable(t.profile)
  /\ t.kind = "present" => OfferShape(t.offer) /\ SubjectShape(t.subject)

\* A thing not known never makes the hard filter reject an eligible candidate.
LEMMA NothingUnknownRejects ==
  ASSUME NEW t, Comparison(t), FilterCode(t.candidate, t.profile, t.context) = None
  PROVE  LET c == t.candidate IN
         /\ \A f \in StatedFields :
              FilterCode([c EXCEPT ![f] = None], t.profile, t.context) = None
         /\ c.supply # None =>
              \A f \in SupplyFields :
                FilterCode([c EXCEPT !.supply[f] = Unknown(f)], t.profile, t.context) = None
<1>. DEFINE c == t.candidate
            p == t.profile
            x == t.context
<1>1. /\ CandidateFields \subseteq DOMAIN c /\ c.wait \in Nat \cup {None}
      /\ x.remaining_minutes \in Int \cup {None} /\ FilterCode(c, p, x) = None
  BY DEF Comparison
<1>2. ASSUME c.supply # None
      PROVE  /\ SupplyFields \subseteq DOMAIN c.supply
             /\ \A f \in SupplyFields : [c.supply EXCEPT ![f] = Unknown(f)] # None
  BY <1>2 DEF Comparison
<1>. HIDE DEF c, p, x
<1>3. ASSUME NEW f \in StatedFields PROVE FilterCode([c EXCEPT ![f] = None], p, x) = None
  <2>. DEFINE d == [c EXCEPT ![f] = None]
  <2>1. f \in CandidateFields
    BY DEF CandidateFields
  <2>2. Replaces(d, c, f, None, CandidateFields)
    BY <1>1, <2>1, ExceptReplaces
  <2>. HIDE DEF d
  <2>3. ForgetsStated(d, c)
    BY <2>2, StatedForgotten
  <2>4. FilterCode(d, p, x) = None
    BY <1>1, <2>3, NotKnowingNeverRejects
  <2> QED
    BY <2>4 DEF d
<1>4. ASSUME c.supply # None, NEW f \in SupplyFields
      PROVE  FilterCode([c EXCEPT !.supply[f] = Unknown(f)], p, x) = None
  <2>. DEFINE v == Unknown(f)
              d == [c EXCEPT !.supply[f] = v]
  <2>1. SupplyFields \subseteq DOMAIN c.supply /\ [c.supply EXCEPT ![f] = v] # None
    BY <1>2, <1>4
  <2>. HIDE DEF v
  <2>2. /\ Replaces(d, c, "supply", d.supply, CandidateFields)
        /\ Replaces(d.supply, c.supply, f, v, SupplyFields) /\ d.supply # None
    BY <1>1, <1>4, <2>1, SupplyExcept
  <2>. HIDE DEF d
  <2>3. ForgetsStated(d, c)
    BY <1>4, <2>2, SupplyForgotten DEF v
  <2>4. FilterCode(d, p, x) = None
    BY <1>1, <2>3, NotKnowingNeverRejects
  <2> QED
    BY <2>4 DEF d, v
<1> QED
  BY <1>3, <1>4 DEF c, p, x

\* A thing not known never makes the evaluator admit a candidate it does not admit.
LEMMA NothingUnknownAdmits ==
  ASSUME NEW t, Comparison(t), StatesVerifiable(t.profile), ProfileIntent(t.profile) # None,
         ~ Admitted(t.candidate, Project(ProfileIntent(t.profile), Scope(t.profile)))
  PROVE  LET c    == t.candidate
             plan == Project(ProfileIntent(t.profile), Scope(t.profile))
         IN /\ \A f \in {"alcohol", "master", "codes"} :
                 ~ Admitted([c EXCEPT ![f] = IF f = "codes" THEN {} ELSE None], plan)
            /\ c.supply # None =>
                 \A f \in SupplyFields : ~ Admitted([c EXCEPT !.supply[f] = Unknown(f)], plan)
<1>. DEFINE c == t.candidate
            p == t.profile
            intent == ProfileIntent(p)
            scope == Scope(p)
            plan == Project(intent, scope)
<1>1. CandidateFields \subseteq DOMAIN c /\ ~ Admitted(c, plan)
  BY DEF Comparison
<1>2. ASSUME c.supply # None
      PROVE  /\ SupplyFields \subseteq DOMAIN c.supply
             /\ \A f \in SupplyFields : [c.supply EXCEPT ![f] = Unknown(f)] # None
  BY <1>2 DEF Comparison
<1>3. intent.must \cup intent.exclude \in SUBSET {k \in Concept : TypeOf[k] # "BOOTH_SERVICE"}
  <2>1. intent.must = CodesAt(p, "REQUIRED") /\ intent.exclude = CodesAt(p, "EXCLUDED")
    BY DEF ProfileIntent
  <2>2. CodesAt(p, "REQUIRED") \cup CodesAt(p, "EXCLUDED") \subseteq {i.code : i \in p.items}
    BY DEF CodesAt
  <2>. HIDE DEF intent, p
  <2> QED
    BY <2>1, <2>2 DEF StatesVerifiable, p
<1>. HIDE DEF c, p, intent, scope
<1>4. ASSUME NEW d, ForgetsObserved(d, c) PROVE ~ Admitted(d, plan)
  BY <1>1, <1>3, <1>4, NotKnowingNeverAdmits
<1>. HIDE DEF plan
<1>5. ASSUME NEW f \in {"alcohol", "master", "codes"}
      PROVE  ~ Admitted([c EXCEPT ![f] = IF f = "codes" THEN {} ELSE None], plan)
  <2>. DEFINE v == IF f = "codes" THEN {} ELSE None
              d == [c EXCEPT ![f] = v]
  <2>1. f \in CandidateFields
    BY DEF CandidateFields, StatedFields
  <2>. HIDE DEF v
  <2>2. Replaces(d, c, f, v, CandidateFields)
    BY <1>1, <2>1, ExceptReplaces
  <2>. HIDE DEF d
  <2>3. ForgetsObserved(d, c)
    BY <2>2, ObservedForgotten DEF v
  <2> QED
    BY <1>4, <2>3 DEF d, v
<1>6. ASSUME c.supply # None, NEW f \in SupplyFields
      PROVE  ~ Admitted([c EXCEPT !.supply[f] = Unknown(f)], plan)
  <2>. DEFINE v == Unknown(f)
              d == [c EXCEPT !.supply[f] = v]
  <2>1. SupplyFields \subseteq DOMAIN c.supply /\ [c.supply EXCEPT ![f] = v] # None
    BY <1>2, <1>6
  <2>. HIDE DEF v
  <2>2. /\ Replaces(d, c, "supply", d.supply, CandidateFields)
        /\ Replaces(d.supply, c.supply, f, v, SupplyFields) /\ d.supply # None
    BY <1>1, <1>6, <2>1, SupplyExcept
  <2>. HIDE DEF d
  <2>3. ForgetsObserved(d, c)
    BY <1>6, <2>2, SupplyForgotten DEF v
  <2> QED
    BY <1>4, <2>3 DEF d, v
<1> QED
  BY <1>5, <1>6 DEF c, p, intent, scope, plan

\* A candidate with a forgotten field is still one as the services give them.
LEMMA ForgottenOffer ==
  ASSUME NEW c, OfferShape(c), NEW f \in {"retail_price", "alcohol", "trust"},
         NEW d, d = [c EXCEPT ![f] = None]
  PROVE  OfferShape(d)
<1>1. /\ DOMAIN d = DOMAIN c /\ OfferFields \subseteq DOMAIN c
      /\ \A g \in OfferFields : d[g] = IF g = f THEN None ELSE c[g]
  BY DEF OfferShape
<1>2. d.taste = c.taste /\ d.aroma = c.aroma /\ d.event_price = c.event_price
      /\ d.retail_price \in {c.retail_price, None} /\ d.trust \in {c.trust, None}
  BY <1>1 DEF OfferFields
<1> QED
  BY <1>1, <1>2 DEF OfferShape, Amount

\* Every component of a visitor's score counts.
LEMMA WeightsPositive ==
  /\ IsFiniteSet(DOMAIN ConsumerWeights)
  /\ \A n \in DOMAIN ConsumerWeights : ConsumerWeights[n] \in Nat \ {0}
<1>. DEFINE D == DOMAIN ConsumerWeights
<1>1. D = {"goal", "category", "sensory", "price", "alcohol", "service", "usage", "behavior", "trust"}
  BY DEF ConsumerWeights
<1>2. IsFiniteSet(D)
  <2>1. ASSUME NEW a, NEW b, NEW e PROVE IsFiniteSet({a, b, e})
    <3>1. IsFiniteSet({} \cup {a})
      BY FS_EmptySet, FS_AddElement
    <3>2. IsFiniteSet(({} \cup {a}) \cup {b})
      BY <3>1, FS_AddElement
    <3>3. IsFiniteSet((({} \cup {a}) \cup {b}) \cup {e})
      BY <3>2, FS_AddElement
    <3>4. {a, b, e} = (({} \cup {a}) \cup {b}) \cup {e}
      OBVIOUS
    <3> QED
      BY <3>3, <3>4
  <2>. DEFINE A == {"goal", "category", "sensory"}
              B == {"price", "alcohol", "service"}
              C == {"usage", "behavior", "trust"}
  <2>2. IsFiniteSet(A) /\ IsFiniteSet(B) /\ IsFiniteSet(C)
    BY <2>1
  <2>3. D = (A \cup B) \cup C
    BY <1>1
  <2>. HIDE DEF A, B, C, D
  <2>4. IsFiniteSet(A \cup B)
    BY <2>2, FS_Union
  <2> QED
    BY <2>2, <2>3, <2>4, FS_Union
<1>3. \A n \in D : ConsumerWeights[n] \in Nat \ {0}
  BY DEF ConsumerWeights
<1> QED
  BY <1>2, <1>3

\* The score of a visitor's candidate is a number.
LEMMA VisitorScoreType ==
  ASSUME NEW c, OfferShape(c), NEW p, SubjectShape(p),
         Directional(ConsumerWeights, VisitorComponents(c, p), {}) # None
  PROVE  Directional(ConsumerWeights, VisitorComponents(c, p), {}).score \in Int
<1>. DEFINE k == VisitorComponents(c, p)
            D == DOMAIN ConsumerWeights
<1>1. DOMAIN k = D /\ \A n \in D : k[n] \in Amount
  BY VisitorComponentsType
<1>. HIDE DEF k
<1> QED
  BY <1>1, WeightsPositive, ScoreType DEF k

\* What is not known is not held against a candidate by the scores.
LEMMA NothingUnknownScores ==
  ASSUME NEW c, OfferShape(c), NEW p, SubjectShape(p),
         NEW f \in {"retail_price", "alcohol", "trust"},
         NEW k, k = VisitorComponents(c, p), k[PartOfField(f)] # None,
         100 * k[PartOfField(f)] <= Directional(ConsumerWeights, k, {}).score,
         NEW j, j = VisitorComponents([c EXCEPT ![f] = None], p),
         Directional(ConsumerWeights, j, {}) # None
  PROVE  Directional(ConsumerWeights, k, {}).score <= Directional(ConsumerWeights, j, {}).score
<1>. DEFINE D == DOMAIN ConsumerWeights
            x == PartOfField(f)
            d == [c EXCEPT ![f] = None]
<1>1. DOMAIN k = D /\ (\A n \in D : k[n] \in Amount) /\ k = [n \in D |-> k[n]]
  BY VisitorComponentsType
<1>2. (\A n \in D \ {x} : j[n] = k[n]) /\ j[x] \in {k[x], None}
  <2>1. LET h == VisitorComponents(c, p)
            i == VisitorComponents(d, p)
        IN /\ \A n \in D \ {x} : i[n] = h[n]
           /\ i[x] \in {h[x], None}
    BY ForgettingOneField
  <2>. HIDE DEF D, x
  <2> QED
    BY <2>1
<1>3. OfferShape(d)
  BY ForgottenOffer
<1>4. DOMAIN j = D /\ j = [n \in D |-> j[n]]
  <2>. HIDE DEF d
  <2>1. j = VisitorComponents(d, p)
    BY DEF d
  <2> QED
    BY <1>3, <2>1, VisitorComponentsType
<1>5. x \in D /\ IsFiniteSet(D) /\ \A n \in D : ConsumerWeights[n] \in Nat \ {0}
  <2>1. x \in D
    BY DEF ConsumerWeights, PartOfField
  <2> QED
    BY <2>1, WeightsPositive
<1>6. CASE j[x] = None
  <2>. HIDE DEF D, x
  <2> QED
    BY <1>1, <1>2, <1>4, <1>5, <1>6, ForgettingKeepsScore DEF x
<1>7. CASE j[x] = k[x]
  <2>1. j = k
    <3>. HIDE DEF D, x
    <3> QED
      BY <1>1, <1>2, <1>4, <1>7
  <2>2. Directional(ConsumerWeights, j, {}).score \in Int
    BY <1>1, <1>4, <1>5, <2>1, ScoreType
  <2> QED
    BY <2>1, <2>2
<1> QED
  BY <1>2, <1>6, <1>7

\* Whatever the catalogue, the candidates, the profiles and the contexts: a thing not
\* known of a candidate never makes the hard filter reject it nor the evaluator admit
\* it, and never lowers the score of a visitor's candidate when it counted for no
\* more than that score (MissingDataNeutral).
THEOREM MissingNeverCounts ==
  ASSUME NEW CONSTANT cases, \A t \in cases : ComparesAndPresents(t)
  PROVE  Stages(cases) => []MissingDataNeutral
<1>1. Computed(cases) => UnknownNeverRejects
  <2>. SUFFICES ASSUME Computed(cases), task.kind = "filter", result # None, result.code = None
                PROVE  LET c == task.candidate IN
                       /\ \A f \in StatedFields :
                            FilterCode([c EXCEPT ![f] = None], task.profile, task.context) = None
                       /\ c.supply # None =>
                            \A f \in SupplyFields :
                              FilterCode([c EXCEPT !.supply[f] = Unknown(f)],
                                         task.profile, task.context) = None
    BY DEF UnknownNeverRejects, StatedFields, SupplyFields, Unknown
  <2>1. Comparison(task) /\ FilterCode(task.candidate, task.profile, task.context) = None
    BY DEF Computed, ComparesAndPresents
  <2> QED
    BY <2>1, NothingUnknownRejects
<1>2. Computed(cases) => ForgettingNeverAdmits
  <2>. SUFFICES ASSUME Computed(cases), task.kind = "filter", result # None,
                       ProfileIntent(task.profile) # None,
                       ~ Admitted(task.candidate,
                            Project(ProfileIntent(task.profile), Scope(task.profile)))
                PROVE  LET c    == task.candidate
                           plan == Project(ProfileIntent(task.profile), Scope(task.profile))
                       IN /\ \A f \in {"alcohol", "master", "codes"} :
                               ~ Admitted([c EXCEPT ![f] = IF f = "codes" THEN {} ELSE None], plan)
                          /\ c.supply # None =>
                               \A f \in SupplyFields :
                                 ~ Admitted([c EXCEPT !.supply[f] = Unknown(f)], plan)
    BY DEF ForgettingNeverAdmits, SupplyFields, Unknown
  <2>1. Comparison(task) /\ StatesVerifiable(task.profile)
    BY DEF Computed, ComparesAndPresents
  <2> QED
    BY <2>1, NothingUnknownAdmits
<1>3. Computed(cases) => SilenceNotPunished
  <2>. SUFFICES ASSUME Computed(cases), task.kind = "present", result # None, result.shown # None,
                       task.subject.user_type = "GENERAL_VISITOR",
                       NEW f \in {"retail_price", "alcohol", "trust"},
                       result.shown.scored.components[PartOfField(f)] # None,
                       100 * OrZero(result.shown.scored.components[PartOfField(f)])
                         <= result.shown.scored.score,
                       ScoreCandidate([task.offer EXCEPT ![f] = None], task.subject) # None
                PROVE  ScoreCandidate([task.offer EXCEPT ![f] = None], task.subject).score + 1
                         >= result.shown.scored.score
    BY DEF SilenceNotPunished, Shown, PartOfField
  <2>. DEFINE c == task.offer
              p == task.subject
              d == [c EXCEPT ![f] = None]
              k == VisitorComponents(c, p)
              j == VisitorComponents(d, p)
              scored == result.shown.scored
  <2>1. OfferShape(c) /\ SubjectShape(p)
    BY DEF Computed, ComparesAndPresents
  <2>2. result.shown = Presented(c, p, task.situation, task.open, task.vector)
    BY DEF Computed
  <2>3. p.user_type = "GENERAL_VISITOR"
    OBVIOUS
  <2>. HIDE DEF d
  <2>4. scored = ScoreVisitor(c, p) /\ ScoreVisitor(c, p) # None
    BY <2>2, <2>3 DEF Presented, ScoreCandidate
  <2>5. /\ Directional(ConsumerWeights, k, {}) # None
        /\ scored.score = Directional(ConsumerWeights, k, {}).score /\ scored.components = k
    BY <2>4 DEF ScoreVisitor, VisitorComponents
  <2>6. ScoreCandidate(d, p) = ScoreVisitor(d, p) /\ ScoreVisitor(d, p) # None
    BY <2>3 DEF ScoreCandidate, d
  <2>7. /\ Directional(ConsumerWeights, j, {}) # None
        /\ ScoreCandidate(d, p).score = Directional(ConsumerWeights, j, {}).score
    BY <2>6 DEF ScoreVisitor, VisitorComponents
  <2>8. k[PartOfField(f)] # None
        /\ 100 * k[PartOfField(f)] <= Directional(ConsumerWeights, k, {}).score
    BY <2>5 DEF OrZero
  <2>9. Directional(ConsumerWeights, k, {}).score <= Directional(ConsumerWeights, j, {}).score
    BY <2>1, <2>7, <2>8, NothingUnknownScores DEF d
  <2>10. /\ Directional(ConsumerWeights, k, {}).score \in Int
         /\ Directional(ConsumerWeights, j, {}).score \in Int
    BY <2>1, <2>5, <2>7, VisitorScoreType, ForgottenOffer DEF d
  <2> QED
    BY <2>5, <2>7, <2>9, <2>10 DEF d
<1>4. Computed(cases) => MissingDataNeutral
  BY <1>1, <1>2, <1>3 DEF MissingDataNeutral
<1> QED
  BY <1>4, StagesCompute, PTL

-----------------------------------------------------------------------------
(* The reasons shown.                                                       *)

\* A claim, and claims of different things.
IsClaim(r) == r.code \in DOMAIN RankOf /\ r.rank = RankOf[r.code] /\ r.contribution \in Amount

Claims(R) ==
  /\ IsFiniteSet(R) /\ \A r \in R : IsClaim(r)
  /\ \A r, s \in R : r.code = s.code => r = s

\* Every code has a rank of its own.
LEMMA RanksDiffer ==
  /\ \A a \in DOMAIN RankOf : RankOf[a] \in Int
  /\ \A a, b \in DOMAIN RankOf : RankOf[a] = RankOf[b] => a = b
<1>1. \A a \in DOMAIN RankOf : RankOf[a] \in Int
  BY DEF RankOf
<1>2. ASSUME NEW a \in DOMAIN RankOf, NEW b \in DOMAIN RankOf, RankOf[a] = RankOf[b]
      PROVE  a = b
  BY <1>2, SMTT(30) DEF RankOf
<1> QED
  BY <1>1, <1>2

\* The best of some claims are three of them, or all when there are fewer, and
\* different ones.
LEMMA BestOfClaims ==
  ASSUME NEW R, Claims(R)
  PROVE  /\ DOMAIN BestThree(R) = 1..Len(BestThree(R))
         /\ Len(BestThree(R)) \in 0..3 /\ (R # {} => Len(BestThree(R)) # 0)
         /\ \A i \in DOMAIN BestThree(R) : BestThree(R)[i] \in R
         /\ \A i, j \in DOMAIN BestThree(R) : BestThree(R)[i] = BestThree(R)[j] => i = j
<1>. DEFINE m == Cardinality(R)
            weight(r) == OrZero(r.contribution)
            before(r, s) == weight(r) > weight(s) \/ (weight(r) = weight(s) /\ r.rank < s.rank)
            below == [s \in R |-> {r \in R : before(r, s)}]
            order == Arranged(R, LAMBDA r, s : before(r, s))
            three == 3
            n == Min({three, Len(order)})
<1>1. m \in Nat /\ IsFiniteSet(R)
  BY FS_CardinalityType DEF Claims
<1>2. \A r \in R : weight(r) \in Int /\ r.rank \in Int
  BY RanksDiffer DEF Claims, IsClaim, OrZero, Amount
<1>3. \A r, s \in R : r.rank = s.rank => r = s
  BY RanksDiffer DEF Claims, IsClaim
<1>4. Orders(R, below)
  <2>1. \A r, s \in R : r \in below[s] <=> before(r, s)
    OBVIOUS
  <2>2. below \in [R -> SUBSET R]
    OBVIOUS
  <2>. HIDE DEF below, weight
  <2>3. \A r \in R : r \notin below[r]
    BY <1>2, <2>1
  <2>4. \A r, s \in R : r # s => r \in below[s] \/ s \in below[r]
    BY <1>2, <1>3, <2>1
  <2>5. ASSUME NEW r \in R, NEW s \in R, r \in below[s], NEW t \in below[r]
        PROVE  t \in below[s]
    <3>1. t \in R
      BY <2>2
    <3>2. before(t, r) /\ before(r, s)
      BY <2>1, <2>5, <3>1
    <3>3. before(t, s)
      <4>. DEFINE a == weight(t)
                  b == weight(r)
                  c == weight(s)
      <4>1. a \in Int /\ b \in Int /\ c \in Int /\ t.rank \in Int /\ r.rank \in Int /\ s.rank \in Int
        BY <1>2, <3>1
      <4>2. (a > b \/ (a = b /\ t.rank < r.rank)) /\ (b > c \/ (b = c /\ r.rank < s.rank))
        BY <3>2
      <4>. HIDE DEF a, b, c
      <4>3. a > c \/ (a = c /\ t.rank < s.rank)
        BY <4>1, <4>2
      <4> QED
        BY <4>3 DEF a, c
    <3> QED
      BY <2>1, <3>1, <3>3
  <2> QED
    BY <2>2, <2>3, <2>4, <2>5 DEF Orders
<1>5. BestThree(R) = SubSeq(order, 1, n)
  BY DEF BestThree
<1>6. order = [k \in 1..m |-> CHOOSE x \in R : Cardinality({y \in R : before(y, x)}) = k - 1]
  BY DEF Arranged
<1>7. \A x \in R : below[x] = {y \in R : before(y, x)}
  OBVIOUS
<1>. HIDE DEF below, order, before
<1>8. ASSUME NEW k \in 1..m, \E x \in R : Cardinality(below[x]) = k - 1
      PROVE  order[k] \in R /\ Cardinality(below[order[k]]) = k - 1
  <2>. DEFINE e == CHOOSE x \in R : Cardinality({y \in R : before(y, x)}) = k - 1
  <2>1. \E x \in R : Cardinality({y \in R : before(y, x)}) = k - 1
    BY <1>7, <1>8
  <2>2. e \in R /\ Cardinality({y \in R : before(y, e)}) = k - 1
    BY <2>1
  <2>3. order[k] = e
    BY <1>6
  <2>. HIDE DEF e
  <2> QED
    BY <1>7, <2>2, <2>3
<1>9. order = [k \in 1..m |-> order[k]]
  <2>. DEFINE e(k) == CHOOSE x \in R : Cardinality({y \in R : before(y, x)}) = k - 1
  <2>1. order = [k \in 1..m |-> e(k)]
    BY <1>6
  <2>. HIDE DEF e
  <2> QED
    BY <2>1
<1>10. Lists(order, R, below)
  BY <1>1, <1>4, <1>8, <1>9, Listing
<1>11. /\ order \in Seq(R) /\ Len(order) = m /\ DOMAIN order = 1..m
       /\ \A i, j \in DOMAIN order : order[i] = order[j] => i = j
  BY <1>1, <1>4, <1>10, ListedOnce
<1>18. \A k \in 1..m : order[k] \in R
  BY <1>10 DEF Lists
<1>12. n = (IF three <= m THEN three ELSE m) /\ three = 3
  <2>1. three \in Int /\ m \in Int
    BY <1>1
  <2>2. Min({three, m}) = IF three <= m THEN three ELSE m
    <3>. HIDE DEF three, m
    <3> QED
      BY <2>1, BetterOfTwo
  <2> QED
    BY <1>11, <2>2
<1>13. R # {} => m # 0
  BY <1>1, FS_EmptySet
<1>. HIDE DEF n, m
<1>14. n \in 0..3 /\ n <= m /\ (R # {} => n # 0)
  BY <1>1, <1>12, <1>13
<1>. DEFINE b == SubSeq(order, 1, n)
<1>15. b = [i \in 1..n |-> order[i]] /\ Len(b) = n /\ DOMAIN b = 1..n
  <2>1. Len(order) = m /\ m \in Nat /\ n \in Nat
    BY <1>1, <1>11, <1>14
  <2> QED
    BY <1>11, <1>14, <2>1
<1>16. \A i \in 1..n : b[i] \in R
  <2>1. \A i \in 1..n : i \in 1..m
    BY <1>1, <1>14
  <2> QED
    BY <1>15, <1>18, <2>1
<1>17. \A i, j \in 1..n : b[i] = b[j] => i = j
  <2>1. \A i \in 1..n : i \in 1..m
    BY <1>1, <1>14
  <2> QED
    BY <1>11, <1>15, <2>1
<1>. HIDE DEF b
<1> QED
  BY <1>5, <1>14, <1>15, <1>16, <1>17 DEF b

\* What a score is made of: numbers, one for each component that is known.
LEMMA DirectionalType ==
  ASSUME NEW D, IsFiniteSet(D), NEW weights, \A n \in D : weights[n] \in Nat \ {0},
         NEW k, DOMAIN k = D, \A n \in D : k[n] \in Amount,
         NEW caps, IsFiniteSet(caps), caps \subseteq Int, Directional(weights, k, caps) # None
  PROVE  /\ Directional(weights, k, caps).score \in Int
         /\ DOMAIN Directional(weights, k, caps).contributions \subseteq D
         /\ \A n \in DOMAIN Directional(weights, k, caps).contributions :
              Directional(weights, k, caps).contributions[n] \in Int
<1>. DEFINE P == PresentIn(k)
            f == [n \in P |-> k[n] * weights[n]]
            w == [n \in P |-> weights[n]]
            F == SumFunction(f)
            W == SumFunction(w)
            score == (100 * F) \div W
            contribution == [n \in P |-> (100 * k[n] * weights[n]) \div W]
            d == Directional(weights, k, caps)
<1>1. P \subseteq D /\ P # {}
  BY DEF PresentIn, Directional
<1>2. IsFiniteSet(P)
  BY <1>1, FS_Subset
<1>3. f \in [P -> Int] /\ w \in [P -> Int] /\ w \in [P -> Nat \ {0}]
  BY <1>1 DEF Amount, PresentIn
<1>4. d.score = Min({score} \cup caps) /\ d.contributions = contribution
  BY <1>1 DEF Directional
<1>5. \A n \in P : k[n] \in Int /\ weights[n] \in Int
  BY <1>1 DEF Amount, PresentIn
<1>. HIDE DEF P, f, w
<1>6. F \in Int /\ W \in Int
  BY <1>2, <1>3, SumType
<1>7. W > 0
  BY <1>1, <1>2, <1>3, PositiveSum
<1>. HIDE DEF F, W
<1>8. score \in Int
  BY <1>6, <1>7
<1>9. \A n \in P : (100 * k[n] * weights[n]) \div W \in Int
  <2>. SUFFICES ASSUME NEW n \in P PROVE (100 * k[n] * weights[n]) \div W \in Int
    OBVIOUS
  <2>. DEFINE a == 100 * k[n] * weights[n]
  <2>1. a \in Int
    BY <1>5
  <2>. HIDE DEF a
  <2>2. a \div W \in Int
    BY <1>6, <1>7, <2>1
  <2> QED
    BY <2>2 DEF a
<1>. HIDE DEF score, d
<1>10. Min({score} \cup caps) \in Int
  <2>. DEFINE S == {score} \cup caps
  <2>1. IsFiniteSet(S)
    <3>1. S = caps \cup {score}
      OBVIOUS
    <3> QED
      BY <3>1, FS_AddElement
  <2>2. S # {} /\ S \subseteq Int
    BY <1>8
  <2>. HIDE DEF S
  <2>3. Min(S) \in Int
    BY <2>1, <2>2, Extremes
  <2> QED
    BY <2>3 DEF S
<1> QED
  BY <1>1, <1>4, <1>9, <1>10 DEF d

\* At most five things are finitely many.
LEMMA FiveFinite ==
  ASSUME NEW a, NEW b, NEW c, NEW d, NEW e
  PROVE  IsFiniteSet({a, b, c, d, e})
<1>1. IsFiniteSet({} \cup {a})
  BY FS_EmptySet, FS_AddElement
<1>2. IsFiniteSet(({} \cup {a}) \cup {b})
  BY <1>1, FS_AddElement
<1>3. IsFiniteSet((({} \cup {a}) \cup {b}) \cup {c})
  BY <1>2, FS_AddElement
<1>4. IsFiniteSet(((({} \cup {a}) \cup {b}) \cup {c}) \cup {d})
  BY <1>3, FS_AddElement
<1>5. IsFiniteSet((((({} \cup {a}) \cup {b}) \cup {c}) \cup {d}) \cup {e})
  BY <1>4, FS_AddElement
<1>6. (((({} \cup {a}) \cup {b}) \cup {c}) \cup {d}) \cup {e} = {a, b, c, d, e}
  OBVIOUS
<1> QED
  BY <1>5, <1>6

\* The components of a buyer's score, of an exhibitor's and of the context count.
LEMMA DirectionsPositive ==
  /\ IsFiniteSet(DOMAIN BuyerWeights)
  /\ \A n \in DOMAIN BuyerWeights : BuyerWeights[n] \in Nat \ {0}
  /\ IsFiniteSet(DOMAIN ExhibitorWeights)
  /\ \A n \in DOMAIN ExhibitorWeights : ExhibitorWeights[n] \in Nat \ {0}
  /\ IsFiniteSet(DOMAIN ContextWeights)
  /\ \A n \in DOMAIN ContextWeights : ContextWeights[n] \in Nat \ {0}
<1>1. IsFiniteSet(DOMAIN BuyerWeights)
  <2>. DEFINE A == {"business_goal", "product", "channel", "price", "moq"}
              B == {"capacity", "region", "cooperation", "meeting", "trust"}
  <2>1. IsFiniteSet(A) /\ IsFiniteSet(B)
    BY FiveFinite
  <2>2. DOMAIN BuyerWeights = A \cup B
    BY DEF BuyerWeights
  <2>. HIDE DEF A, B
  <2> QED
    BY <2>1, <2>2, FS_Union
<1>2. IsFiniteSet(DOMAIN ExhibitorWeights)
  <2>. DEFINE A == {"buyer_type", "channel", "order_volume", "region", "trade_type"}
              B == {"portfolio", "decision_timing", "verification", "meeting_readiness", "portfolio"}
  <2>1. IsFiniteSet(A) /\ IsFiniteSet(B)
    BY FiveFinite
  <2>2. DOMAIN ExhibitorWeights = A \cup B
    BY DEF ExhibitorWeights
  <2>. HIDE DEF A, B
  <2> QED
    BY <2>1, <2>2, FS_Union
<1>3. IsFiniteSet(DOMAIN ContextWeights)
  <2>. DEFINE A == {"proximity", "time", "wait", "operation", "meeting"}
              B == {"schedule", "inventory", "recent", "schedule", "schedule"}
  <2>1. IsFiniteSet(A) /\ IsFiniteSet(B)
    BY FiveFinite
  <2>2. DOMAIN ContextWeights = A \cup B
    BY DEF ContextWeights
  <2>. HIDE DEF A, B
  <2> QED
    BY <2>1, <2>2, FS_Union
<1>4. /\ \A n \in DOMAIN BuyerWeights : BuyerWeights[n] \in Nat \ {0}
      /\ \A n \in DOMAIN ExhibitorWeights : ExhibitorWeights[n] \in Nat \ {0}
      /\ \A n \in DOMAIN ContextWeights : ContextWeights[n] \in Nat \ {0}
  BY DEF BuyerWeights, ExhibitorWeights, ContextWeights
<1> QED
  BY <1>1, <1>2, <1>3, <1>4

\* A candidate and a buyer as the services give them: statuses are those there are,
\* units, capacities and orders are numbers or unknown.
TradeShape(c) ==
  /\ c.oem \in DOMAIN StatusScore /\ c.export \in DOMAIN StatusScore
  /\ c.moq \in Count /\ c.capacity \in Count /\ c.readiness \in Amount

RequestShape(p) ==
  /\ p.units_min \in Count /\ p.units_max \in Count
  /\ p.verification \in Amount /\ p.meeting_readiness \in Amount

\* What both state of themselves is not negative.
Positive(c, p) ==
  /\ c.readiness \in Count /\ c.trust \in Count
  /\ p.verification \in Count /\ p.meeting_readiness \in Count /\ p.completeness \in Nat

\* What a candidate can deliver of what is asked is a number or unknown.
LEMMA DeliveryType ==
  ASSUME NEW moq \in Count, NEW available \in Count, NEW units \in Count
  PROVE  /\ MoqMatch(moq, units) \in Amount /\ CapacityMatch(available, units) \in Amount
         /\ MoqMatch(moq, units) \in Count /\ CapacityMatch(available, units) \in Count
<1>1. MoqMatch(moq, units) \in Count
  <2>1. CASE moq = None \/ units = None
    BY <2>1 DEF MoqMatch, Count
  <2>2. CASE moq # None /\ units # None
    <3>. DEFINE a == 100 * units
    <3>1. moq \in Nat /\ units \in Nat /\ a \in Nat
      BY <2>2 DEF Count
    <3>2. MoqMatch(moq, units) = IF moq <= units THEN 100 ELSE a \div moq
      BY <2>2 DEF MoqMatch
    <3>. HIDE DEF a
    <3>3. ~(moq <= units) => moq > 0
      BY <3>1
    <3>4. ~(moq <= units) => a \div moq \in Nat
      BY <3>1, <3>3
    <3> QED
      BY <3>2, <3>4 DEF Count
  <2> QED
    BY <2>1, <2>2
<1>2. CapacityMatch(available, units) \in Count
  <2>1. CASE available = None \/ units = None
    BY <2>1 DEF CapacityMatch, Count
  <2>2. CASE available # None /\ units # None
    <3>1. available \in Nat /\ units \in Nat
      BY <2>2 DEF Count
    <3>2. CapacityMatch(available, units) \in {None, 100, 90, 60, 30, 0}
      BY <2>2, <3>1 DEF CapacityMatch
    <3> QED
      BY <3>2 DEF Count
  <2> QED
    BY <2>1, <2>2
<1> QED
  BY <1>1, <1>2 DEF Amount, Count

\* So is the match of the goals of a buyer.
LEMMA BusinessGoalMatchType ==
  ASSUME NEW goals, Prioritised(goals), NEW c, TradeShape(c)
  PROVE  BusinessGoalMatch(goals, c) \in Amount /\ BusinessGoalMatch(goals, c) \in Count
<1>. DEFINE m == Len(goals)
            status(i) == StatusScore[c[GoalStatus[goals[i].code]]]
            S == {i \in DOMAIN goals : goals[i].code \in DOMAIN GoalStatus /\ status(i) # None}
            items == [i \in S |-> [priority |-> goals[i].priority, value |-> status(i)]]
            weights == <<<<100>>, <<70, 30>>, <<60, 30, 10>>>>
<1>1. m \in Nat /\ DOMAIN goals = 1..m /\ \A i \in 1..m : goals[i].priority \in Int
  <2>1. PICK G : goals \in Seq([code : G, priority : Int])
    BY DEF Prioritised
  <2>. DEFINE X == [code : G, priority : Int]
  <2>2. goals \in Seq(X)
    BY <2>1
  <2>3. \A x \in X : x.priority \in Int
    OBVIOUS
  <2>. HIDE DEF X
  <2>4. m \in Nat /\ DOMAIN goals = 1..m /\ \A i \in 1..m : goals[i] \in X
    BY <2>2
  <2> QED
    BY <2>3, <2>4
<1>2. \A s \in DOMAIN StatusScore : StatusScore[s] \in Count
  BY DEF StatusScore, Count
<1>3. \A i \in S : c[GoalStatus[goals[i].code]] \in DOMAIN StatusScore
  BY DEF GoalStatus, TradeShape
<1>4. \A i \in S : status(i) \in Nat
  BY <1>2, <1>3 DEF Count
<1>5. S \subseteq Int /\ IsFiniteSet(S)
  <2>1. S \subseteq 1..m
    BY <1>1
  <2>2. IsFiniteSet(1..m)
    BY <1>1, FirstNumbers
  <2>3. 1..m \subseteq Int
    BY <1>1
  <2>. HIDE DEF m, S
  <2>4. IsFiniteSet(S)
    BY <2>1, <2>2, FS_Subset
  <2> QED
    BY <2>1, <2>3, <2>4
<1>6. \A i \in S : goals[i].priority \in Int
  BY <1>1
<1>7. BusinessGoalMatch(goals, c) = ByPriority(items, weights)
  BY DEF BusinessGoalMatch
<1>. HIDE DEF status, S, m
<1>8. DOMAIN items = S /\ \A i \in S : items[i].priority \in Int /\ items[i].value \in Nat
  BY <1>4, <1>6
<1>9. \A n \in 1..3 : \A k \in 1..n : weights[n][k] \in Nat
  <2>1. \A n \in 1..3 : n = 1 \/ n = 2 \/ n = 3
    OBVIOUS
  <2>2. \A k \in 1..1 : weights[1][k] \in Nat
    OBVIOUS
  <2>3. \A k \in 1..2 : weights[2][k] \in Nat
    OBVIOUS
  <2>4. \A k \in 1..3 : weights[3][k] \in Nat
    OBVIOUS
  <2>. HIDE DEF weights
  <2> QED
    BY <2>1, <2>2, <2>3, <2>4
<1>. HIDE DEF items, weights
<1>10. /\ \A i \in S : items[i].priority \in Int /\ items[i].value \in Int
       /\ \A n \in 1..3 : \A k \in 1..n : weights[n][k] \in Int
       /\ \A i \in S : items[i].value \in Nat
  BY <1>8, <1>9
<1>11. /\ ByPriority(items, weights) \in Amount
       /\ (/\ \A i \in S : items[i].value \in Nat
           /\ \A n \in 1..3 : \A k \in 1..n : weights[n][k] \in Nat)
            => ByPriority(items, weights) \in Count
  BY <1>5, <1>8, <1>10, ByPriorityType
<1> QED
  BY <1>7, <1>9, <1>10, <1>11

\* Every component of a score between a buyer and an exhibitor is a number or
\* unknown.
LEMMA BuyerComponentsType ==
  ASSUME NEW c, OfferShape(c), TradeShape(c), NEW p, SubjectShape(p), RequestShape(p)
  PROVE  LET f == BuyerFeatures(c, p) IN
         /\ DOMAIN f.buyer = DOMAIN BuyerWeights
         /\ \A n \in DOMAIN BuyerWeights : f.buyer[n] \in Amount
         /\ DOMAIN f.exhibitor = DOMAIN ExhibitorWeights
         /\ \A n \in DOMAIN ExhibitorWeights : f.exhibitor[n] \in Amount
         /\ Positive(c, p) =>
              /\ \A n \in DOMAIN BuyerWeights : f.buyer[n] \in Count
              /\ \A n \in DOMAIN ExhibitorWeights : f.exhibitor[n] \in Count
              /\ f.acceptance \in Count
<1>. DEFINE f == BuyerFeatures(c, p)
            raw == PreferredBuyers(c.preferred)
            units == BuyerUnits(p)
<1>1. None \in Amount /\ None \in Count
  BY DEF Amount, Count
<1>2. BusinessGoalMatch(p.goals, c) \in Amount /\ BusinessGoalMatch(p.goals, c) \in Count
  BY BusinessGoalMatchType DEF SubjectShape
<1>3. CodeMatch(p.categories, CategoryCodes(c)) \in Amount
      /\ CodeMatch(p.categories, CategoryCodes(c)) \in Count
  <2>1. Weighs(CategoryCodes(c))
    BY DEF Weighs, CategoryCodes
  <2> QED
    BY <2>1, CodeMatchType
<1>4. SetMatch(p.channels, c.channels) \in Amount /\ SetMatch(p.regions, c.regions) \in Amount
      /\ SetMatch(p.channels, c.channels) \in Count /\ SetMatch(p.regions, c.regions) \in Count
  BY SetMatchType
<1>5. PriceScore(AskingPrice(c), p.price_max) \in Amount
      /\ PriceScore(AskingPrice(c), p.price_max) \in Count
  <2>1. AskingPrice(c) \in Amount /\ p.price_max \in Amount
    BY AskingPriceType DEF OfferShape, SubjectShape
  <2> QED
    BY <2>1, PriceScoreType
<1>6. units \in Count
  BY DEF BuyerUnits, RequestShape, Count
<1>7. MoqMatch(c.moq, units) \in Amount /\ CapacityMatch(c.capacity, units) \in Amount
      /\ MoqMatch(c.moq, units) \in Count /\ CapacityMatch(c.capacity, units) \in Count
  <2>. HIDE DEF units
  <2> QED
    BY <1>6, DeliveryType DEF TradeShape
<1>8. MeetingMatch(c) \in Amount /\ MeetingMatch(c) \in Count
  BY DEF MeetingMatch, Amount, Count
<1>9. Combined(<<<<c.readiness, 60>>, <<c.trust, 40>>>>) \in Amount
      /\ (Positive(c, p) => Combined(<<<<c.readiness, 60>>, <<c.trust, 40>>>>) \in Count)
  <2>. DEFINE v == 60
              w == 40
  <2>1. v \in Nat \ {0} /\ w \in Nat \ {0} /\ c.readiness \in Amount /\ c.trust \in Amount
    BY DEF OfferShape, TradeShape
  <2>. HIDE DEF v, w
  <2>2. /\ Combined(<<<<c.readiness, v>>, <<c.trust, w>>>>) \in Amount
        /\ c.readiness \in Count /\ c.trust \in Count
             => Combined(<<<<c.readiness, v>>, <<c.trust, w>>>>) \in Count
    BY <2>1, CombinedPairType
  <2> QED
    BY <2>2 DEF v, w, Positive
<1>10. \A key : ~Declares(raw, key)
  BY DEF Declares, PreferredBuyers
<1>11. \A wanted, key : CodeMatch(wanted, PreferenceItems(raw, key)) = None
  <2>1. \A key : PreferenceItems(raw, key) = << >>
    BY <1>10 DEF PreferenceItems
  <2>. HIDE DEF raw
  <2>2. \A wanted : CodeMatch(wanted, << >>) = None
    BY DEF CodeMatch
  <2> QED
    BY <2>1, <2>2
<1>12. OrderVolumeMatch(raw, units) = None
  BY <1>10 DEF OrderVolumeMatch
<1>13. DecisionTimingMatch(raw, p.timeline) = None
  BY <1>10 DEF DecisionTimingMatch
<1>14. f.buyer = [business_goal |-> BusinessGoalMatch(p.goals, c),
                  product |-> CodeMatch(p.categories, CategoryCodes(c)),
                  channel |-> SetMatch(p.channels, c.channels),
                  region |-> SetMatch(p.regions, c.regions),
                  price |-> PriceScore(AskingPrice(c), p.price_max),
                  moq |-> MoqMatch(c.moq, units), capacity |-> CapacityMatch(c.capacity, units),
                  cooperation |-> BusinessGoalMatch(p.goals, c), meeting |-> MeetingMatch(c),
                  trust |-> Combined(<<<<c.readiness, 60>>, <<c.trust, 40>>>>)]
  BY DEF BuyerFeatures
<1>15. f.exhibitor =
         [buyer_type |-> CodeMatch(p.buyer_type, PreferenceItems(raw, "preferred_buyer_types")),
          channel |-> CodeMatch(p.channels, PreferenceItems(raw, "preferred_channels")),
          region |-> CodeMatch(p.regions, PreferenceItems(raw, "preferred_regions")),
          trade_type |-> CodeMatch(p.trade_type, PreferenceItems(raw, "trade_types")),
          order_volume |-> OrderVolumeMatch(raw, units),
          portfolio |-> CodeMatch(p.categories, CategoryCodes(c)),
          decision_timing |-> DecisionTimingMatch(raw, p.timeline),
          verification |-> p.verification, meeting_readiness |-> p.meeting_readiness]
  BY DEF BuyerFeatures
<1>18. f.acceptance = Combined(<<<<CapacityMatch(c.capacity, units), 70>>, <<MeetingMatch(c), 30>>>>)
  BY DEF BuyerFeatures
<1>19. f.acceptance \in Count
  <2>. DEFINE a == CapacityMatch(c.capacity, units)
              b == MeetingMatch(c)
              v == 70
              w == 30
  <2>1. a \in Amount /\ b \in Amount /\ a \in Count /\ b \in Count /\ v \in Nat \ {0} /\ w \in Nat \ {0}
    BY <1>7, <1>8
  <2>2. f.acceptance = Combined(<<<<a, v>>, <<b, w>>>>)
    BY <1>18
  <2>. HIDE DEF f, a, b, v, w
  <2>3. Combined(<<<<a, v>>, <<b, w>>>>) \in Count
    BY <2>1, CombinedPairType
  <2> QED
    BY <2>2, <2>3
<1>. HIDE DEF f, raw, units
<1>16. DOMAIN f.buyer = DOMAIN BuyerWeights /\ \A n \in DOMAIN BuyerWeights : f.buyer[n] \in Amount
  BY <1>2, <1>3, <1>4, <1>5, <1>7, <1>8, <1>9, <1>14 DEF BuyerWeights
<1>17. /\ DOMAIN f.exhibitor = DOMAIN ExhibitorWeights
       /\ \A n \in DOMAIN ExhibitorWeights : f.exhibitor[n] \in Amount
  <2>1. p.verification \in Amount /\ p.meeting_readiness \in Amount
    BY DEF RequestShape
  <2> QED
    BY <1>1, <1>3, <1>11, <1>12, <1>13, <1>15, <2>1 DEF ExhibitorWeights
<1>20. ASSUME Positive(c, p)
       PROVE  /\ \A n \in DOMAIN BuyerWeights : f.buyer[n] \in Count
              /\ \A n \in DOMAIN ExhibitorWeights : f.exhibitor[n] \in Count
  <2>1. p.verification \in Count /\ p.meeting_readiness \in Count
    BY <1>20 DEF Positive
  <2>2. \A n \in DOMAIN BuyerWeights : f.buyer[n] \in Count
    BY <1>2, <1>3, <1>4, <1>5, <1>7, <1>8, <1>9, <1>14, <1>20 DEF BuyerWeights
  <2>3. \A n \in DOMAIN ExhibitorWeights : f.exhibitor[n] \in Count
    BY <1>1, <1>3, <1>11, <1>12, <1>13, <1>15, <2>1 DEF ExhibitorWeights
  <2> QED
    BY <2>2, <2>3
<1> QED
  BY <1>16, <1>17, <1>19, <1>20 DEF f

\* A request as it is placed: where things are, how long they take and when they
\* are, in whole numbers or unknown.
PlaceShape(c, x) ==
  /\ c.type \in {"PRODUCT", "BOOTH", "EXHIBITOR", "PROGRAM"}
  /\ c.units \in Count /\ c.wait \in Amount /\ c.starts \in Amount /\ c.ends \in Amount
  /\ c.to_meeting \in Int
  /\ x.remaining \in Amount /\ x.next \in Amount

\* The minutes of a way are a number.
LEMMA WalkType ==
  ASSUME NEW units \in Count
  PROVE  WalkMinutes(units) \in Amount /\ (units # None => WalkMinutes(units) \in Int)
<1>. DEFINE a == 5 * units
            b == 5 * units + 30
            v == IF a % 60 = 30 THEN (a \div 60) + ((a \div 60) % 2) ELSE b \div 60
            one == 1
<1>1. WalkMinutes(units) = IF units = None THEN None ELSE Max({one, v})
  BY DEF WalkMinutes
<1>2. ASSUME units # None PROVE v \in Int /\ one \in Int
  <2>1. units \in Nat
    BY <1>2 DEF Count
  <2>2. a \in Nat /\ b \in Nat
    BY <2>1
  <2>. DEFINE q == a \div 60
              r == b \div 60
  <2>. HIDE DEF a, b
  <2>3. q \in Nat /\ r \in Nat
    BY <2>2
  <2>4. q % 2 \in Int
    BY <2>3
  <2> QED
    BY <2>3, <2>4
<1>. HIDE DEF v, one
<1>3. ASSUME units # None PROVE Max({one, v}) \in Int
  BY <1>2, <1>3, BetterOfTwo
<1> QED
  BY <1>1, <1>3 DEF Amount

\* Whether there is time is a number or unknown.
LEMMA TimeType ==
  ASSUME NEW c, NEW x, PlaceShape(c, x)
  PROVE  /\ TimeFeasibility(c, x) \in Amount /\ ScheduleFeasibility(c, x) \in Amount
         /\ Proximity(c.units) \in Amount
<1>1. OrZero(WalkMinutes(c.units)) \in Int /\ OrZero(WaitFor(c)) \in Int
  <2>1. WalkMinutes(c.units) \in Amount
    BY WalkType DEF PlaceShape
  <2>2. WaitFor(c) \in Amount
    BY DEF WaitFor, PlaceShape, Amount
  <2> QED
    BY <2>1, <2>2 DEF OrZero, Amount
<1>2. ASSUME NEW remaining \in Int, NEW required \in Int PROVE Spare(remaining, required) \in Int
  <2>. DEFINE one == 1
              m == Max({remaining, one})
              a == 50 * (remaining - required)
  <2>1. one \in Int
    OBVIOUS
  <2>2. m \in Int /\ m > 0
    <3>1. m = IF remaining >= one THEN remaining ELSE one
      <4>. HIDE DEF one
      <4> QED
        BY <2>1, BetterOfTwo
    <3> QED
      BY <3>1
  <2>3. a \in Int
    OBVIOUS
  <2>4. Spare(remaining, required) = 50 + a \div m
    BY DEF Spare
  <2>. HIDE DEF a, m
  <2>5. a \div m \in Int
    BY <2>2, <2>3
  <2> QED
    BY <2>4, <2>5
<1>3. TimeFeasibility(c, x) \in Amount
  <2>1. CASE c.type = "PROGRAM"
    BY <2>1 DEF TimeFeasibility, Amount
  <2>2. CASE c.type # "PROGRAM"
    <3>1. CASE x.remaining = None \/ (x.zone /\ c.units = None)
      BY <2>2, <3>1 DEF TimeFeasibility, Amount
    <3>2. CASE ~(x.remaining = None \/ (x.zone /\ c.units = None))
      <4>. DEFINE required == OrZero(WalkMinutes(c.units)) + OrZero(WaitFor(c)) + VisitMinutes
      <4>1. required \in Int /\ x.remaining \in Int
        BY <1>1, <3>2 DEF VisitMinutes, PlaceShape, Amount
      <4>2. TimeFeasibility(c, x) = IF required > x.remaining THEN 0 ELSE Spare(x.remaining, required)
        BY <2>2, <3>2 DEF TimeFeasibility
      <4>. HIDE DEF required
      <4>3. Spare(x.remaining, required) \in Int
        BY <1>2, <4>1
      <4> QED
        BY <4>2, <4>3 DEF Amount
    <3> QED
      BY <3>1, <3>2
  <2> QED
    BY <2>1, <2>2
<1>4. ScheduleFeasibility(c, x) \in Amount
  <2>1. CASE c.type = "PROGRAM"
    BY <1>3, <2>1 DEF ScheduleFeasibility
  <2>2. CASE c.type # "PROGRAM"
    BY <2>2 DEF ScheduleFeasibility, Amount
  <2> QED
    BY <2>1, <2>2
<1>5. Proximity(c.units) \in Amount
  <2>1. CASE c.units = None
    BY <2>1 DEF Proximity, Amount
  <2>2. CASE c.units # None
    <3>. DEFINE u == 300 + 5 * c.units
    <3>1. u \in Nat \ {0}
      <4>1. c.units \in Nat
        BY <2>2 DEF PlaceShape, Count
      <4> QED
        BY <4>1
    <3>2. Proximity(c.units) = 30000 \div u
      BY <2>2 DEF Proximity
    <3>. HIDE DEF u
    <3>3. 30000 \div u \in Int
      BY <3>1
    <3> QED
      BY <3>2, <3>3 DEF Amount
  <2> QED
    BY <2>1, <2>2
<1> QED
  BY <1>3, <1>4, <1>5

\* So is how long one waits.
LEMMA WaitType ==
  ASSUME NEW c, NEW x, c.wait \in Amount
  PROVE  WaitCongestion(c, x) \in Amount
<1>. DEFINE wait == IF c.wait = None THEN None ELSE Max({0, 100 - (100 * c.wait) \div 30})
            level == CASE c.congestion = "LOW" -> 100 [] c.congestion = "MEDIUM" -> 60
                       [] c.congestion = "HIGH" -> IF x.avoid_congestion THEN 0 ELSE 20
                       [] OTHER -> None
            one == 1
<1>1. wait \in Amount
  <2>1. CASE c.wait # None
    <3>. DEFINE a == 100 * c.wait
                b == 100 - a \div 30
                zero == 0
    <3>1. a \in Int
      BY <2>1 DEF Amount
    <3>. HIDE DEF a
    <3>2. b \in Int /\ zero \in Int
      BY <3>1
    <3>3. wait = Max({zero, b})
      BY <2>1 DEF a
    <3>. HIDE DEF b, zero
    <3>4. Max({zero, b}) \in Int
      BY <3>2, BetterOfTwo
    <3> QED
      BY <3>3, <3>4 DEF Amount
  <2> QED
    BY <2>1 DEF Amount
<1>2. level \in Amount
  BY DEF Amount
<1>3. WaitCongestion(c, x)
        = IF c.type # "BOOTH" THEN None ELSE Combined(<<<<wait, one>>, <<level, one>>>>)
  BY DEF WaitCongestion
<1>4. one \in Nat \ {0}
  OBVIOUS
<1>. HIDE DEF wait, level, one
<1>5. Combined(<<<<wait, one>>, <<level, one>>>>) \in Amount
  BY <1>1, <1>2, <1>4, CombinedPairType
<1> QED
  BY <1>3, <1>5 DEF Amount

\* The parts of the context are numbers or unknown.
LEMMA ContextPartsType ==
  ASSUME NEW c, NEW x, PlaceShape(c, x), NEW p, NEW open
  PROVE  /\ DOMAIN ContextParts(c, p, x, open) = DOMAIN ContextWeights
         /\ \A n \in DOMAIN ContextWeights : ContextParts(c, p, x, open)[n] \in Amount
<1>. DEFINE k == ContextParts(c, p, x, open)
            D == DOMAIN ContextWeights
<1>1. Operation(c) \in Amount
  <2>1. CASE c.type = "BOOTH"
    <3>1. Operation(c) = CASE c.operating = "OPEN" -> 100 [] c.operating = "PAUSED" -> 20
                           [] c.operating = "CLOSED" -> 0 [] OTHER -> None
      BY <2>1 DEF Operation
    <3> QED
      BY <3>1 DEF Amount
  <2>2. CASE c.type = "PRODUCT"
    BY <2>2 DEF Operation, Amount
  <2>3. CASE c.type = "EXHIBITOR"
    <3>1. Operation(c) = CASE c.participation = "APPROVED" -> 100
                           [] c.participation = "CANCELLED" -> 0 [] OTHER -> None
      BY <2>3 DEF Operation
    <3> QED
      BY <3>1 DEF Amount
  <2>4. CASE c.type = "PROGRAM"
    <3>1. Operation(c) = CASE c.program \in {"PLANNED", "OPEN"} -> 100
                           [] c.program = "IN_PROGRESS" -> 80
                           [] c.program \in {"CANCELLED", "CLOSED", "ENDED"} -> 0
                           [] OTHER -> None
      BY <2>4 DEF Operation
    <3> QED
      BY <3>1 DEF Amount
  <2> QED
    BY <2>1, <2>2, <2>3, <2>4 DEF PlaceShape
<1>2. MeetingAvailability(c, p, x, open) \in Amount
  BY DEF MeetingAvailability, Amount
<1>3. /\ k.proximity \in Amount /\ k.time \in Amount /\ k.wait \in Amount /\ k.operation \in Amount
      /\ k.meeting \in Amount /\ k.schedule \in Amount
  BY <1>1, <1>2, TimeType, WaitType DEF ContextParts, PlaceShape
<1>4. k.inventory \in Amount /\ k.recent \in Amount
  BY DEF ContextParts, Amount
<1>5. DOMAIN k = D
  BY DEF ContextParts, ContextWeights
<1>6. D = {"proximity", "time", "wait", "operation", "meeting", "schedule", "inventory", "recent"}
  BY DEF ContextWeights
<1>. HIDE DEF k, D
<1>7. \A n \in D : k[n] \in Amount
  BY <1>3, <1>4, <1>6
<1> QED
  BY <1>5, <1>7 DEF k, D

\* So is what the context adds.
LEMMA ContextType ==
  ASSUME NEW c, NEW x, PlaceShape(c, x), NEW p, NEW open, NEW score
  PROVE  Evaluated(c, p, x, open, score).context \in Amount
<1>. DEFINE k == ContextParts(c, p, x, open)
            D == DOMAIN ContextWeights
            d == Directional(ContextWeights, k, {})
<1>1. DOMAIN k = D /\ \A n \in D : k[n] \in Amount
  BY ContextPartsType
<1>2. Evaluated(c, p, x, open, score).context = IF d = None THEN None ELSE d.score
  BY DEF Evaluated
<1>. HIDE DEF k, D
<1>3. d # None => d.score \in Int
  <2>. DEFINE caps == {}
  <2>1. IsFiniteSet(caps) /\ caps \subseteq Int
    BY FS_EmptySet
  <2>2. IsFiniteSet(D) /\ \A n \in D : ContextWeights[n] \in Nat \ {0}
    BY DirectionsPositive DEF D
  <2>3. d = Directional(ContextWeights, k, caps)
    OBVIOUS
  <2>. HIDE DEF caps
  <2> QED
    BY <1>1, <2>1, <2>2, <2>3, DirectionalType
<1> QED
  BY <1>2, <1>3 DEF Amount

\* A claim has the rank of its code.
LEMMA ClaimOfCode ==
  ASSUME NEW code \in DOMAIN RankOf, NEW v \in Amount
  PROVE  IsClaim(ClaimOf(code, v)) /\ ClaimOf(code, v).code = code
  BY DEF ClaimOf, Claim, IsClaim

\* A part of some claims, or some and a new one, are claims.
LEMMA FewerClaims ==
  ASSUME NEW R, Claims(R), NEW S, S \subseteq R
  PROVE  Claims(S)
<1>1. IsFiniteSet(S)
  BY FS_Subset DEF Claims
<1> QED
  BY <1>1 DEF Claims

LEMMA AnotherClaim ==
  ASSUME NEW R, Claims(R), NEW code \in DOMAIN RankOf, NEW v \in Amount,
         \A s \in R : s.code # code
  PROVE  Claims(R \cup {ClaimOf(code, v)})
<1>. DEFINE r == ClaimOf(code, v)
<1>1. IsClaim(r) /\ r.code = code
  BY ClaimOfCode
<1>. HIDE DEF r
<1>2. IsFiniteSet(R \cup {r})
  BY FS_AddElement DEF Claims
<1>3. Claims(R \cup {r})
  BY <1>1, <1>2 DEF Claims
<1> QED
  BY <1>3 DEF r

\* The claims of a score, and what a vector adds, are claims of different things.
LEMMA DirectionalAreClaims ==
  ASSUME NEW con, NEW D, IsFiniteSet(D), DOMAIN con \subseteq D,
         \A n \in DOMAIN con : con[n] \in Int, NEW vector
  PROVE  Claims({ClaimOf(CodeOf[n], con[n]) :
                   n \in {m \in DOMAIN con \cap DOMAIN CodeOf : con[m] > 0}}
                \cup IF vector THEN {ClaimOf("SEMANTIC_MATCH", None)} ELSE {})
<1>. DEFINE N == {m \in DOMAIN con \cap DOMAIN CodeOf : con[m] > 0}
            f == [n \in N |-> ClaimOf(CodeOf[n], con[n])]
            R == {f[n] : n \in N}
<1>1. \A n \in DOMAIN CodeOf : CodeOf[n] \in DOMAIN RankOf /\ CodeOf[n] # "SEMANTIC_MATCH"
  BY DEF CodeOf, RankOf
<1>2. \A a, b \in DOMAIN CodeOf : CodeOf[a] = CodeOf[b] => a = b
  BY SMTT(30) DEF CodeOf
<1>3. N \subseteq D /\ \A n \in N : con[n] \in Amount /\ n \in DOMAIN CodeOf
  BY DEF Amount
<1>4. IsFiniteSet(N)
  BY <1>3, FS_Subset
<1>5. f = [n \in N |-> f[n]] /\ \A n \in N : f[n] = ClaimOf(CodeOf[n], con[n])
  OBVIOUS
<1>6. R = {ClaimOf(CodeOf[n], con[n]) : n \in N}
  OBVIOUS
<1>. HIDE DEF N, f
<1>7. \A n \in N : IsClaim(f[n]) /\ f[n].code = CodeOf[n]
  BY <1>1, <1>3, <1>5, ClaimOfCode
<1>8. IsFiniteSet(R)
  BY <1>4, <1>5, ImageOf
<1>9. Claims(R) /\ \A r \in R : r.code # "SEMANTIC_MATCH"
  BY <1>1, <1>2, <1>3, <1>7, <1>8 DEF Claims
<1>. HIDE DEF R
<1>10. Claims(R \cup IF vector THEN {ClaimOf("SEMANTIC_MATCH", None)} ELSE {})
  <2>1. CASE vector
    <3>1. "SEMANTIC_MATCH" \in DOMAIN RankOf /\ None \in Amount
      BY DEF RankOf, Amount
    <3> QED
      BY <1>9, <2>1, <3>1, AnotherClaim
  <2>2. CASE ~vector
    BY <1>9, <2>2
  <2> QED
    BY <2>1, <2>2
<1> QED
  BY <1>6, <1>10 DEF N

\* Whatever is claimed, one to three reasons are shown, no two of them with one
\* code, and a meeting only with a slot.
LEMMA ReasonsShown ==
  ASSUME NEW c, NEW scored, NEW context \in Amount, NEW slots, NEW vector,
         NEW R, Claims(R),
         BestThree(R) = IF scored.exhibitor # << >> THEN ReciprocalClaims(scored, slots)
                        ELSE DirectionalClaims(scored, vector),
         NEW shown, shown = Reasons(c, scored, context, slots, vector)
  PROVE  /\ Len(shown) \in 1..3 /\ DOMAIN shown = 1..Len(shown)
         /\ \A i, j \in DOMAIN shown : shown[i].code = shown[j].code => i = j
         /\ \A i \in DOMAIN shown : shown[i].code = "MEETING_AVAILABLE" => slots
<1>. DEFINE b == BestThree(R)
            walk == WalkMinutes(c.units)
            near == walk # None /\ OrZero(walk) <= 10
            A == {b[i] : i \in {j \in DOMAIN b : b[j].code \in Templated}}
            B == A \cup IF slots THEN {ClaimOf("MEETING_AVAILABLE", context)} ELSE {}
            S == B \cup IF near THEN {ClaimOf("NEARBY", context)} ELSE {}
<1>1. shown = IF S = {} THEN <<Claim("EXPLORATION_CANDIDATE", None, 0)>> ELSE BestThree(S)
  BY DEF Reasons
<1>2. A \subseteq R /\ \A r \in A : r.code \in Templated
  <2>1. \A i \in DOMAIN b : b[i] \in R
    BY BestOfClaims
  <2>. HIDE DEF b
  <2> QED
    BY <2>1
<1>3. Claims(A)
  BY <1>2, FewerClaims
<1>4. /\ "MEETING_AVAILABLE" \notin Templated /\ "NEARBY" \notin Templated
      /\ "MEETING_AVAILABLE" \in DOMAIN RankOf /\ "NEARBY" \in DOMAIN RankOf
  BY DEF Templated, RankOf
<1>. HIDE DEF A, near
<1>5. /\ Claims(B) /\ \A r \in B : r.code # "NEARBY"
      /\ ~slots => \A r \in B : r.code # "MEETING_AVAILABLE"
  <2>1. CASE slots
    <3>1. Claims(A \cup {ClaimOf("MEETING_AVAILABLE", context)})
      BY <1>2, <1>3, <1>4, AnotherClaim
    <3>2. ClaimOf("MEETING_AVAILABLE", context).code = "MEETING_AVAILABLE"
      BY <1>4, ClaimOfCode
    <3> QED
      BY <1>2, <1>4, <2>1, <3>1, <3>2
  <2>2. CASE ~slots
    BY <1>2, <1>3, <1>4, <2>2
  <2> QED
    BY <2>1, <2>2
<1>. HIDE DEF B
<1>6. Claims(S) /\ (~slots => \A r \in S : r.code # "MEETING_AVAILABLE")
  <2>1. CASE near
    <3>1. Claims(B \cup {ClaimOf("NEARBY", context)})
      BY <1>4, <1>5, AnotherClaim
    <3>2. ClaimOf("NEARBY", context).code = "NEARBY"
      BY <1>4, ClaimOfCode
    <3> QED
      BY <1>5, <2>1, <3>1, <3>2
  <2>2. CASE ~near
    BY <1>5, <2>2
  <2> QED
    BY <2>1, <2>2
<1>. HIDE DEF S
<1>7. CASE S = {}
  <2>. DEFINE e == Claim("EXPLORATION_CANDIDATE", None, 0)
  <2>1. shown = <<e>> /\ e.code # "MEETING_AVAILABLE"
    BY <1>1, <1>7 DEF Claim
  <2>. HIDE DEF e
  <2>2. Len(shown) = 1 /\ DOMAIN shown = 1..1 /\ shown[1] = e
    BY <2>1
  <2>3. \A i \in 1..1 : i = 1
    OBVIOUS
  <2> QED
    BY <2>1, <2>2, <2>3
<1>8. CASE S # {}
  <2>. DEFINE t == BestThree(S)
  <2>1. shown = t
    BY <1>1, <1>8
  <2>2. /\ DOMAIN t = 1..Len(t) /\ Len(t) \in 0..3 /\ Len(t) # 0
        /\ \A i \in DOMAIN t : t[i] \in S
        /\ \A i, j \in DOMAIN t : t[i] = t[j] => i = j
    BY <1>6, <1>8, BestOfClaims
  <2>. HIDE DEF t
  <2>3. \A i, j \in DOMAIN t : t[i].code = t[j].code => i = j
    BY <1>6, <2>2 DEF Claims
  <2>4. Len(t) \in 1..3
    BY <2>2
  <2>5. \A i \in DOMAIN t : t[i].code = "MEETING_AVAILABLE" => slots
    BY <1>6, <2>2
  <2> QED
    BY <2>1, <2>2, <2>3, <2>4, <2>5
<1> QED
  BY <1>7, <1>8

\* What both sides have of a thing, and how far apart they are, are claims of
\* different things.
LEMMA ReciprocalAreClaims ==
  ASSUME NEW scored, \A n \in DOMAIN scored.contributions : scored.contributions[n] \in Int,
         \A n \in DOMAIN scored.exhibitor : scored.exhibitor[n] \in Int, scored.imbalance \in Int,
         NEW slots
  PROVE  \E R : Claims(R) /\ ReciprocalClaims(scored, slots) = BestThree(R)
<1>. DEFINE both(b, e) == IF b \in DOMAIN scored.contributions /\ e \in DOMAIN scored.exhibitor
                          THEN Min({scored.contributions[b], scored.exhibitor[e]}) ELSE 0
            mutual(code, b, e) == IF both(b, e) > 0 THEN {ClaimOf(code, both(b, e))} ELSE {}
            A == mutual("MUTUAL_CHANNEL_MATCH", "channel", "channel")
            B == mutual("MUTUAL_PRODUCT_MATCH", "product", "portfolio")
            C == IF slots THEN mutual("MEETING_AVAILABLE", "meeting", "meeting_readiness") ELSE {}
            E == IF scored.imbalance > 0
                 THEN {ClaimOf("DIRECTION_IMBALANCE", scored.imbalance \div 100)} ELSE {}
            R == A \cup B \cup C \cup E
<1>1. ReciprocalClaims(scored, slots) = BestThree(R)
  BY DEF ReciprocalClaims
<1>2. \A b, e : both(b, e) \in Amount
  <2>. SUFFICES ASSUME NEW b, NEW e PROVE both(b, e) \in Int
    BY DEF Amount
  <2>1. CASE b \in DOMAIN scored.contributions /\ e \in DOMAIN scored.exhibitor
    <3>. DEFINE v == scored.contributions[b]
                w == scored.exhibitor[e]
    <3>1. v \in Int /\ w \in Int
      BY <2>1
    <3>2. both(b, e) = Min({v, w})
      BY <2>1
    <3>. HIDE DEF v, w
    <3>3. Min({v, w}) \in Int
      BY <3>1, BetterOfTwo
    <3> QED
      BY <3>2, <3>3
  <2>2. CASE ~(b \in DOMAIN scored.contributions /\ e \in DOMAIN scored.exhibitor)
    BY <2>2
  <2> QED
    BY <2>1, <2>2
<1>. HIDE DEF both
<1>3. \A code, b, e : mutual(code, b, e) = {} \/ mutual(code, b, e) = {ClaimOf(code, both(b, e))}
  OBVIOUS
<1>. HIDE DEF mutual
<1>4. /\ "MUTUAL_CHANNEL_MATCH" \in DOMAIN RankOf /\ "MUTUAL_PRODUCT_MATCH" \in DOMAIN RankOf
      /\ "MEETING_AVAILABLE" \in DOMAIN RankOf /\ "DIRECTION_IMBALANCE" \in DOMAIN RankOf
  BY DEF RankOf
<1>5. Claims(A) /\ \A r \in A : r.code = "MUTUAL_CHANNEL_MATCH"
  <2>. DEFINE r == ClaimOf("MUTUAL_CHANNEL_MATCH", both("channel", "channel"))
  <2>1. Claims({})
    BY FS_EmptySet DEF Claims
  <2>2. Claims({} \cup {r}) /\ r.code = "MUTUAL_CHANNEL_MATCH"
    BY <1>2, <1>4, <2>1, AnotherClaim, ClaimOfCode
  <2>3. A = {} \/ A = {} \cup {r}
    BY <1>3
  <2>. HIDE DEF r
  <2> QED
    BY <2>1, <2>2, <2>3
<1>. HIDE DEF A
<1>6. Claims(A \cup B) /\ \A r \in A \cup B : r.code \in {"MUTUAL_CHANNEL_MATCH", "MUTUAL_PRODUCT_MATCH"}
  <2>. DEFINE r == ClaimOf("MUTUAL_PRODUCT_MATCH", both("product", "portfolio"))
  <2>1. Claims(A \cup {r}) /\ r.code = "MUTUAL_PRODUCT_MATCH"
    BY <1>2, <1>4, <1>5, AnotherClaim, ClaimOfCode
  <2>2. B = {} \/ B = {r}
    BY <1>3
  <2>. HIDE DEF r
  <2> QED
    BY <1>5, <2>1, <2>2
<1>. HIDE DEF B
<1>7. Claims(A \cup B \cup C) /\ \A r \in A \cup B \cup C : r.code # "DIRECTION_IMBALANCE"
  <2>. DEFINE r == ClaimOf("MEETING_AVAILABLE", both("meeting", "meeting_readiness"))
              X == A \cup B
  <2>. HIDE DEF X
  <2>1. Claims(X \cup {r}) /\ r.code = "MEETING_AVAILABLE"
    BY <1>2, <1>4, <1>6, AnotherClaim, ClaimOfCode DEF X
  <2>2. C = {} \/ C = {r}
    BY <1>3
  <2>. HIDE DEF r, C
  <2> QED
    BY <1>6, <2>1, <2>2 DEF X
<1>. HIDE DEF C
<1>8. Claims(R)
  <2>. DEFINE X == A \cup B \cup C
  <2>. HIDE DEF X
  <2>1. CASE scored.imbalance > 0
    <3>1. scored.imbalance \div 100 \in Amount
      BY DEF Amount
    <3>2. Claims(X \cup {ClaimOf("DIRECTION_IMBALANCE", scored.imbalance \div 100)})
      BY <1>4, <1>7, <3>1, AnotherClaim DEF X
    <3> QED
      BY <2>1, <3>2 DEF X
  <2>2. CASE ~(scored.imbalance > 0)
    BY <1>7, <2>2
  <2> QED
    BY <2>1, <2>2
<1> QED
  BY <1>1, <1>8

\* What a score says that the claims are made of.
ScoredShape(s) ==
  /\ \E D : IsFiniteSet(D) /\ DOMAIN s.contributions \subseteq D
  /\ \A n \in DOMAIN s.contributions : s.contributions[n] \in Int
  /\ \A n \in DOMAIN s.exhibitor : s.exhibitor[n] \in Int
  /\ s.imbalance \in Int

\* A visitor's score and a buyer's have that shape.
LEMMA VisitorScored ==
  ASSUME NEW c, OfferShape(c), NEW p, SubjectShape(p), ScoreVisitor(c, p) # None
  PROVE  ScoredShape(ScoreVisitor(c, p))
<1>. DEFINE k == VisitorComponents(c, p)
            D == DOMAIN ConsumerWeights
            caps == {}
            d == Directional(ConsumerWeights, k, caps)
            s == ScoreVisitor(c, p)
<1>1. DOMAIN k = D /\ \A n \in D : k[n] \in Amount
  BY VisitorComponentsType
<1>2. d # None /\ s.contributions = d.contributions /\ s.exhibitor = << >> /\ s.imbalance = 0
  BY DEF ScoreVisitor, VisitorComponents
<1>3. IsFiniteSet(caps) /\ caps \subseteq Int
  BY FS_EmptySet
<1>. HIDE DEF k, caps, s
<1>4. DOMAIN d.contributions \subseteq D /\ \A n \in DOMAIN d.contributions : d.contributions[n] \in Int
  BY <1>1, <1>2, <1>3, WeightsPositive, DirectionalType
<1>5. IsFiniteSet(D)
  BY WeightsPositive
<1>. HIDE DEF d, D
<1>6. ScoredShape(s)
  BY <1>2, <1>4, <1>5 DEF ScoredShape
<1> QED
  BY <1>6 DEF s

LEMMA BuyerScored ==
  ASSUME NEW c, OfferShape(c), TradeShape(c), NEW p, SubjectShape(p), RequestShape(p),
         ScoreBuyer(c, p) # None
  PROVE  ScoredShape(ScoreBuyer(c, p))
<1>. DEFINE f == BuyerFeatures(c, p)
            none == {}
            caps == ExhibitorCaps(f.exhibitor)
            d == Directional(BuyerWeights, f.buyer, none)
            e == Directional(ExhibitorWeights, f.exhibitor, caps)
            r == ReciprocalOf(p, f, d, e)
            s == ScoreBuyer(c, p)
<1>1. /\ d # None /\ s.contributions = d.contributions
      /\ \/ s.exhibitor = << >> /\ s.imbalance = 0
         \/ e # None /\ s.exhibitor = e.contributions /\ s.imbalance = r.imbalance
  <2>1. CASE c.type = "PROGRAM"
    BY <2>1 DEF ScoreBuyer
  <2>2. CASE c.type # "PROGRAM"
    BY <2>2 DEF ScoreBuyer
  <2> QED
    BY <2>1, <2>2
<1>2. /\ DOMAIN f.buyer = DOMAIN BuyerWeights
      /\ \A n \in DOMAIN BuyerWeights : f.buyer[n] \in Amount
      /\ DOMAIN f.exhibitor = DOMAIN ExhibitorWeights
      /\ \A n \in DOMAIN ExhibitorWeights : f.exhibitor[n] \in Amount
  BY BuyerComponentsType
<1>3. IsFiniteSet(none) /\ none \subseteq Int
  BY FS_EmptySet
<1>4. IsFiniteSet(caps) /\ caps \subseteq Int
  <2>. DEFINE most == 10000
              All == 1..most
  <2>1. caps \subseteq All
    BY DEF ExhibitorCaps
  <2>2. most \in Nat
    OBVIOUS
  <2>. HIDE DEF most, caps
  <2>3. IsFiniteSet(All) /\ All \subseteq Int
    BY <2>2, FirstNumbers
  <2>. HIDE DEF All
  <2> QED
    BY <2>1, <2>3, FS_Subset
<1>5. r.imbalance = Max({d.score, e.score}) - Min({d.score, e.score})
  BY DEF ReciprocalOf, Reciprocal
<1>. HIDE DEF f, none, caps, r, s
<1>6. /\ d.score \in Int /\ DOMAIN d.contributions \subseteq DOMAIN BuyerWeights
      /\ \A n \in DOMAIN d.contributions : d.contributions[n] \in Int
  BY <1>1, <1>2, <1>3, DirectionsPositive, DirectionalType
<1>7. e # None => /\ e.score \in Int
                  /\ \A n \in DOMAIN e.contributions : e.contributions[n] \in Int
  BY <1>2, <1>4, DirectionsPositive, DirectionalType
<1>8. e # None => r.imbalance \in Int
  <2>. DEFINE a == d.score
              b == e.score
  <2>. HIDE DEF a, b
  <2>1. a \in Int /\ b \in Int => Max({a, b}) \in Int /\ Min({a, b}) \in Int
    BY BetterOfTwo
  <2>2. e # None => a \in Int /\ b \in Int
    BY <1>6, <1>7 DEF a, b
  <2>3. r.imbalance = Max({a, b}) - Min({a, b})
    BY <1>5 DEF a, b
  <2> QED
    BY <2>1, <2>2, <2>3
<1>9. IsFiniteSet(DOMAIN BuyerWeights)
  BY DirectionsPositive
<1>. HIDE DEF d, e
<1>10. ScoredShape(s)
  BY <1>1, <1>6, <1>7, <1>8, <1>9 DEF ScoredShape
<1> QED
  BY <1>10 DEF s

\* A case of a candidate that is presented, as the services give it.
PresentsOne(t) ==
  t.kind = "present" =>
    /\ OfferShape(t.offer) /\ TradeShape(t.offer) /\ PlaceShape(t.offer, t.situation)
    /\ SubjectShape(t.subject) /\ RequestShape(t.subject)

\* The reasons of one candidate.
LEMMA PresentedReasons ==
  ASSUME NEW t, PresentsOne(t), t.kind = "present",
         NEW shown, shown = Presented(t.offer, t.subject, t.situation, t.open, t.vector), shown # None
  PROVE  /\ Len(shown.reasons) \in 1..3 /\ DOMAIN shown.reasons = 1..Len(shown.reasons)
         /\ \A i, j \in DOMAIN shown.reasons :
              shown.reasons[i].code = shown.reasons[j].code => i = j
         /\ \A i \in DOMAIN shown.reasons :
              shown.reasons[i].code = "MEETING_AVAILABLE"
                => t.open = TRUE /\ t.subject.user_type = "BUYER"
<1>. DEFINE c == t.offer
            p == t.subject
            s == ScoreCandidate(c, p)
            e == Evaluated(c, p, t.situation, t.open, s.score)
            slots == p.user_type = "BUYER" /\ t.open = TRUE
            reasons == Reasons(c, s, e.context, slots, t.vector)
<1>1. s # None /\ shown.reasons = reasons
  BY DEF Presented
<1>2. ScoredShape(s)
  <2>1. CASE p.user_type = "BUYER"
    BY <1>1, <2>1, BuyerScored DEF ScoreCandidate, PresentsOne
  <2>2. CASE p.user_type # "BUYER"
    BY <1>1, <2>2, VisitorScored DEF ScoreCandidate, PresentsOne
  <2> QED
    BY <2>1, <2>2
<1>3. e.context \in Amount
  BY ContextType DEF PresentsOne
<1>. HIDE DEF s, e, reasons
<1>4. \E R : Claims(R) /\ BestThree(R) = IF s.exhibitor # << >> THEN ReciprocalClaims(s, slots)
                                         ELSE DirectionalClaims(s, t.vector)
  <2>1. CASE s.exhibitor # << >>
    BY <1>2, <2>1, ReciprocalAreClaims DEF ScoredShape
  <2>2. CASE s.exhibitor = << >>
    <3>. DEFINE con == s.contributions
                R == {ClaimOf(CodeOf[n], con[n]) :
                        n \in {m \in DOMAIN con \cap DOMAIN CodeOf : con[m] > 0}}
                     \cup IF t.vector THEN {ClaimOf("SEMANTIC_MATCH", None)} ELSE {}
    <3>1. Claims(R)
      BY <1>2, DirectionalAreClaims DEF ScoredShape
    <3>2. DirectionalClaims(s, t.vector) = BestThree(R)
      BY DEF DirectionalClaims
    <3>. HIDE DEF R
    <3> QED
      BY <2>2, <3>1, <3>2
  <2> QED
    BY <2>1, <2>2
<1>5. PICK R : Claims(R) /\ BestThree(R) = IF s.exhibitor # << >> THEN ReciprocalClaims(s, slots)
                                           ELSE DirectionalClaims(s, t.vector)
  BY <1>4
<1>6. /\ Len(reasons) \in 1..3 /\ DOMAIN reasons = 1..Len(reasons)
      /\ \A i, j \in DOMAIN reasons : reasons[i].code = reasons[j].code => i = j
      /\ \A i \in DOMAIN reasons : reasons[i].code = "MEETING_AVAILABLE" => slots
  <2>1. reasons = Reasons(c, s, e.context, slots, t.vector)
    BY DEF reasons
  <2>. HIDE DEF slots, c
  <2> QED
    BY <1>3, <1>5, <2>1, ReasonsShown
<1> QED
  BY <1>1, <1>6

\* Whatever the candidates, the subjects and their situations: every candidate comes
\* with one to three reasons, none twice, and the reason that offers a meeting is
\* given only to a buyer for whom a slot is open (ReasonsTruthful).
THEOREM ReasonsAlwaysTruthful ==
  ASSUME NEW CONSTANT cases, \A t \in cases : PresentsOne(t)
  PROVE  Stages(cases) => []ReasonsTruthful
<1>1. Computed(cases) => ReasonsTruthful
  <2>. SUFFICES ASSUME Computed(cases), task.kind = "present", result # None, result.shown # None
                PROVE  /\ Len(result.shown.reasons) \in 1..3
                       /\ Cardinality(ShownCodes) = Len(result.shown.reasons)
                       /\ "MEETING_AVAILABLE" \in ShownCodes
                            => task.open = TRUE /\ task.subject.user_type = "BUYER"
    BY DEF ReasonsTruthful, Shown
  <2>. DEFINE r == result.shown.reasons
              m == Len(r)
  <2>1. PresentsOne(task)
        /\ result.shown = Presented(task.offer, task.subject, task.situation, task.open, task.vector)
    BY DEF Computed
  <2>2. /\ m \in 1..3 /\ DOMAIN r = 1..m
        /\ \A i, j \in DOMAIN r : r[i].code = r[j].code => i = j
        /\ \A i \in DOMAIN r : r[i].code = "MEETING_AVAILABLE"
             => task.open = TRUE /\ task.subject.user_type = "BUYER"
    BY <2>1, PresentedReasons
  <2>3. ShownCodes = {r[i].code : i \in 1..m}
    BY <2>2 DEF ShownCodes
  <2>. HIDE DEF r, m
  <2>4. IsFiniteSet(1..m) /\ Cardinality(1..m) = m
    BY <2>2, FirstNumbers
  <2>5. Cardinality(ShownCodes) = m
    <3>. DEFINE S == 1..m
                f == [i \in S |-> r[i].code]
    <3>1. f = [i \in S |-> f[i]] /\ (\A i, j \in S : f[i] = f[j] => i = j)
          /\ ShownCodes = {f[i] : i \in S}
      BY <2>2, <2>3
    <3>3. IsFiniteSet(S) /\ Cardinality(S) = m
      BY <2>4
    <3>. HIDE DEF f, S
    <3>2. Cardinality({f[i] : i \in S}) = Cardinality(S)
      BY <3>1, <3>3, ImageOf
    <3> QED
      BY <3>1, <3>2, <3>3
  <2> QED
    BY <2>2, <2>3, <2>5 DEF r, m
<1> QED
  BY <1>1, StagesCompute, PTL

-----------------------------------------------------------------------------
(* The slate.                                                               *)

\* The positions of a list in K that hold one of Q.
Among(s, K, Q) == {i \in DOMAIN s \cap K : s[i] \in Q}
Top(k) == {i \in Nat : i <= k}

\* What a card appended to a list adds to a count of it.
LEMMA CountAfter ==
  ASSUME NEW E, NEW s \in Seq(E), NEW c \in E, NEW K, NEW Q, NEW b \in Nat,
         Cardinality(Among(s, K, Q)) <= b,
         Len(s) + 1 \in K /\ c \in Q => Cardinality(Among(s, Nat, Q)) < b
  PROVE  /\ Cardinality(Among(Append(s, c), K, Q)) <= b
         /\ Cardinality(Among(s, Nat, Q)) \in Nat
<1>. DEFINE m == Len(s)
            n == m + 1
            A == Among(s, K, Q)
            W == Among(s, Nat, Q)
            B == Among(Append(s, c), K, Q)
<1>1. /\ m \in Nat /\ n \in Nat /\ DOMAIN s = 1..m /\ DOMAIN Append(s, c) = 1..n
      /\ \A i \in 1..m : i \in 1..n /\ i # n /\ Append(s, c)[i] = s[i]
      /\ \A i \in 1..n : i # n => i \in 1..m
      /\ n \in 1..n /\ Append(s, c)[n] = c /\ 1..m \subseteq Nat
  OBVIOUS
<1>2. A \subseteq W /\ W \subseteq 1..m /\ n \notin W
  BY <1>1 DEF Among
<1>3. B = IF n \in K /\ c \in Q THEN A \cup {n} ELSE A
  <2>1. ASSUME NEW i PROVE i \in B <=> i \in (IF n \in K /\ c \in Q THEN A \cup {n} ELSE A)
    <3>. HIDE DEF m, n
    <3>1. i \in B <=> i \in 1..n /\ i \in K /\ Append(s, c)[i] \in Q
      BY <1>1 DEF Among
    <3>2. i \in A <=> i \in 1..m /\ i \in K /\ s[i] \in Q
      BY <1>1 DEF Among
    <3>. HIDE DEF A, B
    <3> QED
      BY <1>1, <3>1, <3>2
  <2>. HIDE DEF A, B, m, n
  <2> QED
    BY <2>1
<1>4. IsFiniteSet(1..m)
  BY <1>1, FirstNumbers
<1>. HIDE DEF m, n, A, B, W
<1>5. IsFiniteSet(W) /\ IsFiniteSet(A)
  BY <1>2, <1>4, FS_Subset
<1>6. Cardinality(A) <= Cardinality(W) /\ Cardinality(W) \in Nat /\ Cardinality(A) \in Nat
  BY <1>2, <1>5, FS_Subset, FS_CardinalityType
<1>7. CASE n \in K /\ c \in Q
  <2>1. Cardinality(B) = Cardinality(A) + 1
    BY <1>2, <1>3, <1>5, <1>7, FS_AddElement
  <2>2. Cardinality(W) < b
    BY <1>7 DEF W, n, m
  <2> QED
    BY <1>6, <2>1, <2>2 DEF B, W
<1>8. CASE ~(n \in K /\ c \in Q)
  BY <1>3, <1>6, <1>8 DEF A, B, W
<1> QED
  BY <1>7, <1>8

OfExhibitor(E, x) == {c \in E : c.exhibitor = x}
Newcomers(E)      == {c \in E : "COLD_START_QUALITY" \in c.channels}
Explorers(E)      == {c \in E : IsExploration(c)}

\* A list of cards of E, none twice, within the caps of exhibitors, newcomers and
\* explorations.
Capped(s, E, buyer, most) ==
  /\ \A i, j \in DOMAIN s : s[i] = s[j] => i = j
  /\ \A x : x # None =>
       /\ Cardinality(Among(s, Top(5), OfExhibitor(E, x))) <= 1
       /\ Cardinality(Among(s, Top(10), OfExhibitor(E, x))) <= 2
       /\ Cardinality(Among(s, Nat, OfExhibitor(E, x))) <= 3
       /\ buyer => Cardinality(Among(s, Nat, OfExhibitor(E, x))) <= 1
  /\ Cardinality(Among(s, Top(10), Newcomers(E))) <= 1
  /\ most > 0 => Cardinality(Among(s, Top(10), Explorers(E))) <= most

CappedLists(E, buyer, most) == {s \in Seq(E) : Capped(s, E, buyer, most)}

\* What is counted in a list is counted at its positions.
LEMMA CountsAre ==
  ASSUME NEW E, NEW s \in Seq(E)
  PROVE  /\ \A x : CountOf(s, LAMBDA d : d.exhibitor = x) = Cardinality(Among(s, Nat, OfExhibitor(E, x)))
         /\ (\E i \in DOMAIN s : "COLD_START_QUALITY" \in s[i].channels)
              <=> Among(s, Nat, Newcomers(E)) # {}
         /\ Explored(s) = Cardinality(Among(s, Nat, Explorers(E)))
<1>1. DOMAIN s \subseteq Nat /\ \A i \in DOMAIN s : s[i] \in E
  OBVIOUS
<1>2. ASSUME NEW x
      PROVE  {i \in DOMAIN s : s[i].exhibitor = x} = Among(s, Nat, OfExhibitor(E, x))
  BY <1>1 DEF Among, OfExhibitor
<1>3. Among(s, Nat, Newcomers(E)) = {i \in DOMAIN s : "COLD_START_QUALITY" \in s[i].channels}
  BY <1>1 DEF Among, Newcomers
<1>4. Among(s, Nat, Explorers(E)) = {i \in DOMAIN s : IsExploration(s[i])}
  BY <1>1 DEF Among, Explorers
<1>5. Explored(s) = Cardinality({i \in DOMAIN s : IsExploration(s[i])})
  BY DEF Explored, CountOf
<1> QED
  BY <1>2, <1>3, <1>4, <1>5 DEF CountOf

\* The empty list is within the caps.
LEMMA NothingCapped ==
  ASSUME NEW E, NEW buyer, NEW most \in Nat
  PROVE  << >> \in CappedLists(E, buyer, most)
<1>1. \A K, Q : Among(<< >>, K, Q) = {}
  BY DEF Among
<1>2. Cardinality({}) = 0
  BY FS_EmptySet
<1>3. DOMAIN << >> = {} /\ << >> \in Seq(E)
  OBVIOUS
<1>4. \A K, Q : Cardinality(Among(<< >>, K, Q)) = 0
  BY <1>1, <1>2
<1>5. Capped(<< >>, E, buyer, most)
  BY <1>3, <1>4 DEF Capped
<1> QED
  BY <1>3, <1>5 DEF CappedLists

\* A card that the hard caps admit, and that explores only where there is room, keeps
\* a list within the caps.
LEMMA AppendKeepsCaps ==
  ASSUME NEW E, NEW buyer \in BOOLEAN, NEW most \in Nat, NEW s \in CappedLists(E, buyer, most),
         NEW c \in E, c \notin ToSet(s), NEW relax, HardCaps(c, s, buyer, relax),
         most > 0 /\ Len(s) < 10 /\ IsExploration(c) => Explored(s) < most
  PROVE  Append(s, c) \in CappedLists(E, buyer, most)
<1>. DEFINE t == Append(s, c)
            m == Len(s)
            one == 1
            two == 2
            three == 3
            own(x) == Cardinality(Among(s, Nat, OfExhibitor(E, x)))
<1>1. s \in Seq(E) /\ Capped(s, E, buyer, most) /\ m \in Nat
  BY DEF CappedLists
<1>2. one \in Nat /\ two \in Nat /\ three \in Nat
  OBVIOUS
<1>3. c.exhibitor # None =>
        own(c.exhibitor) < IF buyer \/ m + 1 <= 5 THEN 1 ELSE IF m + 1 <= 10 THEN 2 ELSE 3
  BY <1>1, CountsAre DEF HardCaps
<1>4. m + 1 <= 10 /\ "COLD_START_QUALITY" \in c.channels => Among(s, Nat, Newcomers(E)) = {}
  BY <1>1, CountsAre DEF HardCaps
<1>5. Explored(s) = Cardinality(Among(s, Nat, Explorers(E)))
  BY <1>1, CountsAre
<1>6. \A k \in Nat : m + 1 \in Top(k) <=> m + 1 <= k
  BY <1>1 DEF Top
<1>7. \A i, j \in DOMAIN t : t[i] = t[j] => i = j
  <2>1. \A i \in 1..m : s[i] # c
    BY <1>1 DEF ToSet
  <2>2. \A i, j \in 1..m : s[i] = s[j] => i = j
    BY <1>1 DEF Capped
  <2>3. /\ DOMAIN t = 1..(m + 1) /\ t[m + 1] = c
        /\ \A i \in 1..(m + 1) : i # m + 1 => i \in 1..m /\ t[i] = s[i]
    BY <1>1
  <2>. HIDE DEF t, m
  <2> QED
    BY <2>1, <2>2, <2>3
<1>8. ASSUME NEW x, x # None
      PROVE  /\ Cardinality(Among(t, Top(5), OfExhibitor(E, x))) <= 1
             /\ Cardinality(Among(t, Top(10), OfExhibitor(E, x))) <= 2
             /\ Cardinality(Among(t, Nat, OfExhibitor(E, x))) <= 3
             /\ buyer => Cardinality(Among(t, Nat, OfExhibitor(E, x))) <= 1
  <2>. DEFINE Q == OfExhibitor(E, x)
              n == Cardinality(Among(s, Nat, Q))
  <2>1. c \in Q => n < IF buyer \/ m + 1 <= 5 THEN 1 ELSE IF m + 1 <= 10 THEN 2 ELSE 3
    BY <1>3, <1>8 DEF OfExhibitor
  <2>2. /\ Cardinality(Among(s, Top(5), Q)) <= one /\ Cardinality(Among(s, Top(10), Q)) <= two
        /\ n <= three /\ (buyer => n <= one)
    BY <1>1, <1>8 DEF Capped
  <2>3. m + 1 \in Top(5) <=> m + 1 <= 5
    BY <1>6
  <2>4. m + 1 \in Top(10) <=> m + 1 <= 10
    BY <1>6
  <2>5. n \in Nat
    <3>. HIDE DEF m, one, two, three
    <3>1. DOMAIN s = 1..Len(s) /\ Len(s) \in Nat
      BY <1>1
    <3>2. IsFiniteSet(1..Len(s))
      BY <3>1, FirstNumbers
    <3>3. Among(s, Nat, Q) \subseteq 1..Len(s)
      BY <3>1 DEF Among
    <3> QED
      BY <3>2, <3>3, FS_Subset, FS_CardinalityType
  <2>6. m + 1 \in Top(5) /\ c \in Q => n < one
    BY <1>1, <2>1, <2>3, <2>5
  <2>7. m + 1 \in Top(10) /\ c \in Q => n < two
    BY <1>1, <2>1, <2>4, <2>5
  <2>8. c \in Q => n < three /\ (buyer => n < one)
    BY <1>1, <2>1, <2>5
  <2>. HIDE DEF Q, n, one, two, three
  <2>9. Cardinality(Among(t, Top(5), Q)) <= one
    BY <1>1, <1>2, <2>2, <2>6, CountAfter DEF n
  <2>10. Cardinality(Among(t, Top(10), Q)) <= two
    BY <1>1, <1>2, <2>2, <2>7, CountAfter DEF n
  <2>11. Cardinality(Among(t, Nat, Q)) <= three
    BY <1>1, <1>2, <2>2, <2>8, CountAfter DEF n
  <2>12. buyer => Cardinality(Among(t, Nat, Q)) <= one
    BY <1>1, <1>2, <2>2, <2>8, CountAfter DEF n
  <2> QED
    BY <2>9, <2>10, <2>11, <2>12 DEF Q, one, two, three
<1>9. Cardinality(Among(t, Top(10), Newcomers(E))) <= 1
  <2>. DEFINE Q == Newcomers(E)
              n == Cardinality(Among(s, Nat, Q))
  <2>1. Cardinality(Among(s, Top(10), Q)) <= one
    BY <1>1 DEF Capped
  <2>2. m + 1 \in Top(10) /\ c \in Q => n < one
    <3>1. Cardinality({}) = 0
      BY FS_EmptySet
    <3>2. m + 1 \in Top(10) => m + 1 <= 10
      BY <1>6
    <3>3. c \in Q => "COLD_START_QUALITY" \in c.channels
      BY DEF Newcomers
    <3>4. m + 1 \in Top(10) /\ c \in Q => n = 0
      <4>. DEFINE A == Among(s, Nat, Q)
      <4>1. m + 1 \in Top(10) /\ c \in Q => A = {}
        BY <1>4, <3>2, <3>3
      <4>. HIDE DEF A, Q
      <4> QED
        BY <3>1, <4>1 DEF A
    <3> QED
      BY <3>4
  <2>. HIDE DEF Q, n, one
  <2>3. Cardinality(Among(t, Top(10), Q)) <= one
    BY <1>1, <1>2, <2>1, <2>2, CountAfter DEF n
  <2> QED
    BY <2>3 DEF Q, one
<1>10. most > 0 => Cardinality(Among(t, Top(10), Explorers(E))) <= most
  <2>. SUFFICES ASSUME most > 0 PROVE Cardinality(Among(t, Top(10), Explorers(E))) <= most
    OBVIOUS
  <2>. DEFINE Q == Explorers(E)
              n == Cardinality(Among(s, Nat, Q))
  <2>1. Cardinality(Among(s, Top(10), Q)) <= most
    BY <1>1 DEF Capped
  <2>2. m + 1 \in Top(10) /\ c \in Q => n < most
    <3>1. m + 1 \in Top(10) => m < 10
      BY <1>1, <1>6
    <3> QED
      BY <1>5, <3>1 DEF Explorers
  <2>. HIDE DEF Q, n
  <2>3. Cardinality(Among(t, Top(10), Q)) <= most
    BY <1>1, <2>1, <2>2, CountAfter DEF n
  <2> QED
    BY <2>3 DEF Q
<1>11. t \in Seq(E)
  BY <1>1
<1> QED
  BY <1>7, <1>8, <1>9, <1>10, <1>11 DEF CappedLists, Capped

\* Among finitely many candidates there is a best one.
LEMMA BestExists ==
  ASSUME NEW S, IsFiniteSet(S), S # {}, NEW v, \A c \in S : v[c] \in Int,
         \A c \in S : c.score \in Int /\ c.id \in Int,
         \A c, d \in S : c.id = d.id => c = d
  PROVE  \E c \in S : \A d \in S \ {c} :
           \/ v[c] > v[d]
           \/ v[c] = v[d] /\ c.score > d.score
           \/ v[c] = v[d] /\ c.score = d.score /\ c.id > d.id
<1>. DEFINE before(c, d) == \/ v[c] > v[d]
                            \/ v[c] = v[d] /\ c.score > d.score
                            \/ v[c] = v[d] /\ c.score = d.score /\ c.id > d.id
            below == [d \in S |-> {c \in S : before(c, d)}]
<1>1. Orders(S, below)
  <2>1. \A c, d \in S : c \in below[d] <=> before(c, d)
    OBVIOUS
  <2>2. below \in [S -> SUBSET S]
    OBVIOUS
  <2>. HIDE DEF below
  <2>3. \A c \in S : c \notin below[c]
    BY <2>1
  <2>4. \A c, d \in S : c # d => c \in below[d] \/ d \in below[c]
    BY <2>1
  <2>5. ASSUME NEW c \in S, NEW d \in S, c \in below[d], NEW b \in below[c]
        PROVE  b \in below[d]
    <3>1. b \in S
      BY <2>2
    <3>2. before(b, c) /\ before(c, d)
      BY <2>1, <2>5, <3>1
    <3>. DEFINE x == v[b]
                y == v[c]
                z == v[d]
    <3>3. x \in Int /\ y \in Int /\ z \in Int
      BY <3>1
    <3>4. /\ b.score \in Int /\ b.id \in Int /\ c.score \in Int /\ c.id \in Int
          /\ d.score \in Int /\ d.id \in Int
      BY <3>1
    <3>5. before(b, d)
      <4>1. \/ x > y
            \/ x = y /\ b.score > c.score
            \/ x = y /\ b.score = c.score /\ b.id > c.id
        BY <3>2
      <4>2. \/ y > z
            \/ y = z /\ c.score > d.score
            \/ y = z /\ c.score = d.score /\ c.id > d.id
        BY <3>2
      <4>. HIDE DEF x, y, z
      <4>3. \/ x > z
            \/ x = z /\ b.score > d.score
            \/ x = z /\ b.score = d.score /\ b.id > d.id
        BY <3>3, <3>4, <4>1, <4>2
      <4> QED
        BY <4>3 DEF x, y, z
    <3> QED
      BY <2>1, <3>1, <3>5
  <2> QED
    BY <2>2, <2>3, <2>4, <2>5 DEF Orders
<1>2. \A d \in S : below[d] = {c \in S : before(c, d)}
  OBVIOUS
<1>. HIDE DEF below
<1>. DEFINE n == Cardinality(S)
            one == 1
<1>3. one \in 1..n
  <2>1. n \in Nat /\ n # 0
    BY FS_CardinalityType, FS_EmptySet
  <2>. HIDE DEF n
  <2> QED
    BY <2>1
<1>4. \E c \in S : Cardinality(below[c]) = one - 1
  <2>. HIDE DEF one
  <2> QED
    BY <1>1, <1>3, EveryRankTaken
<1>5. PICK c \in S : Cardinality(below[c]) = 0
  BY <1>4
<1>6. IsFiniteSet(below[c])
  BY <1>1, FS_Subset DEF Orders
<1>7. below[c] = {}
  BY <1>5, <1>6, FS_EmptySet
<1>8. \A d \in S \ {c} : c \in below[d]
  BY <1>1, <1>7 DEF Orders
<1> QED
  BY <1>2, <1>8

\* What the slate looks at in a candidate.
CardFields == {"id", "score", "exhibitor", "category", "regions", "price_band", "tastes", "type",
               "channels", "trust", "age", "novelty", "metres", "seen", "acted", "sponsored",
               "supply_approved", "master_approved", "operating", "participating"}

CardShape(c) ==
  /\ CardFields \subseteq DOMAIN c
  /\ c.id \in Int /\ c.score \in Int /\ c.novelty \in Int
  /\ c.trust \in Amount /\ c.metres \in Amount
  /\ IsFiniteSet(c.regions) /\ IsFiniteSet(c.tastes)

\* Candidates, no two of one identity.
CardsShape(E) ==
  /\ IsFiniteSet(E) /\ \A c \in E : CardShape(c)
  /\ \A c, d \in E : c.id = d.id => c = d

\* What was shown at the event, by exhibitor.
ExposureShape(shown) ==
  /\ IsFiniteSet(DOMAIN shown) /\ shown = [e \in DOMAIN shown |-> shown[e]]
  /\ \A e \in DOMAIN shown : shown[e] \in Nat

\* What is kept within bounds is a number.
LEMMA WithinType ==
  ASSUME NEW v \in Int, NEW lo \in Int, NEW hi \in Int
  PROVE  Within(v, lo, hi) \in Int
<1>. DEFINE m == Max({v, lo})
<1>1. m \in Int
  BY BetterOfTwo
<1>. HIDE DEF m
<1>2. Min({m, hi}) \in Int
  BY <1>1, BetterOfTwo
<1> QED
  BY <1>2 DEF Within, m

\* The likeness of two candidates is a number.
LEMMA SimilarityType ==
  ASSUME NEW a, CardShape(a), NEW b, CardShape(b)
  PROVE  Similarity(a, b) \in Int
<1>1. ASSUME NEW x, IsFiniteSet(x), NEW y, IsFiniteSet(y) PROVE Shared(x, y) \in Int
  <2>1. CASE x \cup y = {}
    BY <2>1 DEF Shared
  <2>2. CASE x \cup y # {}
    <3>. DEFINE u == Cardinality(x \cup y)
                v == Cardinality(x \cap y)
    <3>1. IsFiniteSet(x \cup y) /\ IsFiniteSet(x \cap y)
      BY <1>1, FS_Union, FS_Subset
    <3>2. u \in Nat /\ v \in Nat /\ u # 0
      BY <2>2, <3>1, FS_CardinalityType, FS_EmptySet
    <3>3. Shared(x, y) = (1000 * v) \div u
      BY <2>2 DEF Shared
    <3>. HIDE DEF u, v
    <3> QED
      BY <3>2, <3>3
  <2> QED
    BY <2>1, <2>2
<1>2. Shared(a.regions, b.regions) \in Int /\ Shared(a.tastes, b.tastes) \in Int
  BY <1>1 DEF CardShape
<1>. DEFINE p == Shared(a.regions, b.regions)
            q == Shared(a.tastes, b.tastes)
            same(f, points) == IF a[f] # None /\ a[f] = b[f] THEN points ELSE 0
            e == same("exhibitor", 350)
            g == same("category", 250)
            h == same("price_band", 100)
            i == same("type", 100)
<1>3. e \in Int /\ g \in Int /\ h \in Int /\ i \in Int
  OBVIOUS
<1>4. Similarity(a, b) = e + g + p \div 10 + h + q \div 10 + i
  BY DEF Similarity
<1>5. p \in Int /\ q \in Int
  BY <1>2
<1>. HIDE DEF p, q, e, g, h, i
<1> QED
  BY <1>3, <1>4, <1>5

LEMMA MaxSimilarityType ==
  ASSUME NEW E, CardsShape(E), NEW s \in Seq(E), NEW c \in E
  PROVE  MaxSimilarity(c, s) \in Int
<1>. DEFINE m == Len(s)
            D == 1..m
            f == [i \in D |-> Similarity(c, s[i])]
            A == {f[i] : i \in D}
            zero == 0
            S == A \cup {zero}
<1>1. m \in Nat /\ DOMAIN s = D /\ \A i \in D : s[i] \in E
  OBVIOUS
<1>2. IsFiniteSet(D)
  <2>. HIDE DEF m
  <2> QED
    BY <1>1, FirstNumbers
<1>3. MaxSimilarity(c, s) = Max(S)
  <2>1. S = {0} \cup {Similarity(c, s[i]) : i \in DOMAIN s}
    BY <1>1
  <2>. HIDE DEF S
  <2> QED
    BY <2>1 DEF MaxSimilarity
<1>4. \A i \in D : f[i] \in Int
  BY <1>1, SimilarityType DEF CardsShape
<1>5. f = [i \in D |-> f[i]]
  OBVIOUS
<1>. HIDE DEF f, D
<1>6. IsFiniteSet(A)
  BY <1>2, <1>5, ImageOf
<1>7. A \subseteq Int
  BY <1>4
<1>. HIDE DEF A
<1>8. IsFiniteSet(S) /\ S # {} /\ S \subseteq Int
  BY <1>6, <1>7, FS_AddElement
<1>. HIDE DEF S
<1>9. Max(S) \in Int
  BY <1>8, Extremes
<1> QED
  BY <1>3, <1>9

\* The share of an exhibitor in what was shown is a number.
LEMMA ActualShareType ==
  ASSUME NEW shown, ExposureShape(shown), NEW x
  PROVE  ActualShare(x, shown) \in Int
<1>. DEFINE D == DOMAIN shown
            total == SumFunction(shown)
            naught == 0
            none == [e \in D |-> naught]
<1>1. IsFiniteSet(D) /\ shown \in [D -> Int] /\ none \in [D -> Int] /\ naught \in Int
      /\ \A e \in D : none[e] <= shown[e] /\ none[e] = naught * shown[e]
  BY DEF ExposureShape
<1>. HIDE DEF D, none, naught
<1>2. total \in Int /\ SumFunction(none) <= total /\ SumFunction(none) = naught * total
  BY <1>1, SumType, SumMonotone, SumScaled
<1>3. total \in Nat
  BY <1>2 DEF naught
<1>4. CASE total = 0 \/ x \notin DOMAIN shown
  BY <1>4 DEF ActualShare
<1>5. CASE total # 0 /\ x \in DOMAIN shown
  <2>. DEFINE v == 1000 * shown[x]
  <2>1. v \in Int
    BY <1>5 DEF ExposureShape
  <2>2. ActualShare(x, shown) = v \div total
    BY <1>5 DEF ActualShare
  <2>. HIDE DEF v, total
  <2> QED
    BY <1>3, <1>5, <2>1, <2>2
<1> QED
  BY <1>4, <1>5

\* What exposure adds or takes away is a number.
LEMMA ExposureTypes ==
  ASSUME NEW shown, ExposureShape(shown), NEW E, CardsShape(E), NEW s \in Seq(E),
         NEW c, \E i \in DOMAIN s : s[i] = c
  PROVE  Fairness(c, s, shown) \in Int /\ Concentration(c, shown) \in Int
<1>. DEFINE share == ActualShare(c.exhibitor, shown)
            own == CountOf(s, LAMBDA d : d.exhibitor = c.exhibitor)
            owned == CountOf(s, LAMBDA d : d.exhibitor # None)
<1>1. share \in Int
  BY ActualShareType
<1>2. own \in Nat /\ owned \in Nat /\ (c.exhibitor # None => owned # 0)
  <2>. DEFINE A == {i \in DOMAIN s : s[i].exhibitor = c.exhibitor}
              B == {i \in DOMAIN s : s[i].exhibitor # None}
              m == Len(s)
  <2>1. own = Cardinality(A) /\ owned = Cardinality(B)
    BY DEF CountOf
  <2>2. m \in Nat /\ DOMAIN s = 1..m
    OBVIOUS
  <2>3. A \subseteq 1..m /\ B \subseteq 1..m /\ (c.exhibitor # None => B # {})
    BY <2>2
  <2>. HIDE DEF A, B, m
  <2>4. IsFiniteSet(1..m)
    BY <2>2, FirstNumbers
  <2>5. IsFiniteSet(A) /\ IsFiniteSet(B)
    BY <2>3, <2>4, FS_Subset
  <2> QED
    BY <2>1, <2>3, <2>5, FS_CardinalityType, FS_EmptySet
<1>3. Fairness(c, s, shown) \in Int
  <2>1. CASE c.exhibitor = None \/ \A e \in DOMAIN shown : shown[e] = 0
    BY <2>1 DEF Fairness
  <2>2. CASE ~(c.exhibitor = None \/ \A e \in DOMAIN shown : shown[e] = 0)
    <3>. DEFINE lo == -50
                hi == 50
                v == (1000 * own) \div owned - share
    <3>1. Fairness(c, s, shown) = Within(v, lo, hi)
      BY <2>2 DEF Fairness
    <3>2. lo \in Int /\ hi \in Int
      OBVIOUS
    <3>3. v \in Int
      <4>. HIDE DEF own, owned, share
      <4> QED
        BY <1>1, <1>2, <2>2
    <3>. HIDE DEF lo, hi, v
    <3> QED
      BY <3>1, <3>2, <3>3, WithinType
  <2> QED
    BY <2>1, <2>2
<1>4. Concentration(c, shown) \in Int
  <2>. DEFINE lo == 0
              hi == 50
              v == (50 * (share - 150)) \div 850
  <2>1. Concentration(c, shown) = IF share <= 150 THEN 0 ELSE Within(v, lo, hi)
    BY DEF Concentration
  <2>2. lo \in Int /\ hi \in Int
    OBVIOUS
  <2>3. v \in Int
    <3>. HIDE DEF share
    <3> QED
      BY <1>1
  <2>. HIDE DEF lo, hi, v, share
  <2>4. Within(v, lo, hi) \in Int
    BY <2>2, <2>3, WithinType
  <2> QED
    BY <2>1, <2>4
<1> QED
  BY <1>3, <1>4

\* The utility of a candidate is a number.
LEMMA MmrType ==
  ASSUME NEW shown, ExposureShape(shown), NEW E, CardsShape(E), NEW eligible \in Seq(E),
         NEW selected \in Seq(E), NEW c \in E, \E i \in DOMAIN eligible : eligible[i] = c,
         NEW slot, NEW p
  PROVE  Mmr(c, selected, slot, p, eligible, shown) \in Int
<1>. DEFINE fair == Fairness(c, eligible, shown)
            w == Lambda(p, slot)
            near == IF p.preference # "NEARBY_FIRST" \/ c.metres = None
                    THEN IF slot = "EXPLORATION" THEN ExplorationScore(c, fair) ELSE c.score + fair
                    ELSE (80 * (IF slot = "EXPLORATION" THEN ExplorationScore(c, fair) ELSE c.score + fair)
                            + 20 * (1000 - Min({1000, c.metres}))) \div 100
            sim == MaxSimilarity(c, selected)
            rep == RepeatPenalty(c)
            con == Concentration(c, shown)
<1>1. fair \in Int /\ con \in Int /\ sim \in Int /\ CardShape(c)
  BY ExposureTypes, MaxSimilarityType DEF CardsShape
<1>2. rep \in Int
  BY DEF RepeatPenalty
<1>3. w \in Int
  <2>. DEFINE base == IF slot = "EXPLORATION" THEN 65 ELSE IF p.buyer THEN 85 ELSE 80
              lo == 55
              hi == 95
              v == CASE p.preference = "ACCURACY_FIRST" -> base + 10
                     [] p.preference = "DIVERSE" -> base - 15
                     [] p.preference = "NEW_DISCOVERY" /\ slot = "EXPLORATION" -> 70
                     [] OTHER -> base
  <2>1. base \in Int /\ lo \in Int /\ hi \in Int
    OBVIOUS
  <2>2. w = Within(v, lo, hi)
    BY DEF Lambda
  <2>. HIDE DEF base
  <2>3. v \in Int
    BY <2>1
  <2>. HIDE DEF v, lo, hi, w
  <2> QED
    BY <2>1, <2>2, <2>3, WithinType
<1>4. ExplorationScore(c, fair) \in Int
  <2>. DEFINE zero == 0
              f == Max({fair, zero})
              t == IF c.trust = None THEN 0 ELSE c.trust
              a == 55 * c.score + 20 * t + 15 * c.novelty + 10 * 20 * f
  <2>1. zero \in Int
    OBVIOUS
  <2>2. ExplorationScore(c, fair) = a \div 100
    BY DEF ExplorationScore
  <2>3. f \in Int
    <3>1. fair \in Int
      BY <1>1
    <3>. HIDE DEF zero, fair
    <3>2. Max({fair, zero}) = IF fair >= zero THEN fair ELSE zero
      BY <2>1, <3>1, BetterOfTwo
    <3> QED
      BY <2>1, <3>1, <3>2
  <2>4. t \in Int /\ c.score \in Int /\ c.novelty \in Int
    BY <1>1 DEF CardShape, Amount
  <2>. HIDE DEF f, t
  <2>5. a \in Int
    <3>1. 55 * c.score \in Int /\ 15 * c.novelty \in Int /\ 20 * t \in Int /\ 10 * 20 * f \in Int
      BY <2>3, <2>4
    <3> QED
      BY <3>1
  <2>. HIDE DEF a
  <2> QED
    BY <2>2, <2>5
<1>5. near \in Int
  <2>. DEFINE raw == IF slot = "EXPLORATION" THEN ExplorationScore(c, fair) ELSE c.score + fair
  <2>1. raw \in Int
    <3>1. c.score \in Int
      BY <1>1 DEF CardShape
    <3>. HIDE DEF fair
    <3> QED
      BY <1>1, <1>4, <3>1
  <2>2. CASE p.preference # "NEARBY_FIRST" \/ c.metres = None
    BY <2>1, <2>2
  <2>3. CASE ~(p.preference # "NEARBY_FIRST" \/ c.metres = None)
    <3>. DEFINE far == 1000
                m == Min({far, c.metres})
    <3>1. far \in Int /\ c.metres \in Int
      BY <1>1, <2>3 DEF CardShape, Amount
    <3>2. near = (80 * raw + 20 * (1000 - m)) \div 100
      BY <2>3
    <3>3. m \in Int
      <4>. DEFINE metres == c.metres
      <4>1. metres \in Int
        BY <3>1
      <4>. HIDE DEF far, metres
      <4>2. Min({far, metres}) = IF far <= metres THEN far ELSE metres
        BY <3>1, <4>1, BetterOfTwo
      <4>3. Min({far, metres}) \in Int
        BY <3>1, <4>1, <4>2
      <4> QED
        BY <4>3 DEF metres
    <3>. HIDE DEF raw, m, near
    <3> QED
      BY <2>1, <3>2, <3>3
  <2> QED
    BY <2>2, <2>3
<1>6. Mmr(c, selected, slot, p, eligible, shown) = w * (near - rep - con) - (100 - w) * sim
  BY DEF Mmr
<1>. HIDE DEF fair, w, near, sim, rep, con
<1> QED
  BY <1>1, <1>2, <1>3, <1>5, <1>6

\* What a list holds is counted by a number.
LEMMA CountType ==
  ASSUME NEW E, NEW s \in Seq(E), NEW K, NEW Q
  PROVE  /\ IsFiniteSet(Among(s, K, Q)) /\ Cardinality(Among(s, K, Q)) \in Nat
         /\ DOMAIN s = 1..Len(s) /\ Len(s) \in Nat
<1>1. DOMAIN s = 1..Len(s) /\ Len(s) \in Nat
  OBVIOUS
<1>2. IsFiniteSet(1..Len(s))
  BY <1>1, FirstNumbers
<1>3. Among(s, K, Q) \subseteq 1..Len(s)
  BY <1>1 DEF Among
<1> QED
  BY <1>1, <1>2, <1>3, FS_Subset, FS_CardinalityType

\* The slots of a kind, so many times.
LEMMA SlotsRepeated ==
  ASSUME NEW n \in Int, NEW x
  PROVE  [i \in 1..n |-> x] \in Seq({x})
<1>1. CASE n < 0
  <2>1. 1..n = 1..0
    BY <1>1
  <2>2. [i \in 1..0 |-> x] \in Seq({x})
    OBVIOUS
  <2> QED
    BY <2>1, <2>2
<1>2. CASE n >= 0
  <2>1. n \in Nat
    BY <1>2
  <2>2. [i \in 1..n |-> x] \in [1..n -> {x}]
    OBVIOUS
  <2> QED
    BY <2>1, <2>2, LengthOf
<1> QED
  BY <1>1, <1>2

\* What a plan is made of.
SlotKinds == {"CORE", "CONDITIONAL", "DIVERSITY", "EXPLORATION"}

LEMMA SlotsType ==
  ASSUME NEW a \in Int, NEW b \in Int, NEW c \in Int, NEW d \in Int
  PROVE  Slots(a, b, c, d) \in Seq(SlotKinds)
<1>1. \A x \in SlotKinds : \A n \in Int : [i \in 1..n |-> x] \in Seq(SlotKinds)
  <2>. SUFFICES ASSUME NEW x \in SlotKinds, NEW n \in Int
                PROVE  [i \in 1..n |-> x] \in Seq(SlotKinds)
    OBVIOUS
  <2>1. [i \in 1..n |-> x] \in Seq({x})
    BY SlotsRepeated
  <2>2. {x} \subseteq SlotKinds
    OBVIOUS
  <2> QED
    BY <2>1, <2>2
<1>. DEFINE e == [i \in 1..a |-> "CORE"]
            f == [i \in 1..b |-> "CONDITIONAL"]
            g == [i \in 1..c |-> "DIVERSITY"]
            h == [i \in 1..d |-> "EXPLORATION"]
<1>2. e \in Seq(SlotKinds)
  BY <1>1 DEF SlotKinds
<1>3. f \in Seq(SlotKinds)
  BY <1>1 DEF SlotKinds
<1>4. g \in Seq(SlotKinds)
  BY <1>1 DEF SlotKinds
<1>5. h \in Seq(SlotKinds)
  BY <1>1 DEF SlotKinds
<1>6. Slots(a, b, c, d) = e \o f \o g \o h
  BY DEF Slots
<1>. HIDE DEF e, f, g, h
<1> QED
  BY <1>2, <1>3, <1>4, <1>5, <1>6

\* A plan is a list of slots.
LEMMA PlanType ==
  ASSUME NEW limit \in Nat, NEW ratio \in Nat \cup {None}
  PROVE  SlotPlan(limit, ratio) \in Seq(SlotKinds)
<1>. DEFINE zero == 0
            one == 1
            two == 2
            three == 3
            six == 6
            rest == limit - 10
            conditional == IF limit >= 4 THEN 1 ELSE 0
            diversity == IF limit >= 6 THEN 1 ELSE 0
            part == Min({three, Rounded(limit, ratio)})
            asked == IF ratio = None THEN IF limit >= 5 THEN 1 ELSE 0
                     ELSE IF limit >= 5 /\ ratio > 0 THEN Max({one, part}) ELSE part
            core == Max({zero, limit - asked - conditional - diversity})
<1>1. SlotPlan(limit, ratio) =
        IF ratio = None /\ limit >= 10 THEN Slots(six, two, one, one) \o Slots(rest, zero, zero, zero)
        ELSE IF ratio = None /\ limit <= 2 THEN Slots(limit, zero, zero, zero)
        ELSE Slots(core, conditional, diversity, asked)
  BY DEF SlotPlan
<1>2. /\ zero \in Int /\ one \in Int /\ two \in Int /\ three \in Int /\ six \in Int
      /\ rest \in Int /\ conditional \in Int /\ diversity \in Int /\ limit \in Int
  OBVIOUS
<1>3. ratio # None => Rounded(limit, ratio) \in Int
  <2>1. CASE ratio = None
    BY <2>1
  <2>2. CASE ratio # None
    <3>. DEFINE v == limit * ratio
                down == v \div 1000
                left == v % 1000
    <3>1. v \in Int
      BY <2>2
    <3>2. Rounded(limit, ratio) = IF left > 500 \/ (left = 500 /\ down % 2 = 1) THEN down + 1 ELSE down
      BY DEF Rounded
    <3>. HIDE DEF v
    <3>3. down \in Int
      BY <3>1
    <3>. HIDE DEF down, left
    <3> QED
      BY <3>2, <3>3
  <2> QED
    BY <2>1, <2>2
<1>. HIDE DEF zero, one, two, three, six, rest, conditional, diversity
<1>4. ratio # None => part \in Int
  <2>. SUFFICES ASSUME ratio # None PROVE part \in Int
    OBVIOUS
  <2>. DEFINE r == Rounded(limit, ratio)
  <2>1. r \in Int /\ three \in Int
    BY <1>2, <1>3
  <2>. HIDE DEF r
  <2>2. Min({three, r}) = IF three <= r THEN three ELSE r
    BY <2>1, BetterOfTwo
  <2>3. Min({three, r}) \in Int
    BY <2>1, <2>2
  <2> QED
    BY <2>3 DEF r, part
<1>. HIDE DEF part
<1>5. ratio # None => Max({one, part}) \in Int
  <2>. SUFFICES ASSUME ratio # None PROVE Max({one, part}) \in Int
    OBVIOUS
  <2>1. part \in Int /\ one \in Int
    BY <1>2, <1>4
  <2>2. Max({one, part}) = IF one >= part THEN one ELSE part
    BY <2>1, BetterOfTwo
  <2> QED
    BY <2>1, <2>2
<1>6. asked \in Int
  BY <1>4, <1>5
<1>. HIDE DEF asked
<1>. DEFINE left == limit - asked - conditional - diversity
<1>7. left \in Int
  BY <1>2, <1>6
<1>. HIDE DEF left
<1>8. Max({zero, left}) \in Int
  BY <1>2, <1>7, BetterOfTwo
<1>9. core \in Int
  BY <1>8 DEF left
<1>. HIDE DEF core
<1>10. Slots(core, conditional, diversity, asked) \in Seq(SlotKinds)
  BY <1>2, <1>6, <1>9, SlotsType
<1>11. Slots(limit, zero, zero, zero) \in Seq(SlotKinds)
  BY <1>2, SlotsType
<1>12. Slots(six, two, one, one) \in Seq(SlotKinds) /\ Slots(rest, zero, zero, zero) \in Seq(SlotKinds)
  BY <1>2, SlotsType
<1>. DEFINE A == Slots(six, two, one, one)
            B == Slots(rest, zero, zero, zero)
<1>13. A \o B \in Seq(SlotKinds)
  <2>1. A \in Seq(SlotKinds) /\ B \in Seq(SlotKinds)
    BY <1>12
  <2>. HIDE DEF A, B
  <2> QED
    BY <2>1
<1> QED
  BY <1>1, <1>10, <1>11, <1>13

\* A plan keeps a number of slots to explore.
LEMMA ExplorationSlotsType ==
  ASSUME NEW plan \in Seq(SlotKinds)
  PROVE  ExplorationSlots(plan) \in Nat /\ IsFiniteSet(DOMAIN plan) /\ DOMAIN plan \subseteq Int
<1>. DEFINE A == {i \in DOMAIN plan : plan[i] = "EXPLORATION"}
            m == Len(plan)
<1>1. DOMAIN plan = 1..m /\ m \in Nat
  OBVIOUS
<1>. HIDE DEF m
<1>2. IsFiniteSet(DOMAIN plan) /\ DOMAIN plan \subseteq Int
  BY <1>1, FirstNumbers
<1>3. Cardinality(A) \in Nat
  BY <1>2, FS_Subset, FS_CardinalityType
<1> QED
  BY <1>2, <1>3 DEF ExplorationSlots, CountOf

\* A list under construction.
Drafts(E, buyer, most) == [selected : CappedLists(E, buyer, most), stopped : BOOLEAN]

\* Filling a slot keeps the caps: the card is one that no cap forbids, whichever
\* fallback found it.
LEMMA FillKeepsCaps ==
  ASSUME NEW E, CardsShape(E), NEW eligible \in Seq(E), NEW shown, ExposureShape(shown),
         NEW p, p.buyer \in BOOLEAN, NEW plan \in Seq(SlotKinds), NEW i \in DOMAIN plan,
         NEW state \in Drafts(E, p.buyer, ExplorationSlots(plan))
  PROVE  FillSlot(state, i, plan, eligible, p, shown) \in Drafts(E, p.buyer, ExplorationSlots(plan))
<1>. DEFINE selected == state.selected
            available == {c \in ToSet(eligible) : c \notin ToSet(selected)}
            pool(slot, relax) == {c \in available : PassesSlot(c, slot) /\ CanTake(c, selected, p, relax)}
            own == IF pool(plan[i], FALSE) # {} THEN pool(plan[i], FALSE) ELSE pool(plan[i], TRUE)
            slot == IF own # {} THEN plan[i] ELSE "DIVERSITY"
            wide == IF own # {} THEN own
                    ELSE IF pool("DIVERSITY", FALSE) # {} THEN pool("DIVERSITY", FALSE)
                    ELSE pool("DIVERSITY", TRUE)
            most == ExplorationSlots(plan)
            reserved == /\ plan[i] # "EXPLORATION"
                        /\ \E j \in (i + 1)..Len(plan) : plan[j] = "EXPLORATION"
            limited == most > 0 /\ Len(selected) < 10 /\ Explored(selected) >= most
            left == {c \in wide : (reserved \/ limited) => ~IsExploration(c)}
            value(c) == Mmr(c, selected, slot, p, eligible, shown)
            best == CHOOSE c \in left : \A d \in left \ {c} :
                      \/ value(c) > value(d)
                      \/ value(c) = value(d) /\ c.score > d.score
                      \/ value(c) = value(d) /\ c.score = d.score /\ c.id > d.id
<1>1. FillSlot(state, i, plan, eligible, p, shown) =
        IF state.stopped THEN state
        ELSE IF left = {} THEN [state EXCEPT !.stopped = ~reserved]
        ELSE [state EXCEPT !.selected = Append(@, best)]
  BY DEF FillSlot
<1>2. /\ selected \in CappedLists(E, p.buyer, most) /\ state.stopped \in BOOLEAN
      /\ state = [selected |-> selected, stopped |-> state.stopped]
  BY DEF Drafts
<1>3. \A s, r : \A c \in pool(s, r) : /\ c \in ToSet(eligible) /\ c \notin ToSet(selected)
                                      /\ HardCaps(c, selected, p.buyer, r)
  BY DEF CanTake
<1>. HIDE DEF pool
<1>4. \A c \in wide : /\ c \in ToSet(eligible) /\ c \notin ToSet(selected)
                      /\ \E r : HardCaps(c, selected, p.buyer, r)
  <2>1. \E s, r : wide = pool(s, r)
    OBVIOUS
  <2>. HIDE DEF wide
  <2> QED
    BY <1>3, <2>1
<1>. HIDE DEF wide, own
<1>5. \A c \in left : /\ c \in wide /\ (limited => ~IsExploration(c))
  OBVIOUS
<1>6. ASSUME left # {} PROVE best \in left
  <2>. DEFINE v == [c \in left |-> value(c)]
  <2>1. left \subseteq ToSet(eligible)
    BY <1>4, <1>5
  <2>. HIDE DEF left
  <2>2. \A c \in left : c \in E /\ \E j \in DOMAIN eligible : eligible[j] = c
    BY <2>1 DEF ToSet
  <2>3. IsFiniteSet(left)
    <3>1. left \subseteq E
      BY <2>2
    <3> QED
      BY <3>1, FS_Subset DEF CardsShape
  <2>4. selected \in Seq(E)
    BY <1>2 DEF CappedLists
  <2>. HIDE DEF selected, slot
  <2>5. \A c \in left : value(c) \in Int
    BY <2>2, <2>4, MmrType
  <2>. HIDE DEF value
  <2>6. \A c \in left : c.score \in Int /\ c.id \in Int
    BY <2>2 DEF CardsShape, CardShape
  <2>7. \A c, d \in left : c.id = d.id => c = d
    BY <2>2 DEF CardsShape
  <2>8. \A c \in left : v[c] \in Int /\ v[c] = value(c)
    BY <2>5
  <2>. HIDE DEF v
  <2>9. \E c \in left : \A d \in left \ {c} :
          \/ v[c] > v[d]
          \/ v[c] = v[d] /\ c.score > d.score
          \/ v[c] = v[d] /\ c.score = d.score /\ c.id > d.id
    BY <1>6, <2>3, <2>6, <2>7, <2>8, BestExists
  <2>10. \E c \in left : \A d \in left \ {c} :
           \/ value(c) > value(d)
           \/ value(c) = value(d) /\ c.score > d.score
           \/ value(c) = value(d) /\ c.score = d.score /\ c.id > d.id
    BY <2>8, <2>9
  <2> QED
    BY <2>10
<1>. HIDE DEF best
<1>7. CASE state.stopped
  BY <1>1, <1>7
<1>8. CASE ~state.stopped /\ left = {}
  <2>1. FillSlot(state, i, plan, eligible, p, shown) = [state EXCEPT !.stopped = ~reserved]
    BY <1>1, <1>8
  <2>2. (~reserved) \in BOOLEAN
    OBVIOUS
  <2>. HIDE DEF reserved
  <2> QED
    BY <1>2, <2>1, <2>2 DEF Drafts
<1>9. CASE ~state.stopped /\ left # {}
  <2>1. FillSlot(state, i, plan, eligible, p, shown) = [state EXCEPT !.selected = Append(selected, best)]
    BY <1>1, <1>9
  <2>2. best \in wide /\ (limited => ~IsExploration(best))
    BY <1>5, <1>6, <1>9
  <2>3. PICK r : HardCaps(best, selected, p.buyer, r)
    BY <1>4, <2>2
  <2>4. best \notin ToSet(selected) /\ best \in E
    <3>1. best \in ToSet(eligible) /\ best \notin ToSet(selected)
      BY <1>4, <2>2
    <3> QED
      BY <3>1 DEF ToSet
  <2>5. most \in Nat
    BY ExplorationSlotsType
  <2>6. Explored(selected) \in Nat
    <3>1. selected \in Seq(E)
      BY <1>2 DEF CappedLists
    <3>. HIDE DEF selected
    <3>2. Explored(selected) = Cardinality(Among(selected, Nat, Explorers(E)))
      BY <3>1, CountsAre
    <3> QED
      BY <3>1, <3>2, CountType
  <2>. HIDE DEF most
  <2>7. most > 0 /\ Len(selected) < 10 /\ IsExploration(best) => Explored(selected) < most
    <3>1. most > 0 /\ Len(selected) < 10 /\ IsExploration(best) => ~(Explored(selected) >= most)
      BY <2>2
    <3> QED
      BY <2>5, <2>6, <3>1
  <2>. HIDE DEF selected
  <2>8. Append(selected, best) \in CappedLists(E, p.buyer, most)
    BY <1>2, <2>3, <2>4, <2>5, <2>7, AppendKeepsCaps
  <2>. DEFINE t == Append(selected, best)
  <2>9. t \in CappedLists(E, p.buyer, most)
    BY <2>8
  <2>. HIDE DEF t
  <2>10. [state EXCEPT !.selected = t] \in [selected : CappedLists(E, p.buyer, most), stopped : BOOLEAN]
    BY <1>2, <2>9
  <2> QED
    BY <2>1, <2>10 DEF Drafts, t, most
<1> QED
  BY <1>7, <1>8, <1>9

\* The plan filled slot by slot is a list within the caps.
LEMMA FilledWithinCaps ==
  ASSUME NEW E, CardsShape(E), NEW eligible \in Seq(E), NEW shown, ExposureShape(shown),
         NEW p, p.buyer \in BOOLEAN, NEW plan \in Seq(SlotKinds)
  PROVE  Filled(plan, eligible, p, shown) \in CappedLists(E, p.buyer, ExplorationSlots(plan))
<1>. DEFINE D == DOMAIN plan
            V == Drafts(E, p.buyer, ExplorationSlots(plan))
            op(s, i) == FillSlot(s, i, plan, eligible, p, shown)
            base == [selected |-> << >>, stopped |-> FALSE]
            places == [i \in D |-> i]
            F == [q \in V \X D |-> op(q[1], q[2])]
            Eq(g) == g = [s \in SUBSET D |-> IF s = {} THEN base
                                             ELSE op(g[s \ {Max(s)}], places[Max(s)])]
            k == CHOOSE g : Eq(g)
<1>1. IsFiniteSet(D) /\ D \subseteq Int /\ ExplorationSlots(plan) \in Nat
  BY ExplorationSlotsType
<1>2. base \in V
  <2>1. << >> \in CappedLists(E, p.buyer, ExplorationSlots(plan))
    BY <1>1, NothingCapped
  <2> QED
    BY <2>1 DEF Drafts
<1>3. \A s \in V : \A i \in D : op(s, i) \in V
  BY FillKeepsCaps
<1>4. Filled(plan, eligible, p, shown) = k[D].selected
  BY DEF Filled, FoldLeft, MapThenFoldSet
<1>5. \A i \in D : places[i] = i
  OBVIOUS
<1>. HIDE DEF D, V, op, base, places
<1>6. F \in [V \X D -> V] /\ \A v \in V : \A i \in D : F[<<v, i>>] = op(v, i)
  BY <1>3
<1>. HIDE DEF F
<1>7. PICK h : Folds(h, D, V, base, F)
  BY <1>1, <1>2, <1>6, FoldExists
<1>. h \in [SUBSET D -> V]
     /\ \A s \in SUBSET D : h[s] = IF s = {} THEN base ELSE F[<<h[s \ {Max(s)}], Max(s)>>]
  BY <1>7 DEF Folds
<1>8. \A s \in SUBSET D : s # {} => Max(s) \in D
  <2>. SUFFICES ASSUME NEW s \in SUBSET D, s # {} PROVE Max(s) \in D
    OBVIOUS
  <2>1. IsFiniteSet(s)
    BY <1>1, FS_Subset
  <2>2. Max(s) \in s
    BY <1>1, <2>1, Extremes
  <2> QED
    BY <2>2
<1>9. Eq(h)
  <2>1. ASSUME NEW s \in SUBSET D
        PROVE  h[s] = IF s = {} THEN base ELSE op(h[s \ {Max(s)}], places[Max(s)])
    <3>1. CASE s = {}
      BY <1>7, <3>1
    <3>2. CASE s # {}
      <4>. DEFINE m == Max(s)
                  u == s \ {m}
      <4>1. m \in D /\ u \in SUBSET D
        BY <1>8, <3>2
      <4>2. h[s] = F[<<h[u], m>>]
        BY <1>7, <3>2
      <4>. HIDE DEF m, u
      <4>3. h[s] = op(h[u], places[m])
        BY <1>5, <1>6, <4>1, <4>2
      <4> QED
        BY <3>2, <4>3 DEF u, m
    <3> QED
      BY <3>1, <3>2
  <2> QED
    BY <2>1
<1>10. Eq(k)
  <2>. HIDE DEF Eq
  <2> QED
    BY <1>9
<1>. HIDE DEF k
<1>11. /\ k[{}] = base
       /\ \A s \in SUBSET D : s # {} => k[s] = op(k[s \ {Max(s)}], places[Max(s)])
  BY <1>10
<1>12. k[D] \in V
  <2>1. ASSUME NEW s \in SUBSET D, s # {}, k[s \ {Max(s)}] \in V PROVE k[s] \in V
    <3>. DEFINE m == Max(s)
                v == k[s \ {Max(s)}]
    <3>1. m \in D /\ v \in V /\ k[s] = op(v, places[m])
      BY <1>8, <1>11, <2>1
    <3>. HIDE DEF m, v
    <3> QED
      BY <1>3, <1>5, <3>1
  <2> QED
    BY <1>1, <1>2, <1>11, <2>1, FoldWithin
<1> QED
  BY <1>4, <1>12 DEF V, Drafts

\* So is what a pass of the reconstruction makes of such a list.
LEMMA PassWithinCaps ==
  ASSUME NEW E, NEW eligible \in Seq(E), NEW p, p.buyer \in BOOLEAN, NEW limit, NEW most \in Nat,
         NEW relax, NEW first \in CappedLists(E, p.buyer, most)
  PROVE  Pass(eligible, limit, most, p, relax, first) \in CappedLists(E, p.buyer, most)
<1>. DEFINE D == DOMAIN eligible
            V == CappedLists(E, p.buyer, most)
            op(s, c) == Reconsider(s, c, limit, most, p, relax)
            F == [q \in V \X D |-> op(q[1], eligible[q[2]])]
            Eq(g) == g = [s \in SUBSET D |-> IF s = {} THEN first
                                             ELSE op(g[s \ {Max(s)}], eligible[Max(s)])]
            k == CHOOSE g : Eq(g)
            n == Len(eligible)
<1>1. IsFiniteSet(D) /\ D \subseteq Int
  <2>1. n \in Nat /\ D = 1..n
    OBVIOUS
  <2>. HIDE DEF n, D
  <2> QED
    BY <2>1, FirstNumbers
<1>2. \A s \in V : \A i \in D : op(s, eligible[i]) \in V
  <2>. SUFFICES ASSUME NEW s \in V, NEW i \in D PROVE op(s, eligible[i]) \in V
    OBVIOUS
  <2>. DEFINE c == eligible[i]
              skip == \/ Len(s) >= limit \/ c \in ToSet(s)
                      \/ Len(s) < 10 /\ IsExploration(c) /\ Explored(s) >= most
                      \/ ~CanTake(c, s, p, relax)
  <2>1. op(s, c) = IF skip THEN s ELSE Append(s, c)
    BY DEF Reconsider
  <2>2. CASE skip
    BY <2>1, <2>2
  <2>3. CASE ~skip
    <3>1. /\ c \notin ToSet(s) /\ CanTake(c, s, p, relax)
          /\ (Len(s) < 10 /\ IsExploration(c) => ~(Explored(s) >= most))
      BY <2>3
    <3>2. HardCaps(c, s, p.buyer, relax) /\ c \in E
      BY <3>1 DEF CanTake
    <3>3. Explored(s) \in Nat
      <4>1. s \in Seq(E)
        BY DEF CappedLists
      <4>2. Explored(s) = Cardinality(Among(s, Nat, Explorers(E)))
        BY <4>1, CountsAre
      <4> QED
        BY <4>1, <4>2, CountType
    <3>4. most > 0 /\ Len(s) < 10 /\ IsExploration(c) => Explored(s) < most
      BY <3>1, <3>3
    <3>. HIDE DEF c
    <3>5. Append(s, c) \in V
      BY <3>1, <3>2, <3>4, AppendKeepsCaps
    <3> QED
      BY <2>1, <2>3, <3>5 DEF c
  <2> QED
    BY <2>2, <2>3
<1>3. Pass(eligible, limit, most, p, relax, first) = k[D]
  BY DEF Pass, FoldLeft, MapThenFoldSet
<1>4. first \in V
  OBVIOUS
<1>. HIDE DEF D, V, op
<1>5. F \in [V \X D -> V] /\ \A v \in V : \A i \in D : F[<<v, i>>] = op(v, eligible[i])
  BY <1>2
<1>. HIDE DEF F
<1>6. PICK h : Folds(h, D, V, first, F)
  BY <1>1, <1>4, <1>5, FoldExists
<1>. h \in [SUBSET D -> V]
     /\ \A s \in SUBSET D : h[s] = IF s = {} THEN first ELSE F[<<h[s \ {Max(s)}], Max(s)>>]
  BY <1>6 DEF Folds
<1>7. \A s \in SUBSET D : s # {} => Max(s) \in D
  <2>. SUFFICES ASSUME NEW s \in SUBSET D, s # {} PROVE Max(s) \in D
    OBVIOUS
  <2>1. IsFiniteSet(s)
    BY <1>1, FS_Subset
  <2>2. Max(s) \in s
    BY <1>1, <2>1, Extremes
  <2> QED
    BY <2>2
<1>8. Eq(h)
  <2>1. ASSUME NEW s \in SUBSET D
        PROVE  h[s] = IF s = {} THEN first ELSE op(h[s \ {Max(s)}], eligible[Max(s)])
    <3>1. CASE s = {}
      BY <1>6, <3>1
    <3>2. CASE s # {}
      <4>. DEFINE m == Max(s)
                  u == s \ {m}
      <4>1. m \in D /\ u \in SUBSET D
        BY <1>7, <3>2
      <4>2. h[s] = F[<<h[u], m>>]
        BY <1>6, <3>2
      <4>. HIDE DEF m, u
      <4>3. h[s] = op(h[u], eligible[m])
        BY <1>5, <4>1, <4>2
      <4> QED
        BY <3>2, <4>3 DEF u, m
    <3> QED
      BY <3>1, <3>2
  <2> QED
    BY <2>1
<1>9. Eq(k)
  <2>. HIDE DEF Eq
  <2> QED
    BY <1>8
<1>. HIDE DEF k
<1>10. /\ k[{}] = first
       /\ \A s \in SUBSET D : s # {} => k[s] = op(k[s \ {Max(s)}], eligible[Max(s)])
  BY <1>9
<1>11. k[D] \in V
  <2>1. ASSUME NEW s \in SUBSET D, s # {}, k[s \ {Max(s)}] \in V PROVE k[s] \in V
    <3>. DEFINE m == Max(s)
                v == k[s \ {Max(s)}]
    <3>1. m \in D /\ v \in V /\ k[s] = op(v, eligible[m])
      BY <1>7, <1>10, <2>1
    <3>. HIDE DEF m, v
    <3> QED
      BY <1>2, <3>1
  <2> QED
    BY <1>1, <1>4, <1>10, <2>1, FoldWithin
<1> QED
  BY <1>3, <1>11 DEF V

\* The reconstruction is within the caps.
LEMMA ReconstructionWithinCaps ==
  ASSUME NEW E, NEW eligible \in Seq(E), NEW p, p.buyer \in BOOLEAN, NEW limit, NEW most \in Nat
  PROVE  RelevanceFirst(eligible, limit, most, p) \in CappedLists(E, p.buyer, most)
<1>. DEFINE no == FALSE
            yes == TRUE
            none == << >>
            strict == Pass(eligible, limit, most, p, no, none)
<1>1. none \in CappedLists(E, p.buyer, most)
  BY NothingCapped
<1>3. RelevanceFirst(eligible, limit, most, p) = Pass(eligible, limit, most, p, yes, strict)
  BY DEF RelevanceFirst, Pass
<1>. HIDE DEF no, yes, none
<1>2. strict \in CappedLists(E, p.buyer, most)
  BY <1>1, PassWithinCaps
<1>. HIDE DEF strict
<1>4. Pass(eligible, limit, most, p, yes, strict) \in CappedLists(E, p.buyer, most)
  BY <1>2, PassWithinCaps
<1> QED
  BY <1>3, <1>4

\* The order of relevance: what is above each candidate.
Above(E) == [d \in E |-> {c \in E : c.score > d.score \/ (c.score = d.score /\ c.id < d.id)}]

LEMMA RelevanceOrders ==
  ASSUME NEW E, CardsShape(E)
  PROVE  Orders(E, Above(E))
<1>. DEFINE before(c, d) == c.score > d.score \/ (c.score = d.score /\ c.id < d.id)
            below == Above(E)
<1>1. \A c, d \in E : c \in below[d] <=> before(c, d)
  BY DEF Above
<1>2. below \in [E -> SUBSET E]
  BY DEF Above
<1>3. /\ \A c \in E : c.score \in Int /\ c.id \in Int
      /\ \A c, d \in E : c.id = d.id => c = d
  BY DEF CardsShape, CardShape
<1>. HIDE DEF below
<1>4. \A c \in E : c \notin below[c]
  BY <1>1, <1>3
<1>5. \A c, d \in E : c # d => c \in below[d] \/ d \in below[c]
  BY <1>1, <1>3
<1>6. ASSUME NEW c \in E, NEW d \in E, c \in below[d], NEW b \in below[c] PROVE b \in below[d]
  <2>1. b \in E
    BY <1>2
  <2>2. before(b, c) /\ before(c, d)
    BY <1>1, <1>6, <2>1
  <2>3. before(b, d)
    BY <1>3, <2>1, <2>2
  <2> QED
    BY <1>1, <2>1, <2>3
<1> QED
  BY <1>2, <1>4, <1>5, <1>6 DEF Orders, below

\* The candidates in the order of relevance are all there, each once.
LEMMA RelevanceListed ==
  ASSUME NEW E, CardsShape(E), NEW order, order = ByRelevance(E)
  PROVE  /\ order \in Seq(E) /\ Len(order) = Cardinality(E) /\ Cardinality(E) \in Nat
         /\ \A c \in E : \E i \in DOMAIN order : order[i] = c
         /\ \A i, j \in DOMAIN order : order[i] = order[j] => i = j
<1>. DEFINE before(c, d) == c.score > d.score \/ (c.score = d.score /\ c.id < d.id)
            below == Above(E)
            e(k) == CHOOSE x \in E : Cardinality({y \in E : before(y, x)}) = k - 1
            m == Cardinality(E)
<1>1. Orders(E, below) /\ IsFiniteSet(E)
  BY RelevanceOrders DEF CardsShape
<1>2. \A x \in E : below[x] = {y \in E : before(y, x)}
  BY DEF Above
<1>3. order = [k \in 1..m |-> e(k)]
  BY DEF ByRelevance, Arranged
<1>. HIDE DEF below, m, before
<1>4. \A k : (\E x \in E : Cardinality(below[x]) = k - 1) => e(k) \in E /\ Cardinality(below[e(k)]) = k - 1
  <2>. SUFFICES ASSUME NEW k, \E x \in E : Cardinality(below[x]) = k - 1
                PROVE  e(k) \in E /\ Cardinality(below[e(k)]) = k - 1
    OBVIOUS
  <2>1. \E x \in E : Cardinality({y \in E : before(y, x)}) = k - 1
    BY <1>2
  <2>2. e(k) \in E /\ Cardinality({y \in E : before(y, e(k))}) = k - 1
    BY <2>1
  <2>. HIDE DEF e
  <2> QED
    BY <1>2, <2>2
<1>. HIDE DEF e
<1>5. /\ order = [k \in 1..m |-> order[k]]
      /\ \A k \in 1..m : (\E x \in E : Cardinality(below[x]) = k - 1)
           => order[k] \in E /\ Cardinality(below[order[k]]) = k - 1
  BY <1>3, <1>4
<1>6. Lists(order, E, below)
  BY <1>1, <1>5, Listing DEF m
<1> QED
  BY <1>1, <1>6, ListedOnce

\* What is eligible.
EligibleOf(candidates) == {c \in candidates : Eligible(c)}

\* The plan a slate is laid out by.
PlanFor(limit, eligible, ratio) == SlotPlan(Min({limit, Len(eligible)}), ratio)

\* What a slate is built from.
Asked(candidates, limit, p, shown, ratio) ==
  /\ CardsShape(candidates) /\ limit \in Nat /\ p.buyer \in BOOLEAN /\ ExposureShape(shown)
  /\ ratio \in Nat \cup {None}

\* However the list was built, it is within the caps, and kept only when its loss of
\* relevance was contained.
LEMMA SlateBuilt ==
  ASSUME NEW candidates, NEW limit, NEW p, NEW shown, NEW ratio,
         Asked(candidates, limit, p, shown, ratio),
         NEW slate, slate = BuildSlate(candidates, limit, p, shown, ratio),
         NEW E, E = EligibleOf(candidates), NEW plan, plan = PlanFor(limit, slate.eligible, ratio)
  PROVE  /\ CardsShape(E) /\ slate.eligible = ByRelevance(E)
         /\ slate.items \in CappedLists(E, p.buyer, ExplorationSlots(plan)) /\ plan \in Seq(SlotKinds)
         /\ slate.guard \in BOOLEAN
         /\ ~slate.guard => Resolved(slate.eligible, slate.items)
<1>. DEFINE eligible == ByRelevance(E)
            filled == Filled(plan, eligible, p, shown)
            again == RelevanceFirst(eligible, limit, ExplorationSlots(plan), p)
            m == Len(eligible)
<1>. /\ CardsShape(candidates) /\ limit \in Nat /\ p.buyer \in BOOLEAN /\ ExposureShape(shown)
     /\ ratio \in Nat \cup {None}
  BY DEF Asked
<1>1. CardsShape(E)
  <2>1. E \subseteq candidates
    BY DEF EligibleOf
  <2> QED
    BY <2>1, FS_Subset DEF CardsShape
<1>2. slate = IF Resolved(eligible, Filled(PlanFor(limit, eligible, ratio), eligible, p, shown))
              THEN [items |-> Filled(PlanFor(limit, eligible, ratio), eligible, p, shown),
                    eligible |-> eligible, guard |-> FALSE]
              ELSE [items |-> RelevanceFirst(eligible, limit, ExplorationSlots(PlanFor(limit, eligible, ratio)), p),
                    eligible |-> eligible, guard |-> TRUE]
  BY DEF BuildSlate, EligibleOf, PlanFor 
<1>3. eligible \in Seq(E) /\ m \in Nat
  BY <1>1, RelevanceListed
<1>. HIDE DEF eligible
<1>4. slate.eligible = eligible
  BY <1>2
<1>5. plan = PlanFor(limit, eligible, ratio)
  BY <1>4
<1>6. plan \in Seq(SlotKinds)
  <2>1. m \in Int /\ limit \in Int
    BY <1>3
  <2>. HIDE DEF m
  <2>2. Min({limit, m}) \in Nat
    BY <1>3, <2>1, BetterOfTwo
  <2>. DEFINE n == Min({limit, m})
  <2>3. n \in Nat /\ plan = SlotPlan(n, ratio)
    BY <1>5, <2>2 DEF PlanFor, m
  <2>. HIDE DEF n
  <2> QED
    BY <2>3, PlanType
<1>7. filled \in CappedLists(E, p.buyer, ExplorationSlots(plan))
  BY <1>1, <1>3, <1>6, FilledWithinCaps
<1>8. again \in CappedLists(E, p.buyer, ExplorationSlots(plan))
  <2>1. ExplorationSlots(plan) \in Nat
    BY <1>6, ExplorationSlotsType
  <2> QED
    BY <1>3, <2>1, ReconstructionWithinCaps
<1>9. slate = IF Resolved(eligible, filled) THEN [items |-> filled, eligible |-> eligible, guard |-> FALSE]
              ELSE [items |-> again, eligible |-> eligible, guard |-> TRUE]
  BY <1>2, <1>5
<1>. HIDE DEF filled, again
<1>10. CASE Resolved(eligible, filled)
  <2>1. slate.items = filled /\ slate.guard = FALSE
    BY <1>9, <1>10
  <2> QED
    BY <1>1, <1>4, <1>6, <1>7, <1>10, <2>1 DEF eligible
<1>11. CASE ~Resolved(eligible, filled)
  <2>1. slate.items = again /\ slate.guard = TRUE
    BY <1>9, <1>11
  <2> QED
    BY <1>1, <1>4, <1>6, <1>8, <2>1 DEF eligible
<1> QED
  BY <1>10, <1>11

\* No more are shown than are eligible.
LEMMA NoMoreThanEligible ==
  ASSUME NEW E, CardsShape(E), NEW buyer, NEW most, NEW s \in CappedLists(E, buyer, most)
  PROVE  Len(s) <= Cardinality(E)
<1>. DEFINE m == Len(s)
            D == 1..m
<1>1. s \in Seq(E) /\ m \in Nat /\ DOMAIN s = D /\ \A i, j \in D : s[i] = s[j] => i = j
  BY DEF CappedLists, Capped
<1>. HIDE DEF m
<1>2. IsFiniteSet(D) /\ Cardinality(D) = m
  BY <1>1, FirstNumbers
<1>3. s = [i \in D |-> s[i]] /\ \A i \in D : s[i] \in E
  BY <1>1
<1>. HIDE DEF D
<1>. DEFINE T == {s[i] : i \in D}
<1>4. T \subseteq E
  BY <1>3
<1>5. Cardinality(T) = Cardinality(D)
  BY <1>1, <1>2, <1>3, ImageOf
<1>. HIDE DEF T
<1>6. Cardinality(T) <= Cardinality(E)
  BY <1>4, FS_Subset DEF CardsShape
<1> QED
  BY <1>2, <1>5, <1>6 DEF m

\* The least of three numbers, two of which are ordered.
LEMMA LeastOfThree ==
  ASSUME NEW k \in Int, NEW x \in Int, NEW y \in Int, y <= x
  PROVE  Min({k, x, y}) = IF k <= y THEN k ELSE y
<1>. DEFINE S == {k, x, y}
            w == Min(S)
<1>1. IsFiniteSet({k} \cup {x} \cup {y})
  BY FS_AddElement, FS_Singleton
<1>2. S = {k} \cup {x} \cup {y} /\ S # {} /\ S \subseteq Int
  OBVIOUS
<1>3. (\A z \in S : z = k \/ z = x \/ z = y) /\ k \in S /\ y \in S
  OBVIOUS
<1>4. IsFiniteSet(S)
  BY <1>1, <1>2
<1>. HIDE DEF S
<1>5. w \in S /\ \A z \in S : w <= z
  BY <1>2, <1>4, Extremes
<1>6. w \in Int /\ w <= k /\ w <= y /\ (w = k \/ w = x \/ w = y)
  BY <1>2, <1>3, <1>5
<1>. HIDE DEF w
<1>7. w = IF k <= y THEN k ELSE y
  BY <1>6
<1> QED
  BY <1>7 DEF w, S

\* The first n cards of a slate b, ranked by relevance as a, whose average
\* gave up at most loss.
FirstOf(E, a, b, k, loss, n) ==
  /\ CardsShape(E) /\ a \in Seq(E) /\ b \in Seq(E) /\ Len(b) <= Len(a)
  /\ k \in {5, 10} /\ loss \in {30, 50} /\ RelevanceLoss(a, b, k) <= loss
  /\ n = Min({k, Len(b)}) /\ n > 0

\* A contained loss, over as many cards as are shown of the first k.
LEMMA LossOf ==
  ASSUME NEW E, NEW a, NEW b, NEW k, NEW loss, NEW n, FirstOf(E, a, b, k, loss, n)
  PROVE  SumFunction([i \in 1..n |-> a[i].score]) - SumFunction([i \in 1..n |-> b[i].score])
           < n * (loss + 1)
<1>. SUFFICES ASSUME CardsShape(E), a \in Seq(E), b \in Seq(E), Len(b) <= Len(a), k \in {5, 10},
                     loss \in {30, 50}, RelevanceLoss(a, b, k) <= loss, n = Min({k, Len(b)}), n > 0
              PROVE  SumFunction([i \in 1..n |-> a[i].score]) - SumFunction([i \in 1..n |-> b[i].score])
                       < n * (loss + 1)
  BY DEF FirstOf
<1>. DEFINE x == Len(a)
            y == Len(b)
            S == {k, x, y}
            tot(s) == SumFunction([i \in 1..n |-> s[i].score])
            u == tot(a)
            v == tot(b)
            zero == 0
            q == (u - v) \div n
<1>1. x \in Nat /\ y \in Nat /\ k \in Nat /\ y <= x
  OBVIOUS
<1>2. n = (IF k <= y THEN k ELSE y)
  <2>1. k \in Int /\ y \in Int
    BY <1>1
  <2>. HIDE DEF y
  <2>2. Min({k, y}) = IF k <= y THEN k ELSE y
    BY <2>1, BetterOfTwo
  <2> QED
    BY <2>2 DEF y
<1>3. Min(S) = n
  <2>1. k \in Int /\ x \in Int /\ y \in Int
    BY <1>1
  <2>. HIDE DEF x, y
  <2>2. Min({k, x, y}) = IF k <= y THEN k ELSE y
    BY <1>1, <2>1, LeastOfThree
  <2> QED
    BY <1>2, <2>2
<1>4. n \in 1..10
  BY <1>1, <1>2
<1>5. u \in Int /\ v \in Int
  <2>1. \A i \in 1..n : i \in 1..x /\ i \in 1..y
    BY <1>1, <1>2, <1>4
  <2>2. /\ DOMAIN a = 1..x /\ DOMAIN b = 1..y
        /\ \A i \in DOMAIN a : a[i] \in E
        /\ \A i \in DOMAIN b : b[i] \in E
    OBVIOUS
  <2>. HIDE DEF x, y
  <2>3. \A i \in 1..n : a[i] \in E /\ b[i] \in E
    <3>1. TAKE i \in 1..n
    <3>2. i \in DOMAIN a /\ i \in DOMAIN b
      BY <2>1, <2>2
    <3> QED
      BY <2>2, <3>2
  <2>4. \A i \in 1..n : a[i].score \in Int /\ b[i].score \in Int
    BY <2>3 DEF CardsShape, CardShape
  <2>. DEFINE D == 1..n
              f == [i \in D |-> a[i].score]
              g == [i \in D |-> b[i].score]
  <2>5. f \in [D -> Int] /\ g \in [D -> Int] /\ u = SumFunction(f) /\ v = SumFunction(g)
    BY <2>4
  <2>6. IsFiniteSet(D)
    BY <1>4, FirstNumbers
  <2>. HIDE DEF f, g, D
  <2> QED
    BY <2>5, <2>6, SumType
<1>6. RelevanceLoss(a, b, k) = Max({zero, q})
  <2>1. RelevanceLoss(a, b, k) = IF Min(S) = 0 THEN 0 ELSE
          Max({zero, (SumFunction([i \in 1..Min(S) |-> a[i].score]) - SumFunction([i \in 1..Min(S) |-> b[i].score]))
                       \div Min(S)})
    BY DEF RelevanceLoss
  <2>. DEFINE w == Min(S)
  <2>2. RelevanceLoss(a, b, k) = IF w = 0 THEN 0 ELSE
          Max({zero, (SumFunction([i \in 1..w |-> a[i].score]) - SumFunction([i \in 1..w |-> b[i].score]))
                       \div w})
    BY <2>1
  <2>3. w = n
    BY <1>3
  <2>. HIDE DEF w, zero
  <2> QED
    BY <1>4, <2>2, <2>3
<1>. HIDE DEF u, v
<1>7. q \in Int /\ zero \in Int
  BY <1>4, <1>5
<1>8. q <= loss
  <2>. HIDE DEF q, zero
  <2>1. Max({zero, q}) = IF zero >= q THEN zero ELSE q
    BY <1>7, BetterOfTwo
  <2>2. (IF zero >= q THEN zero ELSE q) <= loss
    BY <1>6, <2>1
  <2> QED
    BY <1>7, <2>2 DEF zero
<1>9. u - v < n * (loss + 1)
  <2>. DEFINE d == u - v
  <2>1. d \in Int
    BY <1>5
  <2>. HIDE DEF d
  <2>2. \A r \in 1..10 : d \div r <= loss => d < r * (loss + 1)
    <3>. SUFFICES ASSUME NEW r \in 1..10, d \div r <= loss PROVE d < r * (loss + 1)
      OBVIOUS
    <3>1. r = 1 \/ r = 2 \/ r = 3 \/ r = 4 \/ r = 5 \/ r = 6 \/ r = 7 \/ r = 8 \/ r = 9 \/ r = 10
      OBVIOUS
    <3>2. CASE r = 1
      BY <2>1, <3>2
    <3>3. CASE r = 2
      BY <2>1, <3>3
    <3>4. CASE r = 3
      BY <2>1, <3>4
    <3>5. CASE r = 4
      BY <2>1, <3>5
    <3>6. CASE r = 5
      BY <2>1, <3>6
    <3>7. CASE r = 6
      BY <2>1, <3>7
    <3>8. CASE r = 7
      BY <2>1, <3>8
    <3>9. CASE r = 8
      BY <2>1, <3>9
    <3>10. CASE r = 9
      BY <2>1, <3>10
    <3>11. CASE r = 10
      BY <2>1, <3>11
    <3> QED
      BY <3>1, <3>2, <3>3, <3>4, <3>5, <3>6, <3>7, <3>8, <3>9, <3>10, <3>11
  <2>3. d \div n <= loss
    BY <1>8 DEF d
  <2>4. d < n * (loss + 1)
    BY <1>4, <2>2, <2>3
  <2> QED
    BY <2>4 DEF d
<1> QED
  BY <1>9 DEF u, v

\* A list within the caps is as the caps say, card by card.
LEMMA CapsSeen ==
  ASSUME NEW E, CardsShape(E), \A c \in E : Eligible(c), NEW buyer, NEW most,
         NEW items \in CappedLists(E, buyer, most)
  PROVE  /\ \A i \in DOMAIN items : items[i] \in E /\ items[i].score >= Floor
                                    /\ ~(items[i].seen >= 5 /\ items[i].acted = 0)
         /\ Cardinality({items[i].id : i \in DOMAIN items}) = Len(items)
         /\ \A i \in DOMAIN items : items[i].exhibitor # None =>
              LET own(k) == Cardinality({j \in {n \in DOMAIN items : n <= k} :
                                           items[j].exhibitor = items[i].exhibitor})
              IN own(5) <= 1 /\ own(10) <= 2 /\ own(Len(items)) <= 3 /\ (buyer => own(Len(items)) <= 1)
         /\ Cardinality({i \in {n \in DOMAIN items : n <= 10} :
                           "COLD_START_QUALITY" \in items[i].channels}) <= 1
         /\ most > 0 => Cardinality({i \in {n \in DOMAIN items : n <= 10} : IsExploration(items[i])}) <= most
<1>. DEFINE m == Len(items)
            D == 1..m
<1>1. /\ items \in Seq(E) /\ Capped(items, E, buyer, most) /\ m \in Nat /\ DOMAIN items = D
      /\ \A i \in D : items[i] \in E /\ i \in Nat /\ i <= m
      /\ \A i, j \in D : items[i] = items[j] => i = j
  BY DEF CappedLists, Capped
<1>2. \A i \in D : items[i].score >= Floor /\ ~(items[i].seen >= 5 /\ items[i].acted = 0)
  BY <1>1 DEF Eligible
<1>3. Cardinality({items[i].id : i \in D}) = m
  <2>. DEFINE f == [i \in D |-> items[i].id]
  <2>1. f = [i \in D |-> f[i]] /\ {items[i].id : i \in D} = {f[i] : i \in D}
    OBVIOUS
  <2>2. \A i, j \in D : f[i] = f[j] => i = j
    BY <1>1 DEF CardsShape
  <2>. HIDE DEF f, m
  <2>3. IsFiniteSet(D) /\ Cardinality(D) = m
    BY <1>1, FirstNumbers
  <2>. HIDE DEF D
  <2> QED
    BY <2>1, <2>2, <2>3, ImageOf
<1>. HIDE DEF m, D
<1>4. ASSUME NEW k \in Nat, NEW x
      PROVE  {j \in {n \in DOMAIN items : n <= k} : items[j].exhibitor = x} = Among(items, Top(k), OfExhibitor(E, x))
  BY <1>1 DEF Among, Top, OfExhibitor
<1>5. ASSUME NEW x
      PROVE  {j \in {n \in DOMAIN items : n <= m} : items[j].exhibitor = x} = Among(items, Nat, OfExhibitor(E, x))
  BY <1>1 DEF Among, OfExhibitor
<1>6. {i \in {n \in DOMAIN items : n <= 10} : "COLD_START_QUALITY" \in items[i].channels}
        = Among(items, Top(10), Newcomers(E))
  BY <1>1 DEF Among, Top, Newcomers
<1>7. {i \in {n \in DOMAIN items : n <= 10} : IsExploration(items[i])} = Among(items, Top(10), Explorers(E))
  BY <1>1 DEF Among, Top, Explorers
<1>8. /\ Cardinality(Among(items, Top(10), Newcomers(E))) <= 1
      /\ most > 0 => Cardinality(Among(items, Top(10), Explorers(E))) <= most
      /\ \A x : x # None =>
           /\ Cardinality(Among(items, Top(5), OfExhibitor(E, x))) <= 1
           /\ Cardinality(Among(items, Top(10), OfExhibitor(E, x))) <= 2
           /\ Cardinality(Among(items, Nat, OfExhibitor(E, x))) <= 3
           /\ buyer => Cardinality(Among(items, Nat, OfExhibitor(E, x))) <= 1
  BY <1>1 DEF Capped
<1>9. ASSUME NEW i \in DOMAIN items, items[i].exhibitor # None
      PROVE  LET own(k) == Cardinality({j \in {n \in DOMAIN items : n <= k} :
                                           items[j].exhibitor = items[i].exhibitor})
             IN own(5) <= 1 /\ own(10) <= 2 /\ own(m) <= 3 /\ (buyer => own(m) <= 1)
  <2>. DEFINE x == items[i].exhibitor
              own(k) == Cardinality({j \in {n \in DOMAIN items : n <= k} : items[j].exhibitor = x})
              Q == OfExhibitor(E, x)
  <2>1. own(5) = Cardinality(Among(items, Top(5), Q))
    BY <1>4
  <2>2. own(10) = Cardinality(Among(items, Top(10), Q))
    BY <1>4
  <2>3. own(m) = Cardinality(Among(items, Nat, Q))
    BY <1>5
  <2>4. x # None
    BY <1>9
  <2>. HIDE DEF x
  <2>5. /\ Cardinality(Among(items, Top(5), Q)) <= 1 /\ Cardinality(Among(items, Top(10), Q)) <= 2
        /\ Cardinality(Among(items, Nat, Q)) <= 3
        /\ buyer => Cardinality(Among(items, Nat, Q)) <= 1
    BY <1>8, <2>4
  <2>6. own(5) <= 1 /\ own(10) <= 2 /\ own(m) <= 3 /\ (buyer => own(m) <= 1)
    <3>. HIDE DEF own, Q
    <3> QED
      BY <2>1, <2>2, <2>3, <2>5
  <2> QED
    BY <2>6 DEF x
<1> QED
  BY <1>1, <1>2, <1>3, <1>6, <1>7, <1>8, <1>9 DEF m, D

\* A buyer has one card of an exhibitor.
LEMMA OneOfExhibitor ==
  ASSUME NEW E, NEW most, NEW items \in CappedLists(E, TRUE, most),
         NEW i \in DOMAIN items, NEW j \in DOMAIN items,
         items[i].exhibitor = items[j].exhibitor, items[i].exhibitor # None
  PROVE  i = j
<1>. DEFINE x == items[i].exhibitor
            A == Among(items, Nat, OfExhibitor(E, x))
<1>1. items \in Seq(E) /\ Cardinality(A) <= 1 /\ i \in Nat /\ j \in Nat
  BY DEF CappedLists, Capped
<1>2. i \in A /\ j \in A
  BY <1>1 DEF Among, OfExhibitor
<1>3. IsFiniteSet(A) /\ Cardinality(A) \in Nat
  BY <1>1, CountType
<1>. HIDE DEF A
<1>4. Cardinality(A) = 1
  BY <1>1, <1>2, <1>3, FS_EmptySet
<1> QED
  BY <1>2, <1>3, <1>4, FS_Singleton

\* A buyer sees no product twice.
LEMMA SeenOnce ==
  ASSUME NEW E, CardsShape(E), NEW most, NEW slate, slate.items \in CappedLists(E, TRUE, most),
         slate.eligible \in Seq(E)
  PROVE  LET under(i) == {c.id : c \in Related(slate.items[i], slate)}
             cards    == {c.id : c \in ToSet(slate.items)}
         IN /\ \A i \in DOMAIN slate.items : under(i) \cap cards = {}
            /\ \A i, j \in DOMAIN slate.items : i # j => under(i) \cap under(j) = {}
<1>. DEFINE items == slate.items
<1>1. items \in Seq(E) /\ \A i \in DOMAIN items : items[i] \in E
  <2>1. items \in CappedLists(E, TRUE, most)
    OBVIOUS
  <2>. HIDE DEF items
  <2>2. items \in Seq(E)
    BY <2>1 DEF CappedLists
  <2> QED
    BY <2>2
<1>2. \A c \in ToSet(items) : c \in E
  BY <1>1 DEF ToSet
<1>3. ASSUME NEW i \in DOMAIN items, NEW d \in Related(items[i], slate)
      PROVE  d \in E /\ d \notin ToSet(items) /\ d.exhibitor = items[i].exhibitor /\ d.exhibitor # None
  <2>. DEFINE at(k) == slate.eligible[k]
              more == {k \in DOMAIN slate.eligible : /\ at(k) \notin ToSet(items)
                                                     /\ at(k).type = "PRODUCT"
                                                     /\ at(k).exhibitor = items[i].exhibitor}
              few == {k \in more : Cardinality({l \in more : l < k}) < 3}
  <2>1. Related(items[i], slate) = IF items[i].type # "PRODUCT" \/ items[i].exhibitor = None THEN {}
                                   ELSE {at(k) : k \in few}
    BY DEF Related
  <2>2. items[i].exhibitor # None /\ d \in {at(k) : k \in few}
    BY <1>3, <2>1
  <2>3. few \subseteq more
    OBVIOUS
  <2>. HIDE DEF few
  <2>4. PICK k \in more : d = at(k)
    BY <2>2, <2>3
  <2>5. slate.eligible[k] \in E
    OBVIOUS
  <2> QED
    BY <2>2, <2>4, <2>5
<1>4. ASSUME NEW i \in DOMAIN items PROVE {c.id : c \in Related(items[i], slate)} \cap {c.id : c \in ToSet(items)} = {}
  BY <1>2, <1>3 DEF CardsShape
<1>5. ASSUME NEW i \in DOMAIN items, NEW j \in DOMAIN items, i # j
      PROVE  {c.id : c \in Related(items[i], slate)} \cap {c.id : c \in Related(items[j], slate)} = {}
  <2>. SUFFICES ASSUME NEW c \in Related(items[i], slate), NEW d \in Related(items[j], slate), c.id = d.id
                PROVE  FALSE
    OBVIOUS
  <2>1. c = d
    BY <1>3 DEF CardsShape
  <2>2. items[i].exhibitor = items[j].exhibitor /\ items[i].exhibitor # None
    BY <1>3, <2>1
  <2>. HIDE DEF items
  <2>3. i = j
    BY <2>2, OneOfExhibitor DEF items
  <2> QED
    BY <1>5, <2>3
<1> QED
  BY <1>4, <1>5

\* A newcomer in the quality slot is what the gate asked of it.
Vouched(c) == "COLD_START_QUALITY" \in c.channels => Verified(c) /\ c.trust >= 700 /\ c.age <= NewDays

\* d is c found by other channels.
Relabels(d, c) ==
  /\ DOMAIN d = DOMAIN c
  /\ d.id = c.id /\ d.score = c.score /\ d.novelty = c.novelty /\ d.trust = c.trust /\ d.metres = c.metres
  /\ d.regions = c.regions /\ d.tastes = c.tastes /\ d.age = c.age
  /\ d.supply_approved = c.supply_approved /\ d.master_approved = c.master_approved

LEMMA ExceptRelabels ==
  ASSUME NEW c, CardShape(c), NEW x, NEW d, d = [c EXCEPT !.channels = x]
  PROVE  Relabels(d, c) /\ d.channels = x
<1>1. \A f \in CardFields : f \in DOMAIN c
  BY DEF CardShape
<1> QED
  BY <1>1 DEF CardFields, Relabels

\* Other channels leave cards what they are, and tell apart what they did.
LEMMA RelabelledCards ==
  ASSUME NEW E, CardsShape(E), NEW f, f = [c \in E |-> f[c]], \A c \in E : Relabels(f[c], c)
  PROVE  CardsShape({f[c] : c \in E})
<1>1. IsFiniteSet({f[c] : c \in E})
  BY ImageOf DEF CardsShape
<1>2. ASSUME NEW c \in E PROVE CardShape(f[c])
  BY DEF CardsShape, CardShape, Relabels
<1>3. ASSUME NEW c \in E, NEW d \in E, f[c].id = f[d].id PROVE f[c] = f[d]
  <2>1. c.id = d.id
    BY <1>3 DEF Relabels
  <2>2. c = d
    BY <2>1 DEF CardsShape
  <2> QED
    BY <2>2
<1> QED
  BY <1>1, <1>2, <1>3 DEF CardsShape

\* The annotation of cold start leaves cards cards, and vouches for its newcomers.
LEMMA AnnotatedShape ==
  ASSUME NEW pool, CardsShape(pool), \A c \in pool : "COLD_START_QUALITY" \notin c.channels, NEW s
  PROVE  CardsShape(Annotated(s, pool)) /\ \A c \in Annotated(s, pool) : Vouched(c)
<1>. DEFINE f == [c \in pool |-> Gated(c)]
            gated == {f[c] : c \in pool}
            learn == LearningPool(s, gated)
            taught(c) == [c EXCEPT !.channels = c.channels \cup {"EXPLORATION", "PREFERENCE_LEARNING"}]
            g == [c \in gated |-> IF c \in learn THEN taught(c) ELSE c]
<1>1. gated = {Gated(c) : c \in pool}
  OBVIOUS
<1>2. ASSUME NEW c \in pool PROVE Relabels(f[c], c) /\ Vouched(f[c])
  <2>. DEFINE x == IF ~IsNew(c) THEN c.channels ELSE IF PassesGate(c)
                   THEN c.channels \cup {"EXPLORATION", "COLD_START_QUALITY"}
                   ELSE c.channels \ {"EXPLORATION"}
              d == f[c]
  <2>1. CardShape(c) /\ "COLD_START_QUALITY" \notin c.channels
    BY DEF CardsShape
  <2>2. d = [c EXCEPT !.channels = x]
    BY DEF Gated
  <2>3. "COLD_START_QUALITY" \in x => IsNew(c) /\ PassesGate(c)
    BY <2>1
  <2>. HIDE DEF x, d
  <2>4. Relabels(d, c) /\ d.channels = x
    BY <2>1, <2>2, ExceptRelabels
  <2>5. "COLD_START_QUALITY" \in d.channels => Verified(c) /\ c.trust >= 700 /\ c.age <= NewDays
    BY <2>3, <2>4 DEF PassesGate, TrustOf, IsNew, NewDays
  <2>6. Vouched(d)
    BY <2>4, <2>5 DEF Vouched, Verified, Relabels
  <2> QED
    BY <2>4, <2>6 DEF d
<1>3. f = [c \in pool |-> f[c]]
  OBVIOUS
<1>4. Annotated(s, pool) = {IF c \in learn THEN [c EXCEPT !.channels = @ \cup {"EXPLORATION", "PREFERENCE_LEARNING"}]
                            ELSE c : c \in gated}
  BY <1>1 DEF Annotated
<1>. HIDE DEF f
<1>5. CardsShape(gated)
  BY <1>2, <1>3, RelabelledCards
<1>6. \A c \in gated : Vouched(c)
  BY <1>2
<1>. HIDE DEF gated, learn
<1>7. Annotated(s, pool) = {g[c] : c \in gated}
  BY <1>4
<1>8. ASSUME NEW c \in gated PROVE Relabels(g[c], c) /\ Vouched(g[c])
  <2>1. CASE c \in learn
    <3>. DEFINE x == c.channels \cup {"EXPLORATION", "PREFERENCE_LEARNING"}
                d == g[c]
    <3>1. d = [c EXCEPT !.channels = x]
      BY <2>1
    <3>2. CardShape(c) /\ Vouched(c)
      BY <1>5, <1>6 DEF CardsShape
    <3>3. "COLD_START_QUALITY" \in x => "COLD_START_QUALITY" \in c.channels
      OBVIOUS
    <3>. HIDE DEF x, d
    <3>4. Relabels(d, c) /\ d.channels = x
      BY <3>1, <3>2, ExceptRelabels
    <3>5. Vouched(d)
      BY <3>2, <3>3, <3>4 DEF Vouched, Verified, Relabels
    <3> QED
      BY <3>4, <3>5 DEF d
  <2>2. CASE c \notin learn
    <3>1. g[c] = c
      BY <2>2
    <3> QED
      BY <1>6, <3>1 DEF Relabels
  <2> QED
    BY <2>1, <2>2
<1>9. g = [c \in gated |-> g[c]]
  OBVIOUS
<1>. HIDE DEF g
<1>10. CardsShape({g[c] : c \in gated})
  BY <1>5, <1>8, <1>9, RelabelledCards
<1> QED
  BY <1>7, <1>8, <1>10

\* A slate as it is asked for: candidates no two of one identity, none of which the gate
\* of cold start has seen, what was shown at the event, and how many to show.
AsksSlate(t) ==
  t.kind = "slate" =>
    /\ CardsShape(t.pool) /\ \A c \in t.pool : "COLD_START_QUALITY" \notin c.channels
    /\ t.limit \in Nat /\ t.profile.buyer \in BOOLEAN /\ ExposureShape(t.exposure)

\* The share to explore is a number, where there is one.
LEMMA RatioType ==
  ASSUME NEW person
  PROVE  RatioFor(person) \in Nat \cup {None}
<1>. DEFINE ratio == CASE ColdState(person) = "WARMING" -> 150 [] ColdState(person) = "STABLE" -> 75
                       [] OTHER -> 250
            hundred == 100
<1>1. ratio \in Nat /\ hundred \in Nat
  OBVIOUS
<1>2. RatioFor(person) = IF person = None THEN None
                         ELSE IF person.buyer THEN Min({ratio, hundred}) ELSE ratio
  BY DEF RatioFor, ExplorationRatio
<1>. HIDE DEF ratio, hundred
<1>3. Min({ratio, hundred}) = IF ratio <= hundred THEN ratio ELSE hundred
  BY <1>1, BetterOfTwo
<1> QED
  BY <1>1, <1>2, <1>3

\* What is asked for is laid out within the caps.
LEMMA LaidWithinCaps ==
  ASSUME NEW t, AsksSlate(t), t.kind = "slate", NEW slate, slate = Laid(t),
         NEW plan, plan = PlanFor(t.limit, slate.eligible, RatioFor(t.person))
  PROVE  \E E : /\ CardsShape(E) /\ (\A c \in E : Eligible(c) /\ Vouched(c))
                /\ slate.eligible = ByRelevance(E)
                /\ slate.items \in CappedLists(E, t.profile.buyer, ExplorationSlots(plan))
                /\ ~slate.guard => Resolved(slate.eligible, slate.items)
<1>. DEFINE candidates == IF t.person = None THEN t.pool ELSE Annotated(t.person, t.pool)
            E == EligibleOf(candidates)
            ratio == RatioFor(t.person)
            limit == t.limit
            p == t.profile
            shown == t.exposure
<1>1. /\ CardsShape(t.pool) /\ (\A c \in t.pool : "COLD_START_QUALITY" \notin c.channels)
      /\ limit \in Nat /\ p.buyer \in BOOLEAN /\ ExposureShape(shown)
  BY DEF AsksSlate
<1>2. CardsShape(candidates) /\ \A c \in candidates : Vouched(c)
  <2>1. CASE t.person = None
    <3>1. candidates = t.pool
      BY <2>1
    <3> QED
      BY <1>1, <3>1 DEF Vouched
  <2>2. CASE t.person # None
    <3>. DEFINE pool == t.pool
                s == t.person
                A == Annotated(s, pool)
    <3>1. candidates = A
      BY <2>2
    <3>2. CardsShape(pool) /\ \A c \in pool : "COLD_START_QUALITY" \notin c.channels
      BY <1>1
    <3>. HIDE DEF pool, s, candidates
    <3>3. CardsShape(A) /\ \A c \in A : Vouched(c)
      BY <3>2, AnnotatedShape
    <3>. HIDE DEF A
    <3> QED
      BY <3>1, <3>3
  <2> QED
    BY <2>1, <2>2
<1>3. slate = BuildSlate(candidates, limit, p, shown, ratio)
  BY DEF Laid
<1>4. ratio \in Nat \cup {None}
  BY RatioType
<1>5. plan = PlanFor(limit, slate.eligible, ratio)
  OBVIOUS
<1>. HIDE DEF candidates, limit, p, shown, ratio
<1>10. Asked(candidates, limit, p, shown, ratio)
  BY <1>1, <1>2, <1>4 DEF Asked
<1>9. E = EligibleOf(candidates)
  OBVIOUS
<1>. HIDE DEF E
<1>6. /\ CardsShape(E) /\ slate.eligible = ByRelevance(E)
      /\ slate.items \in CappedLists(E, p.buyer, ExplorationSlots(plan))
      /\ ~slate.guard => Resolved(slate.eligible, slate.items)
  BY <1>3, <1>5, <1>9, <1>10, SlateBuilt
<1>7. \A c \in E : Eligible(c) /\ Vouched(c)
  BY <1>2, <1>9 DEF EligibleOf
<1>8. slate.items \in CappedLists(E, t.profile.buyer, ExplorationSlots(plan))
  BY <1>6 DEF p
<1> QED
  BY <1>6, <1>7, <1>8

\* SlateContained of any slate that is asked for, whichever of the fallbacks and passes
\* built it: the caps of exhibitors, newcomers and explorations, the loss of relevance of
\* a list that is kept, what a newcomer was asked, and what a buyer sees once.
THEOREM SlateAlwaysContained ==
  ASSUME NEW CONSTANT cases, \A t \in cases : AsksSlate(t)
  PROVE  Stages(cases) => []SlateContained
<1>1. Computed(cases) => SlateContained
  <2>. SUFFICES ASSUME Computed(cases), task.kind = "slate", result # None PROVE SlateContained
    BY DEF SlateContained, ListCapsHold, ExplorationContained, LossContained, QualityVerified,
           BuyerSeesOnce, Slated
  <2>. DEFINE slate == Laid(task)
              items == result.items
              eligible == result.eligible
              buyer == task.profile.buyer
              plan == PlanFor(task.limit, slate.eligible, RatioFor(task.person))
              most == ExplorationSlots(plan)
  <2>1. /\ AsksSlate(task) /\ items = slate.items /\ eligible = slate.eligible
        /\ result.guard = slate.guard
        /\ result.related = [i \in DOMAIN slate.items |-> Related(slate.items[i], slate)]
    BY DEF Computed
  <2>2. PICK E : /\ CardsShape(E) /\ (\A c \in E : Eligible(c) /\ Vouched(c))
                 /\ slate.eligible = ByRelevance(E)
                 /\ slate.items \in CappedLists(E, buyer, most)
                 /\ ~slate.guard => Resolved(slate.eligible, slate.items)
    BY <2>1, LaidWithinCaps
  <2>3. PlanOf(task, result) = plan
    BY <2>1 DEF PlanOf, PlanFor
  <2>4. /\ slate.eligible \in Seq(E) /\ Len(slate.eligible) = Cardinality(E)
    BY <2>2, RelevanceListed
  <2>. HIDE DEF slate, plan, most, items, eligible, buyer
  <2>5. /\ items \in CappedLists(E, buyer, most) /\ eligible \in Seq(E) /\ Len(eligible) = Cardinality(E)
        /\ items \in Seq(E)
    BY <2>1, <2>2, <2>4 DEF CappedLists
  <2>6. /\ \A i \in DOMAIN items : items[i] \in E /\ items[i].score >= Floor
                                   /\ ~(items[i].seen >= 5 /\ items[i].acted = 0)
        /\ Cardinality({items[i].id : i \in DOMAIN items}) = Len(items)
        /\ \A i \in DOMAIN items : items[i].exhibitor # None =>
             LET own(k) == Cardinality({j \in {n \in DOMAIN items : n <= k} :
                                          items[j].exhibitor = items[i].exhibitor})
             IN own(5) <= 1 /\ own(10) <= 2 /\ own(Len(items)) <= 3 /\ (buyer => own(Len(items)) <= 1)
        /\ Cardinality({i \in {n \in DOMAIN items : n <= 10} :
                          "COLD_START_QUALITY" \in items[i].channels}) <= 1
        /\ most > 0 => Cardinality({i \in {n \in DOMAIN items : n <= 10} : IsExploration(items[i])}) <= most
    BY <2>2, <2>5, CapsSeen
  <2>7. ListCapsHold
    BY <2>6 DEF ListCapsHold, items, buyer
  <2>8. ExplorationContained
    BY <2>3, <2>6 DEF ExplorationContained, items, most
  <2>9. LossContained
    <3>. SUFFICES ASSUME ~result.guard, NEW k \in {5, 10},
                         NEW n, n = Min({k, Len(items)}), n > 0
                  PROVE  SumFunction([i \in 1..n |-> eligible[i].score]) - SumFunction([i \in 1..n |-> items[i].score])
                           < n * ((IF k = 5 THEN 30 ELSE 50) + 1)
      BY DEF LossContained, items, eligible
    <3>1. RelevanceLoss(eligible, items, 5) <= 30 /\ RelevanceLoss(eligible, items, 10) <= 50
      BY <2>1, <2>2 DEF Resolved
    <3>2. Len(items) <= Len(eligible)
      BY <2>2, <2>5, NoMoreThanEligible
    <3>. DEFINE loss == IF k = 5 THEN 30 ELSE 50
    <3>3. loss \in {30, 50} /\ RelevanceLoss(eligible, items, k) <= loss
      BY <3>1
    <3>. HIDE DEF loss
    <3>5. CardsShape(E) /\ eligible \in Seq(E) /\ items \in Seq(E)
      BY <2>2, <2>5
    <3>6. FirstOf(E, eligible, items, k, loss, n)
      BY <3>2, <3>3, <3>5 DEF FirstOf
    <3>4. SumFunction([i \in 1..n |-> eligible[i].score]) - SumFunction([i \in 1..n |-> items[i].score])
            < n * (loss + 1)
      BY <3>6, LossOf
    <3> QED
      BY <3>4 DEF loss
  <2>10. QualityVerified
    BY <2>2, <2>6 DEF QualityVerified, Vouched, items
  <2>11. BuyerSeesOnce
    <3>. SUFFICES ASSUME buyer
                  PROVE  LET under(i) == {c.id : c \in result.related[i]}
                             cards    == {c.id : c \in ToSet(items)}
                         IN /\ Cardinality(cards) = Len(items)
                            /\ \A i \in DOMAIN items : under(i) \cap cards = {}
                            /\ \A i, j \in DOMAIN items : i # j => under(i) \cap under(j) = {}
      BY DEF BuyerSeesOnce, items, buyer
    <3>1. slate.items \in CappedLists(E, TRUE, most)
      <4>1. buyer = TRUE
        BY <2>1 DEF AsksSlate, buyer
      <4> QED
        BY <2>2, <4>1
    <3>2. LET under(i) == {c.id : c \in Related(slate.items[i], slate)}
              cards    == {c.id : c \in ToSet(slate.items)}
          IN /\ \A i \in DOMAIN slate.items : under(i) \cap cards = {}
             /\ \A i, j \in DOMAIN slate.items : i # j => under(i) \cap under(j) = {}
      BY <2>2, <2>4, <3>1, SeenOnce
    <3>3. {c.id : c \in ToSet(items)} = {items[i].id : i \in DOMAIN items}
      BY DEF ToSet
    <3>4. \A i \in DOMAIN items : result.related[i] = Related(slate.items[i], slate)
      BY <2>1
    <3> QED
      BY <2>1, <2>6, <3>2, <3>3, <3>4
  <2> QED
    BY <2>7, <2>8, <2>9, <2>10, <2>11 DEF SlateContained
<1> QED
  BY <1>1, StagesCompute, PTL

-----------------------------------------------------------------------------
(* The two directions of a match.                                           *)

\* A quotient reaches what the divided number has room for, and no more.
LEMMA QuotientReaches ==
  ASSUME NEW n \in Int, NEW k \in Int, NEW m \in Int, m > 0, k * m <= n
  PROVE  n \div m \in Int /\ k <= n \div m
<1>. DEFINE q == n \div m
            r == n % m
<1>1. q \in Int /\ r \in Int /\ n = m * q + r /\ r < m
  OBVIOUS
<1>. HIDE DEF q, r
<1>2. ASSUME q < k PROVE FALSE
  <2>1. k - q - 1 >= 0 /\ k - q - 1 \in Int
    BY <1>1, <1>2
  <2>2. (k - q - 1) * m >= 0
    BY <2>1
  <2>3. (k - q - 1) * m = k * m - m * q - m
    BY <1>1
  <2> QED
    BY <1>1, <2>2, <2>3
<1>3. k <= q
  BY <1>1, <1>2
<1> QED
  BY <1>1, <1>3 DEF q

LEMMA QuotientFits ==
  ASSUME NEW n \in Int, NEW m \in Int, m > 0
  PROVE  n \div m \in Int /\ (n \div m) * m <= n
<1>. DEFINE q == n \div m
            r == n % m
<1>1. q \in Int /\ r \in Int /\ n = m * q + r /\ 0 <= r
  OBVIOUS
<1>. HIDE DEF q, r
<1>2. q * m <= n
  BY <1>1
<1> QED
  BY <1>1, <1>2 DEF q

\* More divided by the same gives no less.
LEMMA QuotientMonotone ==
  ASSUME NEW i \in Int, NEW j \in Int, NEW m \in Int, m > 0, i <= j
  PROVE  i \div m <= j \div m
<1>. DEFINE q == i \div m
<1>1. q \in Int /\ q * m <= i
  BY QuotientFits
<1>. HIDE DEF q
<1>2. q * m <= j
  <2>. DEFINE x == q * m
  <2>1. x \in Int /\ x <= i
    BY <1>1
  <2>. HIDE DEF x
  <2>2. x <= j
    BY <2>1
  <2> QED
    BY <2>2 DEF x
<1>3. q <= j \div m
  BY <1>1, <1>2, QuotientReaches
<1> QED
  BY <1>3 DEF q

\* The base lies above the limits that both sides reach, and never falls when a side rises.
LEMMA BaseReaches ==
  ASSUME NEW b \in Nat, NEW e \in Nat
  PROVE  /\ ReciprocalBase(b, e) \in Int /\ ReciprocalBase(b, e) >= 0
         /\ b >= 7000 /\ e >= 7000 => ReciprocalBase(b, e) >= 7000
<1>1. CASE b = 0 \/ e = 0
  BY <1>1 DEF ReciprocalBase
<1>2. CASE b > 0 /\ e > 0
  <2>. DEFINE n == 4 * b * e + b + e
              m == 2 * (b + e)
  <2>1. b * e \in Int /\ b * e >= 0
    BY <1>2
  <2>2. n \in Int /\ n >= 0 /\ m \in Int /\ m > 0
    BY <1>2, <2>1
  <2>3. b >= 7000 /\ e >= 7000 => 7000 * m <= n
    <3>. SUFFICES ASSUME b >= 7000, e >= 7000 PROVE 7000 * m <= n
      OBVIOUS
    <3>1. (b - 7000) * e >= 0 /\ (e - 7000) * b >= 0
      BY <1>2
    <3>2. (b - 7000) * e = b * e - 7000 * e /\ (e - 7000) * b = b * e - 7000 * b
      OBVIOUS
    <3>. DEFINE x == b * e
    <3>3. x \in Int /\ x >= 7000 * e /\ x >= 7000 * b /\ n = 4 * x + b + e
      BY <2>1, <3>1, <3>2
    <3>. HIDE DEF x
    <3> QED
      BY <3>3
  <2>4. ReciprocalBase(b, e) = n \div m
    BY <1>2 DEF ReciprocalBase
  <2>. HIDE DEF n, m
  <2>5. 0 * m <= n
    BY <2>2
  <2>6. n \div m \in Int /\ 0 <= n \div m
    BY <2>2, <2>5, QuotientReaches
  <2>7. b >= 7000 /\ e >= 7000 => 7000 <= n \div m
    BY <2>2, <2>3, QuotientReaches
  <2>. DEFINE q == n \div m
  <2>. HIDE DEF q
  <2>8. q \in Int /\ 0 <= q /\ (b >= 7000 /\ e >= 7000 => 7000 <= q)
    BY <2>6, <2>7 DEF q
  <2> QED
    BY <2>4, <2>8 DEF q
<1> QED
  BY <1>1, <1>2

LEMMA BaseMonotone ==
  ASSUME NEW b \in Nat, NEW d \in Nat, NEW e \in Nat, b <= d
  PROVE  ReciprocalBase(b, e) <= ReciprocalBase(d, e)
<1>1. ReciprocalBase(d, e) \in Int /\ ReciprocalBase(d, e) >= 0
  BY BaseReaches
<1>2. CASE b = 0 \/ e = 0
  BY <1>1, <1>2 DEF ReciprocalBase
<1>3. CASE b > 0 /\ e > 0
  <2>. DEFINE n == 4 * b * e + b + e
              m == 2 * (b + e)
              q == n \div m
              k == 4 * d * e + d + e
              l == 2 * (d + e)
  <2>1. n \in Int /\ m \in Int /\ m > 0 /\ k \in Int /\ l \in Int /\ l > 0
    BY <1>3
  <2>2. q \in Int /\ q * m <= n
    <3>. HIDE DEF n, m
    <3> QED
      BY <2>1, QuotientFits
  <2>3. ReciprocalBase(b, e) = q /\ ReciprocalBase(d, e) = k \div l
    BY <1>3 DEF ReciprocalBase
  <2>. HIDE DEF q
  <2>4. q * l <= k
    <3>. DEFINE p == 2 * q - 1
                s == 4 * e - p
    <3>1. p \in Int /\ s \in Int
      BY <2>2
    <3>2. q * m = (p + 1) * (b + e) /\ q * l = (p + 1) * (d + e)
      BY <2>2
    <3>3. (p + 1) * (b + e) = p * b + p * e + b + e /\ (p + 1) * (d + e) = p * d + p * e + d + e
      BY <3>1
    <3>4. b * s = 4 * b * e - p * b /\ d * s = 4 * d * e - p * d
      BY <3>1
    <3>5. p * e <= b * s
      BY <2>2, <3>2, <3>3, <3>4
    <3>6. d * s - b * s = (d - b) * s
      BY <3>1
    <3>7. p * e <= d * s
      <4>1. CASE s >= 0
        <5>1. (d - b) * s >= 0
          BY <3>1, <4>1
        <5> QED
          BY <3>1, <3>5, <3>6, <5>1
      <4>2. CASE s < 0
        <5>1. b * s < 0
          BY <1>3, <3>1, <4>2
        <5>2. p > 0
          BY <1>3, <3>1, <4>2
        <5>3. p * e > 0
          BY <1>3, <3>1, <5>2
        <5> QED
          BY <3>1, <3>5, <5>1, <5>3
      <4> QED
        BY <3>1, <4>1, <4>2
    <3>8. p * d + p * e + d + e <= k
      BY <3>1, <3>4, <3>7
    <3> QED
      BY <3>2, <3>3, <3>8
  <2>. HIDE DEF k, l
  <2>5. q <= k \div l
    BY <2>1, <2>2, <2>4, QuotientReaches
  <2> QED
    BY <2>3, <2>5
<1> QED
  BY <1>2, <1>3

LEMMA HarmonicOf ==
  ASSUME NEW a \in Nat, NEW b \in Nat
  PROVE  /\ Harmonic(a, b, 1) \in Int /\ Harmonic(a, b, 1) >= 0
         /\ Harmonic(a, b, 1) = Harmonic(b, a, 1)
<1>1. CASE a = 0 \/ b = 0
  BY <1>1 DEF Harmonic
<1>2. CASE a > 0 /\ b > 0
  <2>. DEFINE n == 2 * a * b * 1
              m == a + b
              k == 2 * b * a * 1
  <2>1. n \in Int /\ 0 * m <= n /\ m \in Int /\ m > 0 /\ k = n /\ b + a = m
    <3>1. a * b \in Int /\ a * b >= 0 /\ b * a = a * b
      BY <1>2
    <3> QED
      BY <1>2, <3>1
  <2>2. Harmonic(a, b, 1) = n \div m /\ Harmonic(b, a, 1) = k \div (b + a)
    BY <1>2 DEF Harmonic
  <2>. HIDE DEF n, m, k
  <2>3. n \div m \in Int /\ 0 <= n \div m
    BY <2>1, QuotientReaches
  <2> QED
    BY <2>1, <2>2, <2>3
<1> QED
  BY <1>1, <1>2

\* A score before the caps, kept between nothing and the whole.
Kept(x) == Min({10000, Max({0, x})})

LEMMA KeptOf ==
  ASSUME NEW x \in Int
  PROVE  Kept(x) = IF x <= 0 THEN 0 ELSE IF x <= 10000 THEN x ELSE 10000
<1>1. IsFiniteSet({0, x}) /\ {0, x} # {} /\ {0, x} \subseteq Int
  <2>1. IsFiniteSet({0} \cup {x}) /\ {0, x} = {0} \cup {x}
    BY FS_AddElement, FS_Singleton
  <2> QED
    BY <2>1
<1>2. Max({0, x}) \in {0, x} /\ 0 <= Max({0, x}) /\ x <= Max({0, x})
  BY <1>1, Extremes
<1>. DEFINE m == Max({0, x})
<1>3. m = IF x <= 0 THEN 0 ELSE x
  BY <1>2
<1>. HIDE DEF m
<1>4. m \in Int /\ 10000 \in Int
  BY <1>3
<1>5. Min({10000, m}) = IF 10000 <= m THEN 10000 ELSE m
  BY <1>4, SmallerOf
<1>6. Kept(x) = Min({10000, m})
  BY DEF Kept, m
<1> QED
  BY <1>3, <1>4, <1>5, <1>6

\* What a joint score is before its caps.
Confident(b, e, p, q) == (ReciprocalBase(b, e) * (900 + Harmonic(p, q, 1))) \div 1000
Raw(b, e, p, q, a) ==
  (Confident(b, e, p, q) * (400 + a)) \div 500 - (Max({b, e}) - Min({b, e})) \div 10

\* A pair as it is scored: two scores out of 10000, three percentages, and the cap of an
\* exhibitor that declared no preference.
Points == 0..10000
Assured(p, q, a, caps) ==
  p \in 0..100 /\ q \in 0..100 /\ a \in 0..100 /\ caps \in {{}, {8000}}
Pair(b, e, p, q, a, caps) == b \in Points /\ e \in Points /\ Assured(p, q, a, caps)

LEMMA PairNumbers ==
  ASSUME NEW b, NEW e, NEW p, NEW q, NEW a, NEW caps, Pair(b, e, p, q, a, caps)
  PROVE  /\ b \in Nat /\ e \in Nat /\ p \in Nat /\ q \in Nat /\ a \in Nat
         /\ b <= 10000 /\ e <= 10000
  BY DEF Pair, Assured, Points

\* r is the joint score: the least of what it is before its caps and of them.
JointOf(r, b, e, p, q, a, caps) ==
  LET least  == IF b <= e THEN b ELSE e
      bounds == {Kept(Raw(b, e, p, q, a))} \cup GateCaps(least) \cup caps
  IN /\ r.status = MatchStatus(least)
     /\ bounds \subseteq Int /\ r.final \in bounds /\ \A x \in bounds : r.final <= x

LEMMA ConfidentOf ==
  ASSUME NEW b \in Nat, NEW e \in Nat, NEW p \in Nat, NEW q \in Nat
  PROVE  /\ Confident(b, e, p, q) \in Int /\ Confident(b, e, p, q) >= 0
         /\ b >= 7000 /\ e >= 7000 => Confident(b, e, p, q) >= 6300
<1>. DEFINE h == 900 + Harmonic(p, q, 1)
            x == ReciprocalBase(b, e)
            n == x * h
<1>1. h \in Int /\ h >= 900
  BY HarmonicOf
<1>2. x \in Int /\ x >= 0 /\ (b >= 7000 /\ e >= 7000 => x >= 7000)
  BY BaseReaches
<1>3. Confident(b, e, p, q) = n \div 1000
  BY DEF Confident
<1>. HIDE DEF h, x
<1>4. n \in Int /\ n >= 900 * x
  <2>1. x * (h - 900) >= 0 /\ x * (h - 900) = x * h - 900 * x
    BY <1>1, <1>2
  <2> QED
    BY <1>1, <1>2, <2>1
<1>. HIDE DEF n
<1>5. n \div 1000 \in Int /\ 0 <= n \div 1000 /\ (b >= 7000 /\ e >= 7000 => 6300 <= n \div 1000)
  BY <1>2, <1>4
<1> QED
  BY <1>3, <1>5

LEMMA ConfidentMonotone ==
  ASSUME NEW b \in Nat, NEW d \in Nat, NEW e \in Nat, b <= d, NEW p \in Nat, NEW q \in Nat
  PROVE  Confident(b, e, p, q) <= Confident(d, e, p, q)
<1>. DEFINE h == 900 + Harmonic(p, q, 1)
            x == ReciprocalBase(b, e)
            y == ReciprocalBase(d, e)
            m == x * h
            n == y * h
<1>1. h \in Int /\ h >= 900
  BY HarmonicOf
<1>2. x \in Int /\ y \in Int
  BY BaseReaches
<1>3. x <= y
  BY BaseMonotone
<1>4. Confident(b, e, p, q) = m \div 1000 /\ Confident(d, e, p, q) = n \div 1000
  BY DEF Confident
<1>. HIDE DEF h, x, y
<1>5. m \in Int /\ n \in Int /\ m <= n
  <2>1. (y - x) * h >= 0 /\ (y - x) * h = y * h - x * h
    BY <1>1, <1>2, <1>3
  <2> QED
    BY <1>1, <1>2, <2>1
<1>. HIDE DEF m, n
<1>6. m \div 1000 <= n \div 1000
  BY <1>5
<1> QED
  BY <1>4, <1>6

LEMMA GapOf ==
  ASSUME NEW b \in Nat, NEW e \in Nat
  PROVE  /\ Min({b, e}) = IF b <= e THEN b ELSE e
         /\ Max({b, e}) - Min({b, e}) = IF b <= e THEN e - b ELSE b - e
<1>1. IsFiniteSet({b, e}) /\ {b, e} # {} /\ {b, e} \subseteq Int
  <2>1. IsFiniteSet({b} \cup {e}) /\ {b, e} = {b} \cup {e}
    BY FS_AddElement, FS_Singleton
  <2> QED
    BY <2>1
<1>2. Max({b, e}) \in {b, e} /\ b <= Max({b, e}) /\ e <= Max({b, e})
  BY <1>1, Extremes
<1>3. Min({b, e}) = IF b <= e THEN b ELSE e
  BY SmallerOf
<1>. DEFINE m == Max({b, e})
            n == Min({b, e})
<1>4. m \in Int /\ n \in Int /\ m = (IF b <= e THEN e ELSE b) /\ n = IF b <= e THEN b ELSE e
  BY <1>2, <1>3
<1>. HIDE DEF m, n
<1>5. m - n = IF b <= e THEN e - b ELSE b - e
  BY <1>4
<1> QED
  BY <1>3, <1>5 DEF m, n

LEMMA RawType ==
  ASSUME NEW b \in Nat, NEW e \in Nat, NEW p \in Nat, NEW q \in Nat, NEW a \in Nat
  PROVE  Raw(b, e, p, q, a) \in Int
<1>. DEFINE c == Confident(b, e, p, q)
            g == Max({b, e}) - Min({b, e})
<1>1. c \in Int /\ g \in Int
  <2>1. c \in Int
    BY ConfidentOf
  <2>2. g = IF b <= e THEN e - b ELSE b - e
    BY GapOf
  <2>. HIDE DEF c, g
  <2> QED
    BY <2>1, <2>2
<1>2. Raw(b, e, p, q, a) = (c * (400 + a)) \div 500 - g \div 10
  BY DEF Raw
<1>. HIDE DEF c, g
<1>3. (c * (400 + a)) \div 500 \in Int /\ g \div 10 \in Int
  BY <1>1
<1> QED
  BY <1>2, <1>3

LEMMA JointIs ==
  ASSUME NEW b, NEW e, NEW p, NEW q, NEW a, NEW caps, Pair(b, e, p, q, a, caps)
  PROVE  JointOf(Reciprocal(b, e, p, q, a, caps), b, e, p, q, a, caps)
<1>. DEFINE least == IF b <= e THEN b ELSE e
            u == Kept(Raw(b, e, p, q, a))
            bounds == {u} \cup GateCaps(least) \cup caps
            r == Reciprocal(b, e, p, q, a, caps)
<1>1. b \in Nat /\ e \in Nat /\ p \in Nat /\ q \in Nat /\ a \in Nat /\ caps \in {{}, {8000}}
  BY DEF Pair, Assured, Points
<1>2. Min({b, e}) = least
  BY <1>1, GapOf
<1>3. u \in Int
  <2>. DEFINE x == Raw(b, e, p, q, a)
  <2>1. x \in Int
    BY <1>1, RawType
  <2>. HIDE DEF x
  <2>2. Kept(x) = IF x <= 0 THEN 0 ELSE IF x <= 10000 THEN x ELSE 10000
    BY <2>1, KeptOf
  <2>3. Kept(x) \in Int
    BY <2>1, <2>2
  <2> QED
    BY <2>3 DEF x
<1>4. r.final = Min({u} \cup GateCaps(Min({b, e})) \cup caps) /\ r.status = MatchStatus(Min({b, e}))
  BY DEF Reciprocal, Raw, Confident, Kept
<1>. HIDE DEF least, u, r
<1>5. GateCaps(least) \subseteq {4500, 6500} /\ caps \subseteq {8000}
  BY <1>1 DEF GateCaps
<1>6. bounds \subseteq {u, 4500, 6500, 8000} /\ u \in bounds
  <2>. DEFINE G == GateCaps(least)
  <2>1. \A x \in G : x \in {4500, 6500}
    BY <1>5
  <2>2. \A x \in caps : x = 8000
    BY <1>5
  <2>. HIDE DEF G
  <2>3. \A x : x \in {u} \cup G \cup caps => x \in {u, 4500, 6500, 8000}
    BY <2>1, <2>2
  <2> QED
    BY <2>3 DEF G
<1>. HIDE DEF bounds
<1>7. IsFiniteSet({u, 4500, 6500, 8000})
  <2>0. IsFiniteSet({u})
    BY FS_Singleton
  <2>1. IsFiniteSet({u} \cup {4500})
    BY <2>0, FS_AddElement
  <2>2. IsFiniteSet(({u} \cup {4500}) \cup {6500})
    BY <2>1, FS_AddElement
  <2>3. IsFiniteSet((({u} \cup {4500}) \cup {6500}) \cup {8000})
    BY <2>2, FS_AddElement
  <2>4. {u, 4500, 6500, 8000} = (({u} \cup {4500}) \cup {6500}) \cup {8000}
    OBVIOUS
  <2> QED
    BY <2>3, <2>4
<1>8. IsFiniteSet(bounds) /\ bounds # {} /\ bounds \subseteq Int
  <2>1. IsFiniteSet(bounds)
    BY <1>6, <1>7, FS_Subset
  <2>2. {u, 4500, 6500, 8000} \subseteq Int
    BY <1>3
  <2> QED
    BY <1>6, <2>1, <2>2
<1>9. Min(bounds) \in bounds /\ \A x \in bounds : Min(bounds) <= x
  BY <1>8, Extremes
<1>10. r.final = Min(bounds) /\ r.status = MatchStatus(least)
  BY <1>2, <1>4 DEF bounds
<1>11. r.status = MatchStatus(least) /\ bounds \subseteq Int /\ r.final \in bounds
       /\ \A x \in bounds : r.final <= x
  BY <1>8, <1>9, <1>10
<1> QED
  BY <1>11 DEF JointOf, least, u, bounds, r

LEMMA RawMonotone ==
  ASSUME NEW b \in Nat, NEW d \in Nat, NEW e \in Nat, b <= d, d <= e,
         NEW p \in Nat, NEW q \in Nat, NEW a \in Nat
  PROVE  Raw(b, e, p, q, a) <= Raw(d, e, p, q, a)
<1>. DEFINE x == Confident(b, e, p, q)
            y == Confident(d, e, p, q)
            g == Max({b, e}) - Min({b, e})
            h == Max({d, e}) - Min({d, e})
            i == x * (400 + a)
            j == y * (400 + a)
<1>1. x \in Int /\ y \in Int
  BY ConfidentOf
<1>2. x <= y
  BY ConfidentMonotone
<1>3. g = e - b /\ h = e - d
  <2>1. g = IF b <= e THEN e - b ELSE b - e
    BY GapOf
  <2>2. h = IF d <= e THEN e - d ELSE d - e
    BY GapOf
  <2>. HIDE DEF g, h
  <2> QED
    BY <2>1, <2>2
<1>4. Raw(b, e, p, q, a) = i \div 500 - g \div 10 /\ Raw(d, e, p, q, a) = j \div 500 - h \div 10
  BY DEF Raw
<1>. HIDE DEF x, y, g, h
<1>5. i \in Int /\ j \in Int /\ i <= j
  <2>1. (y - x) * (400 + a) >= 0 /\ (y - x) * (400 + a) = y * (400 + a) - x * (400 + a)
    BY <1>1, <1>2
  <2> QED
    BY <1>1, <2>1
<1>. HIDE DEF i, j
<1>6. i \div 500 \in Int /\ j \div 500 \in Int /\ i \div 500 <= j \div 500
  BY <1>5
<1>7. g \div 10 \in Int /\ h \div 10 \in Int /\ h \div 10 <= g \div 10
  BY <1>3
<1> QED
  BY <1>4, <1>6, <1>7

\* Raising the weaker direction never lowers the joint score.
LEMMA WeakerHelps ==
  ASSUME NEW b, NEW d, NEW e, NEW p, NEW q, NEW a, NEW caps,
         Pair(b, e, p, q, a, caps), Pair(d, e, p, q, a, caps), b <= d, d <= e
  PROVE  Reciprocal(d, e, p, q, a, caps).final >= Reciprocal(b, e, p, q, a, caps).final
<1>. DEFINE r == Reciprocal(b, e, p, q, a, caps)
            s == Reciprocal(d, e, p, q, a, caps)
            x == Raw(b, e, p, q, a)
            y == Raw(d, e, p, q, a)
<1>1. JointOf(r, b, e, p, q, a, caps) /\ JointOf(s, d, e, p, q, a, caps)
  BY JointIs
<1>2. b \in Nat /\ d \in Nat /\ e \in Nat /\ p \in Nat /\ q \in Nat /\ a \in Nat
  <2>1. b \in Nat /\ e \in Nat /\ p \in Nat /\ q \in Nat /\ a \in Nat
    BY PairNumbers
  <2>2. d \in Nat
    BY PairNumbers
  <2> QED
    BY <2>1, <2>2
<1>3. x \in Int /\ y \in Int /\ x <= y
  BY <1>2, RawType, RawMonotone
<1>. HIDE DEF r, s, x, y
<1>4. Kept(x) \in Int /\ Kept(y) \in Int /\ Kept(x) <= Kept(y)
  BY <1>3, KeptOf
<1>5. GateCaps(d) \subseteq GateCaps(b)
  BY <1>2 DEF GateCaps
<1>6. /\ r.final \in Int /\ r.final <= Kept(x) /\ (\A c \in GateCaps(b) : r.final <= c)
      /\ \A c \in caps : r.final <= c
  <2>. DEFINE bounds == {Kept(x)} \cup GateCaps(b) \cup caps
  <2>1. bounds \subseteq Int /\ r.final \in bounds /\ \A c \in bounds : r.final <= c
    BY <1>1, <1>2 DEF JointOf, x
  <2>2. Kept(x) \in bounds /\ GateCaps(b) \subseteq bounds /\ caps \subseteq bounds
    OBVIOUS
  <2>. HIDE DEF bounds
  <2> QED
    BY <2>1, <2>2
<1>7. s.final \in {Kept(y)} \cup GateCaps(d) \cup caps
  BY <1>1, <1>2 DEF JointOf, y
<1>8. CASE s.final = Kept(y)
  <2>. DEFINE k == Kept(x)
              l == Kept(y)
              f == r.final
  <2>1. f \in Int /\ k \in Int /\ l \in Int /\ f <= k /\ k <= l /\ s.final = l
    BY <1>4, <1>6, <1>8
  <2>. HIDE DEF k, l, f
  <2>2. s.final >= f
    BY <2>1
  <2> QED
    BY <2>2 DEF f, r, s
<1>9. CASE s.final \in GateCaps(d) \cup caps
  <2>1. \A c \in GateCaps(d) \cup caps : r.final <= c
    BY <1>5, <1>6
  <2>2. s.final >= r.final
    BY <1>9, <2>1
  <2> QED
    BY <2>2 DEF r, s
<1> QED
  BY <1>7, <1>8, <1>9

\* The joint score does not depend on which side is which.
LEMMA SidesAlike ==
  ASSUME NEW b, NEW e, NEW p, NEW q, NEW a, NEW caps, Pair(b, e, p, q, a, caps)
  PROVE  Reciprocal(b, e, p, q, a, caps) = Reciprocal(e, b, q, p, a, caps)
<1>1. b \in Nat /\ e \in Nat /\ p \in Nat /\ q \in Nat
  BY PairNumbers
<1>2. Harmonic(p, q, 1) = Harmonic(q, p, 1)
  BY <1>1, HarmonicOf
<1>3. ReciprocalBase(b, e) = ReciprocalBase(e, b)
  <2>1. 4 * b * e + b + e = 4 * e * b + e + b /\ 2 * (b + e) = 2 * (e + b)
    BY <1>1
  <2> QED
    BY <2>1 DEF ReciprocalBase
<1>. DEFINE least(S) == Min(S)
            apart(S) == Max(S) - least(S)
            sure(x, h) == (x * (900 + h)) \div 1000
            joint(S, x, h) ==
              [final |-> Min({Min({10000, Max({0, (sure(x, h) * (400 + a)) \div 500 - apart(S) \div 10})})}
                             \cup GateCaps(least(S)) \cup caps),
               status |-> MatchStatus(least(S)), imbalance |-> apart(S)]
<1>4. /\ Reciprocal(b, e, p, q, a, caps) = joint({b, e}, ReciprocalBase(b, e), Harmonic(p, q, 1))
      /\ Reciprocal(e, b, q, p, a, caps) = joint({e, b}, ReciprocalBase(e, b), Harmonic(q, p, 1))
  BY DEF Reciprocal
<1>5. {b, e} = {e, b}
  OBVIOUS
<1>. HIDE DEF joint
<1> QED
  BY <1>2, <1>3, <1>4, <1>5

\* A match that both sides want ranks above one that a side does not want.
LEMMA MutualAbove ==
  ASSUME NEW b, NEW e, NEW p, NEW q, NEW a, NEW caps, Pair(b, e, p, q, a, caps),
         NEW c, NEW f, NEW s, NEW t, NEW v, NEW more, Pair(c, f, s, t, v, more),
         Reciprocal(b, e, p, q, a, caps).status = "MUTUAL_MATCH",
         Reciprocal(c, f, s, t, v, more).status = "NOT_RECIPROCAL"
  PROVE  Reciprocal(c, f, s, t, v, more).final < Reciprocal(b, e, p, q, a, caps).final
<1>. DEFINE r == Reciprocal(b, e, p, q, a, caps)
            z == Reciprocal(c, f, s, t, v, more)
            least == IF b <= e THEN b ELSE e
            lower == IF c <= f THEN c ELSE f
            x == Raw(b, e, p, q, a)
            k == Kept(x)
<1>1. JointOf(r, b, e, p, q, a, caps) /\ JointOf(z, c, f, s, t, v, more)
  BY JointIs
<1>2. c \in Nat /\ f \in Nat
  BY PairNumbers
<1>3. /\ b \in Nat /\ e \in Nat /\ p \in Nat /\ q \in Nat /\ a \in Nat
      /\ b <= 10000 /\ e <= 10000
  BY PairNumbers
<1>4. \A y \in caps : y = 8000
  BY DEF Pair, Assured, Points
<1>5. r.status = "MUTUAL_MATCH" /\ z.status = "NOT_RECIPROCAL"
  OBVIOUS
<1>6. r.status = MatchStatus(least) /\ z.status = MatchStatus(lower)
  BY <1>1 DEF JointOf
<1>7. least \in Nat /\ lower \in Nat
  BY <1>2, <1>3
<1>8. r.final \in {k} \cup GateCaps(least) \cup caps
  BY <1>1 DEF JointOf
<1>9. z.final \in Int /\ \A y \in GateCaps(lower) : z.final <= y
  <2>. DEFINE u == Kept(Raw(c, f, s, t, v))
              bounds == {u} \cup GateCaps(lower) \cup more
  <2>1. bounds \subseteq Int /\ z.final \in bounds /\ \A y \in bounds : z.final <= y
    BY <1>1 DEF JointOf
  <2>2. GateCaps(lower) \subseteq bounds
    OBVIOUS
  <2>. HIDE DEF bounds
  <2> QED
    BY <2>1, <2>2
<1>. HIDE DEF r, z
<1>10. b >= 7000 /\ e >= 7000 /\ least >= 7000
  BY <1>3, <1>5, <1>6 DEF MatchStatus
<1>11. lower < 4000
  <2>. HIDE DEF lower
  <2> QED
    BY <1>5, <1>6, <1>7 DEF MatchStatus
<1>12. x \in Int /\ x >= 4740
  <2>. DEFINE y == Confident(b, e, p, q)
              g == Max({b, e}) - Min({b, e})
              n == y * (400 + a)
  <2>1. y \in Int /\ y >= 6300
    BY <1>3, <1>10, ConfidentOf
  <2>2. g = IF b <= e THEN e - b ELSE b - e
    BY <1>3, GapOf
  <2>3. x = n \div 500 - g \div 10
    BY DEF Raw
  <2>. HIDE DEF x, y, g
  <2>4. g \in Int /\ g <= 3000
    <3>1. e - b <= 3000 /\ b - e <= 3000
      BY <1>3, <1>10
    <3> QED
      BY <1>3, <2>2, <3>1
  <2>5. n \in Int /\ n >= 2520000
    <3>1. y * a \in Int /\ y * a >= 0 /\ n = 400 * y + y * a
      BY <1>3, <2>1
    <3>. DEFINE m == y * a
    <3>. HIDE DEF m
    <3>2. m \in Int /\ m >= 0 /\ n = 400 * y + m
      BY <3>1 DEF m
    <3>. HIDE DEF n
    <3> QED
      BY <2>1, <3>2
  <2>. HIDE DEF n
  <2>6. n \div 500 \in Int /\ n \div 500 >= 5040
    BY <2>5
  <2>7. g \div 10 \in Int /\ g \div 10 <= 300
    BY <2>4
  <2> QED
    BY <2>3, <2>6, <2>7
<1>. HIDE DEF x
<1>13. k \in Int /\ k >= 4740
  BY <1>12, KeptOf
<1>. HIDE DEF k, least, lower
<1>14. GateCaps(least) = {}
  BY <1>7, <1>10 DEF GateCaps
<1>15. 4500 \in GateCaps(lower)
  BY <1>11 DEF GateCaps
<1>16. z.final <= 4500
  BY <1>9, <1>15
<1>17. r.final \in Int /\ r.final > 4500
  <2>1. r.final = k \/ r.final \in caps
    BY <1>8, <1>14
  <2>2. \A y \in caps : y = 8000
    BY <1>4
  <2>3. CASE r.final = k
    BY <1>13, <2>3
  <2>4. CASE r.final \in caps
    BY <2>2, <2>4
  <2> QED
    BY <2>1, <2>3, <2>4
<1>18. z.final < r.final
  BY <1>9, <1>16, <1>17
<1> QED
  BY <1>18 DEF r, z

LEMMA WeakerAlwaysHelps ==
  ASSUME NEW b, NEW e, NEW p, NEW q, NEW a, NEW caps, Pair(b, e, p, q, a, caps)
  PROVE  \A d \in Points : b <= d /\ d <= e =>
           Reciprocal(d, e, p, q, a, caps).final >= Reciprocal(b, e, p, q, a, caps).final
<1>. SUFFICES ASSUME NEW d \in Points, b <= d, d <= e
              PROVE  Reciprocal(d, e, p, q, a, caps).final >= Reciprocal(b, e, p, q, a, caps).final
  OBVIOUS
<1>1. Pair(d, e, p, q, a, caps)
  BY DEF Pair
<1> QED
  BY <1>1, WeakerHelps

LEMMA MutualAboveSurest ==
  ASSUME NEW b, NEW e, NEW p, NEW q, NEW a, NEW caps, Pair(b, e, p, q, a, caps),
         Reciprocal(b, e, p, q, a, caps).status = "MUTUAL_MATCH"
  PROVE  \A c, f \in Points : Reciprocal(c, f, 100, 100, 100, {}).status = "NOT_RECIPROCAL" =>
           Reciprocal(c, f, 100, 100, 100, {}).final < Reciprocal(b, e, p, q, a, caps).final
<1>. SUFFICES ASSUME NEW c \in Points, NEW f \in Points,
                     Reciprocal(c, f, 100, 100, 100, {}).status = "NOT_RECIPROCAL"
              PROVE  Reciprocal(c, f, 100, 100, 100, {}).final < Reciprocal(b, e, p, q, a, caps).final
  OBVIOUS
<1>1. Assured(100, 100, 100, {})
  BY DEF Assured
<1>2. Pair(c, f, 100, 100, 100, {})
  BY <1>1 DEF Pair
<1> QED
  BY <1>2, MutualAbove

\* A pair of a case is one the service scores.
JoinsPair(t) ==
  t.kind = "reciprocal" =>
    Pair(t.buyer, t.exhibitor, t.confidence[1], t.confidence[2], t.acceptance, t.caps)

\* Whatever the scores of the two sides, how sure they are and the cap: raising the
\* weaker side never lowers the joint score, which side is which does not matter, and a
\* match that both want ranks above any that one does not want.
THEOREM WeakerSideDecides ==
  ASSUME NEW CONSTANT cases, \A t \in cases : JoinsPair(t)
  PROVE  Stages(cases) => [](WeakerSideHelps /\ MutualAboveOneSided)
<1>. DEFINE Start == result = None /\ task \in cases
            Paired ==
              /\ task \in cases
              /\ result # None /\ task.kind = "reciprocal" =>
                   result = Joined(task, task.buyer, task.exhibitor)
<1>1. Start => Paired
  OBVIOUS
<1>2. Paired /\ [Compute]_<<task, result>> => Paired'
  <2>. SUFFICES ASSUME Paired, [Compute]_<<task, result>> PROVE Paired'
    OBVIOUS
  <2>1. CASE Compute /\ EligibilityCompute
    BY <2>1 DEF Compute, EligibilityCompute, Filter, Normalize, Judge
  <2>2. CASE Compute /\ CandidatesCompute
    BY <2>2 DEF Compute, CandidatesCompute, Merge, Assemble, Embed, Ask
  <2>3. CASE Compute /\ PresentingCompute
    BY <2>3 DEF Compute, PresentingCompute, Present, Join, Execute
  <2>4. CASE Compute /\ SlateCompute
    BY <2>4 DEF Compute, SlateCompute, LaySlate, Settle
  <2>5. CASE UNCHANGED <<task, result>>
    BY <2>5
  <2> QED
    BY <2>1, <2>2, <2>3, <2>4, <2>5 DEF Compute
<1>3. Paired => WeakerSideHelps /\ MutualAboveOneSided
  <2>. SUFFICES ASSUME Paired, task.kind = "reciprocal", result # None
                PROVE  WeakerSideHelps /\ MutualAboveOneSided
    BY DEF WeakerSideHelps, MutualAboveOneSided
  <2>. DEFINE b == task.buyer
              e == task.exhibitor
              p == task.confidence[1]
              q == task.confidence[2]
              a == task.acceptance
              caps == task.caps
  <2>0. JoinsPair(task) /\ result = Joined(task, task.buyer, task.exhibitor)
    OBVIOUS
  <2>1. Pair(b, e, p, q, a, caps)
    BY <2>0 DEF JoinsPair
  <2>2. result = Reciprocal(b, e, p, q, a, caps)
    BY <2>0 DEF Joined
  <2>3. Directions \subseteq Points
    BY DEF Directions, Points
  <2>4. \A d : Joined(task, d, e) = Reciprocal(d, e, p, q, a, caps)
    BY DEF Joined
  <2>5. WeakerSideHelps
    <3>1. ASSUME NEW d \in Directions, b <= d, d <= e PROVE Joined(task, d, e).final >= result.final
      <4>. HIDE DEF b, e, p, q, a, caps
      <4>1. d \in Points
        BY <2>3
      <4>2. Reciprocal(d, e, p, q, a, caps).final >= Reciprocal(b, e, p, q, a, caps).final
        BY <2>1, <3>1, <4>1, WeakerAlwaysHelps
      <4> QED
        BY <2>2, <2>4, <4>2
    <3>2. result.final = Reciprocal(e, b, q, p, a, caps).final
      <4>. HIDE DEF b, e, p, q, a, caps
      <4> QED
        BY <2>1, <2>2, SidesAlike
    <3> QED
      BY <3>1, <3>2 DEF WeakerSideHelps
  <2>6. MutualAboveOneSided
    <3>. SUFFICES ASSUME result.status = "MUTUAL_MATCH",
                         NEW t \in [confidence : {<<100, 100>>}, acceptance : {100}, caps : {{}}],
                         NEW c \in Directions, NEW f \in Directions,
                         Joined(t, c, f).status = "NOT_RECIPROCAL"
                  PROVE  Joined(t, c, f).final < result.final
      BY DEF MutualAboveOneSided
    <3>1. Joined(t, c, f) = Reciprocal(c, f, 100, 100, 100, {})
      BY DEF Joined
    <3>. HIDE DEF b, e, p, q, a, caps
    <3>2. c \in Points /\ f \in Points
      BY <2>3
    <3> QED
      BY <2>1, <2>2, <3>1, <3>2, MutualAboveSurest
  <2> QED
    BY <2>5, <2>6
<1> QED
  BY <1>1, <1>2, <1>3, PTL DEF Stages

-----------------------------------------------------------------------------
(* What is worse for the one it is shown to never scores higher.            *)

\* JSON null is no score.
NullIsNoScore ==
  /\ \A s, k : [score |-> s, contributions |-> k] # None
  /\ \A s, m, i, k, t, c, e :
       [score |-> s, status |-> m, imbalance |-> i, components |-> k, toward |-> t,
        contributions |-> c, exhibitor |-> e] # None

\* Of two candidates the same is known, and nothing of j is more than that of k.
NoWorse(D, weights, j, k) ==
  /\ IsFiniteSet(D) /\ \A n \in D : weights[n] \in Nat \ {0}
  /\ DOMAIN j = D /\ DOMAIN k = D
  /\ \A n \in D : /\ j[n] \in Amount /\ k[n] \in Amount
                  /\ j[n] = None <=> k[n] = None
                  /\ k[n] # None => j[n] <= k[n]

\* The score of a direction is monotone in its components.
LEMMA DirectionalMonotone ==
  ASSUME NullIsNoScore, NEW D, NEW weights, NEW j, NEW k, NoWorse(D, weights, j, k)
  PROVE  LET a == Directional(weights, j, {})
             b == Directional(weights, k, {})
         IN /\ a = None <=> b = None
            /\ b # None => a.score \in Int /\ b.score \in Int /\ a.score <= b.score
<1>. DEFINE P == PresentIn(k)
            f == [n \in P |-> k[n] * weights[n]]
            g == [n \in P |-> j[n] * weights[n]]
            w == [n \in P |-> weights[n]]
            F == SumFunction(f)
            G == SumFunction(g)
            W == SumFunction(w)
            a == Directional(weights, j, {})
            b == Directional(weights, k, {})
<1>1. P \subseteq D /\ PresentIn(j) = P
  BY DEF PresentIn, NoWorse
<1>2. IsFiniteSet(P)
  BY <1>1, FS_Subset DEF NoWorse
<1>3. ASSUME NEW n \in P
      PROVE  j[n] \in Int /\ k[n] \in Int /\ weights[n] \in Nat \ {0} /\ j[n] <= k[n]
  BY <1>1 DEF NoWorse, PresentIn, Amount
<1>4. f \in [P -> Int] /\ g \in [P -> Int] /\ w \in [P -> Int] /\ w \in [P -> Nat \ {0}]
  BY <1>3
<1>5. ASSUME NEW n \in P PROVE g[n] <= f[n]
  <2>. DEFINE u == j[n]
              v == k[n]
              z == weights[n]
  <2>1. u \in Int /\ v \in Int /\ z \in Nat /\ u <= v
    BY <1>3
  <2>. HIDE DEF u, v, z
  <2>2. (v - u) * z >= 0 /\ (v - u) * z = v * z - u * z
    BY <2>1
  <2>3. u * z <= v * z
    BY <2>1, <2>2
  <2>4. g[n] = u * z /\ f[n] = v * z
    BY DEF u, v, z
  <2> QED
    BY <2>3, <2>4
<1>6. a = None <=> P = {}
  BY <1>1 DEF Directional, NullIsNoScore
<1>7. b = None <=> P = {}
  BY DEF Directional, NullIsNoScore
<1>8. P # {} => a.score = Min({(100 * G) \div W} \cup {})
  BY <1>1 DEF Directional
<1>9. P # {} => b.score = Min({(100 * F) \div W} \cup {})
  BY DEF Directional
<1>. HIDE DEF P, f, g, w, a, b
<1>10. F \in Int /\ G \in Int /\ W \in Int /\ G <= F
  BY <1>2, <1>4, <1>5, SumType, SumMonotone
<1>11. P # {} => W > 0
  BY <1>2, <1>4, PositiveSum
<1>. HIDE DEF F, G, W
<1>12. ASSUME P # {} PROVE a.score \in Int /\ b.score \in Int /\ a.score <= b.score
  <2>. DEFINE x == 100 * G
              y == 100 * F
  <2>1. x \in Int /\ y \in Int /\ x <= y
    BY <1>10
  <2>2. a.score = Min({x \div W} \cup {}) /\ b.score = Min({y \div W} \cup {})
    BY <1>8, <1>9, <1>12
  <2>. HIDE DEF x, y
  <2>3. x \div W <= y \div W
    BY <1>10, <1>11, <1>12, <2>1, QuotientMonotone
  <2>4. x \div W \in Int /\ y \div W \in Int
    BY <1>10, <1>11, <1>12, <2>1
  <2>5. a.score = x \div W /\ b.score = y \div W
    BY <2>2, <2>4, MinAlone
  <2> QED
    BY <2>3, <2>4, <2>5
<1>13. (a = None <=> b = None) /\ (b # None => a.score \in Int /\ b.score \in Int /\ a.score <= b.score)
  BY <1>6, <1>7, <1>12
<1> QED
  BY <1>13 DEF a, b

\* What is shown is monotone in the score and in the parts of the context.
LEMMA EvaluatedMonotone ==
  ASSUME NullIsNoScore, NEW c, NEW d, NEW p, NEW q, NEW x, NEW y, NEW open,
         NoWorse(DOMAIN ContextWeights, ContextWeights,
                 ContextParts(d, q, y, open), ContextParts(c, p, x, open)),
         NEW s \in Int, NEW t \in Int, s <= t
  PROVE  Evaluated(d, q, y, open, s).final <= Evaluated(c, p, x, open, t).final
<1>. DEFINE a == Directional(ContextWeights, ContextParts(d, q, y, open), {})
            b == Directional(ContextWeights, ContextParts(c, p, x, open), {})
<1>1. /\ a = None <=> b = None
      /\ b # None => a.score \in Int /\ b.score \in Int /\ a.score <= b.score
  BY DirectionalMonotone
<1>2. Evaluated(d, q, y, open, s).final = IF a = None THEN s ELSE (85 * s + 15 * a.score) \div 100
  BY DEF Evaluated
<1>3. Evaluated(c, p, x, open, t).final = IF b = None THEN t ELSE (85 * t + 15 * b.score) \div 100
  BY DEF Evaluated
<1>. HIDE DEF a, b
<1>4. ASSUME b # None PROVE (85 * s + 15 * a.score) \div 100 <= (85 * t + 15 * b.score) \div 100
  <2>. DEFINE i == 85 * s + 15 * a.score
              j == 85 * t + 15 * b.score
              m == 100
  <2>1. i \in Int /\ j \in Int /\ i <= j /\ m \in Int /\ m > 0
    BY <1>1, <1>4
  <2>. HIDE DEF i, j, m
  <2>2. i \div m <= j \div m
    BY <2>1, QuotientMonotone
  <2> QED
    BY <2>2 DEF i, j, m
<1> QED
  BY <1>1, <1>2, <1>3, <1>4

\* So is the presentation of a candidate, whose score is what is given.
LEMMA PresentedMonotone ==
  ASSUME NullIsNoScore, NEW c, NEW d, NEW p, NEW q, NEW x, NEW y, NEW open, NEW vector,
         ScoreCandidate(c, p) # None, ScoreCandidate(d, q) # None,
         ScoreCandidate(c, p).score \in Int, ScoreCandidate(d, q).score \in Int,
         ScoreCandidate(d, q).score <= ScoreCandidate(c, p).score,
         NoWorse(DOMAIN ContextWeights, ContextWeights,
                 ContextParts(d, q, y, open), ContextParts(c, p, x, open))
  PROVE  Presented(d, q, y, open, vector).final <= Presented(c, p, x, open, vector).final
<1>. DEFINE s == ScoreCandidate(d, q)
            t == ScoreCandidate(c, p)
<1>1. s # None => Presented(d, q, y, open, vector).final = Evaluated(d, q, y, open, s.score).final
  BY DEF Presented
<1>2. t # None => Presented(c, p, x, open, vector).final = Evaluated(c, p, x, open, t.score).final
  BY DEF Presented
<1>. DEFINE m == s.score
            n == t.score
<1>3. m \in Int /\ n \in Int /\ m <= n /\ s # None /\ t # None
  OBVIOUS
<1>. HIDE DEF m, n
<1>4. Evaluated(d, q, y, open, m).final <= Evaluated(c, p, x, open, n).final
  BY <1>3, EvaluatedMonotone
<1> QED
  BY <1>1, <1>2, <1>3, <1>4 DEF m, n

\* Of the same codes, known as surely, h likes every one no less than i does.
Fonder(h, i) ==
  /\ IsFiniteSet(DOMAIN i) /\ DOMAIN h = DOMAIN i
  /\ \A k \in DOMAIN i : /\ i[k].score \in Int /\ h[k].score \in Int /\ i[k].score <= h[k].score
                         /\ i[k].confidence \in Nat /\ h[k].confidence = i[k].confidence

\* To like a code more never lowers the part that the behaviour has in a score.
LEMMA BehaviorMonotone ==
  ASSUME NEW h, NEW i, Fonder(h, i), NEW codes
  PROVE  /\ BehaviorScore(i, codes) \in Amount /\ BehaviorScore(h, codes) \in Amount
         /\ BehaviorScore(i, codes) = None <=> BehaviorScore(h, codes) = None
         /\ BehaviorScore(h, codes) # None => BehaviorScore(i, codes) <= BehaviorScore(h, codes)
<1>. DEFINE D == DOMAIN i
            weight(k) == (MaxMatchStrength(codes, {k}) * i[k].confidence) \div 1000
            w == [k \in D |-> weight(k)]
            f == [k \in D |-> weight(k) * i[k].score]
            g == [k \in D |-> weight(k) * h[k].score]
            x == BehaviorScore(i, codes)
            y == BehaviorScore(h, codes)
<1>1. x \in Amount /\ y \in Amount
  <2>1. x \in Amount
    BY BehaviorScoreType DEF Fonder
  <2>2. IsFiniteSet(DOMAIN h)
        /\ \A k \in DOMAIN h : h[k].score \in Int /\ h[k].confidence \in Nat
    BY DEF Fonder
  <2>3. y \in Amount
    BY <2>2, BehaviorScoreType
  <2> QED
    BY <2>1, <2>3
<1>2. ASSUME NEW k \in D PROVE weight(k) \in Nat
  <2>. DEFINE a == MaxMatchStrength(codes, {k})
              b == i[k].confidence
              c == a * b
  <2>1. a \in Nat /\ b \in Nat
    BY StrongestType DEF Fonder
  <2>. HIDE DEF a, b
  <2>2. c \in Nat
    BY <2>1
  <2>. HIDE DEF c
  <2>3. c \div 1000 \in Nat
    BY <2>2
  <2> QED
    BY <2>3 DEF a, b, c
<1>3. x = IF D = {} \/ codes = {} THEN None
          ELSE IF SumFunction(w) = 0 THEN 0 ELSE (SumFunction(f) \div SumFunction(w) + 100) \div 2
  BY DEF BehaviorScore
<1>4. y = IF D = {} \/ codes = {} THEN None
          ELSE IF SumFunction(w) = 0 THEN 0 ELSE (SumFunction(g) \div SumFunction(w) + 100) \div 2
  <2>. DEFINE v(k) == (MaxMatchStrength(codes, {k}) * h[k].confidence) \div 1000
  <2>1. \A k \in D : v(k) = weight(k)
    BY DEF Fonder
  <2>2. DOMAIN h = D
    BY DEF Fonder
  <2>3. y = IF D = {} \/ codes = {} THEN None
            ELSE IF SumFunction([k \in D |-> v(k)]) = 0 THEN 0
            ELSE (SumFunction([k \in D |-> v(k) * h[k].score])
                    \div SumFunction([k \in D |-> v(k)]) + 100) \div 2
    BY <2>2 DEF BehaviorScore
  <2>. HIDE DEF v, weight, D
  <2>4. [k \in D |-> v(k)] = w /\ [k \in D |-> v(k) * h[k].score] = g
    BY <2>1
  <2> QED
    BY <2>3, <2>4
<1>. HIDE DEF weight
<1>5. ASSUME NEW k \in D PROVE /\ f[k] \in Int /\ g[k] \in Int /\ w[k] \in Nat /\ f[k] <= g[k]
  <2>. DEFINE a == weight(k)
              b == i[k].score
              c == h[k].score
  <2>1. a \in Nat /\ b \in Int /\ c \in Int /\ b <= c
    BY <1>2 DEF Fonder
  <2>2. f[k] = a * b /\ g[k] = a * c /\ w[k] = a
    OBVIOUS
  <2>. HIDE DEF a, b, c, f, g, w
  <2>3. a * (c - b) >= 0 /\ a * (c - b) = a * c - a * b
    BY <2>1
  <2>4. a * b \in Int /\ a * c \in Int
    BY <2>1
  <2> QED
    BY <2>1, <2>2, <2>3, <2>4
<1>6. f \in [D -> Int] /\ g \in [D -> Int] /\ w \in [D -> Int] /\ w \in [D -> Nat]
      /\ \A k \in D : f[k] <= g[k]
  BY <1>5
<1>7. IsFiniteSet(D)
  BY DEF Fonder
<1>. HIDE DEF D, w, f, g, x, y
<1>. DEFINE F == SumFunction(f)
            G == SumFunction(g)
            W == SumFunction(w)
<1>8. F \in Int /\ G \in Int /\ W \in Nat /\ F <= G
  BY <1>6, <1>7, SumType, SumMonotone, SumNatural
<1>. HIDE DEF F, G, W
<1>9. ASSUME W # 0 PROVE (F \div W + 100) \div 2 <= (G \div W + 100) \div 2
  <2>. DEFINE a == F \div W
              b == G \div W
  <2>1. a \in Int /\ b \in Int /\ a <= b
    <3>1. W \in Int /\ W > 0
      BY <1>8, <1>9
    <3>2. a <= b
      BY <1>8, <3>1, QuotientMonotone
    <3> QED
      BY <1>8, <3>1, <3>2
  <2>. HIDE DEF a, b
  <2>2. (a + 100) \div 2 <= (b + 100) \div 2
    BY <2>1
  <2> QED
    BY <2>2 DEF a, b
<1>10. /\ x = IF D = {} \/ codes = {} THEN None ELSE IF W = 0 THEN 0 ELSE (F \div W + 100) \div 2
       /\ y = IF D = {} \/ codes = {} THEN None ELSE IF W = 0 THEN 0 ELSE (G \div W + 100) \div 2
  BY <1>3, <1>4 DEF F, G, W
<1>11. W # 0 => (F \div W + 100) \div 2 \in Int /\ (G \div W + 100) \div 2 \in Int
  BY <1>8
<1>12. /\ x = None <=> y = None
       /\ y # None => x <= y
  BY <1>9, <1>10, <1>11, NullAssumption
<1> QED
  BY <1>1, <1>12 DEF x, y

\* The sum of one number is that number.
LEMMA SumOfOne ==
  ASSUME NEW k, NEW f \in [{k} -> Int]
  PROVE  SumFunction(f) = f[k]
<1>. DEFINE D == {k}
            g == [y \in D \ {k} |-> 0]
<1>1. IsFiniteSet(D) /\ k \in D /\ IsFiniteSet(D \ {k}) /\ D \ {k} = {}
  <2>1. IsFiniteSet(D) /\ D \ {k} = {}
    BY FS_Singleton
  <2> QED
    BY <2>1, FS_EmptySet
<1>2. f \in [D -> Int] /\ g \in [D \ {k} -> Int] /\ (\A y \in D \ {k} : f[y] = g[y])
  OBVIOUS
<1>. HIDE DEF D, g
<1>3. SumFunction(f) = f[k] + SumFunction(g)
  BY <1>1, <1>2, SumWithout
<1>4. SumFunction(g) = 0
  BY <1>1, <1>2, SumType
<1>5. f[k] \in Int
  BY <1>1, <1>2
<1> QED
  BY <1>3, <1>4, <1>5

\* A code matches itself as strongly as can be.
LEMMA MatchesItself ==
  ASSUME NEW codes, NEW k \in codes \cap Concept
  PROVE  MaxMatchStrength(codes, {k}) = 1000
<1>. DEFINE pairs == (codes \cap Concept) \X ({k} \cap Concept)
            part(q) == MatchStrength(q[1], q[2])
            T == {0} \cup {part(q) : q \in pairs}
            bound == 1000
<1>1. ASSUME NEW q \in pairs PROVE part(q) \in 0..bound
  <2>1. q[1] \in Concept /\ q[2] \in Concept
    OBVIOUS
  <2> QED
    BY <2>1, StrengthsBounded
<1>2. <<k, k>> \in pairs /\ part(<<k, k>>) = bound
  BY DEF MatchStrength
<1>3. MaxMatchStrength(codes, {k}) = Larger(T)
  BY DEF MaxMatchStrength
<1>4. bound \in Nat /\ bound = 1000
  OBVIOUS
<1>. HIDE DEF pairs, part, bound
<1>5. T \in SUBSET (0..bound) /\ T # {} /\ bound \in T
  BY <1>1, <1>2, <1>4
<1>. HIDE DEF T
<1>6. Larger(T) \in T /\ \A y \in T : y <= Larger(T)
  <2>1. \A b \in Nat : \A S \in SUBSET (0..b) :
          S # {} => Larger(S) \in S /\ \A y \in S : y <= Larger(S)
    BY LargerOf
  <2>2. bound \in Nat /\ T \in SUBSET (0..bound) /\ T # {}
    BY <1>4, <1>5
  <2> QED
    BY <2>1, <2>2
<1>. DEFINE m == Larger(T)
<1>7. m = bound
  <2>1. m \in 0..bound /\ bound <= m
    BY <1>5, <1>6
  <2>. HIDE DEF m
  <2> QED
    BY <1>4, <2>1
<1> QED
  BY <1>3, <1>4, <1>7

\* Where one code is all that is known, how much it is liked decides.
LEMMA BehaviorOfOne ==
  ASSUME NEW i, NEW k, DOMAIN i = {k}, NEW codes, k \in codes, k \in Concept,
         i[k].score \in Int, i[k].confidence \in Nat, i[k].confidence > 0
  PROVE  BehaviorScore(i, codes) = (i[k].score + 100) \div 2
<1>. DEFINE D == {k}
            weight(x) == (MaxMatchStrength(codes, {x}) * i[x].confidence) \div 1000
            w == [x \in D |-> weight(x)]
            f == [x \in D |-> weight(x) * i[x].score]
            a == i[k].confidence
            b == i[k].score
<1>1. BehaviorScore(i, codes)
        = IF SumFunction(w) = 0 THEN 0 ELSE (SumFunction(f) \div SumFunction(w) + 100) \div 2
  BY DEF BehaviorScore
<1>2. a \in Nat /\ b \in Int /\ a > 0
  OBVIOUS
<1>3. weight(k) = a
  <2>1. MaxMatchStrength(codes, {k}) = 1000
    BY MatchesItself
  <2>2. weight(k) = (1000 * a) \div 1000
    BY <2>1
  <2>. HIDE DEF a, weight
  <2> QED
    BY <1>2, <2>2
<1>. HIDE DEF weight
<1>4. w \in [D -> Int] /\ f \in [D -> Int] /\ w[k] = a /\ f[k] = a * b
  <2>1. w[k] = a /\ f[k] = a * b /\ w = [x \in D |-> w[x]] /\ f = [x \in D |-> f[x]]
    BY <1>3
  <2>2. a * b \in Int
    BY <1>2
  <2>. HIDE DEF w, f, a, b
  <2> QED
    BY <1>2, <2>1, <2>2
<1>. HIDE DEF w, f, a, b
<1>5. SumFunction(w) = a /\ SumFunction(f) = a * b
  BY <1>4, SumOfOne
<1>6. (a * b) \div a = b
  <2>. DEFINE n == a * b
  <2>1. n \in Int /\ b * a <= n /\ n <= b * a
    BY <1>2
  <2>. HIDE DEF n
  <2>2. n \div a \in Int /\ b <= n \div a
    BY <1>2, <2>1, QuotientReaches
  <2>. DEFINE m == n \div a
  <2>3. m * a <= n /\ m \in Int
    BY <1>2, <2>1, QuotientFits
  <2>. HIDE DEF m
  <2>4. ASSUME b < m PROVE FALSE
    <3>1. (m - b - 1) * a >= 0 /\ (m - b - 1) * a = m * a - b * a - a
      BY <1>2, <2>3, <2>4
    <3> QED
      BY <1>2, <2>1, <2>3, <3>1
  <2> QED
    BY <1>2, <2>2, <2>3, <2>4 DEF m, n
<1>7. BehaviorScore(i, codes) = (b + 100) \div 2
  BY <1>1, <1>2, <1>5, <1>6
<1> QED
  BY <1>7 DEF b

-----------------------------------------------------------------------------
(* A visitor's candidate.                                                   *)

\* Two records agree on some of their fields.
Agree(d, c, fields) == \A g \in fields : d[g] = c[g]

\* What is asked of a visitor.
VisitorFields == {"user_type", "goals", "categories", "taste", "aroma", "alcohol", "services",
                  "use_cases", "product_features", "price_max"}

\* The score of a visitor's candidate is that of its components.
LEMMA VisitorScoreIs ==
  ASSUME NullIsNoScore, NEW c, NEW p
  PROVE  LET d == Directional(ConsumerWeights, VisitorComponents(c, p), {}) IN
         /\ ScoreVisitor(c, p) = None <=> d = None
         /\ d # None => /\ ScoreVisitor(c, p).score = d.score
                        /\ ScoreVisitor(c, p).components = VisitorComponents(c, p)
<1>. DEFINE k == VisitorComponents(c, p)
            d == Directional(ConsumerWeights, k, {})
            of == [score |-> d.score, status |-> None, imbalance |-> 0, components |-> k,
                   toward |-> << >>, contributions |-> d.contributions, exhibitor |-> << >>]
<1>1. ScoreVisitor(c, p) = IF d = None THEN None ELSE of
  BY DEF ScoreVisitor, VisitorComponents
<1>2. of # None /\ of.score = d.score /\ of.components = k
  BY DEF NullIsNoScore
<1>. HIDE DEF k, d, of
<1>3. /\ ScoreVisitor(c, p) = None <=> d = None
      /\ d # None => ScoreVisitor(c, p).score = d.score /\ ScoreVisitor(c, p).components = k
  BY <1>1, <1>2
<1> QED
  BY <1>3 DEF d, k

\* It is monotone in them.
LEMMA VisitorMonotone ==
  ASSUME NullIsNoScore, NEW c, NEW d, NEW p, NEW q,
         NoWorse(DOMAIN ConsumerWeights, ConsumerWeights, VisitorComponents(d, q), VisitorComponents(c, p)),
         ScoreVisitor(c, p) # None \/ ScoreVisitor(d, q) # None
  PROVE  /\ ScoreVisitor(c, p) # None /\ ScoreVisitor(d, q) # None
         /\ ScoreVisitor(c, p).score \in Int /\ ScoreVisitor(d, q).score \in Int
         /\ ScoreVisitor(d, q).score <= ScoreVisitor(c, p).score
<1>. DEFINE k == VisitorComponents(c, p)
            j == VisitorComponents(d, q)
            a == Directional(ConsumerWeights, j, {})
            b == Directional(ConsumerWeights, k, {})
<1>1. /\ ScoreVisitor(c, p) = None <=> b = None
      /\ b # None => ScoreVisitor(c, p).score = b.score
  BY VisitorScoreIs
<1>2. /\ ScoreVisitor(d, q) = None <=> a = None
      /\ a # None => ScoreVisitor(d, q).score = a.score
  BY VisitorScoreIs
<1>3. /\ a = None <=> b = None
      /\ b # None => a.score \in Int /\ b.score \in Int /\ a.score <= b.score
  BY DirectionalMonotone
<1>. HIDE DEF a, b
<1> QED
  BY <1>1, <1>2, <1>3

\* What is not asked anew is felt as before: only the behaviour counts otherwise.
LEMMA OnlyBehaviorChanges ==
  ASSUME NEW c, NEW p, NEW q, Agree(q, p, VisitorFields)
  PROVE  /\ DOMAIN VisitorComponents(c, q) = DOMAIN ConsumerWeights
         /\ \A n \in DOMAIN ConsumerWeights \ {"behavior"} :
              VisitorComponents(c, q)[n] = VisitorComponents(c, p)[n]
         /\ VisitorComponents(c, q)["behavior"] = BehaviorScore(q.inferred, BehaviorCodes(c))
<1>. DEFINE F == VisitorFeatures(c, p)
            G == VisitorFeatures(c, q)
            names == {"goal", "category", "sensory", "price", "alcohol", "service", "usage", "trust"}
            b == BehaviorScore(q.inferred, BehaviorCodes(c))
<1>1. /\ q.goals = p.goals /\ q.categories = p.categories /\ q.taste = p.taste
      /\ q.aroma = p.aroma /\ q.alcohol = p.alcohol /\ q.services = p.services
      /\ q.use_cases = p.use_cases /\ q.product_features = p.product_features
      /\ q.price_max = p.price_max
  BY DEF Agree, VisitorFields
<1>2. G = F
  BY <1>1 DEF VisitorFeatures
<1>3. DOMAIN F = names /\ DOMAIN ConsumerWeights = names \cup {"behavior"} /\ "behavior" \notin names
  BY DEF VisitorFeatures, ConsumerWeights
<1>4. VisitorComponents(c, q) = WithBehavior(G, b)
      /\ VisitorComponents(c, p) = WithBehavior(F, BehaviorScore(p.inferred, BehaviorCodes(c)))
  BY DEF VisitorComponents
<1>. HIDE DEF F, G, b, names
<1> QED
  BY <1>2, <1>3, <1>4 DEF WithBehavior, b

\* What a visitor is shown and how, with all that is looked at.
OfferNames == OfferFields \cup
  {"type", "channels", "regions", "moq", "capacity", "oem", "export", "readiness", "preferred",
   "units", "to_meeting", "wait", "congestion", "operating", "inventory", "participation",
   "program", "starts", "ends"}

\* A candidate that only asks another price differs in no other part.
LEMMA OnlyPriceChanges ==
  ASSUME NEW c, NEW d, NEW p, Agree(d, c, OfferNames \ {"retail_price"})
  PROVE  /\ DOMAIN VisitorComponents(d, p) = DOMAIN ConsumerWeights
         /\ \A n \in DOMAIN ConsumerWeights \ {"price"} :
              VisitorComponents(d, p)[n] = VisitorComponents(c, p)[n]
         /\ VisitorComponents(d, p)["price"] = PriceScore(AskingPrice(d), p.price_max)
         /\ VisitorComponents(c, p)["price"] = PriceScore(AskingPrice(c), p.price_max)
<1>. DEFINE F == VisitorFeatures(c, p)
            G == VisitorFeatures(d, p)
            names == {"goal", "category", "sensory", "price", "alcohol", "service", "usage", "trust"}
            b == BehaviorScore(p.inferred, BehaviorCodes(c))
<1>1. /\ d.category = c.category /\ d.business = c.business /\ d.taste = c.taste
      /\ d.aroma = c.aroma /\ d.usage = c.usage /\ d.features = c.features
      /\ d.services = c.services /\ d.tasting = c.tasting /\ d.purchase = c.purchase
      /\ d.consultation = c.consultation /\ d.alcohol = c.alcohol /\ d.trust = c.trust
  BY DEF Agree, OfferNames, OfferFields
<1>2. CategoryCodes(d) = CategoryCodes(c) /\ ServicesOf(d) = ServicesOf(c)
      /\ BehaviorCodes(d) = BehaviorCodes(c)
  BY <1>1 DEF CategoryCodes, ServicesOf, BehaviorCodes
<1>3. /\ G.goal = F.goal /\ G.category = F.category /\ G.sensory = F.sensory
      /\ G.service = F.service /\ G.usage = F.usage /\ G.alcohol = F.alcohol /\ G.trust = F.trust
  <2>1. G.goal = F.goal
    BY <1>1, <1>2 DEF VisitorFeatures
  <2>2. G.category = F.category
    BY <1>2 DEF VisitorFeatures
  <2>3. G.sensory = F.sensory
    BY <1>1 DEF VisitorFeatures
  <2>4. G.service = F.service
    BY <1>2 DEF VisitorFeatures
  <2>5. G.usage = F.usage
    BY <1>1 DEF VisitorFeatures
  <2>6. G.alcohol = F.alcohol /\ G.trust = F.trust
    BY <1>1 DEF VisitorFeatures
  <2> QED
    BY <2>1, <2>2, <2>3, <2>4, <2>5, <2>6
<1>4. /\ F.price = PriceScore(AskingPrice(c), p.price_max)
      /\ G.price = PriceScore(AskingPrice(d), p.price_max)
  BY DEF VisitorFeatures
<1>5. DOMAIN F = names /\ DOMAIN G = names
      /\ DOMAIN ConsumerWeights = names \cup {"behavior"} /\ "behavior" \notin names
      /\ "price" \in names
  BY DEF VisitorFeatures, ConsumerWeights
<1>6. VisitorComponents(d, p) = WithBehavior(G, b) /\ VisitorComponents(c, p) = WithBehavior(F, b)
  BY <1>2 DEF VisitorComponents
<1>. HIDE DEF F, G, b
<1>7. \A n \in names \ {"price"} : G[n] = F[n]
  BY <1>3
<1>. HIDE DEF names
<1>8. /\ \A n \in names : WithBehavior(G, b)[n] = G[n] /\ WithBehavior(F, b)[n] = F[n]
      /\ WithBehavior(G, b)["behavior"] = b /\ WithBehavior(F, b)["behavior"] = b
      /\ DOMAIN WithBehavior(G, b) = names \cup {"behavior"}
  BY <1>5 DEF WithBehavior
<1> QED
  BY <1>4, <1>5, <1>6, <1>7, <1>8

\* A higher price scores no higher.
LEMMA DearerScoresLess ==
  ASSUME NEW a \in Int, NEW b \in Int, a <= b, NEW limit \in Amount
  PROVE  /\ PriceScore(b, limit) = None <=> PriceScore(a, limit) = None
         /\ PriceScore(a, limit) # None => PriceScore(b, limit) <= PriceScore(a, limit)
<1>1. CASE limit = None \/ limit <= 0
  BY <1>1, NullAssumption DEF PriceScore
<1>2. CASE limit # None /\ ~(limit <= 0)
  <2>. DEFINE over(x) == (100 * (x - limit)) \div limit
              kept(x) == IF over(x) <= 100 THEN 100 - over(x) ELSE 0
  <2>1. limit \in Int /\ limit > 0
    BY <1>2 DEF Amount
  <2>2. ASSUME NEW x \in Int
        PROVE  /\ over(x) \in Int /\ (limit < x => over(x) >= 0)
               /\ PriceScore(x, limit) = IF x <= limit THEN 100 ELSE kept(x)
    <3>. DEFINE n == 100 * (x - limit)
                naught == 0
                v == 100 - over(x)
    <3>1. n \in Int /\ (limit < x => naught * limit <= n)
      BY <2>1
    <3>2. over(x) \in Int
      BY <2>1, <3>1
    <3>3. limit < x => over(x) >= 0
      <4>. HIDE DEF n
      <4>1. limit < x => naught <= n \div limit
        BY <2>1, <3>1, QuotientReaches
      <4> QED
        BY <4>1 DEF n
    <3>4. PriceScore(x, limit) = IF x <= limit THEN 100 ELSE Max({naught, v})
      BY <1>2, NullAssumption DEF PriceScore
    <3>5. v \in Int /\ naught \in Int
      BY <3>2
    <3>6. Max({naught, v}) = IF naught >= v THEN naught ELSE v
      <4>. HIDE DEF v, naught
      <4> QED
        BY <3>5, BetterOfTwo
    <3>7. (IF naught >= v THEN naught ELSE v) = kept(x)
      <4>. DEFINE o == over(x)
      <4>1. o \in Int
        BY <3>2
      <4>. HIDE DEF o
      <4>2. (IF naught >= 100 - o THEN naught ELSE 100 - o) = IF o <= 100 THEN 100 - o ELSE 0
        BY <4>1
      <4> QED
        BY <4>2 DEF o
    <3>. HIDE DEF v, naught, over, kept
    <3> QED
      BY <3>2, <3>3, <3>4, <3>6, <3>7
  <2>3. over(a) <= over(b)
    <3>. DEFINE m == 100 * (a - limit)
                n == 100 * (b - limit)
    <3>1. m \in Int /\ n \in Int /\ m <= n
      BY <2>1
    <3>. HIDE DEF m, n
    <3>2. m \div limit <= n \div limit
      BY <2>1, <3>1, QuotientMonotone
    <3> QED
      BY <3>2 DEF m, n
  <2>4. /\ over(a) \in Int /\ (limit < a => over(a) >= 0)
        /\ PriceScore(a, limit) = IF a <= limit THEN 100 ELSE kept(a)
        /\ over(b) \in Int /\ (limit < b => over(b) >= 0)
        /\ PriceScore(b, limit) = IF b <= limit THEN 100 ELSE kept(b)
    BY <2>2
  <2>. HIDE DEF over
  <2>5. /\ a <= limit \/ limit < a
        /\ b <= limit => a <= limit
    BY <2>1
  <2>. DEFINE x == over(a)
              y == over(b)
              u == PriceScore(a, limit)
              v == PriceScore(b, limit)
  <2>8. /\ x \in Int /\ (limit < a => x >= 0) /\ y \in Int /\ (limit < b => y >= 0) /\ x <= y
        /\ u = IF a <= limit THEN 100 ELSE IF x <= 100 THEN 100 - x ELSE 0
        /\ v = IF b <= limit THEN 100 ELSE IF y <= 100 THEN 100 - y ELSE 0
    BY <2>3, <2>4
  <2>. HIDE DEF x, y, u, v
  <2>6. v <= u /\ u \in Int /\ v \in Int
    BY <2>1, <2>8
  <2>7. PriceScore(b, limit) <= PriceScore(a, limit)
        /\ PriceScore(a, limit) \in Int /\ PriceScore(b, limit) \in Int
    BY <2>6 DEF u, v
  <2> QED
    BY <2>6, <2>7, NullAssumption
<1> QED
  BY <1>1, <1>2

\* The situation of a subject.
SituationNames == {"remaining", "zone", "avoid_congestion", "meeting_here", "next", "viewed", "visited"}

\* A case of a candidate that is presented has every field that is looked at.
Complete(c, p, x) ==
  /\ OfferNames \subseteq DOMAIN c /\ SituationNames \subseteq DOMAIN x
  /\ VisitorFields \cup {"inferred"} \subseteq DOMAIN p
  /\ \A k \in DOMAIN p.inferred : {"score", "confidence"} \subseteq DOMAIN p.inferred[k]

\* It is given as the services give it.
Shaped(c, p, x) ==
  /\ OfferShape(c) /\ TradeShape(c) /\ PlaceShape(c, x) /\ SubjectShape(p) /\ RequestShape(p)
  /\ Complete(c, p, x)

\* The same parts of a context are no worse than themselves.
LEMMA SameContext ==
  ASSUME NEW c, NEW x, PlaceShape(c, x), NEW p, NEW q, q.user_type = p.user_type, NEW open
  PROVE  /\ ContextParts(c, q, x, open) = ContextParts(c, p, x, open)
         /\ NoWorse(DOMAIN ContextWeights, ContextWeights,
                    ContextParts(c, q, x, open), ContextParts(c, p, x, open))
<1>. DEFINE k == ContextParts(c, p, x, open)
            j == ContextParts(c, q, x, open)
            D == DOMAIN ContextWeights
<1>1. MeetingAvailability(c, q, x, open) = MeetingAvailability(c, p, x, open)
  BY DEF MeetingAvailability
<1>2. j = k
  BY <1>1 DEF ContextParts
<1>3. DOMAIN k = D /\ \A n \in D : k[n] \in Amount
  BY ContextPartsType
<1>4. IsFiniteSet(D) /\ \A n \in D : ContextWeights[n] \in Nat \ {0}
  BY DirectionsPositive
<1>. HIDE DEF k, j, D
<1>5. \A n \in D : k[n] # None => k[n] <= k[n]
  BY <1>3 DEF Amount
<1>6. NoWorse(D, ContextWeights, k, k)
  BY <1>3, <1>4, <1>5 DEF NoWorse
<1> QED
  BY <1>2, <1>6 DEF j, k, D

\* The subject that likes one code more than it is known to.
LikedAt(p, k, s) == [p EXCEPT !.inferred[k].score = s]

LEMMA LikesMore ==
  ASSUME NEW c, NEW p, NEW x, Shaped(c, p, x), NEW k \in DOMAIN p.inferred, NEW s \in Int,
         p.inferred[k].score <= s
  PROVE  /\ Agree(LikedAt(p, k, s), p, VisitorFields) /\ SubjectShape(LikedAt(p, k, s))
         /\ Fonder(LikedAt(p, k, s).inferred, p.inferred)
         /\ LikedAt(p, k, s).inferred[k].score = s
<1>. DEFINE i == p.inferred
            q == LikedAt(p, k, s)
            h == [i EXCEPT ![k].score = s]
<1>1. /\ "inferred" \in DOMAIN p /\ VisitorFields \subseteq DOMAIN p
      /\ \A y \in DOMAIN i : {"score", "confidence"} \subseteq DOMAIN i[y]
  BY DEF Shaped, Complete
<1>2. q = [p EXCEPT !["inferred"] = h]
  BY DEF LikedAt
<1>3. "inferred" \notin VisitorFields
  BY DEF VisitorFields
<1>4. q.inferred = h /\ \A g \in VisitorFields : q[g] = p[g]
  BY <1>1, <1>2, <1>3
<1>5. DOMAIN h = DOMAIN i /\ \A y \in DOMAIN i \ {k} : h[y] = i[y]
  OBVIOUS
<1>6. h[k].score = s /\ h[k].confidence = i[k].confidence
  BY <1>1
<1>7. IsFiniteSet(DOMAIN i)
      /\ \A y \in DOMAIN i : i[y].score \in Int /\ i[y].confidence \in Nat
  BY DEF Shaped, SubjectShape
<1>. HIDE DEF h, i, q
<1>8. ASSUME NEW y \in DOMAIN i
      PROVE  /\ h[y].score \in Int /\ i[y].score <= h[y].score
             /\ h[y].confidence = i[y].confidence
  <2>1. CASE y = k
    BY <1>6, <1>7, <2>1 DEF i
  <2>2. CASE y # k
    BY <1>5, <1>7, <2>2
  <2> QED
    BY <2>1, <2>2
<1>9. Fonder(h, i)
  BY <1>5, <1>7, <1>8 DEF Fonder
<1>10. Agree(q, p, VisitorFields)
  BY <1>4 DEF Agree
<1>11. SubjectShape(q)
  <2>1. q.goals = p.goals /\ q.price_max = p.price_max
    BY <1>4 DEF VisitorFields
  <2>2. IsFiniteSet(DOMAIN h) /\ \A y \in DOMAIN h : h[y].score \in Int /\ h[y].confidence \in Nat
    BY <1>5, <1>7, <1>8
  <2>3. Prioritised(p.goals) /\ p.price_max \in Amount
    BY DEF Shaped, SubjectShape
  <2> QED
    BY <1>4, <2>1, <2>2, <2>3 DEF SubjectShape
<1> QED
  BY <1>4, <1>6, <1>9, <1>10, <1>11 DEF q, i

\* Liking a code more never lowers what a visitor is shown, and where the code is all
\* that is known, a liking counts for more than an aversion.
LEMMA AversionNeverHelps ==
  ASSUME NullIsNoScore, NEW c, NEW p, NEW x, Shaped(c, p, x), p.user_type # "BUYER",
         ScoreCandidate(c, p) # None, NEW open, NEW vector,
         NEW k \in DOMAIN p.inferred, NEW s \in Int, p.inferred[k].score + 1 < s
  PROVE  /\ Presented(c, p, x, open, vector).final
              <= Presented(c, LikedAt(p, k, s), x, open, vector).final
         /\ /\ DOMAIN p.inferred = {k} /\ p.inferred[k].confidence > 0
            /\ k \in DOMAIN c.taste \cap Concept
            => ScoreCandidate(c, p).components.behavior
                 < ScoreCandidate(c, LikedAt(p, k, s)).components.behavior
<1>. DEFINE q == LikedAt(p, k, s)
            i == p.inferred
            h == q.inferred
            codes == BehaviorCodes(c)
            D == DOMAIN ConsumerWeights
            y == VisitorComponents(c, p)
            z == VisitorComponents(c, q)
<1>1. OfferShape(c) /\ SubjectShape(p) /\ PlaceShape(c, x)
      /\ i[k].score \in Int /\ i[k].confidence \in Nat
  BY DEF Shaped, SubjectShape
<1>2. /\ Agree(q, p, VisitorFields) /\ SubjectShape(q) /\ Fonder(h, i) /\ h[k].score = s
  <2>. DEFINE v == i[k].score
  <2>1. v \in Int /\ v + 1 < s
    BY <1>1
  <2>2. v <= s
    <3>. HIDE DEF v
    <3> QED
      BY <2>1
  <2> QED
    BY <2>2, LikesMore
<1>3. q.user_type = p.user_type
  BY <1>2 DEF Agree, VisitorFields
<1>4. ScoreCandidate(c, p) = ScoreVisitor(c, p) /\ ScoreCandidate(c, q) = ScoreVisitor(c, q)
  BY <1>3 DEF ScoreCandidate
<1>5. /\ DOMAIN y = D /\ \A n \in D : y[n] \in Amount
      /\ DOMAIN z = D /\ \A n \in D : z[n] \in Amount
  BY <1>1, <1>2, VisitorComponentsType
<1>6. /\ \A n \in D \ {"behavior"} : z[n] = y[n]
      /\ z["behavior"] = BehaviorScore(h, codes)
  BY <1>2, OnlyBehaviorChanges
<1>7. y["behavior"] = BehaviorScore(i, codes)
  <2>1. Agree(p, p, VisitorFields)
    BY DEF Agree
  <2> QED
    BY <2>1, OnlyBehaviorChanges
<1>8. /\ BehaviorScore(i, codes) = None <=> BehaviorScore(h, codes) = None
      /\ BehaviorScore(h, codes) # None => BehaviorScore(i, codes) <= BehaviorScore(h, codes)
  BY <1>2, BehaviorMonotone
<1>9. IsFiniteSet(D) /\ (\A n \in D : ConsumerWeights[n] \in Nat \ {0}) /\ "behavior" \in D
  BY WeightsPositive DEF ConsumerWeights
<1>. HIDE DEF q, i, h, codes, D, y, z
<1>10. NoWorse(D, ConsumerWeights, y, z)
  <2>1. \A n \in D \ {"behavior"} : y[n] = z[n] /\ (z[n] # None => y[n] <= z[n])
    BY <1>5, <1>6 DEF Amount
  <2> QED
    BY <1>5, <1>6, <1>7, <1>8, <1>9, <2>1 DEF NoWorse
<1>11. /\ ScoreVisitor(c, p) # None /\ ScoreVisitor(c, q) # None
       /\ ScoreVisitor(c, p).score \in Int /\ ScoreVisitor(c, q).score \in Int
       /\ ScoreVisitor(c, p).score <= ScoreVisitor(c, q).score
  BY <1>4, <1>10, VisitorMonotone DEF D, y, z
<1>12. Presented(c, p, x, open, vector).final <= Presented(c, q, x, open, vector).final
  <2>1. NoWorse(DOMAIN ContextWeights, ContextWeights,
                ContextParts(c, p, x, open), ContextParts(c, q, x, open))
    BY <1>1, <1>3, SameContext
  <2> QED
    BY <1>4, <1>11, <2>1, PresentedMonotone
<1>13. ASSUME DOMAIN i = {k}, i[k].confidence > 0, k \in DOMAIN c.taste \cap Concept
       PROVE  ScoreCandidate(c, p).components.behavior < ScoreCandidate(c, q).components.behavior
  <2>1. k \in codes /\ k \in Concept
    BY <1>13 DEF codes, BehaviorCodes
  <2>2. BehaviorScore(i, codes) = (i[k].score + 100) \div 2
    BY <1>1, <1>13, <2>1, BehaviorOfOne DEF i
  <2>3. DOMAIN h = {k} /\ h[k].confidence = i[k].confidence
    BY <1>2, <1>13 DEF Fonder
  <2>4. BehaviorScore(h, codes) = (s + 100) \div 2
    BY <1>1, <1>2, <1>13, <2>1, <2>3, BehaviorOfOne DEF i
  <2>5. (i[k].score + 100) \div 2 < (s + 100) \div 2
    <3>. DEFINE v == i[k].score
    <3>1. v \in Int /\ v + 1 < s
      BY <1>1 DEF i
    <3>. HIDE DEF v
    <3>2. (v + 100) \div 2 < (s + 100) \div 2
      BY <3>1
    <3> QED
      BY <3>2 DEF v
  <2>6. ScoreVisitor(c, p).components = y /\ ScoreVisitor(c, q).components = z
    BY <1>11, VisitorScoreIs DEF y, z
  <2> QED
    BY <1>4, <1>6, <1>7, <2>2, <2>4, <2>5, <2>6
<1> QED
  BY <1>12, <1>13 DEF q, i

\* A candidate at a higher price.
DearerBy(c, n) == [c EXCEPT !.retail_price = @ + n]

\* A visitor is never shown a candidate higher for a higher price.
LEMMA DearerNeverHelps ==
  ASSUME NullIsNoScore, NEW c, NEW p, NEW x, Shaped(c, p, x), p.user_type # "BUYER",
         ScoreCandidate(c, p) # None, c.retail_price # None, NEW open, NEW vector, NEW n \in Nat
  PROVE  Presented(DearerBy(c, n), p, x, open, vector).final <= Presented(c, p, x, open, vector).final
<1>. DEFINE d == DearerBy(c, n)
            D == DOMAIN ConsumerWeights
            y == VisitorComponents(d, p)
            z == VisitorComponents(c, p)
            r == c.retail_price
<1>1. /\ OfferShape(c) /\ SubjectShape(p) /\ PlaceShape(c, x) /\ OfferNames \subseteq DOMAIN c
      /\ r \in Int /\ c.event_price \in Amount /\ p.price_max \in Amount
  BY DEF Shaped, OfferShape, SubjectShape, Complete, Amount
<1>2. d.retail_price = r + n /\ Agree(d, c, OfferNames \ {"retail_price"})
  <2>1. "retail_price" \in DOMAIN c
    BY <1>1 DEF OfferNames, OfferFields
  <2> QED
    BY <1>1, <2>1 DEF DearerBy, Agree
<1>3. ASSUME NEW g \in OfferNames, g # "retail_price" PROVE d[g] = c[g]
  BY <1>2, <1>3 DEF Agree
<1>4. d.event_price = c.event_price /\ d.trust = c.trust /\ d.taste = c.taste /\ d.aroma = c.aroma
      /\ d.type = c.type
  BY <1>3 DEF OfferNames, OfferFields
<1>5. r + n \in Int /\ r <= r + n
  <2>. HIDE DEF r
  <2> QED
    BY <1>1
<1>6. OfferShape(d)
  <2>1. DOMAIN d = DOMAIN c
    BY DEF DearerBy
  <2>2. d.retail_price \in Amount
    BY <1>2, <1>5 DEF Amount
  <2>3. OfferFields \subseteq DOMAIN c /\ Weighs(c.taste) /\ Weighs(c.aroma) /\ c.event_price \in Amount
        /\ c.trust \in Amount
    BY <1>1 DEF OfferShape
  <2>. HIDE DEF d
  <2> QED
    BY <1>4, <2>1, <2>2, <2>3 DEF OfferShape
<1>7. /\ DOMAIN y = D /\ \A m \in D : y[m] \in Amount
      /\ DOMAIN z = D /\ \A m \in D : z[m] \in Amount
  <2>. HIDE DEF d
  <2> QED
    BY <1>1, <1>6, VisitorComponentsType
<1>8. /\ \A m \in D \ {"price"} : y[m] = z[m]
      /\ y["price"] = PriceScore(AskingPrice(d), p.price_max)
      /\ z["price"] = PriceScore(AskingPrice(c), p.price_max)
  <2>. HIDE DEF d
  <2> QED
    BY <1>2, OnlyPriceChanges
<1>9. /\ AskingPrice(c) \in Int /\ AskingPrice(d) \in Int /\ AskingPrice(c) <= AskingPrice(d)
  <2>. HIDE DEF d, r
  <2>1. CASE c.event_price \notin {None, 0}
    <3>. DEFINE e == c.event_price
    <3>1. e \in Int
      BY <1>1, <2>1 DEF Amount
    <3>2. AskingPrice(c) = e /\ AskingPrice(d) = e
      BY <1>4, <2>1 DEF AskingPrice
    <3>. HIDE DEF e
    <3> QED
      BY <3>1, <3>2
  <2>2. CASE c.event_price \in {None, 0}
    <3>1. AskingPrice(c) = r /\ AskingPrice(d) = r + n
      BY <1>2, <1>4, <2>2 DEF AskingPrice, r
    <3> QED
      BY <1>1, <1>5, <3>1
  <2> QED
    BY <2>1, <2>2
<1>10. /\ y["price"] = None <=> z["price"] = None
       /\ z["price"] # None => y["price"] <= z["price"]
  BY <1>1, <1>8, <1>9, DearerScoresLess
<1>11. IsFiniteSet(D) /\ (\A m \in D : ConsumerWeights[m] \in Nat \ {0}) /\ "price" \in D
  BY WeightsPositive DEF ConsumerWeights
<1>. HIDE DEF d, D, y, z, r
<1>12. NoWorse(D, ConsumerWeights, y, z)
  <2>1. \A m \in D \ {"price"} : y[m] = z[m] /\ (z[m] # None => y[m] <= z[m])
    BY <1>7, <1>8 DEF Amount
  <2> QED
    BY <1>7, <1>10, <1>11, <2>1 DEF NoWorse
<1>13. ScoreCandidate(c, p) = ScoreVisitor(c, p) /\ ScoreCandidate(d, p) = ScoreVisitor(d, p)
  BY DEF ScoreCandidate
<1>14. /\ ScoreVisitor(c, p) # None /\ ScoreVisitor(d, p) # None
       /\ ScoreVisitor(c, p).score \in Int /\ ScoreVisitor(d, p).score \in Int
       /\ ScoreVisitor(d, p).score <= ScoreVisitor(c, p).score
  BY <1>12, <1>13, VisitorMonotone DEF D, y, z
<1>15. ContextParts(d, p, x, open) = ContextParts(c, p, x, open)
  <2>1. /\ d.units = c.units /\ d.wait = c.wait /\ d.congestion = c.congestion
        /\ d.operating = c.operating /\ d.inventory = c.inventory /\ d.purchase = c.purchase
        /\ d.tasting = c.tasting /\ d.participation = c.participation /\ d.program = c.program
        /\ d.consultation = c.consultation /\ d.starts = c.starts /\ d.ends = c.ends
        /\ d.to_meeting = c.to_meeting
    BY <1>3 DEF OfferNames, OfferFields
  <2>2. WaitFor(d) = WaitFor(c)
    BY <1>4, <2>1 DEF WaitFor
  <2>3. TimeFeasibility(d, x) = TimeFeasibility(c, x)
    BY <1>4, <2>1, <2>2 DEF TimeFeasibility
  <2>4. ScheduleFeasibility(d, x) = ScheduleFeasibility(c, x)
    BY <1>4, <2>1, <2>2, <2>3 DEF ScheduleFeasibility
  <2>5. WaitCongestion(d, x) = WaitCongestion(c, x)
    BY <1>4, <2>1 DEF WaitCongestion
  <2>6. Operation(d) = Operation(c)
    BY <1>4, <2>1 DEF Operation
  <2>7. MeetingAvailability(d, p, x, open) = MeetingAvailability(c, p, x, open)
    BY <1>4, <2>1 DEF MeetingAvailability
  <2> QED
    BY <1>4, <2>1, <2>3, <2>4, <2>5, <2>6, <2>7 DEF ContextParts
<1>16. NoWorse(DOMAIN ContextWeights, ContextWeights,
               ContextParts(d, p, x, open), ContextParts(c, p, x, open))
  BY <1>1, <1>15, SameContext
<1>17. Presented(d, p, x, open, vector).final <= Presented(c, p, x, open, vector).final
  BY <1>13, <1>14, <1>16, PresentedMonotone
<1> QED
  BY <1>17 DEF d

-----------------------------------------------------------------------------
(* Ways, waits and the time that is left.                                   *)

\* A way in minutes, rounded to the even one.
LEMMA RoundedOf ==
  ASSUME NEW n \in Nat
  PROVE  LET q == n \div 60
             r == n % 60
             v == IF n % 60 = 30 THEN (n \div 60) + ((n \div 60) % 2) ELSE (n + 30) \div 60
         IN /\ q \in Nat /\ r \in 0..59 /\ n = 60 * q + r
            /\ v = IF r < 30 THEN q ELSE IF r = 30 THEN q + (q % 2) ELSE q + 1
            /\ q % 2 \in {0, 1} /\ v \in Nat
<1>. DEFINE q == n \div 60
            r == n % 60
            s == (n + 30) \div 60
<1>1. q \in Nat /\ r \in 0..59 /\ n = 60 * q + r
  OBVIOUS
<1>2. s \in Int /\ s = IF r < 30 THEN q ELSE q + 1
  OBVIOUS
<1>. HIDE DEF q, r, s
<1>3. q % 2 \in {0, 1}
  BY <1>1
<1>. DEFINE e == q % 2
            v == IF r = 30 THEN q + e ELSE s
<1>4. e \in {0, 1}
  BY <1>3
<1>. HIDE DEF e
<1>5. v = (IF r < 30 THEN q ELSE IF r = 30 THEN q + e ELSE q + 1) /\ v \in Nat
  BY <1>1, <1>2, <1>4
<1> QED
  BY <1>1, <1>4, <1>5 DEF q, r, s, e

LEMMA WalkMonotone ==
  ASSUME NEW a \in Nat, NEW b \in Nat, a <= b
  PROVE  /\ WalkMinutes(a) \in Int /\ WalkMinutes(b) \in Int /\ WalkMinutes(a) >= 1
         /\ WalkMinutes(a) <= WalkMinutes(b)
<1>. DEFINE m == 5 * a
            n == 5 * b
            one == 1
            x == IF m % 60 = 30 THEN (m \div 60) + ((m \div 60) % 2) ELSE (m + 30) \div 60
            y == IF n % 60 = 30 THEN (n \div 60) + ((n \div 60) % 2) ELSE (n + 30) \div 60
            p == m \div 60
            q == n \div 60
            r == m % 60
            s == n % 60
            e == p % 2
            f == q % 2
<1>1. WalkMinutes(a) = Max({one, x}) /\ WalkMinutes(b) = Max({one, y})
  BY NullAssumption DEF WalkMinutes
<1>2. m \in Nat /\ n \in Nat /\ m <= n /\ one = 1 /\ one \in Int
  OBVIOUS
<1>. HIDE DEF m, n, one
<1>3. /\ p \in Nat /\ r \in 0..59 /\ m = 60 * p + r
      /\ x = (IF r < 30 THEN p ELSE IF r = 30 THEN p + e ELSE p + 1)
      /\ e \in {0, 1} /\ x \in Nat
  BY <1>2, RoundedOf
<1>4. /\ q \in Nat /\ s \in 0..59 /\ n = 60 * q + s
      /\ y = (IF s < 30 THEN q ELSE IF s = 30 THEN q + f ELSE q + 1)
      /\ f \in {0, 1} /\ y \in Nat
  BY <1>2, RoundedOf
<1>5. p = q => e = f
  OBVIOUS
<1>. HIDE DEF p, q, r, s, e, f, x, y
<1>6. p <= q /\ (p = q => r <= s)
  BY <1>2, <1>3, <1>4
<1>7. x <= y
  <2>1. CASE p = q
    BY <1>3, <1>4, <1>5, <1>6, <2>1
  <2>2. CASE p < q
    <3>1. x <= p + 1 /\ q <= y
      BY <1>3, <1>4
    <3> QED
      BY <1>3, <1>4, <2>2, <3>1
  <2> QED
    BY <1>3, <1>4, <1>6, <2>1, <2>2
<1>8. Max({one, x}) = (IF one >= x THEN one ELSE x) /\ Max({one, y}) = (IF one >= y THEN one ELSE y)
  BY <1>2, <1>3, <1>4, BetterOfTwo
<1> QED
  BY <1>1, <1>2, <1>3, <1>4, <1>7, <1>8

LEMMA NearerNoLess ==
  ASSUME NEW a \in Nat, NEW b \in Nat, a <= b
  PROVE  Proximity(b) <= Proximity(a) /\ Proximity(a) \in Int /\ Proximity(b) \in Int
<1>. DEFINE m == 300 + 5 * a
            n == 300 + 5 * b
            whole == 30000
            k == whole \div n
<1>1. m \in Int /\ n \in Int /\ m > 0 /\ m <= n /\ whole \in Int /\ 0 * n <= whole
  OBVIOUS
<1>2. Proximity(a) = whole \div m /\ Proximity(b) = k
  BY NullAssumption DEF Proximity
<1>. HIDE DEF m, n, whole
<1>3. k \in Int /\ k * n <= whole
  BY <1>1, QuotientFits
<1>4. 0 <= k
  BY <1>1, QuotientReaches
<1>. HIDE DEF k
<1>5. k * m <= whole
  <2>1. k * (n - m) >= 0 /\ k * (n - m) = k * n - k * m
    BY <1>1, <1>3, <1>4
  <2>2. k * m \in Int /\ k * n \in Int
    BY <1>1, <1>3
  <2> QED
    BY <1>1, <1>3, <2>1, <2>2
<1>6. whole \div m \in Int /\ k <= whole \div m
  BY <1>1, <1>3, <1>5, QuotientReaches
<1> QED
  BY <1>2, <1>3, <1>6

\* The time that is spare of what is left, when all of it can be done.
LEMMA SpareMonotone ==
  ASSUME NEW a \in Int, NEW b \in Int, a <= b, NEW u \in Nat, NEW v \in Nat, u <= v, 0 < u, v <= a
  PROVE  /\ Spare(a, v) \in Int /\ Spare(b, u) \in Int /\ Spare(a, v) <= Spare(b, u)
         /\ 50 <= Spare(a, v)
<1>. DEFINE one == 1
            i == 50 * (a - v)
            j == 50 * (b - u)
            k == i \div a
<1>1. Max({a, one}) = a /\ Max({b, one}) = b
  <2>1. one \in Int /\ a >= one /\ b >= one
    OBVIOUS
  <2>. HIDE DEF one
  <2> QED
    BY <2>1, BetterOfTwo
<1>2. Spare(a, v) = 50 + k /\ Spare(b, u) = 50 + j \div b
  BY <1>1 DEF Spare
<1>3. i \in Int /\ j \in Int /\ 0 * a <= i /\ i <= 50 * a /\ a > 0 /\ b > 0
      /\ j - i >= 50 * (b - a)
  OBVIOUS
<1>. HIDE DEF i, j
<1>4. k \in Int /\ k * a <= i
  BY <1>3, QuotientFits
<1>5. 0 <= k
  BY <1>3, QuotientReaches
<1>. HIDE DEF k
<1>6. k <= 50
  <2>1. ASSUME 50 < k PROVE FALSE
    <3>1. (k - 51) * a >= 0 /\ (k - 51) * a = k * a - 51 * a
      BY <1>3, <1>4, <2>1
    <3>2. k * a \in Int
      BY <1>4
    <3> QED
      BY <1>3, <1>4, <3>1, <3>2
  <2> QED
    BY <1>4, <2>1
<1>7. k * b <= j
  <2>1. (50 - k) * (b - a) >= 0
    <3>. DEFINE y == 50 - k
                z == b - a
    <3>1. y \in Nat /\ z \in Nat
      BY <1>4, <1>6
    <3>. HIDE DEF y, z
    <3>2. y * z >= 0
      BY <3>1
    <3> QED
      BY <3>2 DEF y, z
  <2>2. (50 - k) * (b - a) = 50 * (b - a) - k * b + k * a
    BY <1>4
  <2>3. k * b \in Int /\ k * a \in Int
    BY <1>4
  <2> QED
    BY <1>3, <1>4, <2>1, <2>2, <2>3
<1>8. j \div b \in Int /\ k <= j \div b
  BY <1>3, <1>4, <1>7, QuotientReaches
<1> QED
  BY <1>2, <1>4, <1>5, <1>8

\* The mean of two parts is monotone in the first.
LEMMA CombinedMonotone ==
  ASSUME NEW a \in Amount, NEW b \in Amount, a = None <=> b = None, b # None => a <= b,
         NEW c \in Amount
  PROVE  LET x == Combined(<<<<a, 1>>, <<c, 1>>>>)
             y == Combined(<<<<b, 1>>, <<c, 1>>>>)
         IN /\ x = None <=> y = None
            /\ y # None => x <= y
<1>. DEFINE s == <<<<a, 1>>, <<c, 1>>>>
            t == <<<<b, 1>>, <<c, 1>>>>
            known(r) == {i \in DOMAIN r : r[i][1] # None}
            P == known(t)
            f == [i \in P |-> s[i][1] * s[i][2]]
            g == [i \in P |-> t[i][1] * t[i][2]]
            w == [i \in P |-> t[i][2]]
            F == SumFunction(f)
            G == SumFunction(g)
            W == SumFunction(w)
<1>1. DOMAIN s = {1, 2} /\ DOMAIN t = {1, 2}
      /\ s[1] = <<a, 1>> /\ s[2] = <<c, 1>> /\ t[1] = <<b, 1>> /\ t[2] = <<c, 1>>
  OBVIOUS
<1>2. known(s) = P /\ P \subseteq {1, 2}
  BY <1>1
<1>3. [i \in P |-> s[i][2]] = w
  BY <1>1, <1>2
<1>4. Combined(t) = IF P = {} THEN None ELSE G \div W
  BY DEF Combined
<1>5. Combined(s) = IF P = {} THEN None ELSE F \div W
  <2>1. Combined(s) = IF known(s) = {} THEN None
                      ELSE SumFunction([i \in known(s) |-> s[i][1] * s[i][2]])
                             \div SumFunction([i \in known(s) |-> s[i][2]])
    BY DEF Combined
  <2>. HIDE DEF known, s, t, w
  <2> QED
    BY <1>2, <1>3, <2>1
<1>6. ASSUME NEW i \in P
      PROVE  /\ f[i] \in Int /\ g[i] \in Int /\ f[i] <= g[i] /\ w[i] = 1
  <2>1. CASE i = 1
    <3>1. b # None /\ f[i] = a * 1 /\ g[i] = b * 1 /\ w[i] = 1
      BY <1>1, <2>1
    <3>. HIDE DEF f, g, w, P
    <3> QED
      BY <3>1 DEF Amount
  <2>2. CASE i = 2
    <3>1. c # None /\ f[i] = c * 1 /\ g[i] = c * 1 /\ w[i] = 1
      BY <1>1, <2>2
    <3>. HIDE DEF f, g, w, P
    <3> QED
      BY <3>1 DEF Amount
  <2> QED
    BY <1>2, <2>1, <2>2
<1>7. IsFiniteSet(P)
  <2>1. IsFiniteSet({} \cup {1})
    BY FS_EmptySet, FS_AddElement
  <2>2. IsFiniteSet(({} \cup {1}) \cup {2})
    BY <2>1, FS_AddElement
  <2>3. P \subseteq ({} \cup {1}) \cup {2}
    BY <1>2
  <2>. HIDE DEF P
  <2> QED
    BY <2>2, <2>3, FS_Subset
<1>8. f = [i \in P |-> f[i]] /\ g = [i \in P |-> g[i]] /\ w = [i \in P |-> w[i]]
  OBVIOUS
<1>. HIDE DEF f, g, w, P
<1>9. f \in [P -> Int] /\ g \in [P -> Int] /\ w \in [P -> Int] /\ w \in [P -> Nat \ {0}]
  BY <1>6, <1>8
<1>10. F \in Int /\ G \in Int /\ W \in Int /\ F <= G
  BY <1>6, <1>7, <1>9, SumType, SumMonotone
<1>11. P # {} => W > 0
  BY <1>7, <1>9, PositiveSum
<1>. HIDE DEF F, G, W
<1>12. P # {} => F \div W <= G \div W /\ F \div W \in Int /\ G \div W \in Int
  BY <1>10, <1>11, QuotientMonotone
<1>13. /\ Combined(s) = None <=> Combined(t) = None
       /\ Combined(t) # None => Combined(s) <= Combined(t)
  BY <1>4, <1>5, <1>12, NullAssumption
<1> QED
  BY <1>13

\* The same is known of two numbers, and the first is no more than the second.
AtMost(a, b) == (a = None <=> b = None) /\ (b # None => a <= b)

\* A booth is in no part of the situation nearer, quicker or easier to reach in time:
\* d of y against c of x.
Slower(d, y, c, x) ==
  /\ Agree(d, c, OfferNames \ {"units", "wait"}) /\ Agree(y, x, SituationNames \ {"remaining"})
  /\ c.type = "BOOTH"
  /\ {c.units, d.units, c.wait, d.wait} \subseteq Count
  /\ {x.remaining, y.remaining, x.next} \subseteq Amount /\ c.to_meeting \in Int
  /\ AtMost(c.units, d.units) /\ AtMost(c.wait, d.wait) /\ AtMost(y.remaining, x.remaining)

\* What a slower booth keeps.
LEMMA SlowerKeeps ==
  ASSUME NEW d, NEW y, NEW c, NEW x, Slower(d, y, c, x)
  PROVE  /\ d.type = "BOOTH" /\ c.type = "BOOTH" /\ d.to_meeting = c.to_meeting
         /\ d.congestion = c.congestion /\ d.operating = c.operating
         /\ d.consultation = c.consultation
         /\ y.zone = x.zone /\ y.avoid_congestion = x.avoid_congestion
         /\ y.meeting_here = x.meeting_here /\ y.next = x.next
         /\ y.viewed = x.viewed /\ y.visited = x.visited
<1>1. ASSUME NEW g \in OfferNames \ {"units", "wait"} PROVE d[g] = c[g]
  BY DEF Slower, Agree
<1>2. ASSUME NEW g \in SituationNames \ {"remaining"} PROVE y[g] = x[g]
  BY DEF Slower, Agree
<1>3. c.type = "BOOTH"
  BY DEF Slower
<1> QED
  BY <1>1, <1>2, <1>3 DEF OfferNames, OfferFields, SituationNames

\* The minutes that reaching a booth takes, with the wait there and the visit.
Required(c) == OrZero(WalkMinutes(c.units)) + OrZero(WaitFor(c)) + VisitMinutes

LEMMA RequiredMonotone ==
  ASSUME NEW d, NEW y, NEW c, NEW x, Slower(d, y, c, x)
  PROVE  /\ Required(c) \in Nat /\ Required(d) \in Nat /\ 0 < Required(c)
         /\ Required(c) <= Required(d)
<1>. DEFINE a == OrZero(WalkMinutes(c.units))
            b == OrZero(WalkMinutes(d.units))
            e == OrZero(WaitFor(c))
            f == OrZero(WaitFor(d))
<1>1. a \in Nat /\ b \in Nat /\ a <= b
  <2>1. CASE c.units = None
    <3>1. d.units = None
      BY <2>1 DEF Slower, AtMost
    <3> QED
      BY <2>1, <3>1 DEF WalkMinutes, OrZero
  <2>2. CASE c.units # None
    <3>1. c.units \in Nat /\ d.units \in Nat /\ c.units <= d.units
      BY <2>2 DEF Slower, AtMost, Count
    <3>2. /\ WalkMinutes(c.units) \in Int /\ WalkMinutes(d.units) \in Int
          /\ WalkMinutes(c.units) >= 1 /\ WalkMinutes(c.units) <= WalkMinutes(d.units)
      BY <3>1, WalkMonotone
    <3>3. a = WalkMinutes(c.units) /\ b = WalkMinutes(d.units)
      BY <3>2, NullAssumption DEF OrZero
    <3>. HIDE DEF a, b
    <3> QED
      BY <3>2, <3>3
  <2> QED
    BY <2>1, <2>2
<1>2. e \in Nat /\ f \in Nat /\ e <= f
  <2>1. WaitFor(c) = c.wait /\ WaitFor(d) = d.wait
    BY SlowerKeeps DEF WaitFor
  <2>2. c.wait \in Count /\ d.wait \in Count /\ (c.wait = None <=> d.wait = None)
        /\ (d.wait # None => c.wait <= d.wait)
    BY DEF Slower, AtMost
  <2> QED
    BY <2>1, <2>2 DEF OrZero, Count
<1>3. Required(c) = a + e + 10 /\ Required(d) = b + f + 10
  BY DEF Required, VisitMinutes
<1>. HIDE DEF a, b, e, f
<1> QED
  BY <1>1, <1>2, <1>3

\* There is no more time for a slower booth.
LEMMA TimeMonotone ==
  ASSUME NEW d, NEW y, NEW c, NEW x, Slower(d, y, c, x)
  PROVE  AtMost(TimeFeasibility(d, y), TimeFeasibility(c, x))
<1>. DEFINE u == Required(c)
            v == Required(d)
            a == y.remaining
            b == x.remaining
<1>1. u \in Nat /\ v \in Nat /\ 0 < u /\ u <= v
  BY RequiredMonotone
<1>2. a \in Amount /\ b \in Amount /\ (a = None <=> b = None) /\ (b # None => a <= b)
      /\ (c.units = None <=> d.units = None)
  BY DEF Slower, AtMost
<1>3. TimeFeasibility(c, x) = IF b = None \/ (x.zone /\ c.units = None) THEN None
                              ELSE IF u > b THEN 0 ELSE Spare(b, u)
  BY SlowerKeeps DEF TimeFeasibility, Required
<1>4. TimeFeasibility(d, y) = IF a = None \/ (x.zone /\ d.units = None) THEN None
                              ELSE IF v > a THEN 0 ELSE Spare(a, v)
  BY SlowerKeeps DEF TimeFeasibility, Required
<1>. HIDE DEF u, v, a, b
<1>5. CASE b = None \/ (x.zone /\ c.units = None)
  BY <1>2, <1>3, <1>4, <1>5 DEF AtMost
<1>6. CASE ~(b = None \/ (x.zone /\ c.units = None))
  <2>1. a \in Int /\ b \in Int /\ a <= b
    BY <1>2, <1>6 DEF Amount
  <2>2. /\ TimeFeasibility(c, x) = IF u > b THEN 0 ELSE Spare(b, u)
        /\ TimeFeasibility(d, y) = IF v > a THEN 0 ELSE Spare(a, v)
    BY <1>2, <1>3, <1>4, <1>6
  <2>3. u <= b => Spare(b, u) \in Int /\ 50 <= Spare(b, u)
    BY <1>1, <2>1, SpareMonotone
  <2>4. v <= a => Spare(a, v) \in Int /\ Spare(a, v) <= Spare(b, u)
    BY <1>1, <2>1, SpareMonotone
  <2>5. CASE v > a
    <3>1. TimeFeasibility(d, y) = 0
      BY <2>2, <2>5
    <3>2. TimeFeasibility(c, x) \in Int /\ 0 <= TimeFeasibility(c, x)
      BY <1>1, <2>1, <2>2, <2>3
    <3> QED
      BY <3>1, <3>2, NullAssumption DEF AtMost
  <2>6. CASE v <= a
    <3>1. u <= b
      BY <1>1, <2>1, <2>6
    <3>2. TimeFeasibility(d, y) = Spare(a, v) /\ TimeFeasibility(c, x) = Spare(b, u)
      BY <1>1, <2>1, <2>2, <2>6, <3>1
    <3> QED
      BY <2>3, <2>4, <2>6, <3>1, <3>2, NullAssumption DEF AtMost
  <2> QED
    BY <1>1, <2>1, <2>5, <2>6
<1> QED
  BY <1>5, <1>6

\* Nor before the next meeting.
LEMMA ScheduleMonotone ==
  ASSUME NEW d, NEW y, NEW c, NEW x, Slower(d, y, c, x)
  PROVE  AtMost(ScheduleFeasibility(d, y), ScheduleFeasibility(c, x))
<1>. DEFINE u == WalkMinutes(c.units) + OrZero(WaitFor(c)) + VisitMinutes
            v == WalkMinutes(d.units) + OrZero(WaitFor(d)) + VisitMinutes
            m == c.to_meeting
            e == x.next
            kept(w) == IF e = None THEN None ELSE IF x.meeting_here THEN 100
                       ELSE IF e <= 0 THEN 0 ELSE w
<1>1. ScheduleFeasibility(c, x)
        = kept(IF c.units = None THEN None ELSE IF 60 * u + 5 * m <= 60 * e THEN 100 ELSE 0)
  BY SlowerKeeps DEF ScheduleFeasibility
<1>2. ScheduleFeasibility(d, y)
        = kept(IF d.units = None THEN None ELSE IF 60 * v + 5 * m <= 60 * e THEN 100 ELSE 0)
  BY SlowerKeeps DEF ScheduleFeasibility
<1>3. (c.units = None <=> d.units = None) /\ m \in Int /\ e \in Amount
  BY DEF Slower, AtMost
<1>4. ASSUME c.units # None PROVE u \in Int /\ v \in Int /\ u <= v
  <2>1. WalkMinutes(c.units) \in Int /\ WalkMinutes(d.units) \in Int
    <3>1. c.units \in Nat /\ d.units \in Nat /\ c.units <= d.units
      BY <1>4 DEF Slower, AtMost, Count
    <3> QED
      BY <3>1, WalkMonotone
  <2>2. u = Required(c) /\ v = Required(d)
    BY <2>1, NullAssumption DEF Required, OrZero
  <2> QED
    BY <2>2, RequiredMonotone
<1>. HIDE DEF u, v, m
<1>5. CASE e = None \/ x.meeting_here \/ e <= 0
  BY <1>1, <1>2, <1>5, NullAssumption DEF AtMost
<1>6. CASE ~(e = None \/ x.meeting_here \/ e <= 0)
  <2>1. e \in Int
    BY <1>3, <1>6 DEF Amount
  <2>. HIDE DEF e
  <2>2. CASE c.units = None
    BY <1>1, <1>2, <1>3, <1>6, <2>2 DEF AtMost
  <2>3. CASE c.units # None
    <3>1. /\ ScheduleFeasibility(c, x) = (IF 60 * u + 5 * m <= 60 * e THEN 100 ELSE 0)
          /\ ScheduleFeasibility(d, y) = (IF 60 * v + 5 * m <= 60 * e THEN 100 ELSE 0)
      BY <1>1, <1>2, <1>3, <1>6, <2>3
    <3>2. 60 * v + 5 * m <= 60 * e => 60 * u + 5 * m <= 60 * e
      BY <1>3, <1>4, <2>1, <2>3
    <3>3. ScheduleFeasibility(c, x) \in {0, 100} /\ ScheduleFeasibility(d, y) \in {0, 100}
          /\ (ScheduleFeasibility(d, y) = 100 => ScheduleFeasibility(c, x) = 100)
      BY <3>1, <3>2
    <3> QED
      BY <3>3, NullAssumption DEF AtMost
  <2> QED
    BY <2>2, <2>3
<1> QED
  BY <1>5, <1>6

\* Nor is the wait at it shorter.
LEMMA WaitMonotone ==
  ASSUME NEW d, NEW y, NEW c, NEW x, Slower(d, y, c, x)
  PROVE  AtMost(WaitCongestion(d, y), WaitCongestion(c, x))
<1>. DEFINE wait(w) == IF w = None THEN None ELSE Max({0, 100 - (100 * w) \div 30})
            level == CASE c.congestion = "LOW" -> 100 [] c.congestion = "MEDIUM" -> 60
                       [] c.congestion = "HIGH" -> IF x.avoid_congestion THEN 0 ELSE 20
                       [] OTHER -> None
            a == wait(d.wait)
            b == wait(c.wait)
<1>1. ASSUME NEW w \in Nat
      PROVE  LET o == (100 * w) \div 30 IN
             o \in Int /\ wait(w) = IF o <= 100 THEN 100 - o ELSE 0
  <2>. DEFINE n == 100 * w
              o == n \div 30
              v == 100 - o
              naught == 0
  <2>1. n \in Int
    OBVIOUS
  <2>. HIDE DEF n
  <2>2. o \in Int
    BY <2>1
  <2>3. wait(w) = Max({naught, v})
    BY NullAssumption DEF n
  <2>. HIDE DEF o, wait
  <2>4. v \in Int /\ naught \in Int /\ naught = 0
    BY <2>2
  <2>. HIDE DEF naught
  <2>5. Max({naught, v}) = IF naught >= v THEN naught ELSE v
    <3>. HIDE DEF v
    <3> QED
      BY <2>4, BetterOfTwo
  <2>6. o \in Int /\ wait(w) = IF o <= 100 THEN 100 - o ELSE 0
    BY <2>2, <2>3, <2>4, <2>5
  <2> QED
    BY <2>6 DEF o, n
<1>2. {c.wait, d.wait} \subseteq Count /\ (c.wait = None <=> d.wait = None)
      /\ (d.wait # None => c.wait <= d.wait)
  BY DEF Slower, AtMost
<1>3. level \in Amount
  BY DEF Amount
<1>4. WaitCongestion(c, x) = Combined(<<<<b, 1>>, <<level, 1>>>>)
  BY SlowerKeeps DEF WaitCongestion
<1>5. WaitCongestion(d, y) = Combined(<<<<a, 1>>, <<level, 1>>>>)
  BY SlowerKeeps DEF WaitCongestion
<1>6. a \in Amount /\ b \in Amount /\ (a = None <=> b = None) /\ (b # None => a <= b)
  <2>1. CASE c.wait = None
    BY <1>2, <2>1 DEF Amount
  <2>2. CASE c.wait # None
    <3>. DEFINE m == 100 * c.wait
                n == 100 * d.wait
                o == m \div 30
                q == n \div 30
    <3>1. c.wait \in Nat /\ d.wait \in Nat /\ c.wait <= d.wait
      BY <1>2, <2>2 DEF Count
    <3>2. m \in Int /\ n \in Int /\ m <= n
      BY <3>1
    <3>3. /\ o \in Int /\ b = IF o <= 100 THEN 100 - o ELSE 0
          /\ q \in Int /\ a = IF q <= 100 THEN 100 - q ELSE 0
      <4>. HIDE DEF wait
      <4> QED
        BY <1>1, <3>1
    <3>. HIDE DEF m, n, a, b
    <3>4. o <= q
      BY <3>2
    <3>. HIDE DEF o, q
    <3>5. a \in Int /\ b \in Int /\ a <= b
      BY <3>3, <3>4
    <3> QED
      BY <3>5, NullAssumption DEF Amount
  <2> QED
    BY <2>1, <2>2
<1>. HIDE DEF a, b, level
<1>7. LET i == Combined(<<<<a, 1>>, <<level, 1>>>>)
          j == Combined(<<<<b, 1>>, <<level, 1>>>>)
      IN (i = None <=> j = None) /\ (j # None => i <= j)
  BY <1>3, <1>6, CombinedMonotone
<1> QED
  BY <1>4, <1>5, <1>7 DEF AtMost

-----------------------------------------------------------------------------
\* Nothing in the context of a slower booth is better.
LEMMA SlowerContext ==
  ASSUME NEW d, NEW y, NEW c, NEW x, Slower(d, y, c, x), PlaceShape(c, x), PlaceShape(d, y),
         NEW p, NEW open
  PROVE  NoWorse(DOMAIN ContextWeights, ContextWeights,
                 ContextParts(d, p, y, open), ContextParts(c, p, x, open))
<1>. DEFINE j == ContextParts(d, p, y, open)
            k == ContextParts(c, p, x, open)
            D == DOMAIN ContextWeights
            moved == {"proximity", "time", "wait", "schedule"}
<1>1. DOMAIN j = D /\ DOMAIN k = D /\ \A n \in D : j[n] \in Amount /\ k[n] \in Amount
  BY ContextPartsType
<1>2. IsFiniteSet(D) /\ \A n \in D : ContextWeights[n] \in Nat \ {0}
  BY DirectionsPositive
<1>3. AtMost(j.proximity, k.proximity)
  <2>1. CASE c.units = None
    <3>1. d.units = None
      BY <2>1 DEF Slower, AtMost
    <3> QED
      BY <2>1, <3>1 DEF ContextParts, Proximity, AtMost
  <2>2. CASE c.units # None
    <3>1. c.units \in Nat /\ d.units \in Nat /\ c.units <= d.units
      BY <2>2 DEF Slower, AtMost, Count
    <3>2. /\ Proximity(d.units) <= Proximity(c.units)
          /\ Proximity(d.units) \in Int /\ Proximity(c.units) \in Int
      BY <3>1, NearerNoLess
    <3>3. AtMost(Proximity(d.units), Proximity(c.units))
      BY <3>2, NullAssumption DEF AtMost
    <3> QED
      BY <3>3 DEF ContextParts
  <2> QED
    BY <2>1, <2>2
<1>4. AtMost(j.time, k.time)
  BY TimeMonotone DEF ContextParts
<1>5. AtMost(j.wait, k.wait)
  BY WaitMonotone DEF ContextParts
<1>6. AtMost(j.schedule, k.schedule)
  BY ScheduleMonotone DEF ContextParts
<1>7. j.operation = k.operation
  <2>1. Operation(d) = Operation(c)
    BY SlowerKeeps DEF Operation
  <2> QED
    BY <2>1 DEF ContextParts
<1>8. j.meeting = k.meeting
  <2>1. MeetingAvailability(d, p, y, open) = MeetingAvailability(c, p, x, open)
    BY SlowerKeeps DEF MeetingAvailability
  <2> QED
    BY <2>1 DEF ContextParts
<1>9. j.inventory = k.inventory
  BY SlowerKeeps DEF ContextParts
<1>10. j.recent = k.recent
  BY SlowerKeeps DEF ContextParts
<1>11. D = moved \cup {"operation", "meeting", "inventory", "recent"}
  BY DEF ContextWeights
<1>. HIDE DEF j, k, D
<1>12. \A n \in moved : AtMost(j[n], k[n])
  BY <1>3, <1>4, <1>5, <1>6
<1>13. \A n \in D \ moved : j[n] = k[n]
  BY <1>7, <1>8, <1>9, <1>10, <1>11
<1>14. ASSUME NEW n \in D PROVE (j[n] = None <=> k[n] = None) /\ (k[n] # None => j[n] <= k[n])
  <2>1. CASE n \in moved
    BY <1>12, <2>1 DEF AtMost
  <2>2. CASE n \notin moved
    BY <1>1, <1>13, <2>2 DEF Amount
  <2> QED
    BY <2>1, <2>2
<1> QED
  BY <1>1, <1>2, <1>14 DEF NoWorse, j, k, D

\* The score of a direction of which nothing is negative is not negative.
LEMMA DirectionalNatural ==
  ASSUME NEW D, IsFiniteSet(D), NEW weights, \A n \in D : weights[n] \in Nat \ {0},
         NEW k, DOMAIN k = D, \A n \in D : k[n] \in Count,
         NEW caps, IsFiniteSet(caps), caps \subseteq Nat, Directional(weights, k, caps) # None
  PROVE  Directional(weights, k, caps).score \in Nat
<1>. DEFINE P == PresentIn(k)
            f == [n \in P |-> k[n] * weights[n]]
            w == [n \in P |-> weights[n]]
            F == SumFunction(f)
            W == SumFunction(w)
            hundred == 100
            i == hundred * F
            score == i \div W
            S == {score} \cup caps
            d == Directional(weights, k, caps)
<1>1. P \subseteq D /\ P # {}
  BY DEF PresentIn, Directional
<1>2. IsFiniteSet(P)
  BY <1>1, FS_Subset
<1>3. f \in [P -> Nat] /\ w \in [P -> Nat] /\ w \in [P -> Nat \ {0}]
  BY <1>1 DEF Count, PresentIn
<1>4. d.score = Min(S)
  BY <1>1 DEF Directional
<1>. HIDE DEF P, f, w, d
<1>5. F \in Nat /\ W \in Nat /\ W > 0
  BY <1>1, <1>2, <1>3, SumNatural, PositiveSum
<1>. HIDE DEF F, W
<1>6. i \in Int /\ 0 * W <= i
  BY <1>5
<1>. HIDE DEF i
<1>7. score \in Nat
  BY <1>5, <1>6, QuotientReaches
<1>. HIDE DEF score
<1>8. IsFiniteSet(S) /\ S # {} /\ S \subseteq Nat /\ S \subseteq Int
  <2>1. S = caps \cup {score}
    OBVIOUS
  <2>2. IsFiniteSet(caps \cup {score})
    BY FS_AddElement
  <2> QED
    BY <1>7, <2>1, <2>2
<1>. HIDE DEF S
<1>9. Min(S) \in S
  BY <1>8, Extremes
<1> QED
  BY <1>4, <1>8, <1>9 DEF d

\* A confidence is not negative.
LEMMA ConfidenceNatural ==
  ASSUME NEW D, IsFiniteSet(D), NEW weights, \A n \in D : weights[n] \in Nat \ {0},
         NEW k, DOMAIN k = D, NEW source \in Nat
  PROVE  Confidence(weights, k, source) \in Nat
<1>. DEFINE P == PresentIn(k)
            w == [n \in P |-> weights[n]]
            W == SumFunction(w)
            i == W * source
<1>1. P \subseteq D
  BY DEF PresentIn
<1>2. IsFiniteSet(P) /\ w \in [P -> Nat]
  BY <1>1, FS_Subset
<1>3. Confidence(weights, k, source) = i \div 100
  BY DEF Confidence
<1>. HIDE DEF P, w
<1>4. W \in Nat
  BY <1>2, SumNatural
<1>. HIDE DEF W
<1>5. i \in Nat
  BY <1>4
<1>. HIDE DEF i
<1>6. i \div 100 \in Nat
  BY <1>5
<1> QED
  BY <1>3, <1>6

\* The cap of an exhibitor that declared no preference, or none.
OpenCap(caps) == caps \in {{}, {8000}}

\* A joint score is a number.
LEMMA JointInteger ==
  ASSUME NEW b \in Nat, NEW e \in Nat, NEW p \in Nat, NEW q \in Nat, NEW a \in Nat,
         NEW caps, OpenCap(caps)
  PROVE  Reciprocal(b, e, p, q, a, caps).final \in Int
<1>. DEFINE x == Raw(b, e, p, q, a)
            u == Kept(x)
            G == GateCaps(Min({b, e}))
            B == {u} \cup G \cup caps
            A == {u, 4500, 6500, 8000}
            r == Reciprocal(b, e, p, q, a, caps)
<1>1. r.final = Min(B)
  BY DEF Reciprocal, Raw, Confident, Kept
<1>2. G \subseteq {4500, 6500} /\ caps \subseteq {8000}
  BY DEF GateCaps, OpenCap
<1>. HIDE DEF r, G
<1>3. x \in Int
  BY RawType
<1>. HIDE DEF x
<1>4. u \in Int
  <2>1. u = IF x <= 0 THEN 0 ELSE IF x <= 10000 THEN x ELSE 10000
    BY <1>3, KeptOf
  <2>. HIDE DEF u
  <2> QED
    BY <1>3, <2>1
<1>. HIDE DEF u
<1>5. B \subseteq A /\ B # {}
  <2>1. \A z \in G : z \in {4500, 6500}
    BY <1>2
  <2>2. \A z \in caps : z = 8000
    BY <1>2
  <2>3. \A z : z \in {u} \cup G \cup caps => z \in {u, 4500, 6500, 8000}
    BY <2>1, <2>2
  <2>4. u \in B
    OBVIOUS
  <2> QED
    BY <2>3, <2>4
<1>. HIDE DEF B
<1>6. IsFiniteSet(A)
  <2>1. IsFiniteSet({u})
    BY FS_Singleton
  <2>2. IsFiniteSet({u} \cup {4500})
    BY <2>1, FS_AddElement
  <2>3. IsFiniteSet(({u} \cup {4500}) \cup {6500})
    BY <2>2, FS_AddElement
  <2>4. IsFiniteSet((({u} \cup {4500}) \cup {6500}) \cup {8000})
    BY <2>3, FS_AddElement
  <2>5. A = (({u} \cup {4500}) \cup {6500}) \cup {8000}
    OBVIOUS
  <2> QED
    BY <2>4, <2>5
<1>7. A \subseteq Int
  BY <1>4
<1>. HIDE DEF A
<1>8. IsFiniteSet(B)
  BY <1>5, <1>6, FS_Subset
<1>9. B \subseteq Int
  BY <1>5, <1>7
<1>10. Min(B) \in B
  BY <1>5, <1>8, <1>9, Extremes
<1>11. r.final \in Int
  BY <1>1, <1>9, <1>10
<1> QED
  BY <1>11 DEF r

\* So is what a buyer is given of a booth.
LEMMA BuyerScoreType ==
  ASSUME NEW c, OfferShape(c), TradeShape(c), NEW p, SubjectShape(p), RequestShape(p),
         Positive(c, p), c.type # "PROGRAM", ScoreBuyer(c, p) # None
  PROVE  ScoreBuyer(c, p).score \in Int
<1>. DEFINE f == BuyerFeatures(c, p)
            none == {}
            caps == ExhibitorCaps(f.exhibitor)
            d == Directional(BuyerWeights, f.buyer, none)
            e == Directional(ExhibitorWeights, f.exhibitor, caps)
            r == ReciprocalOf(p, f, d, e)
            s == ScoreBuyer(c, p)
            fed == Confidence(BuyerWeights, f.buyer, SourceConfidence(p.completeness, f.buyer.trust))
            felt == Confidence(ExhibitorWeights, f.exhibitor,
                               IF f.declared THEN p.completeness ELSE (7 * p.completeness) \div 10)
            taken == IF f.acceptance = None THEN 50 ELSE f.acceptance
            cap == IF f.declared THEN {} ELSE {8000}
<1>1. d # None /\ e # None /\ s.score = r.final
  BY DEF ScoreBuyer
<1>2. /\ DOMAIN f.buyer = DOMAIN BuyerWeights
      /\ \A n \in DOMAIN BuyerWeights : f.buyer[n] \in Count
      /\ DOMAIN f.exhibitor = DOMAIN ExhibitorWeights
      /\ \A n \in DOMAIN ExhibitorWeights : f.exhibitor[n] \in Count
      /\ f.acceptance \in Count
  BY BuyerComponentsType
<1>3. IsFiniteSet(none) /\ none \subseteq Nat
  BY FS_EmptySet
<1>4. IsFiniteSet(caps) /\ caps \subseteq Nat
  <2>. DEFINE most == 10000
              All == 1..most
  <2>1. caps \subseteq All
    BY DEF ExhibitorCaps
  <2>2. most \in Nat
    OBVIOUS
  <2>. HIDE DEF most, caps
  <2>3. IsFiniteSet(All) /\ All \subseteq Nat
    BY <2>2, FirstNumbers
  <2>. HIDE DEF All
  <2> QED
    BY <2>1, <2>3, FS_Subset
<1>5. r = Reciprocal(d.score, e.score, fed, felt, taken, cap)
  BY DEF ReciprocalOf
<1>6. p.completeness \in Nat
  BY DEF Positive
<1>7. f.buyer.trust \in Count
  BY <1>2 DEF BuyerWeights
<1>. HIDE DEF f, none, caps, r, s
<1>8. d.score \in Nat
  BY <1>1, <1>2, <1>3, DirectionsPositive, DirectionalNatural
<1>9. e.score \in Nat
  BY <1>1, <1>2, <1>4, DirectionsPositive, DirectionalNatural
<1>10. fed \in Nat
  <2>1. SourceConfidence(p.completeness, f.buyer.trust) \in Nat
    <3>1. CASE f.buyer.trust = None
      BY <1>6, <3>1 DEF SourceConfidence
    <3>2. CASE f.buyer.trust # None
      <4>. DEFINE i == p.completeness + f.buyer.trust
      <4>1. i \in Nat
        BY <1>6, <1>7, <3>2 DEF Count
      <4>2. SourceConfidence(p.completeness, f.buyer.trust) = i \div 2
        BY <3>2 DEF SourceConfidence
      <4>. HIDE DEF i
      <4>3. i \div 2 \in Nat
        BY <4>1
      <4> QED
        BY <4>2, <4>3
    <3> QED
      BY <3>1, <3>2
  <2> QED
    BY <1>2, <2>1, DirectionsPositive, ConfidenceNatural
<1>11. felt \in Nat
  <2>. DEFINE source == IF f.declared THEN p.completeness ELSE (7 * p.completeness) \div 10
  <2>1. source \in Nat
    BY <1>6
  <2>. HIDE DEF source
  <2>2. Confidence(ExhibitorWeights, f.exhibitor, source) \in Nat
    BY <1>2, <2>1, DirectionsPositive, ConfidenceNatural
  <2> QED
    BY <2>2 DEF source
<1>12. taken \in Nat
  BY <1>2 DEF Count
<1>13. OpenCap(cap)
  BY DEF OpenCap
<1>. HIDE DEF d, e, fed, felt, taken, cap
<1>14. Reciprocal(d.score, e.score, fed, felt, taken, cap).final \in Int
  BY <1>8, <1>9, <1>10, <1>11, <1>12, <1>13, JointInteger
<1> QED
  BY <1>1, <1>5, <1>14 DEF s

\* What is scored does not depend on where a candidate is, nor on the wait at it.
LEMMA PlaceNotScored ==
  ASSUME NEW c, NEW d, NEW p, Agree(d, c, OfferNames \ {"units", "wait"})
  PROVE  ScoreCandidate(d, p) = ScoreCandidate(c, p)
<1>1. /\ d.category = c.category /\ d.business = c.business /\ d.taste = c.taste
      /\ d.aroma = c.aroma /\ d.usage = c.usage /\ d.features = c.features
      /\ d.services = c.services /\ d.tasting = c.tasting /\ d.purchase = c.purchase
      /\ d.consultation = c.consultation /\ d.alcohol = c.alcohol /\ d.trust = c.trust
      /\ d.event_price = c.event_price /\ d.retail_price = c.retail_price
  BY DEF Agree, OfferNames, OfferFields
<1>2. /\ d.type = c.type /\ d.channels = c.channels /\ d.regions = c.regions /\ d.moq = c.moq
      /\ d.capacity = c.capacity /\ d.readiness = c.readiness /\ d.preferred = c.preferred
      /\ \A g \in {"oem", "export"} : d[g] = c[g]
  BY DEF Agree, OfferNames
<1>3. /\ CategoryCodes(d) = CategoryCodes(c) /\ ServicesOf(d) = ServicesOf(c)
      /\ BehaviorCodes(d) = BehaviorCodes(c) /\ AskingPrice(d) = AskingPrice(c)
      /\ MeetingMatch(d) = MeetingMatch(c)
  BY <1>1 DEF CategoryCodes, ServicesOf, BehaviorCodes, AskingPrice, MeetingMatch
<1>4. VisitorFeatures(d, p) = VisitorFeatures(c, p)
  BY <1>1, <1>3 DEF VisitorFeatures
<1>5. BusinessGoalMatch(p.goals, d) = BusinessGoalMatch(p.goals, c)
  <2>. DEFINE goals == p.goals
              status(x, i) == StatusScore[x[GoalStatus[goals[i].code]]]
              scored(x) == {i \in DOMAIN goals :
                              goals[i].code \in DOMAIN GoalStatus /\ status(x, i) # None}
              items(x) == [i \in scored(x) |-> [priority |-> goals[i].priority, value |-> status(x, i)]]
  <2>1. ASSUME NEW i \in DOMAIN goals, goals[i].code \in DOMAIN GoalStatus
        PROVE  status(d, i) = status(c, i)
    <3>1. GoalStatus[goals[i].code] \in {"oem", "export"}
      BY <2>1 DEF GoalStatus
    <3> QED
      BY <1>2, <3>1
  <2>2. \A x : BusinessGoalMatch(goals, x)
                 = ByPriority(items(x), <<<<100>>, <<70, 30>>, <<60, 30, 10>>>>)
    BY DEF BusinessGoalMatch
  <2>. HIDE DEF goals, status
  <2>3. scored(d) = scored(c)
    BY <2>1
  <2>4. items(d) = items(c)
    BY <2>1, <2>3
  <2>. HIDE DEF scored, items
  <2> QED
    BY <2>2, <2>4 DEF goals
<1>6. BuyerFeatures(d, p) = BuyerFeatures(c, p)
  BY <1>1, <1>2, <1>3, <1>5 DEF BuyerFeatures
<1>7. ScoreVisitor(d, p) = ScoreVisitor(c, p)
  BY <1>3, <1>4 DEF ScoreVisitor
<1>8. ScoreBuyer(d, p) = ScoreBuyer(c, p)
  BY <1>2, <1>6 DEF ScoreBuyer
<1> QED
  BY <1>7, <1>8 DEF ScoreCandidate

\* A booth that is slower in any way is shown no higher.
LEMMA SlowerNeverHelps ==
  ASSUME NullIsNoScore, NEW c, NEW x, NEW d, NEW y, NEW p,
         Shaped(c, p, x), Positive(c, p), PlaceShape(d, y), Slower(d, y, c, x),
         ScoreCandidate(c, p) # None, NEW open, NEW vector
  PROVE  Presented(d, p, y, open, vector).final <= Presented(c, p, x, open, vector).final
<1>. DEFINE s == ScoreCandidate(c, p)
<1>1. ScoreCandidate(d, p) = s
  BY PlaceNotScored DEF Slower
<1>2. OfferShape(c) /\ TradeShape(c) /\ PlaceShape(c, x) /\ SubjectShape(p) /\ RequestShape(p)
  BY DEF Shaped
<1>3. s.score \in Int
  <2>1. CASE p.user_type = "BUYER"
    <3>1. s = ScoreBuyer(c, p) /\ c.type # "PROGRAM"
      BY <2>1 DEF ScoreCandidate, Slower
    <3> QED
      BY <1>2, <3>1, BuyerScoreType
  <2>2. CASE p.user_type # "BUYER"
    <3>1. s = ScoreVisitor(c, p)
      BY <2>2 DEF ScoreCandidate
    <3>2. s # None
      OBVIOUS
    <3>. HIDE DEF s
    <3> QED
      BY <1>2, <3>1, <3>2, VisitorScoreType, VisitorScoreIs
  <2> QED
    BY <2>1, <2>2
<1>4. NoWorse(DOMAIN ContextWeights, ContextWeights,
              ContextParts(d, p, y, open), ContextParts(c, p, x, open))
  BY <1>2, SlowerContext
<1>5. s.score <= s.score
  <2>. DEFINE n == s.score
  <2>1. n \in Int
    BY <1>3
  <2>. HIDE DEF n
  <2>2. n <= n
    BY <2>1
  <2> QED
    BY <2>2 DEF n
<1> QED
  BY <1>1, <1>3, <1>4, <1>5, PresentedMonotone

\* The ways of being slower that are looked at: a longer wait, a farther way, less time.
WaitsLonger(c, n) == [c EXCEPT !.wait = @ + n]
Farther(c, n) == [c EXCEPT !.units = @ + n]
InLessTime(x, n) == [x EXCEPT !.remaining = @ - n]

LEMMA ThreeAreSlower ==
  ASSUME NEW c, NEW p, NEW x, Shaped(c, p, x), c.wait \in Count, c.type = "BOOTH", NEW n \in Nat
  PROVE  /\ c.wait # None => Slower(WaitsLonger(c, n), x, c, x) /\ PlaceShape(WaitsLonger(c, n), x)
         /\ c.units # None => Slower(Farther(c, n), x, c, x) /\ PlaceShape(Farther(c, n), x)
         /\ x.remaining # None => Slower(c, InLessTime(x, n), c, x) /\ PlaceShape(c, InLessTime(x, n))
<1>1. /\ PlaceShape(c, x) /\ OfferNames \subseteq DOMAIN c /\ SituationNames \subseteq DOMAIN x
  BY DEF Shaped, Complete
<1>2. /\ c.units \in Count /\ x.remaining \in Amount /\ x.next \in Amount /\ c.to_meeting \in Int
      /\ c.starts \in Amount /\ c.ends \in Amount /\ c.wait \in Amount
  BY <1>1 DEF PlaceShape
<1>3. Agree(c, c, OfferNames \ {"units", "wait"}) /\ Agree(x, x, SituationNames \ {"remaining"})
  BY DEF Agree
<1>4. AtMost(c.units, c.units) /\ AtMost(c.wait, c.wait) /\ AtMost(x.remaining, x.remaining)
  BY <1>2 DEF AtMost, Count, Amount
<1>5. ASSUME c.wait # None
      PROVE  Slower(WaitsLonger(c, n), x, c, x) /\ PlaceShape(WaitsLonger(c, n), x)
  <2>. DEFINE d == WaitsLonger(c, n)
  <2>1. d.wait = c.wait + n /\ \A g \in OfferNames \ {"wait"} : d[g] = c[g]
    <3>1. "wait" \in DOMAIN c
      BY <1>1 DEF OfferNames
    <3> QED
      BY <1>1, <3>1 DEF WaitsLonger
  <2>2. d.wait \in Nat /\ c.wait \in Nat /\ c.wait <= d.wait
    BY <1>5, <2>1 DEF Count
  <2>3. AtMost(c.wait, d.wait) /\ d.wait \in Count /\ d.wait \in Amount
    BY <2>2, NullAssumption DEF AtMost, Count, Amount
  <2>. HIDE DEF d
  <2>4. d.units = c.units /\ d.type = c.type /\ d.starts = c.starts /\ d.ends = c.ends
        /\ d.to_meeting = c.to_meeting
    BY <2>1 DEF OfferNames
  <2>5. Agree(d, c, OfferNames \ {"units", "wait"})
    BY <2>1 DEF Agree
  <2>6. PlaceShape(d, x)
    BY <1>1, <2>3, <2>4 DEF PlaceShape
  <2>7. Slower(d, x, c, x)
    BY <1>2, <1>3, <1>4, <2>3, <2>4, <2>5 DEF Slower
  <2> QED
    BY <2>6, <2>7 DEF d
<1>6. ASSUME c.units # None
      PROVE  Slower(Farther(c, n), x, c, x) /\ PlaceShape(Farther(c, n), x)
  <2>. DEFINE d == Farther(c, n)
  <2>1. d.units = c.units + n /\ \A g \in OfferNames \ {"units"} : d[g] = c[g]
    <3>1. "units" \in DOMAIN c
      BY <1>1 DEF OfferNames
    <3> QED
      BY <1>1, <3>1 DEF Farther
  <2>2. d.units \in Nat /\ c.units \in Nat /\ c.units <= d.units
    BY <1>2, <1>6, <2>1 DEF Count
  <2>3. AtMost(c.units, d.units) /\ d.units \in Count
    BY <2>2, NullAssumption DEF AtMost, Count
  <2>. HIDE DEF d
  <2>4. d.wait = c.wait /\ d.type = c.type /\ d.starts = c.starts /\ d.ends = c.ends
        /\ d.to_meeting = c.to_meeting
    BY <2>1 DEF OfferNames
  <2>5. Agree(d, c, OfferNames \ {"units", "wait"})
    BY <2>1 DEF Agree
  <2>6. PlaceShape(d, x)
    BY <1>1, <2>3, <2>4 DEF PlaceShape
  <2>7. Slower(d, x, c, x)
    BY <1>2, <1>3, <1>4, <2>3, <2>4, <2>5 DEF Slower
  <2> QED
    BY <2>6, <2>7 DEF d
<1>7. ASSUME x.remaining # None
      PROVE  Slower(c, InLessTime(x, n), c, x) /\ PlaceShape(c, InLessTime(x, n))
  <2>. DEFINE y == InLessTime(x, n)
  <2>1. y.remaining = x.remaining - n /\ \A g \in SituationNames \ {"remaining"} : y[g] = x[g]
    <3>1. "remaining" \in DOMAIN x
      BY <1>1 DEF SituationNames
    <3> QED
      BY <1>1, <3>1 DEF InLessTime
  <2>2. y.remaining \in Int /\ x.remaining \in Int /\ y.remaining <= x.remaining
    BY <1>2, <1>7, <2>1 DEF Amount
  <2>3. AtMost(y.remaining, x.remaining) /\ y.remaining \in Amount
    BY <2>2, NullAssumption DEF AtMost, Amount
  <2>. HIDE DEF y
  <2>4. y.next = x.next
    BY <2>1 DEF SituationNames
  <2>5. Agree(y, x, SituationNames \ {"remaining"})
    BY <2>1 DEF Agree
  <2>6. PlaceShape(c, y)
    BY <1>1, <2>3, <2>4 DEF PlaceShape
  <2>7. Slower(c, y, c, x)
    BY <1>2, <1>3, <1>4, <2>3, <2>5 DEF Slower
  <2> QED
    BY <2>6, <2>7 DEF y
<1> QED
  BY <1>5, <1>6, <1>7

\* A case of a candidate that is shown, as the services give it.
ShowsOne(t) ==
  t.kind = "present" =>
    Shaped(t.offer, t.subject, t.situation) /\ Positive(t.offer, t.subject) /\ t.offer.wait \in Count

\* Whatever the candidate, the subject, the situation and the ontology: an aversion in
\* place of a liking, a higher price for a visitor, a longer wait, a farther way and less
\* time never raise the score that is shown, and neither does a lower score of the weaker
\* side (scoring/engine.py, base_scoring.py, feature_builder.py, context_reranker.py).
THEOREM WorseNeverHigher ==
  ASSUME NEW CONSTANT cases, NullIsNoScore, \A t \in cases : JoinsPair(t) /\ ShowsOne(t)
  PROVE  Stages(cases) => []WorseNeverScoresHigher
<1>1. Computed(cases) => AversionLowers /\ DearerNeverBetter /\ SlowerNeverBetter
  <2>. SUFFICES ASSUME Computed(cases), Shown
                PROVE  AversionLowers /\ DearerNeverBetter /\ SlowerNeverBetter
    BY DEF AversionLowers, DearerNeverBetter, SlowerNeverBetter
  <2>. DEFINE c == task.offer
              p == task.subject
              x == task.situation
              open == task.open
              vector == task.vector
  <2>1. result.shown = Presented(c, p, x, open, vector) /\ result.shown # None
    BY DEF Computed, Shown
  <2>2. Shaped(c, p, x) /\ Positive(c, p) /\ c.wait \in Count
    BY DEF Computed, Shown, ShowsOne
  <2>3. ScoreCandidate(c, p) # None /\ result.shown.scored = ScoreCandidate(c, p)
    BY <2>1 DEF Presented
  <2>4. \A d, q, y : Final(d, q, y) = Presented(d, q, y, open, vector).final
    BY DEF Final
  <2>5. /\ \A k, s : [p EXCEPT !.inferred[k].score = s] = LikedAt(p, k, s)
        /\ \A n : [c EXCEPT !.retail_price = @ + n] = DearerBy(c, n)
        /\ \A n : [c EXCEPT !.wait = @ + n] = WaitsLonger(c, n)
        /\ \A n : [c EXCEPT !.units = @ + n] = Farther(c, n)
        /\ \A n : [x EXCEPT !.remaining = @ - n] = InLessTime(x, n)
    BY DEF LikedAt, DearerBy, WaitsLonger, Farther, InLessTime
  <2>6. More \subseteq Nat
    BY DEF More
  <2>. HIDE DEF c, p, x, open, vector
  <2>7. AversionLowers
    <3>0. {-100, 0, 100} \subseteq Int
      OBVIOUS
    <3>. SUFFICES ASSUME p.user_type = "GENERAL_VISITOR", NEW k \in DOMAIN p.inferred,
                         NEW s \in Int, p.inferred[k].score + 1 < s
                  PROVE  /\ result.shown.final <= Final(c, LikedAt(p, k, s), x)
                         /\ /\ DOMAIN p.inferred = {k} /\ p.inferred[k].confidence > 0
                            /\ k \in DOMAIN c.taste \cap Concept
                            => result.shown.scored.components.behavior
                                 < ScoreCandidate(c, LikedAt(p, k, s)).components.behavior
      BY <2>5, <3>0 DEF AversionLowers, c, p, x
    <3>1. p.user_type # "BUYER"
      OBVIOUS
    <3>2. /\ Presented(c, p, x, open, vector).final
               <= Presented(c, LikedAt(p, k, s), x, open, vector).final
          /\ /\ DOMAIN p.inferred = {k} /\ p.inferred[k].confidence > 0
             /\ k \in DOMAIN c.taste \cap Concept
             => ScoreCandidate(c, p).components.behavior
                  < ScoreCandidate(c, LikedAt(p, k, s)).components.behavior
      BY <2>2, <2>3, <3>1, AversionNeverHelps
    <3> QED
      BY <2>1, <2>3, <2>4, <3>2
  <2>8. DearerNeverBetter
    <3>. SUFFICES ASSUME p.user_type = "GENERAL_VISITOR", c.retail_price # None, NEW n \in More
                  PROVE  Final(DearerBy(c, n), p, x) <= result.shown.final
      BY <2>5 DEF DearerNeverBetter, c, p, x
    <3>1. n \in Nat /\ p.user_type # "BUYER"
      BY <2>6
    <3> QED
      BY <2>1, <2>2, <2>3, <2>4, <3>1, DearerNeverHelps
  <2>9. SlowerNeverBetter
    <3>. SUFFICES ASSUME c.type = "BOOTH", NEW n \in More
                  PROVE  /\ c.wait # None => Final(WaitsLonger(c, n), p, x) <= result.shown.final
                         /\ c.units # None => Final(Farther(c, n), p, x) <= result.shown.final
                         /\ x.remaining # None
                              => Final(c, p, InLessTime(x, n)) <= result.shown.final
      BY <2>5 DEF SlowerNeverBetter, c, p, x
    <3>1. n \in Nat
      BY <2>6
    <3>2. /\ c.wait # None => Slower(WaitsLonger(c, n), x, c, x) /\ PlaceShape(WaitsLonger(c, n), x)
          /\ c.units # None => Slower(Farther(c, n), x, c, x) /\ PlaceShape(Farther(c, n), x)
          /\ x.remaining # None
               => Slower(c, InLessTime(x, n), c, x) /\ PlaceShape(c, InLessTime(x, n))
      BY <2>2, <3>1, ThreeAreSlower
    <3>3. ASSUME NEW d, NEW y, Slower(d, y, c, x), PlaceShape(d, y)
          PROVE  Final(d, p, y) <= result.shown.final
      <4>1. Presented(d, p, y, open, vector).final <= Presented(c, p, x, open, vector).final
        BY <2>2, <2>3, <3>3, SlowerNeverHelps
      <4> QED
        BY <2>1, <2>4, <4>1
    <3> QED
      BY <3>2, <3>3
  <2> QED
    BY <2>7, <2>8, <2>9
<1>2. Stages(cases) => [](WeakerSideHelps /\ MutualAboveOneSided)
  BY WeakerSideDecides
<1>3. (AversionLowers /\ DearerNeverBetter /\ SlowerNeverBetter)
      /\ (WeakerSideHelps /\ MutualAboveOneSided) => WorseNeverScoresHigher
  BY DEF WorseNeverScoresHigher
<1> QED
  BY <1>1, <1>2, <1>3, StagesCompute, PTL
=============================================================================
