--------------------------- MODULE SelectionProofs --------------------------
(***************************************************************************)
(* What holds of the stages that select what may be recommended, for every *)
(* catalogue, candidate, profile, text and sample: eligibility, what a     *)
(* subject said and what the evidence about it settles, and the pool of    *)
(* candidates.  The first part is about the operators and has no           *)
(* behaviour; the theorems after it are stated of a behaviour over any set *)
(* of cases, and their hypotheses say what a case looks like.              *)
(*                                                                         *)
(* The catalogue is recursive, and what is said of its strengths is proved *)
(* by a smallest counterexample: a set of numbers has a least one, and in  *)
(* a set of concepts some concept has its parent outside.  Sums and folds  *)
(* over finite sets are defined by choosing elements, and the lemmas about *)
(* them show that the choice does not matter, by taking a smallest set at  *)
(* which it would.                                                         *)
(***************************************************************************)
EXTENDS MCMatching, FiniteSetTheorems, SequenceTheorems, WellFoundedInduction, TLAPS

-----------------------------------------------------------------------------
(* Recursion along parents and along numbers.                               *)

\* A set of numbers that is not empty has a least one.
LEMMA LeastOf ==
  ASSUME NEW T \in SUBSET Nat, T # {}
  PROVE  \E x \in T : \A y \in T : x <= y
<1>. DEFINE R == {s \in Nat \X Nat : s[1] < s[2]}
<1>1. IsWellFoundedOn(R, Nat)
  BY NatLessThanWellFounded DEF OpToRel
<1>2. \A x, y \in Nat : y < x => <<y, x>> \in R
  OBVIOUS
<1>. HIDE DEF R
<1>3. \E x \in T : \A y \in T : ~ (<<y, x>> \in R)
  BY <1>1, WFMin
<1>4. PICK x \in T : \A y \in T : ~ (<<y, x>> \in R)
  BY <1>3
<1>5. x \in Nat /\ \A y \in T : y \in Nat /\ ~ (y < x)
  BY <1>2, <1>4
<1> QED
  BY <1>5

\* Numbers with an upper bound have a largest one.
LEMMA LargerOf ==
  ASSUME NEW bound \in Nat, NEW T \in SUBSET (0..bound), T # {}
  PROVE  Larger(T) \in T /\ \A y \in T : y <= Larger(T)
<1>. DEFINE U == {n \in Nat : bound - n \in T}
<1>1. PICK t \in T : TRUE
  OBVIOUS
<1>2. bound - t \in U
  BY <1>1
<1>3. PICK n \in U : \A m \in U : n <= m
  BY <1>2, LeastOf
<1>4. bound - n \in T /\ n \in Nat
  BY <1>3
<1>5. \A y \in T : y <= bound - n
  <2>. SUFFICES ASSUME NEW y \in T PROVE y <= bound - n
    OBVIOUS
  <2>1. bound - y \in U /\ y \in Nat
    OBVIOUS
  <2> QED
    BY <1>3, <1>4, <2>1
<1> QED
  BY <1>4, <1>5 DEF Larger

\* A parent function without cycles, and what a recursion along it says of f.
Acyclic(S, up) == \A T \in SUBSET S : T # {} => \E c \in T : up[c] \notin T

Solves(f, S, up, V, base, G) ==
  /\ f \in [S -> V]
  /\ \A c \in S : f[c] = IF up[c] \in S THEN G[<<c, f[up[c]]>>] ELSE base

\* Along a parent function without cycles every recursion has a solution.
LEMMA Recursion ==
  ASSUME NEW S, NEW up, Acyclic(S, up), NEW V, NEW base \in V, NEW G \in [S \X V -> V]
  PROVE  \E f : Solves(f, S, up, V, base, G)
<1>0. \A T \in SUBSET S : T # {} => \E c \in T : up[c] \notin T
  BY DEF Acyclic
<1>. DEFINE Part(D, g) ==
       /\ D \subseteq S /\ g \in [D -> V]
       /\ \A c \in D : up[c] \in S => up[c] \in D
       /\ \A c \in D : g[c] = IF up[c] \in S THEN G[<<c, g[up[c]]>>] ELSE base
<1>1. ASSUME NEW D, NEW g, Part(D, g), NEW E, NEW h, Part(E, h), NEW x \in D \cap E
      PROVE  g[x] = h[x]
  <2>. DEFINE T == {c \in D \cap E : g[c] # h[c]}
  <2>. SUFFICES ASSUME T # {} PROVE FALSE
    BY <1>1
  <2>1. T \in SUBSET S
    BY <1>1
  <2>2. PICK c \in T : up[c] \notin T
    BY <1>0, <2>1
  <2>3. c \in D /\ c \in E /\ g[c] # h[c]
    OBVIOUS
  <2>4. CASE up[c] \in S
    <3>1. up[c] \in D /\ up[c] \in E
      BY <1>1, <2>3, <2>4
    <3>2. g[up[c]] = h[up[c]]
      BY <2>2, <3>1
    <3> QED
      BY <1>1, <2>3, <2>4, <3>2
  <2>5. CASE up[c] \notin S
    BY <1>1, <2>3, <2>5
  <2> QED
    BY <2>4, <2>5
<1>2. ASSUME NEW x \in S
      PROVE  \E D, g : Part(D, g) /\ x \in D
  <2>. DEFINE T == {c \in S : ~ \E D, g : Part(D, g) /\ c \in D}
  <2>. SUFFICES ASSUME T # {} PROVE FALSE
    OBVIOUS
  <2>1. PICK c \in T : up[c] \notin T
    BY <1>0
  <2>2. c \in S /\ ~ \E D, g : Part(D, g) /\ c \in D
    OBVIOUS
  <2>3. CASE up[c] \notin S
    <3>. DEFINE g == [y \in {c} |-> base]
    <3>1. Part({c}, g)
      BY <2>2, <2>3
    <3>. HIDE DEF Part, g
    <3> QED
      BY <2>2, <3>1
  <2>4. CASE up[c] \in S
    <3>1. PICK D, g : Part(D, g) /\ up[c] \in D
      BY <2>1, <2>4
    <3>2. c \notin D
      BY <2>2, <3>1
    <3>. DEFINE E == D \cup {c}
                v == G[<<c, g[up[c]]>>]
                h == [y \in E |-> IF y = c THEN v ELSE g[y]]
    <3>3. /\ D \subseteq S /\ g \in [D -> V]
          /\ \A y \in D : up[y] \in S => up[y] \in D
          /\ \A y \in D : g[y] = IF up[y] \in S THEN G[<<y, g[up[y]]>>] ELSE base
          /\ up[c] \in D
      BY <3>1
    <3>4. v \in V
      BY <2>2, <3>3
    <3>. HIDE DEF v
    <3>5. E \subseteq S /\ h \in [E -> V]
      BY <2>2, <3>3, <3>4
    <3>6. \A y \in E : up[y] \in S => up[y] \in E
      BY <2>4, <3>3
    <3>7. h[c] = v /\ \A y \in D : h[y] = g[y]
      BY <3>2
    <3>. HIDE DEF h
    <3>8. \A y \in E : h[y] = IF up[y] \in S THEN G[<<y, h[up[y]]>>] ELSE base
      <4>1. h[c] = G[<<c, h[up[c]]>>]
        BY <3>3, <3>7 DEF v
      <4>2. \A y \in D : h[y] = IF up[y] \in S THEN G[<<y, h[up[y]]>>] ELSE base
        BY <3>3, <3>7
      <4> QED
        BY <2>4, <4>1, <4>2
    <3>9. Part(E, h)
      BY <3>5, <3>6, <3>8
    <3>. HIDE DEF Part
    <3> QED
      BY <2>2, <3>9
  <2> QED
    BY <2>3, <2>4
<1>. DEFINE value(x) == CHOOSE v : \E D, g : Part(D, g) /\ x \in D /\ v = g[x]
            f == [x \in S |-> value(x)]
<1>3. ASSUME NEW D, NEW g, Part(D, g), NEW x \in D
      PROVE  f[x] = g[x]
  <2>1. x \in S
    BY <1>3
  <2>. HIDE DEF Part
  <2>2. \E D1, g1 : Part(D1, g1) /\ x \in D1 /\ value(x) = g1[x]
    BY <1>3
  <2>3. PICK D1, g1 : Part(D1, g1) /\ x \in D1 /\ value(x) = g1[x]
    BY <2>2
  <2>4. g1[x] = g[x]
    BY <1>1, <1>3, <2>3
  <2> QED
    BY <2>1, <2>3, <2>4
<1>4. \A x \in S : f[x] = IF up[x] \in S THEN G[<<x, f[up[x]]>>] ELSE base
  <2>. SUFFICES ASSUME NEW x \in S
                PROVE  f[x] = IF up[x] \in S THEN G[<<x, f[up[x]]>>] ELSE base
    OBVIOUS
  <2>. HIDE DEF f
  <2>1. PICK D, g : Part(D, g) /\ x \in D
    BY <1>2
  <2>2. f[x] = g[x] /\ (up[x] \in S => up[x] \in D)
    BY <1>3, <2>1
  <2>3. up[x] \in S => f[up[x]] = g[up[x]]
    BY <1>3, <2>1, <2>2
  <2> QED
    BY <2>1, <2>2, <2>3
<1>5. ASSUME NEW x \in S
      PROVE  f[x] \in V
  <2>1. PICK D, g : Part(D, g) /\ x \in D
    BY <1>2
  <2>. HIDE DEF f
  <2> QED
    BY <1>3, <2>1
<1>6. f \in [S -> V]
  <2>1. f = [x \in S |-> f[x]]
    OBVIOUS
  <2>. HIDE DEF f
  <2> QED
    BY <1>5, <2>1
<1>. HIDE DEF f
<1> QED
  BY <1>4, <1>6 DEF Solves

-----------------------------------------------------------------------------
(* The catalogue.                                                           *)

Strength == 0..1000

\* One step of decay leaves a strength.
LEMMA DecayStep ==
  ASSUME NEW v \in Strength
  PROVE  (v * 9) \div 10 \in Strength
BY DEF Strength

\* The strength of an ancestor falls with its distance and stays a strength.
LEMMA DecayType == Decay \in [Nat -> Strength]
<1>. DEFINE top == 1000
            up == [n \in Nat |-> n - 1]
            G == [p \in Nat \X Strength |-> (p[2] * 9) \div 10]
            Eq(f) == f = [n \in Nat |-> IF n = 0 THEN 1000 ELSE (f[n - 1] * 9) \div 10]
<1>1. \A T \in SUBSET Nat : T # {} => \E n \in T : up[n] \notin T
  <2>. SUFFICES ASSUME NEW T \in SUBSET Nat, T # {}
                PROVE  \E n \in T : up[n] \notin T
    OBVIOUS
  <2>1. PICK n \in T : \A m \in T : n <= m
    BY LeastOf
  <2>2. n \in Nat /\ up[n] = n - 1
    OBVIOUS
  <2>. HIDE DEF up
  <2> QED
    BY <2>1, <2>2
<1>2. G \in [Nat \X Strength -> Strength]
  <2>1. \A v \in Strength : (v * 9) \div 10 \in Strength
    BY DecayStep
  <2> QED
    BY <2>1
<1>3. top \in Strength
  BY DEF Strength
<1>4. \A n \in Nat : (up[n] \in Nat <=> n # 0) /\ up[n] = n - 1
  OBVIOUS
<1>5. \A n \in Nat, v \in Strength : G[<<n, v>>] = (v * 9) \div 10
  OBVIOUS
<1>. HIDE DEF up, G, top
<1>6. PICK f : Solves(f, Nat, up, Strength, top, G)
  <2>1. Acyclic(Nat, up)
    BY <1>1 DEF Acyclic
  <2> QED
    BY <1>2, <1>3, <2>1, Recursion
<1>7. f \in [Nat -> Strength]
  BY <1>6 DEF Solves
<1>8. ASSUME NEW n \in Nat
      PROVE  f[n] = IF n = 0 THEN 1000 ELSE (f[n - 1] * 9) \div 10
  <2>1. f[n] = IF up[n] \in Nat THEN G[<<n, f[up[n]]>>] ELSE top
    BY <1>6 DEF Solves
  <2>2. CASE n = 0
    BY <1>4, <2>1, <2>2 DEF top
  <2>3. CASE n # 0
    <3>1. up[n] \in Nat /\ up[n] = n - 1
      BY <1>4, <2>3
    <3>. DEFINE k == up[n]
    <3>2. k \in Nat /\ f[n] = G[<<n, f[k]>>]
      BY <2>1, <3>1
    <3>3. k = n - 1
      BY <3>1
    <3>. HIDE DEF k
    <3>4. f[k] \in Strength
      BY <1>7, <3>2
    <3>5. G[<<n, f[k]>>] = (f[k] * 9) \div 10
      BY <1>5, <3>4
    <3>6. f[n] = (f[k] * 9) \div 10
      BY <3>2, <3>5
    <3> QED
      BY <2>3, <3>3, <3>6
  <2> QED
    BY <2>2, <2>3
<1>9. Eq(f)
  BY <1>7, <1>8
<1>10. Eq(Decay)
  <2>1. Decay = CHOOSE g : Eq(g)
    BY DEF Decay
  <2>. HIDE DEF Eq
  <2> QED
    BY <1>9, <2>1
<1>11. \A n \in Nat : Decay[n] = IF n = 0 THEN 1000 ELSE (Decay[n - 1] * 9) \div 10
  BY <1>10
<1>12. ASSUME NEW n \in Nat PROVE Decay[n] \in Strength
  <2>. DEFINE T == {m \in Nat : Decay[m] \notin Strength}
  <2>. SUFFICES ASSUME T # {} PROVE FALSE
    OBVIOUS
  <2>1. T \in SUBSET Nat /\ T # {}
    OBVIOUS
  <2>2. \A m \in T : m \in Nat /\ Decay[m] \notin Strength
    OBVIOUS
  <2>3. \A m \in Nat : m \notin T => Decay[m] \in Strength
    OBVIOUS
  <2>. HIDE DEF T
  <2>4. PICK m \in T : \A k \in T : m <= k
    BY <2>1, LeastOf
  <2>5. m \in Nat /\ Decay[m] \notin Strength
    BY <2>2
  <2>6. m # 0 /\ Decay[m] = (Decay[m - 1] * 9) \div 10
    <3>1. Decay[0] \in Strength
      BY <1>11 DEF Strength
    <3> QED
      BY <1>11, <2>5, <3>1
  <2>7. m - 1 \in Nat /\ m - 1 \notin T
    <3>1. m - 1 \in Nat /\ ~ (m <= m - 1)
      BY <2>5, <2>6
    <3> QED
      BY <2>4, <3>1
  <2>8. Decay[m - 1] \in Strength
    BY <2>3, <2>7
  <2> QED
    BY DecayStep, <2>5, <2>6, <2>8
<1> QED
  BY <1>10, <1>12

\* The ancestors of a concept are a sequence of concepts, since the parents
\* make no cycle.
LEMMA AncestorsType == Ancestors \in [Concept -> Seq(Concept)]
<1>. DEFINE V == Seq(Concept)
            G == [p \in Concept \X V |-> IF Parent[p[1]] = None THEN << >>
                                         ELSE <<Parent[p[1]]>> \o p[2]]
            Eq(f) == f = [c \in Concept |-> IF Parent[c] = None THEN << >>
                                            ELSE <<Parent[c]>> \o f[Parent[c]]]
<1>1. \A c \in Concept : Parent[c] \in Concept \cup {None} /\ (Parent[c] = None <=> Parent[c] \notin Concept)
  BY OntologyAssumption
<1>2. << >> \in V
  OBVIOUS
<1>3. \A c \in Concept, v \in V : Parent[c] \in Concept => <<Parent[c]>> \o v \in V
  <2>. SUFFICES ASSUME NEW c \in Concept, NEW v \in V, Parent[c] \in Concept
                PROVE  <<Parent[c]>> \o v \in V
    OBVIOUS
  <2>1. <<Parent[c]>> \in Seq(Concept)
    OBVIOUS
  <2> QED
    BY <2>1, ConcatProperties
<1>4. G \in [Concept \X V -> V]
  <2>. HIDE DEF V
  <2>1. \A p \in Concept \X V : p[1] \in Concept /\ p[2] \in V
    OBVIOUS
  <2> QED
    BY <1>1, <1>2, <1>3, <2>1
<1>5. \A c \in Concept, v \in V : Parent[c] \in Concept => G[<<c, v>>] = <<Parent[c]>> \o v
  <2>. HIDE DEF V
  <2> QED
    BY <1>1
<1>. HIDE DEF G, V
<1>6. PICK f : Solves(f, Concept, Parent, V, << >>, G)
  <2>1. Acyclic(Concept, Parent)
    BY TreesAssumption DEF Acyclic
  <2> QED
    BY <1>2, <1>4, <2>1, Recursion
<1>7. f \in [Concept -> V]
  BY <1>6 DEF Solves
<1>8. ASSUME NEW c \in Concept
      PROVE  f[c] = IF Parent[c] = None THEN << >> ELSE <<Parent[c]>> \o f[Parent[c]]
  <2>1. f[c] = IF Parent[c] \in Concept THEN G[<<c, f[Parent[c]]>>] ELSE << >>
    BY <1>6 DEF Solves
  <2>2. Parent[c] \in Concept => f[Parent[c]] \in V
    BY <1>7
  <2> QED
    BY <1>1, <1>5, <2>1, <2>2
<1>9. Eq(f)
  BY <1>7, <1>8
<1>10. Eq(Ancestors)
  <2>1. Ancestors = CHOOSE g : Eq(g)
    BY DEF Ancestors
  <2>. HIDE DEF Eq
  <2> QED
    BY <1>9, <2>1
<1>11. \A c \in Concept : Ancestors[c] = IF Parent[c] = None THEN << >>
                                         ELSE <<Parent[c]>> \o Ancestors[Parent[c]]
  BY <1>10
<1>12. ASSUME NEW x \in Concept PROVE Ancestors[x] \in V
  <2>. DEFINE T == {c \in Concept : Ancestors[c] \notin V}
  <2>. SUFFICES ASSUME T # {} PROVE FALSE
    OBVIOUS
  <2>1. PICK c \in T : Parent[c] \notin T
    BY TreesAssumption
  <2>2. c \in Concept /\ Ancestors[c] \notin V
    OBVIOUS
  <2>3. CASE Parent[c] = None
    BY <1>2, <1>11, <2>2, <2>3
  <2>4. CASE Parent[c] # None
    <3>1. Parent[c] \in Concept /\ Ancestors[Parent[c]] \in V
      BY <1>1, <2>1, <2>2, <2>4
    <3>2. <<Parent[c]>> \o Ancestors[Parent[c]] \in V
      BY <1>3, <2>2, <3>1
    <3> QED
      BY <1>11, <2>2, <2>4, <3>2
  <2> QED
    BY <2>3, <2>4
<1> QED
  BY <1>10, <1>12 DEF V

\* The largest of some strengths is one of them.
LEMMA LargestStrength ==
  ASSUME NEW T \in SUBSET Strength, T # {}
  PROVE  Larger(T) \in T /\ \A y \in T : y <= Larger(T)
<1>. DEFINE bound == 1000
<1>1. bound \in Nat
  OBVIOUS
<1>2. T \in SUBSET (0..bound)
  BY DEF Strength
<1>. HIDE DEF bound
<1> QED
  BY <1>1, <1>2, LargerOf

\* How well an offered concept matches a requested one, by descent or by
\* relation, is at most full strength, whatever the catalogue.
THEOREM StrengthsBounded ==
  ASSUME NEW requested \in Concept, NEW offered \in Concept
  PROVE  MatchStrength(requested, offered) \in 0..1000
<1>. DEFINE up == Ancestors[offered]
            at == {i \in DOMAIN up : up[i] = requested}
            weights == {0} \cup {r.weight : r \in {q \in Relations :
                          q.source = requested /\ q.target = offered}}
<1>0. \A v : v \in Strength <=> v \in 0..1000
  BY DEF Strength
<1>1. CASE requested = offered
  BY <1>1 DEF MatchStrength
<1>2. CASE requested # offered /\ at # {}
  <2>1. up \in Seq(Concept)
    BY AncestorsType
  <2>2. at \in SUBSET Nat
    BY <2>1, LenProperties
  <2>3. \E i \in at : \A j \in at : i <= j
    <3>. HIDE DEF at
    <3> QED
      BY <1>2, <2>2, LeastOf
  <2>4. (CHOOSE i \in at : \A j \in at : i <= j) \in Nat
    <3>. HIDE DEF at
    <3> QED
      BY <2>2, <2>3
  <2>. DEFINE near == CHOOSE i \in at : \A j \in at : i <= j
  <2>5. MatchStrength(requested, offered) = Decay[near]
    BY <1>2 DEF MatchStrength
  <2>6. near \in Nat
    BY <2>4
  <2>. HIDE DEF near
  <2>7. Decay[near] \in Strength
    BY <2>6, DecayType
  <2> QED
    BY <1>0, <2>5, <2>7
<1>3. CASE requested # offered /\ at = {}
  <2>1. weights \in SUBSET Strength /\ weights # {}
    BY <1>0, OntologyAssumption
  <2>2. Larger(weights) \in Strength
    <3>. HIDE DEF weights
    <3> QED
      BY <2>1, LargestStrength
  <2>3. MatchStrength(requested, offered) = Larger(weights)
    BY <1>3 DEF MatchStrength
  <2> QED
    BY <1>0, <2>2, <2>3
<1> QED
  BY <1>1, <1>2, <1>3

\* Two sets of codes have nothing in common exactly if no two of them match.
LEMMA NothingMatches ==
  ASSUME NEW requested \in SUBSET Concept, NEW offered \in SUBSET Concept
  PROVE  MaxMatchStrength(requested, offered) = 0 <=>
           \A r \in requested, o \in offered : ~ (MatchStrength(r, o) > 0)
<1>. DEFINE strengths == {MatchStrength(p[1], p[2]) : p \in (requested \cap Concept) \X (offered \cap Concept)}
            T == {0} \cup strengths
<1>1. \A r \in requested, o \in offered :
        MatchStrength(r, o) \in Strength /\ MatchStrength(r, o) \in strengths
  <2>. SUFFICES ASSUME NEW r \in requested, NEW o \in offered
                PROVE  MatchStrength(r, o) \in Strength /\ MatchStrength(r, o) \in strengths
    OBVIOUS
  <2>1. <<r, o>> \in (requested \cap Concept) \X (offered \cap Concept)
    OBVIOUS
  <2>2. <<r, o>>[1] = r /\ <<r, o>>[2] = o
    OBVIOUS
  <2> QED
    BY <2>1, <2>2, StrengthsBounded DEF Strength
<1>2. \A s \in strengths : \E r \in requested, o \in offered : s = MatchStrength(r, o)
  OBVIOUS
<1>3. MaxMatchStrength(requested, offered) = Larger(T)
  BY DEF MaxMatchStrength
<1>. HIDE DEF strengths
<1>4. T \in SUBSET Strength /\ T # {}
  <2>1. 0 \in Strength
    BY DEF Strength
  <2> QED
    BY <1>1, <1>2, <2>1
<1>5. Larger(T) \in T /\ \A s \in T : s <= Larger(T)
  <2>. HIDE DEF T
  <2> QED
    BY <1>4, LargestStrength
<1>6. ASSUME Larger(T) = 0, NEW r \in requested, NEW o \in offered
      PROVE  ~ (MatchStrength(r, o) > 0)
  <2>1. MatchStrength(r, o) \in 0..1000 /\ MatchStrength(r, o) \in T
    BY <1>1 DEF Strength
  <2>2. MatchStrength(r, o) <= 0
    BY <1>5, <1>6, <2>1
  <2> QED
    BY <2>1, <2>2
<1>7. ASSUME \A r \in requested, o \in offered : ~ (MatchStrength(r, o) > 0)
      PROVE  Larger(T) = 0
  <2>1. ASSUME NEW s \in strengths PROVE s = 0
    <3>1. PICK r \in requested, o \in offered : s = MatchStrength(r, o)
      BY <1>2
    <3>2. MatchStrength(r, o) \in 0..1000 /\ ~ (MatchStrength(r, o) > 0)
      BY <1>1, <1>7 DEF Strength
    <3> QED
      BY <3>1, <3>2
  <2>2. \A s \in T : s = 0
    BY <2>1
  <2> QED
    BY <1>5, <2>2
<1> QED
  BY <1>3, <1>6, <1>7

-----------------------------------------------------------------------------
(* What a text settles.                                                     *)

\* What a text states twice with different requirements, and what a term may
\* mean among others, constrains nothing until the subject says which, whatever
\* terms are found (OnlySettledConstrains).
THEOREM StatedOnceConstrains ==
  ASSUME NEW terms, \A t \in terms : t.requirement \in {"MUST", "PREFER", "EXCLUDE"},
         NEW scope,
         NEW c \in Project(TextIntent(terms), scope).require
                     \cup Project(TextIntent(terms), scope).forbid
                     \cup Project(TextIntent(terms), scope).asks,
         NEW t \in terms, t.codes = {c}
  PROVE  t.requirement = IF c \in TextIntent(terms).must THEN "MUST" ELSE "EXCLUDE"
<1>. DEFINE stated(r) == {d \in Concept : /\ \E u \in terms : u.codes = {d} /\ u.requirement = r
                                          /\ Settled(terms, d)}
<1>1. TextIntent(terms).must = stated("MUST") /\ TextIntent(terms).exclude = stated("EXCLUDE")
  BY DEF TextIntent
<1>2. c \in stated("MUST") \/ c \in stated("EXCLUDE")
  BY <1>1 DEF Project
<1>3. \A r : c \in stated(r) => t.requirement = r
  BY DEF Settled
<1> QED
  BY <1>1, <1>2, <1>3

-----------------------------------------------------------------------------
(* What the evaluator does not know.                                        *)

\* A field of supply data that is forgotten reads as absent or as empty.
ForgetsSupply(d, c) ==
  /\ d.approval \in {c.approval, None}
  /\ \A f \in {"oem", "private_label", "export"} : d[f] \in {c[f], None}
  /\ \A f \in {"regions", "channels", "business_types"} : d[f] \in {c[f], {}}

\* d is what remains of candidate c when any number of the things the evaluator
\* may observe are forgotten; of booth services nothing is said.
ForgetsObserved(d, c) ==
  /\ d.type = c.type /\ d.participation = c.participation
  /\ d.master \in {c.master, None} /\ d.approval \in {c.approval, None}
  /\ d.alcohol \in {c.alcohol, None} /\ d.codes \in {c.codes, {}}
  /\ d.supply # None => c.supply # None /\ ForgetsSupply(d.supply, c.supply)

ObservedFields == {"codes", "alcohol", "channels", "regions", "business_types"} \cup StatusFields

\* What is still observed after forgetting was observed before.
LEMMA ObservedBefore ==
  ASSUME NEW d, NEW c, ForgetsObserved(d, c), NEW code, Observable(d, code)
  PROVE  Observable(c, code) /\ (FieldOf(code) \notin PublicFields => c.supply # None /\ d.supply # None)
<1>1. PubliclyApproved(d) => PubliclyApproved(c)
  BY AbsentAssumption DEF PubliclyApproved, ForgetsObserved
<1>2. VerifiedSupply(d) => VerifiedSupply(c) /\ c.supply # None /\ d.supply # None
  BY <1>1, AbsentAssumption DEF VerifiedSupply, ForgetsObserved, ForgetsSupply
<1> QED
  BY <1>1, <1>2 DEF Observable

\* What a candidate offers for a code is what it offered before, or nothing.
LEMMA OfferedBefore ==
  ASSUME NEW d, NEW c, ForgetsObserved(d, c), NEW code \in Concept,
         TypeOf[code] # "BOOTH_SERVICE", FieldOf(code) \in ObservedFields,
         Observable(d, code)
  PROVE  \/ Offered(d, code) = Offered(c, code)
         \/ FieldOf(code) \in StatusFields /\ Offered(d, code) = None
         \/ FieldOf(code) \notin StatusFields /\ Offered(d, code) = {}
<1>1. CASE FieldOf(code) = "codes"
  <2>1. \A e : OfType((e.codes \cup ServiceCodes(e)) \cap Concept, TypeOf[code])
                 = OfType(e.codes \cap Concept, TypeOf[code])
    BY NamedCodesAssumption DEF OfType, ServiceCodes
  <2>2. \A e : Offered(e, code) = OfType(e.codes \cap Concept, TypeOf[code])
    BY <1>1, <2>1 DEF Offered
  <2>3. OfType({} \cap Concept, TypeOf[code]) = {}
    BY DEF OfType
  <2>4. d.codes = c.codes \/ d.codes = {}
    BY DEF ForgetsObserved
  <2>5. Offered(d, code) = Offered(c, code) \/ Offered(d, code) = {}
    BY <2>2, <2>3, <2>4
  <2> QED
    BY <1>1, <2>5 DEF StatusFields
<1>2. CASE FieldOf(code) = "alcohol"
  <2>1. \A e : Offered(e, code) =
           IF Known(e.alcohol) /\ Known(DeriveBand(Alcohol, e.alcohol))
           THEN {DeriveBand(Alcohol, e.alcohol)} ELSE {}
    BY <1>2 DEF Offered
  <2>2. d.alcohol = c.alcohol \/ ~ Known(d.alcohol)
    BY DEF ForgetsObserved, Known
  <2>3. Offered(d, code) = Offered(c, code) \/ Offered(d, code) = {}
    BY <2>1, <2>2
  <2> QED
    BY <1>2, <2>3 DEF StatusFields
<1>3. CASE FieldOf(code) \notin PublicFields
  <2>1. ForgetsSupply(d.supply, c.supply)
    BY <1>3, ObservedBefore DEF ForgetsObserved
  <2>2. Offered(d, code) = d.supply[FieldOf(code)] /\ Offered(c, code) = c.supply[FieldOf(code)]
    BY <1>3 DEF Offered, PublicFields
  <2>3. CASE FieldOf(code) \in StatusFields
    BY <2>1, <2>2, <2>3 DEF ForgetsSupply, StatusFields
  <2>4. CASE FieldOf(code) \notin StatusFields
    <3>1. FieldOf(code) \in {"regions", "channels", "business_types"}
      BY <1>3, <2>4 DEF ObservedFields, PublicFields
    <3> QED
      BY <2>1, <2>2, <2>4, <3>1 DEF ForgetsSupply
  <2> QED
    BY <2>3, <2>4
<1> QED
  BY <1>1, <1>2, <1>3 DEF PublicFields

\* A match that is still known is the match that was known.
LEMMA MatchedBefore ==
  ASSUME NEW d, NEW c, ForgetsObserved(d, c), NEW code \in Concept,
         TypeOf[code] # "BOOTH_SERVICE", FieldOf(code) \in ObservedFields,
         Matched(d, code) # None
  PROVE  Matched(d, code) = Matched(c, code)
<1>1. Observable(d, code)
  BY DEF Matched
<1>2. Observable(c, code)
  BY <1>1, ObservedBefore
<1>3. Offered(d, code) = Offered(c, code)
  <2>1. FieldOf(code) \in StatusFields => Offered(d, code) # None
    BY <1>1, AbsentAssumption DEF Matched
  <2>2. FieldOf(code) \notin StatusFields => Offered(d, code) # {}
    BY <1>1 DEF Matched
  <2> QED
    BY <1>1, <2>1, <2>2, OfferedBefore
<1> QED
  BY <1>1, <1>2, <1>3 DEF Matched

\* Whom the evaluator admits when things are forgotten it admitted before: to
\* know less of a candidate never admits it, whatever the plan, and however many
\* things are forgotten (ForgettingNeverAdmits).
THEOREM NotKnowingNeverAdmits ==
  ASSUME NEW d, NEW c, ForgetsObserved(d, c), NEW intent, NEW scope,
         intent.must \cup intent.exclude \in SUBSET {k \in Concept : TypeOf[k] # "BOOTH_SERVICE"},
         Admitted(d, Project(intent, scope))
  PROVE  Admitted(c, Project(intent, scope))
<1>. DEFINE plan == Project(intent, scope)
<1>1. \A code \in plan.require \cup plan.forbid :
        code \in Concept /\ TypeOf[code] # "BOOTH_SERVICE" /\ FieldOf(code) \in ObservedFields
  <2>1. \A code \in plan.require \cup plan.forbid :
          code \in intent.must \cup intent.exclude /\ FieldOf(code) # None
    BY AbsentAssumption DEF Project, PublicFields, Known
  <2>2. \A code : FieldOf(code) \in ObservedFields \cup {None}
    BY DEF FieldOf, ObservedFields, StatusFields
  <2> QED
    BY <2>1, <2>2
<1>. HIDE DEF plan
<1>2. \A e : Admitted(e, plan) <=>
         plan.asks = {} /\ \A code \in plan.require \cup plan.forbid : Decision(e, plan, code) = "ELIGIBLE"
  <2>1. \A e, code : Decision(e, plan, code) \in {"INFORMATION_REQUIRED", "FILTERED_OUT", "ELIGIBLE"}
    BY DEF Decision
  <2> QED
    BY <2>1 DEF Admitted, Evaluate
<1>3. ASSUME NEW code \in plan.require \cup plan.forbid, Decision(d, plan, code) = "ELIGIBLE"
      PROVE  Decision(c, plan, code) = "ELIGIBLE"
  <2>1. Matched(d, code) # None
    BY <1>3 DEF Decision
  <2>2. Matched(d, code) = Matched(c, code)
    BY <1>1, <1>3, <2>1, MatchedBefore
  <2> QED
    BY <1>3, <2>2 DEF Decision
<1> QED
  BY <1>2, <1>3 DEF plan
-----------------------------------------------------------------------------
(* The gate.                                                                *)

\* A set is no larger than one that is mapped onto it.
LEMMA OntoIsSmaller ==
  ASSUME NEW S, NEW T, NEW f \in [S -> T], IsFiniteSet(S), \A t \in T : \E s \in S : f[s] = t
  PROVE  IsFiniteSet(T) /\ Cardinality(T) \in Nat /\ Cardinality(T) <= Cardinality(S)
<1>1. f \in Surjection(S, T)
  BY DEF Surjection
<1> QED
  BY <1>1, FS_Surjection, FS_CardinalityType

\* The shadows of a sample, and those that compare.
Delivered(sample) == {sample[i] : i \in DOMAIN sample}

Compared(sample) == {s \in Delivered(sample) : s.state \in {"PARITY", "SAFETY_GAP"}}

\* A sample has finitely many shadows.
LEMMA DeliveredFinite ==
  ASSUME NEW E, NEW sample \in Seq(E)
  PROVE  IsFiniteSet(Delivered(sample))
<1>. DEFINE seen == Delivered(sample)
            place == [i \in 1..Len(sample) |-> sample[i]]
<1>1. DOMAIN sample = 1..Len(sample) /\ Len(sample) \in Int
  BY LenProperties
<1>2. place \in [1..Len(sample) -> seen] /\ \A s \in seen : \E i \in 1..Len(sample) : place[i] = s
  BY <1>1 DEF Delivered
<1>3. IsFiniteSet(1..Len(sample))
  BY <1>1, FS_Interval
<1>. HIDE DEF place, seen
<1> QED
  BY <1>2, <1>3, OntoIsSmaller DEF seen

\* The shadows of a sample that are in a state.
InState(sample, state) == {s \in Delivered(sample) : s.state = state}

\* A state is counted at most once for each distinct shadow, and is counted
\* when there is one.
LEMMA CountedOnce ==
  ASSUME NEW F, NEW S, NEW sample \in Seq([fingerprint : F, state : S]), NEW state
  PROVE  /\ IsFiniteSet(InState(sample, state))
         /\ Counted(sample, state) \in Nat
         /\ Counted(sample, state) <= Cardinality(InState(sample, state))
         /\ Counted(sample, state) = 0 => InState(sample, state) = {}
<1>. DEFINE seen == {sample[i] : i \in DOMAIN sample}
            At == InState(sample, state)
            Prints == {s.fingerprint : s \in seen \cap
                         [fingerprint : {sample[i].fingerprint : i \in DOMAIN sample}, state : {state}]}
            print == [s \in At |-> s.fingerprint]
<1>1. IsFiniteSet(seen)
  BY DeliveredFinite DEF Delivered
<1>2. IsFiniteSet(At)
  BY <1>1, FS_Subset DEF InState, Delivered
<1>3. \A s \in seen : s \in [fingerprint : {sample[i].fingerprint : i \in DOMAIN sample}, state : {state}]
                        <=> s.state = state
  <2>1. ASSUME NEW i \in DOMAIN sample
        PROVE  sample[i] \in [fingerprint : {sample[j].fingerprint : j \in DOMAIN sample}, state : {state}]
                 <=> sample[i].state = state
    <3>1. sample[i] \in [fingerprint : F, state : S]
      BY LenProperties
    <3>2. sample[i] = [fingerprint |-> sample[i].fingerprint, state |-> sample[i].state]
      BY <3>1
    <3> QED
      BY <3>2
  <2> QED
    BY <2>1
<1>4. Prints = {s.fingerprint : s \in At}
  <2>. DEFINE R == [fingerprint : {sample[i].fingerprint : i \in DOMAIN sample}, state : {state}]
  <2>1. seen \cap R = At
    BY <1>3 DEF InState, Delivered
  <2>2. Prints = {s.fingerprint : s \in seen \cap R}
    OBVIOUS
  <2>. HIDE DEF R, At, seen
  <2> QED
    BY <2>1, <2>2
<1>5. Counted(sample, state) = Cardinality(Prints)
  BY DEF Counted
<1>. HIDE DEF Prints
<1>6. print \in [At -> Prints] /\ \A t \in Prints : \E s \in At : print[s] = t
  BY <1>4
<1>7. IsFiniteSet(Prints) /\ Cardinality(Prints) \in Nat /\ Cardinality(Prints) <= Cardinality(At)
  <2>. HIDE DEF At, print
  <2> QED
    BY <1>2, <1>6, OntoIsSmaller
<1>8. Cardinality(Prints) = 0 => At = {}
  <2>1. Cardinality(Prints) = 0 => Prints = {}
    BY <1>7, FS_EmptySet
  <2> QED
    BY <1>4, <2>1
<1> QED
  BY <1>2, <1>5, <1>7, <1>8

\* The gate passes on distinct comparisons, whatever the sample and however often
\* each of its shadows was delivered: there are at least as many as the minimum
\* asks for, none is a divergence or an adapter error, and a safety gap was
\* reviewed (GateCountsOnce).
THEOREM PassesOnDistinct ==
  ASSUME NEW F, NEW S, NEW sample \in Seq([fingerprint : F, state : S]), NEW evidence,
         Gate(sample, evidence) = "PASS"
  PROVE  /\ Cardinality(Compared(sample)) >= MinimumSample
         /\ \A s \in Delivered(sample) : s.state \notin {"DIVERGENCE", "ADAPTER_ERROR"}
         /\ (\E s \in Delivered(sample) : s.state = "SAFETY_GAP") => "SAFETY_GAP_REVIEW" \in evidence
<1>. DEFINE seen == Delivered(sample)
            n(state) == Counted(sample, state)
            At(state) == InState(sample, state)
<1>1. \A state : /\ IsFiniteSet(At(state)) /\ n(state) \in Nat
                 /\ n(state) <= Cardinality(At(state)) /\ Cardinality(At(state)) \in Nat
                 /\ n(state) = 0 => At(state) = {}
  BY CountedOnce, FS_CardinalityType
<1>2. /\ ~ (n("DIVERGENCE") + n("ADAPTER_ERROR") > 0)
      /\ ~ (n("PARITY") + n("SAFETY_GAP") + n("DIVERGENCE") + n("ADAPTER_ERROR") < MinimumSample)
      /\ ~ (n("SAFETY_GAP") > 0 /\ "SAFETY_GAP_REVIEW" \notin evidence)
  BY DEF Gate
<1>3. n("DIVERGENCE") = 0 /\ n("ADAPTER_ERROR") = 0
  BY <1>1, <1>2
<1>4. n("PARITY") + n("SAFETY_GAP") >= MinimumSample
  BY <1>1, <1>2, <1>3, PolicyAssumption
<1>5. \A s \in seen : s.state \notin {"DIVERGENCE", "ADAPTER_ERROR"}
  BY <1>1, <1>3 DEF InState
<1>6. (\E s \in seen : s.state = "SAFETY_GAP") => "SAFETY_GAP_REVIEW" \in evidence
  <2>1. (\E s \in seen : s.state = "SAFETY_GAP") => At("SAFETY_GAP") # {}
    BY DEF InState
  <2>2. At("SAFETY_GAP") # {} => n("SAFETY_GAP") > 0
    BY <1>1
  <2> QED
    BY <1>2, <2>1, <2>2
<1>7. Cardinality(Compared(sample)) >= MinimumSample
  <2>. DEFINE P == At("PARITY")
              Q == At("SAFETY_GAP")
  <2>1. Compared(sample) = P \cup Q
    BY DEF InState, Compared
  <2>2. P \cap Q = {}
    BY DEF InState
  <2>3. Cardinality(P \cup Q) = Cardinality(P) + Cardinality(Q)
    <3>1. IsFiniteSet(P) /\ IsFiniteSet(Q) /\ Cardinality(P) \in Nat /\ Cardinality(Q) \in Nat
      BY <1>1
    <3>. HIDE DEF P, Q
    <3>2. Cardinality(P \cup Q) = Cardinality(P) + Cardinality(Q) - Cardinality(P \cap Q)
      BY <3>1, FS_Union
    <3>3. Cardinality(P \cap Q) = 0
      BY <2>2, FS_EmptySet
    <3> QED
      BY <3>1, <3>2, <3>3
  <2>4. /\ Cardinality(P) >= n("PARITY") /\ Cardinality(Q) >= n("SAFETY_GAP")
        /\ Cardinality(P) \in Nat /\ Cardinality(Q) \in Nat
        /\ n("PARITY") \in Nat /\ n("SAFETY_GAP") \in Nat
    BY <1>1
  <2>. HIDE DEF P, Q, n
  <2>5. Cardinality(P \cup Q) >= MinimumSample
    BY <1>4, <2>3, <2>4, PolicyAssumption
  <2> QED
    BY <2>1, <2>5
<1> QED
  BY <1>5, <1>6, <1>7
-----------------------------------------------------------------------------
(* The hard filter.                                                         *)

\* What a list of filters says.
Listed(s) == {s[i] : i \in DOMAIN s}

\* Joined lists say what either says.
LEMMA ListedConcat ==
  ASSUME NEW E, NEW s \in Seq(E), NEW t \in Seq(E)
  PROVE  Listed(s \o t) = Listed(s) \cup Listed(t)
<1>. DEFINE m == Len(s)
            n == Len(t)
            u == s \o t
<1>1. m \in Nat /\ n \in Nat /\ DOMAIN s = 1..m /\ DOMAIN t = 1..n
  BY LenProperties
<1>2. /\ Len(u) = m + n /\ u \in Seq(E)
      /\ \A i \in 1..(m + n) : u[i] = IF i <= m THEN s[i] ELSE t[i - m]
  BY ConcatProperties
<1>3. DOMAIN u = 1..(m + n)
  BY <1>2, LenProperties
<1>. HIDE DEF m, n, u
<1>4. ASSUME NEW i \in 1..(m + n) PROVE u[i] \in Listed(s) \cup Listed(t)
  <2>1. CASE i <= m
    <3>1. u[i] = s[i] /\ i \in DOMAIN s
      BY <1>1, <1>2, <2>1
    <3> QED
      BY <3>1 DEF Listed
  <2>2. CASE ~ (i <= m)
    <3>1. u[i] = t[i - m] /\ i - m \in DOMAIN t
      BY <1>1, <1>2, <2>2
    <3> QED
      BY <3>1 DEF Listed
  <2> QED
    BY <2>1, <2>2
<1>5. ASSUME NEW i \in 1..m PROVE s[i] \in Listed(u)
  <2>1. i \in 1..(m + n) /\ i <= m
    BY <1>1
  <2>2. u[i] = s[i] /\ i \in DOMAIN u
    BY <1>2, <1>3, <2>1
  <2> QED
    BY <2>2 DEF Listed
<1>6. ASSUME NEW i \in 1..n PROVE t[i] \in Listed(u)
  <2>1. m + i \in 1..(m + n) /\ ~ (m + i <= m) /\ (m + i) - m = i
    BY <1>1
  <2>2. u[m + i] = t[i] /\ m + i \in DOMAIN u
    BY <1>2, <1>3, <2>1
  <2> QED
    BY <2>2 DEF Listed
<1>7. Listed(u) = Listed(s) \cup Listed(t)
  BY <1>1, <1>3, <1>4, <1>5, <1>6 DEF Listed
<1> QED
  BY <1>7 DEF u

\* A list of seven says its seven members.
LEMMA ListedSeven ==
  ASSUME NEW a1, NEW a2, NEW a3, NEW a4, NEW a5, NEW a6, NEW a7
  PROVE  LET s == <<a1, a2, a3, a4, a5, a6, a7>> IN
         Listed(s) = {a1, a2, a3, a4, a5, a6, a7} /\ s \in Seq(Listed(s))
<1>. DEFINE s == <<a1, a2, a3, a4, a5, a6, a7>>
<1>1. DOMAIN s = {1, 2, 3, 4, 5, 6, 7}
  OBVIOUS
<1>2. Listed(s) = {a1, a2, a3, a4, a5, a6, a7}
  BY <1>1 DEF Listed
<1>3. s \in Seq({a1, a2, a3, a4, a5, a6, a7})
  OBVIOUS
<1> QED
  BY <1>2, <1>3

\* A list of three says its three members.
LEMMA ListedThree ==
  ASSUME NEW a1, NEW a2, NEW a3
  PROVE  LET s == <<a1, a2, a3>> IN
         Listed(s) = {a1, a2, a3} /\ s \in Seq(Listed(s))
<1>. DEFINE s == <<a1, a2, a3>>
<1>1. DOMAIN s = {1, 2, 3}
  OBVIOUS
<1>2. Listed(s) = {a1, a2, a3}
  BY <1>1 DEF Listed
<1>3. s \in Seq({a1, a2, a3})
  OBVIOUS
<1> QED
  BY <1>2, <1>3

\* The common filters as the set of what they say.
LEMMA CommonListed ==
  ASSUME NEW c, NEW p
  PROVE  LET s == CommonFilters(c, p) IN
         Listed(s) = {s[1], s[2], s[3], s[4], s[5], s[6], s[7]} /\ s \in Seq(Listed(s))
<1>. DEFINE s == CommonFilters(c, p)
<1>1. s = <<s[1], s[2], s[3], s[4], s[5], s[6], s[7]>>
  BY DEF CommonFilters
<1>. HIDE DEF s
<1>2. LET t == <<s[1], s[2], s[3], s[4], s[5], s[6], s[7]>> IN Listed(t) = {s[1], s[2], s[3], s[4], s[5], s[6], s[7]} /\ t \in Seq(Listed(t))
  BY ListedSeven
<1>3. Listed(s) = {s[1], s[2], s[3], s[4], s[5], s[6], s[7]} /\ s \in Seq(Listed(s))
  BY <1>1, <1>2
<1> QED
  BY <1>3 DEF s

\* The same of the trade filters.
LEMMA TradeListed ==
  ASSUME NEW c, NEW p
  PROVE  LET s == TradeFilters(c, p) IN
         Listed(s) = {s[1], s[2], s[3], s[4], s[5], s[6], s[7]} /\ s \in Seq(Listed(s))
<1>. DEFINE s == TradeFilters(c, p)
<1>1. s = <<s[1], s[2], s[3], s[4], s[5], s[6], s[7]>>
  BY DEF TradeFilters
<1>. HIDE DEF s
<1>2. LET t == <<s[1], s[2], s[3], s[4], s[5], s[6], s[7]>> IN Listed(t) = {s[1], s[2], s[3], s[4], s[5], s[6], s[7]} /\ t \in Seq(Listed(t))
  BY ListedSeven
<1>3. Listed(s) = {s[1], s[2], s[3], s[4], s[5], s[6], s[7]} /\ s \in Seq(Listed(s))
  BY <1>1, <1>2
<1> QED
  BY <1>3 DEF s

\* The same of the filters of visitors.
LEMMA VisitorListed ==
  ASSUME NEW c, NEW p, NEW x
  PROVE  LET s == VisitorFilters(c, p, x) IN
         Listed(s) = {s[1], s[2], s[3]} /\ s \in Seq(Listed(s))
<1>. DEFINE s == VisitorFilters(c, p, x)
<1>1. s = <<s[1], s[2], s[3]>>
  BY DEF VisitorFilters
<1>. HIDE DEF s
<1>2. LET t == <<s[1], s[2], s[3]>> IN Listed(t) = {s[1], s[2], s[3]} /\ t \in Seq(Listed(t))
  BY ListedThree
<1>3. Listed(s) = {s[1], s[2], s[3]} /\ s \in Seq(Listed(s))
  BY <1>1, <1>2
<1> QED
  BY <1>3 DEF s

\* The reasons of the common filters.
LEMMA CommonCodes ==
  ASSUME NEW c, NEW p
  PROVE  LET s == CommonFilters(c, p) IN
         /\ s[1][2] = "ADMIN_NOT_APPROVED"
         /\ s[2][2] = "PARTICIPATION_CANCELLED"
         /\ s[3][2] = "BOOTH_CLOSED"
         /\ s[4][2] = "PRODUCT_SOLD_OUT"
         /\ s[5][2] = "PRODUCT_UNAVAILABLE"
         /\ s[6][2] = "PROGRAM_CANCELLED"
         /\ s[7][2] = "INSUFFICIENT_DATA"
BY DEF CommonFilters

\* The reasons of the filters of visitors.
LEMMA VisitorCodes ==
  ASSUME NEW c, NEW p, NEW x
  PROVE  LET s == VisitorFilters(c, p, x) IN
         /\ s[1][2] = "PRICE_OVER_LIMIT"
         /\ s[2][2] = "TIME_INSUFFICIENT"
         /\ s[3][2] = "ALREADY_VISITED"
BY DEF VisitorFilters

\* The reasons of the trade filters.
LEMMA TradeCodes ==
  ASSUME NEW c, NEW p
  PROVE  LET s == TradeFilters(c, p) IN
         /\ s[1][2] = "MOQ_MISMATCH"
         /\ s[2][2] = "CAPACITY_INSUFFICIENT"
         /\ s[3][2] = "REGION_MISMATCH"
         /\ s[4][2] = "CHANNEL_MISMATCH"
         /\ s[5][2] = "OEM_MISMATCH"
         /\ s[6][2] = "PRIVATE_LABEL_MISMATCH"
         /\ s[7][2] = "EXPORT_MISMATCH"
BY DEF TradeFilters

\* The filters that apply to a candidate.
MeetingFilter(c, p) ==
  << c.type \in {"EXHIBITOR", "BOOTH"} /\ p.meeting_required /\ c.consultation = FALSE,
     "MEETING_UNAVAILABLE" >>

Applied(c, p, x) ==
  Listed(CommonFilters(c, p)) \cup
    (IF p.user_type = "GENERAL_VISITOR" THEN Listed(VisitorFilters(c, p, x))
     ELSE (IF c.supply = None THEN {} ELSE Listed(TradeFilters(c, p))) \cup {MeetingFilter(c, p)})

\* The filters of a buyer are the trade filters and the one on meetings.
LEMMA ListedBuyer ==
  ASSUME NEW c, NEW p
  PROVE  LET s == BuyerFilters(c, p) IN
         /\ Listed(s) = (IF c.supply = None THEN {} ELSE Listed(TradeFilters(c, p)))
                          \cup {MeetingFilter(c, p)}
         /\ s \in Seq(Listed(s))
<1>. DEFINE trade == IF c.supply = None THEN << >> ELSE TradeFilters(c, p)
            m == MeetingFilter(c, p)
            said == IF c.supply = None THEN {} ELSE Listed(TradeFilters(c, p))
            E == said \cup {m}
<1>1. BuyerFilters(c, p) = trade \o <<m>>
  BY DEF BuyerFilters, MeetingFilter
<1>. HIDE DEF m
<1>2. Listed(trade) = said /\ trade \in Seq(said)
  <2>1. Listed(<< >>) = {} /\ << >> \in Seq({})
    BY DEF Listed
  <2>2. TradeFilters(c, p) \in Seq(Listed(TradeFilters(c, p)))
    BY TradeListed
  <2>3. CASE c.supply = None
    BY <2>1, <2>3
  <2>4. CASE c.supply # None
    BY <2>2, <2>4
  <2> QED
    BY <2>3, <2>4
<1>3. Listed(<<m>>) = {m} /\ <<m>> \in Seq({m})
  BY DEF Listed
<1>. HIDE DEF trade, said
<1>4. trade \in Seq(E) /\ <<m>> \in Seq(E)
  BY <1>2, <1>3, SeqMonotonic
<1>. HIDE DEF E
<1>. DEFINE one == <<m>>
<1>. HIDE DEF one
<1>5. /\ trade \o one \in Seq(E)
      /\ Listed(trade \o one) = Listed(trade) \cup Listed(one)
  <2>1. one \in Seq(E)
    BY <1>4 DEF one
  <2>2. Listed(trade \o one) = Listed(trade) \cup Listed(one)
    BY <1>4, <2>1, ListedConcat
  <2>3. trade \o one \in Seq(E)
    BY <1>4, <2>1, ConcatProperties
  <2> QED
    BY <2>2, <2>3
<1>6. Listed(trade \o one) = E
  BY <1>2, <1>3, <1>5 DEF E, one
<1>7. BuyerFilters(c, p) = trade \o one
  BY <1>1 DEF one
<1> QED
  BY <1>5, <1>6, <1>7 DEF E, said, m

\* The hard filter lets through whom no filter that applies rejects, and else
\* answers the code of a filter that does.
LEMMA FilterDecides ==
  ASSUME NEW c, NEW p, NEW x
  PROVE  /\ FilterCode(c, p, x) = None <=> ~ x.excluded /\ \A q \in Applied(c, p, x) : ~ q[1]
         /\ FilterCode(c, p, x) \notin {None, "USER_EXCLUDED"} =>
              \E q \in Applied(c, p, x) : q[1] /\ q[2] = FilterCode(c, p, x)
<1>. DEFINE own == IF p.user_type = "GENERAL_VISITOR" THEN VisitorFilters(c, p, x) ELSE BuyerFilters(c, p)
            filters == CommonFilters(c, p) \o own
            hits == {i \in DOMAIN filters : filters[i][1]}
            first == CHOOSE i \in hits : \A j \in hits : i <= j
            code == FilterCode(c, p, x)
            E == Listed(CommonFilters(c, p)) \cup Listed(own)
<1>1. code = IF x.excluded THEN "USER_EXCLUDED" ELSE IF hits = {} THEN None ELSE filters[first][2]
  BY DEF FilterCode
<1>. HIDE DEF code
<1>2. own \in Seq(Listed(own)) /\ Listed(CommonFilters(c, p)) \cup Listed(own) = Applied(c, p, x)
  <2>1. CASE p.user_type = "GENERAL_VISITOR"
    BY <2>1, VisitorListed DEF Applied
  <2>2. CASE p.user_type # "GENERAL_VISITOR"
    BY <2>2, ListedBuyer DEF Applied
  <2> QED
    BY <2>1, <2>2
<1>. HIDE DEF own
<1>3. CommonFilters(c, p) \in Seq(E) /\ own \in Seq(E)
  BY <1>2, CommonListed, SeqMonotonic
<1>. HIDE DEF E
<1>4. Listed(filters) = Applied(c, p, x) /\ filters \in Seq(E)
  <2>. DEFINE common == CommonFilters(c, p)
  <2>1. common \in Seq(E) /\ filters = common \o own /\ Listed(common) \cup Listed(own) = Applied(c, p, x)
    BY <1>2, <1>3
  <2>. HIDE DEF common, filters
  <2>2. Listed(common \o own) = Listed(common) \cup Listed(own)
    BY <1>3, <2>1, ListedConcat
  <2>3. common \o own \in Seq(E)
    BY <1>3, <2>1, ConcatProperties
  <2> QED
    BY <2>1, <2>2, <2>3
<1>. HIDE DEF filters
<1>5. hits \in SUBSET Nat
  BY <1>4, LenProperties
<1>6. hits # {} => first \in hits
  <2>. HIDE DEF hits
  <2>1. hits # {} => \E i \in hits : \A j \in hits : i <= j
    BY <1>5, LeastOf
  <2> QED
    BY <2>1
<1>7. hits = {} <=> \A q \in Applied(c, p, x) : ~ q[1]
  BY <1>4 DEF Listed
<1>8. hits # {} => \E q \in Applied(c, p, x) : q[1] /\ q[2] = filters[first][2]
  <2>. HIDE DEF first
  <2> QED
    BY <1>4, <1>6 DEF Listed
<1>. HIDE DEF hits, first
<1>9. \A q \in Applied(c, p, x) : q[2] # None
  <2>1. \A q \in Listed(CommonFilters(c, p)) : q[2] # None
    <3>. DEFINE s == CommonFilters(c, p)
    <3>1. Listed(s) = {s[1], s[2], s[3], s[4], s[5], s[6], s[7]}
      BY CommonListed
    <3>2. \A i \in 1..7 : s[i][2] # None
      BY CommonCodes, AbsentAssumption
    <3>. HIDE DEF s
    <3>3. \A q \in Listed(s) : q[2] # None
      BY <3>1, <3>2
    <3> QED
      BY <3>3 DEF s
  <2>2. \A q \in Listed(VisitorFilters(c, p, x)) : q[2] # None
    <3>. DEFINE s == VisitorFilters(c, p, x)
    <3>1. Listed(s) = {s[1], s[2], s[3]}
      BY VisitorListed
    <3>2. \A i \in 1..3 : s[i][2] # None
      BY VisitorCodes, AbsentAssumption
    <3>. HIDE DEF s
    <3>3. \A q \in Listed(s) : q[2] # None
      BY <3>1, <3>2
    <3> QED
      BY <3>3 DEF s
  <2>3. \A q \in Listed(TradeFilters(c, p)) : q[2] # None
    <3>. DEFINE s == TradeFilters(c, p)
    <3>1. Listed(s) = {s[1], s[2], s[3], s[4], s[5], s[6], s[7]}
      BY TradeListed
    <3>2. \A i \in 1..7 : s[i][2] # None
      BY TradeCodes, AbsentAssumption
    <3>. HIDE DEF s
    <3>3. \A q \in Listed(s) : q[2] # None
      BY <3>1, <3>2
    <3> QED
      BY <3>3 DEF s
  <2>4. MeetingFilter(c, p)[2] # None
    BY AbsentAssumption DEF MeetingFilter
  <2> QED
    BY <2>1, <2>2, <2>3, <2>4 DEF Applied
<1> QED
  BY <1>1, <1>7, <1>8, <1>9, AbsentAssumption DEF code
\* d is what remains of candidate c when any number of the things the hard filter
\* looks at are forgotten.
ForgetsStated(d, c) ==
  /\ d.type = c.type /\ d.codes = c.codes /\ d.event_price = c.event_price
  /\ d.master \in {c.master, None} /\ d.approval \in {c.approval, None}
  /\ d.participation \in {c.participation, None} /\ d.operating \in {c.operating, None}
  /\ d.tasting \in {c.tasting, None} /\ d.purchase \in {c.purchase, None}
  /\ d.inventory \in {c.inventory, None} /\ d.program \in {c.program, None}
  /\ d.retail_price \in {c.retail_price, None} /\ d.wait \in {c.wait, None}
  /\ d.consultation \in {c.consultation, None}
  /\ d.supply = None <=> c.supply = None
  /\ d.supply # None =>
       /\ \A f \in {"moq", "capacity"} : d.supply[f] \in {c.supply[f], None}
       /\ ForgetsSupply(d.supply, c.supply)

\* What rejects a candidate of which things are forgotten rejected it before.
LEMMA CommonBefore ==
  ASSUME NEW d, NEW c, ForgetsStated(d, c), NEW p,
         NEW i \in 1..7, CommonFilters(d, p)[i][1]
  PROVE  CommonFilters(c, p)[i][1]
<1>. DEFINE s == CommonFilters(d, p)
            t == CommonFilters(c, p)
<1>1. s[1][1] => t[1][1]
  BY AbsentAssumption DEF CommonFilters, ForgetsStated, Approved
<1>2. s[2][1] => t[2][1]
  BY AbsentAssumption DEF CommonFilters, ForgetsStated
<1>3. s[3][1] => t[3][1]
  BY AbsentAssumption DEF CommonFilters, ForgetsStated
<1>4. s[4][1] => t[4][1]
  BY AbsentAssumption DEF CommonFilters, ForgetsStated
<1>5. s[5][1] => t[5][1]
  BY AbsentAssumption DEF CommonFilters, ForgetsStated
<1>6. s[6][1] => t[6][1]
  BY AbsentAssumption DEF CommonFilters, ForgetsStated
<1>7. s[7][1] => t[7][1]
  BY AbsentAssumption DEF CommonFilters, ForgetsStated
<1>8. i \in {1, 2, 3, 4, 5, 6, 7} /\ s[i][1]
  OBVIOUS
<1>. HIDE DEF s, t
<1>9. t[i][1]
  BY <1>1, <1>2, <1>3, <1>4, <1>5, <1>6, <1>7, <1>8
<1> QED
  BY <1>9 DEF t

\* The same of the filters of visitors: a wait that is forgotten is no longer one.
LEMMA VisitorBefore ==
  ASSUME NEW d, NEW c, ForgetsStated(d, c), NEW p, NEW x,
         c.wait \in Nat \cup {None}, x.remaining_minutes \in Int \cup {None},
         NEW i \in 1..3, VisitorFilters(d, p, x)[i][1]
  PROVE  VisitorFilters(c, p, x)[i][1]
<1>. DEFINE s == VisitorFilters(d, p, x)
            t == VisitorFilters(c, p, x)
<1>1. s[1][1] => t[1][1]
  <2>1. Known(Price(d)) => Price(d) = Price(c)
    BY DEF ForgetsStated, Price, Known
  <2> QED
    BY <2>1 DEF VisitorFilters, ForgetsStated
<1>2. s[2][1] => t[2][1]
  <2>1. Wait(d) \in Nat /\ Wait(c) \in Nat /\ Wait(d) <= Wait(c)
    BY DEF ForgetsStated, Wait, Known
  <2>2. Known(x.remaining_minutes) => x.remaining_minutes \in Int
    BY DEF Known
  <2>3. Known(x.remaining_minutes) /\ Wait(d) + AssumedVisit > x.remaining_minutes
          => Wait(c) + AssumedVisit > x.remaining_minutes
    BY <2>1, <2>2, PolicyAssumption
  <2>4. d.type = c.type
    BY DEF ForgetsStated
  <2> QED
    BY <2>3, <2>4 DEF VisitorFilters
<1>3. s[3][1] => t[3][1]
  BY DEF VisitorFilters, ForgetsStated
<1>4. i \in {1, 2, 3} /\ s[i][1]
  OBVIOUS
<1>. HIDE DEF s, t
<1>5. t[i][1]
  BY <1>1, <1>2, <1>3, <1>4
<1> QED
  BY <1>5 DEF t

\* The same of the trade filters.
LEMMA TradeBefore ==
  ASSUME NEW d, NEW c, ForgetsStated(d, c), c.supply # None, NEW p,
         NEW i \in 1..7, TradeFilters(d, p)[i][1]
  PROVE  TradeFilters(c, p)[i][1]
<1>. DEFINE s == TradeFilters(d, p)
            t == TradeFilters(c, p)
            a == d.supply
            b == c.supply
<1>1. /\ a.moq \in {b.moq, None} /\ a.capacity \in {b.capacity, None}
      /\ a.oem \in {b.oem, None} /\ a.private_label \in {b.private_label, None}
      /\ a.export \in {b.export, None}
      /\ a.regions \in {b.regions, {}} /\ a.channels \in {b.channels, {}}
  BY DEF ForgetsStated, ForgetsSupply
<1>2. s[1][1] => t[1][1]
  BY <1>1 DEF TradeFilters, Known
<1>3. s[2][1] => t[2][1]
  BY <1>1 DEF TradeFilters, Known
<1>4. s[3][1] => t[3][1]
  <2>1. NothingInCommon(p, "REGION", a.regions) => NothingInCommon(p, "REGION", b.regions)
    BY <1>1 DEF NothingInCommon
  <2> QED
    BY <2>1 DEF TradeFilters
<1>5. s[4][1] => t[4][1]
  <2>1. NothingInCommon(p, "CHANNEL", a.channels) => NothingInCommon(p, "CHANNEL", b.channels)
    BY <1>1 DEF NothingInCommon
  <2> QED
    BY <2>1 DEF TradeFilters
<1>6. \A goal, u, v : u \in {v, None} /\ Refuses(p, goal, u) => Refuses(p, goal, v)
  BY AbsentAssumption DEF Refuses
<1>7. s[5][1] => t[5][1]
  BY <1>1, <1>6 DEF TradeFilters
<1>8. s[6][1] => t[6][1]
  BY <1>1, <1>6 DEF TradeFilters
<1>9. s[7][1] => t[7][1]
  BY <1>1, <1>6 DEF TradeFilters
<1>10. i \in {1, 2, 3, 4, 5, 6, 7} /\ s[i][1]
  OBVIOUS
<1>. HIDE DEF s, t
<1>11. t[i][1]
  BY <1>2, <1>3, <1>4, <1>5, <1>7, <1>8, <1>9, <1>10
<1> QED
  BY <1>11 DEF t

\* To know less of a candidate never rejects it: whom the hard filter lets through
\* it lets through when any number of the things it looks at are forgotten, for
\* every profile and context (UnknownNeverRejects).
THEOREM NotKnowingNeverRejects ==
  ASSUME NEW d, NEW c, ForgetsStated(d, c), NEW p, NEW x,
         c.wait \in Nat \cup {None}, x.remaining_minutes \in Int \cup {None},
         FilterCode(c, p, x) = None
  PROVE  FilterCode(d, p, x) = None
<1>1. ~ x.excluded /\ \A q \in Applied(c, p, x) : ~ q[1]
  BY FilterDecides
<1>2. ASSUME NEW q \in Listed(CommonFilters(d, p)) PROVE ~ q[1]
  <2>. DEFINE s == CommonFilters(d, p)
              t == CommonFilters(c, p)
  <2>1. Listed(s) = {s[1], s[2], s[3], s[4], s[5], s[6], s[7]} /\ Listed(t) = {t[1], t[2], t[3], t[4], t[5], t[6], t[7]}
    BY CommonListed
  <2>2. \A i \in 1..7 : s[i][1] => t[i][1]
    BY CommonBefore
  <2>3. \A r \in Listed(t) : ~ r[1]
    BY <1>1 DEF Applied
  <2>4. q \in Listed(s)
    BY <1>2
  <2>. HIDE DEF s, t
  <2> QED
    BY <2>1, <2>2, <2>3, <2>4
<1>3. ASSUME NEW q \in Listed(VisitorFilters(d, p, x)), p.user_type = "GENERAL_VISITOR" PROVE ~ q[1]
  <2>. DEFINE s == VisitorFilters(d, p, x)
              t == VisitorFilters(c, p, x)
  <2>1. Listed(s) = {s[1], s[2], s[3]} /\ Listed(t) = {t[1], t[2], t[3]}
    BY VisitorListed
  <2>2. \A i \in 1..3 : s[i][1] => t[i][1]
    BY VisitorBefore
  <2>3. \A r \in Listed(t) : ~ r[1]
    BY <1>1, <1>3 DEF Applied
  <2>4. q \in Listed(s)
    BY <1>3
  <2>. HIDE DEF s, t
  <2> QED
    BY <2>1, <2>2, <2>3, <2>4
<1>4. ASSUME NEW q \in Listed(TradeFilters(d, p)), p.user_type # "GENERAL_VISITOR", c.supply # None PROVE ~ q[1]
  <2>. DEFINE s == TradeFilters(d, p)
              t == TradeFilters(c, p)
  <2>1. Listed(s) = {s[1], s[2], s[3], s[4], s[5], s[6], s[7]} /\ Listed(t) = {t[1], t[2], t[3], t[4], t[5], t[6], t[7]}
    BY TradeListed
  <2>2. \A i \in 1..7 : s[i][1] => t[i][1]
    BY <1>4, TradeBefore
  <2>3. \A r \in Listed(t) : ~ r[1]
    BY <1>1, <1>4 DEF Applied
  <2>4. q \in Listed(s)
    BY <1>4
  <2>. HIDE DEF s, t
  <2> QED
    BY <2>1, <2>2, <2>3, <2>4
<1>5. ASSUME p.user_type # "GENERAL_VISITOR" PROVE ~ MeetingFilter(d, p)[1]
  <2>1. ~ MeetingFilter(c, p)[1]
    BY <1>1, <1>5 DEF Applied
  <2> QED
    BY <2>1, AbsentAssumption DEF MeetingFilter, ForgetsStated
<1>6. c.supply = None <=> d.supply = None
  BY DEF ForgetsStated
<1>7. \A q \in Applied(d, p, x) : ~ q[1]
  BY <1>2, <1>3, <1>4, <1>5, <1>6 DEF Applied
<1> QED
  BY <1>1, <1>7, FilterDecides
-----------------------------------------------------------------------------
(* The hard filter and its shadow.                                          *)

\* The reasons of the hard filter that the evaluator can reproduce.
Reproducible == {"OEM_MISMATCH", "PRIVATE_LABEL_MISMATCH", "EXPORT_MISMATCH",
                 "REGION_MISMATCH", "CHANNEL_MISMATCH"}

\* A rejection for one of them comes from a trade filter of a buyer.
LEMMA RejectedForTrade ==
  ASSUME NEW c, NEW p, NEW x, FilterCode(c, p, x) \in Reproducible
  PROVE  /\ p.user_type # "GENERAL_VISITOR" /\ c.supply # None
         /\ \E i \in 3..7 : /\ TradeFilters(c, p)[i][1]
                            /\ TradeFilters(c, p)[i][2] = FilterCode(c, p, x)
<1>. DEFINE code == FilterCode(c, p, x)
<1>1. code \notin {None, "USER_EXCLUDED"}
  BY AbsentAssumption DEF Reproducible
<1>2. PICK q \in Applied(c, p, x) : q[1] /\ q[2] = code
  BY <1>1, FilterDecides
<1>. HIDE DEF code
<1>3. code \in Reproducible
  BY DEF code
<1>4. q \notin Listed(CommonFilters(c, p))
  <2>. DEFINE s == CommonFilters(c, p)
  <2>1. Listed(s) = {s[1], s[2], s[3], s[4], s[5], s[6], s[7]}
    BY CommonListed
  <2>2. \A i \in 1..7 : s[i][2] \notin Reproducible
    BY CommonCodes DEF Reproducible
  <2>. HIDE DEF s
  <2>3. q \notin Listed(s)
    BY <1>2, <1>3, <2>1, <2>2
  <2> QED
    BY <2>3 DEF s
<1>5. q \notin Listed(VisitorFilters(c, p, x))
  <2>. DEFINE s == VisitorFilters(c, p, x)
  <2>1. Listed(s) = {s[1], s[2], s[3]}
    BY VisitorListed
  <2>2. \A i \in 1..3 : s[i][2] \notin Reproducible
    BY VisitorCodes DEF Reproducible
  <2>. HIDE DEF s
  <2>3. q \notin Listed(s)
    BY <1>2, <1>3, <2>1, <2>2
  <2> QED
    BY <2>3 DEF s
<1>6. q # MeetingFilter(c, p)
  BY <1>2, <1>3 DEF MeetingFilter, Reproducible
<1>7. p.user_type # "GENERAL_VISITOR" /\ c.supply # None /\ q \in Listed(TradeFilters(c, p))
  BY <1>2, <1>4, <1>5, <1>6 DEF Applied
<1>8. \E i \in 3..7 : TradeFilters(c, p)[i][1] /\ TradeFilters(c, p)[i][2] = code
  <2>. DEFINE s == TradeFilters(c, p)
  <2>1. Listed(s) = {s[1], s[2], s[3], s[4], s[5], s[6], s[7]}
    BY TradeListed
  <2>2. s[1][2] \notin Reproducible /\ s[2][2] \notin Reproducible
    BY TradeCodes DEF Reproducible
  <2>3. q \in Listed(s)
    BY <1>7
  <2>. HIDE DEF s
  <2>4. \E i \in 3..7 : q = s[i]
    BY <1>2, <1>3, <2>1, <2>2, <2>3
  <2> QED
    BY <1>2, <2>4 DEF s
<1> QED
  BY <1>7, <1>8 DEF code

\* A required code shows the reason, to whom may look at the trade conditions.
Seen(c, p, legacy) ==
  \E r \in CodesAt(p, "REQUIRED") :
    /\ Known(FieldOf(r)) /\ LegacyCode(r) = legacy
    /\ Matched(c, r) = IF VerifiedSupply(c) THEN FALSE ELSE None

\* What the hard filter compares, the field it reads, and the reason it gives.
Listings == {<<"REGION", "regions", "REGION_MISMATCH">>, <<"CHANNEL", "channels", "CHANNEL_MISMATCH">>}

Statuses == {<<"BIZ_GOAL.OEM", "oem", "OEM_MISMATCH">>,
             <<"BIZ_GOAL.PRIVATE_LABEL", "private_label", "PRIVATE_LABEL_MISMATCH">>,
             <<"BIZ_GOAL.EXPORT", "export", "EXPORT_MISMATCH">>}

\* A required region or channel, and nothing in common with what is offered.
LEMMA MismatchSeen ==
  ASSUME NEW c, NEW p, CodesAt(p, "REQUIRED") \in SUBSET Concept,
         NEW type, NEW field, NEW legacy,
         <<type, field, legacy>> \in Listings,
         c.supply[field] \in SUBSET Concept,
         NothingInCommon(p, type, c.supply[field])
  PROVE  Seen(c, p, legacy)
<1>. DEFINE required == OfType(CodesAt(p, "REQUIRED"), type)
            offered == c.supply[field]
<1>1. required # {} /\ offered # {} /\ MaxMatchStrength(required, offered) = 0
  BY DEF NothingInCommon
<1>2. required \in SUBSET Concept
  BY DEF OfType
<1>3. PICK r \in required : TRUE
  BY <1>1
<1>4. r \in CodesAt(p, "REQUIRED") /\ r \in Concept /\ TypeOf[r] = type
  BY <1>3 DEF OfType
<1>5. \A o \in offered : ~ (MatchStrength(r, o) > 0)
  <2>. HIDE DEF required, offered
  <2>1. offered \in SUBSET Concept
    BY DEF offered
  <2> QED
    BY <1>1, <1>2, <1>3, <2>1, NothingMatches
<1>6. type \in {"REGION", "CHANNEL"} /\ type # "BUSINESS_GOAL"
  BY DEF Listings
<1>7. r \notin {"BIZ_GOAL.OEM", "BIZ_GOAL.PRIVATE_LABEL", "BIZ_GOAL.EXPORT"}
  BY <1>4, <1>6, NamedCodesAssumption
<1>8. FieldOf(r) = field /\ LegacyCode(r) = legacy
  BY <1>4, <1>7 DEF FieldOf, LegacyCode, Listings
<1>9. Known(field) /\ field \notin PublicFields /\ field \notin StatusFields
  BY AbsentAssumption DEF Known, PublicFields, StatusFields, Listings
<1>10. Offered(c, r) = offered /\ (Observable(c, r) <=> VerifiedSupply(c))
  BY <1>8, <1>9 DEF Offered, Observable, PublicFields
<1>11. Matched(c, r) = IF VerifiedSupply(c) THEN FALSE ELSE None
  <2>1. CASE VerifiedSupply(c)
    <3>1. Matched(c, r) = \E o \in offered : MatchStrength(r, o) > 0
      BY <1>1, <1>8, <1>9, <1>10, <2>1 DEF Matched
    <3>2. (\E o \in offered : MatchStrength(r, o) > 0) = FALSE
      BY <1>5
    <3> QED
      BY <2>1, <3>1, <3>2
  <2>2. CASE ~ VerifiedSupply(c)
    BY <1>10, <2>2 DEF Matched
  <2> QED
    BY <2>1, <2>2
<1> QED
  BY <1>4, <1>8, <1>9, <1>11 DEF Seen

\* A required goal that the exhibitor refuses.
LEMMA RefusalSeen ==
  ASSUME NEW c, NEW p, NEW goal, NEW field, NEW legacy,
         <<goal, field, legacy>> \in Statuses,
         Refuses(p, goal, c.supply[field])
  PROVE  Seen(c, p, legacy)
<1>1. goal \in CodesAt(p, "REQUIRED") /\ c.supply[field] = "NO"
  BY DEF Refuses
<1>2. FieldOf(goal) = field /\ LegacyCode(goal) = legacy
  <2>1. \/ goal = "BIZ_GOAL.OEM" /\ field = "oem" /\ legacy = "OEM_MISMATCH"
        \/ goal = "BIZ_GOAL.PRIVATE_LABEL" /\ field = "private_label" /\ legacy = "PRIVATE_LABEL_MISMATCH"
        \/ goal = "BIZ_GOAL.EXPORT" /\ field = "export" /\ legacy = "EXPORT_MISMATCH"
    BY DEF Statuses
  <2>2. FieldOf("BIZ_GOAL.OEM") = "oem" /\ LegacyCode("BIZ_GOAL.OEM") = "OEM_MISMATCH"
    BY DEF FieldOf, LegacyCode
  <2>3. /\ FieldOf("BIZ_GOAL.PRIVATE_LABEL") = "private_label"
        /\ LegacyCode("BIZ_GOAL.PRIVATE_LABEL") = "PRIVATE_LABEL_MISMATCH"
    BY DEF FieldOf, LegacyCode
  <2>4. FieldOf("BIZ_GOAL.EXPORT") = "export" /\ LegacyCode("BIZ_GOAL.EXPORT") = "EXPORT_MISMATCH"
    BY DEF FieldOf, LegacyCode
  <2> QED
    BY <2>1, <2>2, <2>3, <2>4
<1>3. Known(field) /\ field \notin PublicFields /\ field \in StatusFields /\ field \notin {"codes", "alcohol"}
  <2>1. field \in StatusFields
    BY DEF Statuses, StatusFields
  <2> QED
    BY <2>1, AbsentAssumption DEF Known, PublicFields, StatusFields
<1>4. Offered(c, goal) = "NO" /\ (Observable(c, goal) <=> VerifiedSupply(c))
  <2>1. Offered(c, goal) = c.supply[FieldOf(goal)]
    BY <1>2, <1>3 DEF Offered
  <2>2. Observable(c, goal) <=> VerifiedSupply(c)
    BY <1>2, <1>3 DEF Observable
  <2> QED
    BY <1>1, <1>2, <2>1, <2>2
<1>5. Matched(c, goal) = IF VerifiedSupply(c) THEN FALSE ELSE None
  <2>1. CASE VerifiedSupply(c)
    <3>1. Observable(c, goal) /\ FieldOf(goal) \in StatusFields
      BY <1>2, <1>3, <1>4, <2>1
    <3>2. Offered(c, goal) = "NO"
      BY <1>4
    <3>3. Matched(c, goal) = FALSE
      BY <3>1, <3>2 DEF Matched
    <3> QED
      BY <2>1, <3>3
  <2>2. CASE ~ VerifiedSupply(c)
    BY <1>4, <2>2 DEF Matched
  <2> QED
    BY <2>1, <2>2
<1> QED
  BY <1>1, <1>2, <1>3, <1>5 DEF Seen

\* The two implementations of one policy agree, whatever the catalogue, the
\* candidate and the profile: a rejection of the hard filter for a reason both
\* know is reproduced for every exhibitor whose trade conditions are verified, and
\* nobody is admitted by the evaluator whom it rejects (ShadowAgrees).
THEOREM ShadowReproduces ==
  ASSUME NEW c, NEW p, NEW x,
         p.user_type \in {"BUYER", "GENERAL_VISITOR"},
         \A i \in p.items : i.code \in Concept,
         c.supply # None => c.supply.regions \cup c.supply.channels \in SUBSET Concept,
         FilterCode(c, p, x) \in Reproducible, ProfileIntent(p) # None
  PROVE  /\ VerifiedSupply(c) => Shadow(c, p, FilterCode(c, p, x)) = "PARITY"
         /\ ~ Admitted(c, Project(ProfileIntent(p), Scope(p)))
<1>. DEFINE code == FilterCode(c, p, x)
            intent == ProfileIntent(p)
            plan == Project(intent, Scope(p))
            s == TradeFilters(c, p)
<1>1. CodesAt(p, "REQUIRED") \in SUBSET Concept
  BY DEF CodesAt
<1>2. p.user_type = "BUYER" /\ c.supply # None
  BY RejectedForTrade
<1>3. PICK i \in 3..7 : s[i][1] /\ s[i][2] = code
  BY RejectedForTrade
<1>4. Seen(c, p, code)
  <2>. HIDE DEF code
  <2>1. CASE i = 3
    <3>1. NothingInCommon(p, "REGION", c.supply["regions"]) /\ code = "REGION_MISMATCH"
      BY <1>3, <2>1, TradeCodes DEF TradeFilters
    <3>2. <<"REGION", "regions", "REGION_MISMATCH">> \in Listings
      BY DEF Listings
    <3>3. c.supply["regions"] \in SUBSET Concept
      BY <1>2
    <3>4. Seen(c, p, "REGION_MISMATCH")
      BY <1>1, <3>1, <3>2, <3>3, MismatchSeen
    <3> QED
      BY <3>1, <3>4
  <2>2. CASE i = 4
    <3>1. NothingInCommon(p, "CHANNEL", c.supply["channels"]) /\ code = "CHANNEL_MISMATCH"
      BY <1>3, <2>2, TradeCodes DEF TradeFilters
    <3>2. <<"CHANNEL", "channels", "CHANNEL_MISMATCH">> \in Listings
      BY DEF Listings
    <3>3. c.supply["channels"] \in SUBSET Concept
      BY <1>2
    <3>4. Seen(c, p, "CHANNEL_MISMATCH")
      BY <1>1, <3>1, <3>2, <3>3, MismatchSeen
    <3> QED
      BY <3>1, <3>4
  <2>3. CASE i = 5
    <3>1. Refuses(p, "BIZ_GOAL.OEM", c.supply["oem"]) /\ code = "OEM_MISMATCH"
      BY <1>3, <2>3, TradeCodes DEF TradeFilters
    <3>2. <<"BIZ_GOAL.OEM", "oem", "OEM_MISMATCH">> \in Statuses
      BY DEF Statuses
    <3>4. Seen(c, p, "OEM_MISMATCH")
      BY <3>1, <3>2, RefusalSeen
    <3> QED
      BY <3>1, <3>4
  <2>4. CASE i = 6
    <3>1. Refuses(p, "BIZ_GOAL.PRIVATE_LABEL", c.supply["private_label"]) /\ code = "PRIVATE_LABEL_MISMATCH"
      BY <1>3, <2>4, TradeCodes DEF TradeFilters
    <3>2. <<"BIZ_GOAL.PRIVATE_LABEL", "private_label", "PRIVATE_LABEL_MISMATCH">> \in Statuses
      BY DEF Statuses
    <3>4. Seen(c, p, "PRIVATE_LABEL_MISMATCH")
      BY <3>1, <3>2, RefusalSeen
    <3> QED
      BY <3>1, <3>4
  <2>5. CASE i = 7
    <3>1. Refuses(p, "BIZ_GOAL.EXPORT", c.supply["export"]) /\ code = "EXPORT_MISMATCH"
      BY <1>3, <2>5, TradeCodes DEF TradeFilters
    <3>2. <<"BIZ_GOAL.EXPORT", "export", "EXPORT_MISMATCH">> \in Statuses
      BY DEF Statuses
    <3>4. Seen(c, p, "EXPORT_MISMATCH")
      BY <3>1, <3>2, RefusalSeen
    <3> QED
      BY <3>1, <3>4
  <2>6. i \in {3, 4, 5, 6, 7}
    OBVIOUS
  <2> QED
    BY <2>1, <2>2, <2>3, <2>4, <2>5, <2>6
<1>5. PICK r \in CodesAt(p, "REQUIRED") :
        /\ Known(FieldOf(r)) /\ LegacyCode(r) = code
        /\ Matched(c, r) = IF VerifiedSupply(c) THEN FALSE ELSE None
  BY <1>4 DEF Seen
<1>6. intent.must = CodesAt(p, "REQUIRED") /\ Scope(p) = "VERIFIED_BUYER_CATALOG"
  BY <1>2 DEF ProfileIntent, Scope
<1>. HIDE DEF intent
<1>7. r \in plan.require
  BY <1>5, <1>6 DEF Project
<1>. HIDE DEF plan
<1>8. Decision(c, plan, r) = IF VerifiedSupply(c) THEN "FILTERED_OUT" ELSE "INFORMATION_REQUIRED"
  BY <1>5, <1>7, AbsentAssumption DEF Decision
<1>9. ~ Admitted(c, plan)
  BY <1>7, <1>8 DEF Admitted, Evaluate
<1>10. VerifiedSupply(c) => Shadow(c, p, code) = "PARITY"
  <2>1. code # None /\ intent # None
    BY AbsentAssumption DEF Reproducible, intent
  <2>2. VerifiedSupply(c) => Parity(c, plan, code) = "PARITY"
    BY <1>5, <1>7, <1>8, <2>1 DEF Parity
  <2> QED
    BY <1>7, <2>1, <2>2 DEF Shadow, plan, intent
<1> QED
  BY <1>9, <1>10 DEF plan, intent
-----------------------------------------------------------------------------
(* The same as an invariant: a behaviour that takes any one of a set of     *)
(* cases, whatever they are, and computes its result.                       *)

\* A comparison of a candidate and a profile, and a sample for the gate, as the
\* callers give them.
WellFormed(t) ==
  /\ t.kind = "filter" =>
       /\ t.profile.user_type \in {"BUYER", "GENERAL_VISITOR"}
       /\ \A i \in t.profile.items : i.code \in Concept
       /\ t.candidate.supply # None =>
            t.candidate.supply.regions \cup t.candidate.supply.channels \in SUBSET Concept
  /\ t.kind = "gate" => \E F, S : t.sample \in Seq([fingerprint : F, state : S])

StageSpec(cases) ==
  /\ result = None /\ task \in cases
  /\ [][result = None /\ UNCHANGED task /\ EligibilityCompute]_<<task, result>>

\* Whatever the cases, the shadow may be relied on (ShadowGateSound).
THEOREM ShadowSound ==
  ASSUME NEW CONSTANT cases, \A t \in cases : WellFormed(t)
  PROVE  StageSpec(cases) => []ShadowGateSound
<1>. DEFINE Judged(t, code, shadow) ==
              /\ code = FilterCode(t.candidate, t.profile, t.context)
              /\ shadow = Shadow(t.candidate, t.profile, code)
            Computed ==
              /\ WellFormed(task)
              /\ result # None =>
                   /\ task.kind = "filter" => Judged(task, result.code, result.shadow)
                   /\ task.kind = "gate" => result.outcome = Gate(task.sample, task.evidence)
            Start == result = None /\ task \in cases
            Step == result = None /\ UNCHANGED task /\ EligibilityCompute
<1>1. Start => Computed
  OBVIOUS
<1>2. Computed /\ [Step]_<<task, result>> => Computed'
  <2>. SUFFICES ASSUME Computed, [Step]_<<task, result>> PROVE Computed'
    OBVIOUS
  <2>1. CASE Step /\ Filter
    BY <2>1 DEF Filter
  <2>2. CASE Step /\ Normalize
    BY <2>2 DEF Normalize
  <2>3. CASE Step /\ Judge
    BY <2>3 DEF Judge
  <2>4. CASE UNCHANGED <<task, result>>
    BY <2>4
  <2> QED
    BY <2>1, <2>2, <2>3, <2>4 DEF EligibilityCompute
<1>3. Computed => ShadowAgrees
  <2>. SUFFICES ASSUME Computed, task.kind = "filter", result # None,
                       result.code \in Reproducible, ProfileIntent(task.profile) # None
                PROVE  /\ VerifiedSupply(task.candidate) => result.shadow = "PARITY"
                       /\ ~ Admitted(task.candidate,
                              Project(ProfileIntent(task.profile), Scope(task.profile)))
    BY DEF ShadowAgrees, Reproducible
  <2>. DEFINE c == task.candidate
              p == task.profile
              x == task.context
  <2>1. /\ p.user_type \in {"BUYER", "GENERAL_VISITOR"}
        /\ \A i \in p.items : i.code \in Concept
        /\ c.supply # None => c.supply.regions \cup c.supply.channels \in SUBSET Concept
    BY DEF WellFormed
  <2>2. result.code = FilterCode(c, p, x) /\ result.shadow = Shadow(c, p, FilterCode(c, p, x))
    OBVIOUS
  <2>. HIDE DEF c, p, x
  <2>3. /\ VerifiedSupply(c) => Shadow(c, p, FilterCode(c, p, x)) = "PARITY"
        /\ ~ Admitted(c, Project(ProfileIntent(p), Scope(p)))
    BY <2>1, <2>2, ShadowReproduces DEF p
  <2> QED
    BY <2>2, <2>3 DEF c, p
<1>4. Computed => GateCountsOnce
  <2>. SUFFICES ASSUME Computed, task.kind = "gate", result # None, result.outcome = "PASS"
                PROVE  LET seen == {task.sample[i] : i \in DOMAIN task.sample} IN
                       /\ Cardinality({s \in seen : s.state # "NOT_APPLICABLE"}) >= MinimumSample
                       /\ \A s \in seen : s.state # "DIVERGENCE"
                       /\ (\E s \in seen : s.state = "SAFETY_GAP")
                            => "SAFETY_GAP_REVIEW" \in task.evidence
    BY DEF GateCountsOnce
  <2>. DEFINE sample == task.sample
              evidence == task.evidence
              seen == Delivered(sample)
              compared == Compared(sample)
              counted == {s \in seen : s.state # "NOT_APPLICABLE"}
  <2>1. PICK F, S : sample \in Seq([fingerprint : F, state : S])
    BY DEF WellFormed
  <2>2. Gate(sample, evidence) = "PASS"
    OBVIOUS
  <2>3. /\ Cardinality(compared) >= MinimumSample
        /\ \A s \in seen : s.state \notin {"DIVERGENCE", "ADAPTER_ERROR"}
        /\ (\E s \in seen : s.state = "SAFETY_GAP") => "SAFETY_GAP_REVIEW" \in evidence
    <3>. HIDE DEF sample, evidence
    <3> QED
      BY <2>1, <2>2, PassesOnDistinct
  <2>4. Cardinality(counted) >= Cardinality(compared) /\ Cardinality(counted) \in Nat
        /\ Cardinality(compared) \in Nat
    <3>1. IsFiniteSet(seen)
      <4>. HIDE DEF sample
      <4> QED
        BY <2>1, DeliveredFinite
    <3>2. compared \in SUBSET counted /\ counted \in SUBSET seen
      BY DEF Compared
    <3>. HIDE DEF seen, compared, counted
    <3>3. IsFiniteSet(counted)
      BY <3>1, <3>2, FS_Subset
    <3>4. IsFiniteSet(compared) /\ Cardinality(compared) <= Cardinality(counted)
      BY <3>2, <3>3, FS_Subset
    <3> QED
      BY <3>3, <3>4, FS_CardinalityType
  <2>5. Cardinality(counted) >= MinimumSample
    <3>. HIDE DEF compared, counted
    <3> QED
      BY <2>3, <2>4, PolicyAssumption
  <2> QED
    BY <2>3, <2>5 DEF Delivered
<1>. HIDE DEF Computed
<1> QED
  BY <1>1, <1>2, <1>3, <1>4, PTL DEF StageSpec, ShadowGateSound

-----------------------------------------------------------------------------
(* Sums over finite sets.                                                   *)

\* A collection of subsets that is not empty has one of which no element can be
\* taken away.
LEMMA SmallestSubset ==
  ASSUME NEW D, IsFiniteSet(D), NEW T, \A s \in T : s \subseteq D, T # {}
  PROVE  \E s \in T : \A x \in s : s \ {x} \notin T
<1>. DEFINE Sizes == {Cardinality(s) : s \in T}
<1>1. \A s \in T : IsFiniteSet(s) /\ Cardinality(s) \in Nat
  BY FS_Subset, FS_CardinalityType
<1>2. Sizes \in SUBSET Nat /\ Sizes # {}
  BY <1>1
<1>3. PICK n \in Sizes : \A m \in Sizes : n <= m
  BY <1>2, LeastOf
<1>4. PICK s \in T : n = Cardinality(s)
  BY <1>3
<1>5. ASSUME NEW x \in s, s \ {x} \in T PROVE FALSE
  <2>1. Cardinality(s \ {x}) = Cardinality(s) - 1
    BY <1>1, FS_RemoveElement
  <2>2. n <= Cardinality(s \ {x})
    BY <1>3, <1>5
  <2> QED
    BY <1>1, <1>4, <2>1, <2>2
<1> QED
  BY <1>5

\* h gives what the values of f on each subset of D add up to.
Sums(f, D, h) ==
  /\ h \in [SUBSET D -> Int]
  /\ \A s \in SUBSET D : h[s] = IF s = {} THEN 0
                                ELSE f[CHOOSE x \in s : TRUE] + h[s \ {CHOOSE x \in s : TRUE}]

\* The sum of a function is given by what its values add up to.
LEMMA SumIs ==
  ASSUME NEW D, IsFiniteSet(D), NEW f \in [D -> Int]
  PROVE  \E h : Sums(f, D, h) /\ SumFunction(f) = h[D]
<1>. DEFINE one(s) == CHOOSE x \in s : TRUE
            S == SUBSET D
            outside == CHOOSE z : z \notin S
            up == [s \in S |-> IF s = {} THEN outside ELSE s \ {one(s)}]
            G == [q \in S \X Int |-> IF q[1] = {} THEN 0 ELSE f[one(q[1])] + q[2]]
            zero == 0
            Eq(g) == g = [s \in S |-> IF s = {} THEN 0 ELSE f[one(s)] + g[s \ {one(s)}]]
<1>1. outside \notin S
  BY NoSetContainsEverything
<1>. HIDE DEF outside
<1>2. \A s \in S : s # {} => one(s) \in s /\ s \ {one(s)} \in S /\ f[one(s)] \in Int
  OBVIOUS
<1>. HIDE DEF one
<1>3. up[{}] \notin S /\ \A s \in S : s # {} => up[s] = s \ {one(s)} /\ up[s] \in S
  BY <1>1, <1>2
<1>4. Acyclic(S, up)
  <2>1. ASSUME NEW T \in SUBSET S, T # {} PROVE \E s \in T : up[s] \notin T
    <3>1. PICK s \in T : \A x \in s : s \ {x} \notin T
      BY <2>1, SmallestSubset
    <3>2. CASE s = {}
      BY <1>3, <3>2
    <3>3. CASE s # {}
      BY <1>2, <1>3, <3>1, <3>3
    <3> QED
      BY <3>2, <3>3
  <2> QED
    BY <2>1 DEF Acyclic
<1>5. G \in [S \X Int -> Int]
  BY <1>2
<1>6. \A s \in S, v \in Int : s # {} => G[<<s, v>>] = f[one(s)] + v
  OBVIOUS
<1>7. zero \in Int
  OBVIOUS
<1>. HIDE DEF up, G, zero
<1>8. PICK h : Solves(h, S, up, Int, zero, G)
  BY <1>4, <1>5, <1>7, Recursion
<1>9. h \in [S -> Int]
  BY <1>8 DEF Solves
<1>10. ASSUME NEW s \in S
       PROVE  h[s] = IF s = {} THEN 0 ELSE f[one(s)] + h[s \ {one(s)}]
  <2>1. h[s] = IF up[s] \in S THEN G[<<s, h[up[s]]>>] ELSE zero
    BY <1>8 DEF Solves
  <2>2. CASE s = {}
    BY <1>3, <2>1, <2>2 DEF zero
  <2>3. CASE s # {}
    <3>. DEFINE t == up[s]
    <3>1. t \in S /\ t = s \ {one(s)}
      BY <1>3, <2>3
    <3>2. h[s] = G[<<s, h[t]>>]
      BY <2>1, <3>1
    <3>. HIDE DEF t
    <3>3. h[t] \in Int
      BY <1>9, <3>1
    <3> QED
      BY <1>6, <2>3, <3>1, <3>2, <3>3
  <2> QED
    BY <2>2, <2>3
<1>11. Eq(h)
  BY <1>9, <1>10
<1>12. SumFunction(f) = (CHOOSE g : Eq(g))[D]
  BY DEF SumFunction, SumFunctionOnSet, FoldFunctionOnSet, MapThenFoldSet, one
<1>. DEFINE k == CHOOSE g : Eq(g)
<1>13. Eq(k)
  <2>. HIDE DEF Eq
  <2> QED
    BY <1>11
<1>14. SumFunction(f) = k[D]
  BY <1>12
<1>. HIDE DEF k
<1>15. /\ k = [s \in S |-> k[s]]
       /\ \A s \in S : k[s] = IF s = {} THEN 0 ELSE f[one(s)] + k[s \ {one(s)}]
  BY <1>13
<1>16. ASSUME NEW s \in S PROVE k[s] \in Int
  <2>. DEFINE T == {u \in S : k[u] \notin Int}
  <2>. SUFFICES ASSUME T # {} PROVE FALSE
    BY <1>16
  <2>1. \A u \in T : u \subseteq D
    OBVIOUS
  <2>2. PICK u \in T : \A x \in u : u \ {x} \notin T
    <3>. HIDE DEF T
    <3> QED
      BY <2>1, SmallestSubset
  <2>. u \in S /\ k[u] \notin Int
    OBVIOUS
  <2>. k[u] = IF u = {} THEN 0 ELSE f[one(u)] + k[u \ {one(u)}]
    BY <1>15
  <2>3. CASE u = {}
    BY <2>3
  <2>4. CASE u # {}
    <3>1. u \ {one(u)} \in S /\ f[one(u)] \in Int /\ one(u) \in u
      BY <1>2, <2>4
    <3>2. k[u \ {one(u)}] \in Int
      BY <2>2, <3>1
    <3> QED
      BY <2>4, <3>1, <3>2
  <2> QED
    BY <2>3, <2>4
<1>17. k \in [S -> Int]
  BY <1>15, <1>16
<1> QED
  BY <1>14, <1>15, <1>17 DEF Sums, one

\* Any element may be taken first.
LEMMA SumsAny ==
  ASSUME NEW D, IsFiniteSet(D), NEW f \in [D -> Int], NEW h, Sums(f, D, h),
         NEW s \in SUBSET D, NEW y \in s
  PROVE  h[s] = f[y] + h[s \ {y}]
<1>. DEFINE one(u) == CHOOSE x \in u : TRUE
            T == {u \in SUBSET D : \E x \in u : h[u] # f[x] + h[u \ {x}]}
<1>1. /\ h \in [SUBSET D -> Int]
      /\ \A u \in SUBSET D : h[u] = IF u = {} THEN 0 ELSE f[one(u)] + h[u \ {one(u)}]
  BY DEF Sums
<1>2. \A u \in SUBSET D : u # {} => one(u) \in u
  OBVIOUS
<1>. HIDE DEF one
<1>. SUFFICES ASSUME T # {} PROVE FALSE
  OBVIOUS
<1>3. \A u \in T : u \subseteq D
  OBVIOUS
<1>4. PICK u \in T : \A x \in u : u \ {x} \notin T
  <2>. HIDE DEF T
  <2> QED
    BY <1>3, SmallestSubset
<1>5. PICK x \in u : h[u] # f[x] + h[u \ {x}]
  BY <1>4
<1>. DEFINE c == one(u)
<1>6. c \in u /\ u \in SUBSET D /\ h[u] = f[c] + h[u \ {c}]
  BY <1>1, <1>2, <1>5
<1>. HIDE DEF c
<1>7. c # x
  BY <1>5, <1>6
<1>8. h[u \ {c}] = f[x] + h[(u \ {c}) \ {x}]
  BY <1>4, <1>6, <1>7
<1>9. h[u \ {x}] = f[c] + h[(u \ {x}) \ {c}]
  BY <1>4, <1>6, <1>7
<1>. DEFINE v == (u \ {c}) \ {x}
<1>10. v = (u \ {x}) \ {c} /\ v \in SUBSET D
  BY <1>6
<1>. HIDE DEF v
<1>11. h[v] \in Int /\ f[c] \in Int /\ f[x] \in Int
  BY <1>1, <1>6, <1>10
<1>12. h[u \ {c}] = f[x] + h[v] /\ h[u \ {x}] = f[c] + h[v]
  BY <1>8, <1>9, <1>10 DEF v
<1>13. f[c] + h[u \ {c}] = f[x] + h[u \ {x}]
  BY <1>11, <1>12
<1> QED
  BY <1>5, <1>6, <1>13

\* What two functions that agree on s add up to there.
LEMMA SumsAgree ==
  ASSUME NEW D, IsFiniteSet(D), NEW f \in [D -> Int], NEW h, Sums(f, D, h),
         NEW E, IsFiniteSet(E), NEW g \in [E -> Int], NEW k, Sums(g, E, k),
         NEW s, s \subseteq D, s \subseteq E, \A x \in s : f[x] = g[x]
  PROVE  h[s] = k[s]
<1>. DEFINE T == {u \in SUBSET s : h[u] # k[u]}
<1>1. /\ \A u \in SUBSET s : u = {} => h[u] = 0 /\ k[u] = 0
      /\ \A u \in SUBSET s : \A x \in u : h[u] = f[x] + h[u \ {x}] /\ k[u] = g[x] + k[u \ {x}]
  <2>1. \A u \in SUBSET s : u = {} => h[u] = 0 /\ k[u] = 0
    BY DEF Sums
  <2>2. ASSUME NEW u \in SUBSET s, NEW x \in u
        PROVE  h[u] = f[x] + h[u \ {x}] /\ k[u] = g[x] + k[u \ {x}]
    <3>1. u \in SUBSET D /\ u \in SUBSET E
      OBVIOUS
    <3>2. h[u] = f[x] + h[u \ {x}]
      BY <3>1, SumsAny, SMTT(20)
    <3>3. k[u] = g[x] + k[u \ {x}]
      BY <3>1, SumsAny, SMTT(20)
    <3> QED
      BY <3>2, <3>3
  <2> QED
    BY <2>1, <2>2
<1>. SUFFICES ASSUME T # {} PROVE FALSE
  OBVIOUS
<1>2. IsFiniteSet(s) /\ \A u \in T : u \subseteq s
  BY FS_Subset
<1>3. PICK u \in T : \A x \in u : u \ {x} \notin T
  <2>. HIDE DEF T
  <2> QED
    BY <1>2, SmallestSubset
<1>4. u \in SUBSET s /\ h[u] # k[u]
  OBVIOUS
<1>5. PICK x \in u : TRUE
  BY <1>1, <1>4
<1>6. h[u \ {x}] = k[u \ {x}]
  BY <1>3, <1>4
<1> QED
  BY <1>1, <1>4, <1>5, <1>6

\* A sum is a number, and that of nothing is 0.
LEMMA SumType ==
  ASSUME NEW D, IsFiniteSet(D), NEW f \in [D -> Int]
  PROVE  SumFunction(f) \in Int /\ (D = {} => SumFunction(f) = 0)
<1>1. PICK h : Sums(f, D, h) /\ SumFunction(f) = h[D]
  BY SumIs
<1>2. h \in [SUBSET D -> Int] /\ (D = {} => h[D] = 0)
  BY <1>1 DEF Sums
<1> QED
  BY <1>1, <1>2

\* Any part may be taken out of a sum.
LEMMA SumWithout ==
  ASSUME NEW D, IsFiniteSet(D), NEW f \in [D -> Int], NEW y \in D,
         NEW g \in [D \ {y} -> Int], \A x \in D \ {y} : f[x] = g[x]
  PROVE  SumFunction(f) = f[y] + SumFunction(g)
<1>. DEFINE E == D \ {y}
<1>1. PICK h : Sums(f, D, h) /\ SumFunction(f) = h[D]
  BY SumIs
<1>2. IsFiniteSet(E) /\ E \subseteq D
  BY FS_Subset
<1>3. PICK k : Sums(g, E, k) /\ SumFunction(g) = k[E]
  BY <1>2, SumIs
<1>4. h[E] = k[E]
  BY <1>1, <1>2, <1>3, SumsAgree
<1>5. h[D] = f[y] + h[E]
  BY <1>1, SumsAny
<1> QED
  BY <1>1, <1>3, <1>4, <1>5

\* g is f without one of its parts.
PartOf(f, g, D, y) ==
  /\ IsFiniteSet(D) /\ y \in D /\ f \in [D -> Int] /\ g \in [D \ {y} -> Int]
  /\ \A x \in D \ {y} : f[x] = g[x]

\* The same, from the parts of one named hypothesis.
LEMMA SumPart ==
  ASSUME NEW f, NEW g, NEW D, NEW y, PartOf(f, g, D, y)
  PROVE  SumFunction(f) = f[y] + SumFunction(g)
  BY SumWithout DEF PartOf

\* Sums are monotone.
LEMMA SumMonotone ==
  ASSUME NEW D, IsFiniteSet(D), NEW f \in [D -> Int], NEW g \in [D -> Int],
         \A x \in D : f[x] <= g[x]
  PROVE  SumFunction(f) <= SumFunction(g)
<1>1. PICK h : Sums(f, D, h) /\ SumFunction(f) = h[D]
  BY SumIs
<1>2. PICK k : Sums(g, D, k) /\ SumFunction(g) = k[D]
  BY SumIs
<1>3. /\ h \in [SUBSET D -> Int] /\ k \in [SUBSET D -> Int]
      /\ \A s \in SUBSET D : s = {} => h[s] = 0 /\ k[s] = 0
  BY <1>1, <1>2 DEF Sums
<1>. DEFINE T == {s \in SUBSET D : ~ (h[s] <= k[s])}
<1>4. T = {}
  <2>. SUFFICES ASSUME T # {} PROVE FALSE
    OBVIOUS
  <2>1. \A s \in T : s \subseteq D
    OBVIOUS
  <2>2. PICK s \in T : \A x \in s : s \ {x} \notin T
    <3>. HIDE DEF T
    <3> QED
      BY <2>1, SmallestSubset
  <2>3. s \in SUBSET D /\ ~ (h[s] <= k[s])
    OBVIOUS
  <2>4. PICK y \in s : TRUE
    BY <1>3, <2>3
  <2>5. h[s] = f[y] + h[s \ {y}] /\ k[s] = g[y] + k[s \ {y}]
    BY <1>1, <1>2, <2>3, SumsAny
  <2>6. h[s \ {y}] <= k[s \ {y}] /\ h[s \ {y}] \in Int /\ k[s \ {y}] \in Int
    BY <1>3, <2>2, <2>3
  <2>7. f[y] \in Int /\ g[y] \in Int /\ f[y] <= g[y]
    BY <2>3
  <2> QED
    BY <2>3, <2>5, <2>6, <2>7
<1>5. h[D] <= k[D]
  BY <1>4
<1> QED
  BY <1>1, <1>2, <1>5

\* A common factor may be taken out of a sum.
LEMMA SumScaled ==
  ASSUME NEW D, IsFiniteSet(D), NEW f \in [D -> Int], NEW a \in Int, NEW g \in [D -> Int],
         \A x \in D : g[x] = a * f[x]
  PROVE  SumFunction(g) = a * SumFunction(f)
<1>1. PICK h : Sums(f, D, h) /\ SumFunction(f) = h[D]
  BY SumIs
<1>2. PICK k : Sums(g, D, k) /\ SumFunction(g) = k[D]
  BY SumIs
<1>3. /\ h \in [SUBSET D -> Int] /\ k \in [SUBSET D -> Int]
      /\ \A s \in SUBSET D : s = {} => h[s] = 0 /\ k[s] = 0
  BY <1>1, <1>2 DEF Sums
<1>. DEFINE T == {s \in SUBSET D : k[s] # a * h[s]}
<1>4. T = {}
  <2>. SUFFICES ASSUME T # {} PROVE FALSE
    OBVIOUS
  <2>1. \A s \in T : s \subseteq D
    OBVIOUS
  <2>2. PICK s \in T : \A x \in s : s \ {x} \notin T
    <3>. HIDE DEF T
    <3> QED
      BY <2>1, SmallestSubset
  <2>3. s \in SUBSET D /\ k[s] # a * h[s]
    OBVIOUS
  <2>4. PICK y \in s : TRUE
    <3>1. a * 0 = 0
      OBVIOUS
    <3> QED
      BY <1>3, <2>3, <3>1
  <2>5. h[s] = f[y] + h[s \ {y}] /\ k[s] = g[y] + k[s \ {y}]
    <3>1. h[s] = f[y] + h[s \ {y}]
      BY <1>1, <2>3, SumsAny
    <3>2. k[s] = g[y] + k[s \ {y}]
      BY <1>2, <2>3, SumsAny
    <3> QED
      BY <3>1, <3>2
  <2>6. k[s \ {y}] = a * h[s \ {y}] /\ h[s \ {y}] \in Int
    BY <1>3, <2>2, <2>3
  <2>7. f[y] \in Int /\ g[y] = a * f[y]
    BY <2>3
  <2>8. \A p, q \in Int : a * (p + q) = a * p + a * q
    OBVIOUS
  <2> QED
    BY <2>3, <2>5, <2>6, <2>7, <2>8
<1>5. k[D] = a * h[D]
  BY <1>4
<1> QED
  BY <1>1, <1>2, <1>5

\* Positive numbers add up to a positive one, unless there are none.
LEMMA PositiveSum ==
  ASSUME NEW D, IsFiniteSet(D), D # {}, NEW w \in [D -> Nat \ {0}]
  PROVE  SumFunction(w) > 0
<1>1. PICK y \in D : TRUE
  OBVIOUS
<1>. DEFINE naught == 0
            E == D \ {y}
            rest == [x \in E |-> w[x]]
            zero == [x \in E |-> naught]
<1>2. IsFiniteSet(E)
  BY FS_Subset
<1>3. rest \in [E -> Int] /\ w \in [D -> Int] /\ (\A x \in E : w[x] = rest[x])
  OBVIOUS
<1>4. zero \in [E -> Int] /\ (\A x \in E : zero[x] <= rest[x]) /\ naught \in Int
  OBVIOUS
<1>5. \A x \in E : zero[x] = naught * rest[x]
  OBVIOUS
<1>. HIDE DEF rest, zero, naught
<1>6. SumFunction(w) = w[y] + SumFunction(rest)
  BY <1>3, SumWithout
<1>. HIDE DEF E
<1>7. SumFunction(zero) <= SumFunction(rest)
  BY <1>2, <1>3, <1>4, SumMonotone
<1>8. SumFunction(rest) \in Int
  BY <1>2, <1>3, SumType
<1>9. SumFunction(zero) = naught * SumFunction(rest)
  BY <1>2, <1>3, <1>4, <1>5, SumScaled
<1>10. w[y] \in Nat \ {0} /\ naught = 0
  BY DEF naught
<1> QED
  BY <1>6, <1>7, <1>8, <1>9, <1>10

\* Numbers that are not negative add up to one that is not.
LEMMA SumNatural ==
  ASSUME NEW D, IsFiniteSet(D), NEW f \in [D -> Nat]
  PROVE  SumFunction(f) \in Nat
<1>. DEFINE naught == 0
            zero == [x \in D |-> naught]
<1>1. f \in [D -> Int] /\ zero \in [D -> Int] /\ (\A x \in D : zero[x] <= f[x]) /\ naught \in Int
  OBVIOUS
<1>2. \A x \in D : zero[x] = naught * f[x]
  OBVIOUS
<1>. HIDE DEF zero, naught
<1>3. SumFunction(zero) <= SumFunction(f)
  BY <1>1, SumMonotone
<1>4. SumFunction(f) \in Int
  BY <1>1, SumType
<1>5. SumFunction(zero) = naught * SumFunction(f)
  BY <1>1, <1>2, SumScaled
<1> QED
  BY <1>3, <1>4, <1>5 DEF naught

-----------------------------------------------------------------------------
(* A behaviour of the stages: it takes any one of a set of cases and computes *)
(* its result.                                                              *)

Stages(cases) == result = None /\ task \in cases /\ [][Compute]_<<task, result>>

\* The result of a case is what its stage computes of it.
Computed(cases) ==
  /\ task \in cases
  /\ result # None =>
       /\ task.kind = "filter" =>
            result.code = FilterCode(task.candidate, task.profile, task.context)
       /\ task.kind = "intent" => result.intent = TextIntent(task.terms)
       /\ task.kind = "pool" => result = Generate(task.pool, task.recall, task.events)
       /\ task.kind = "supply" => result = SupplyProfile(task.trade, task.capabilities)
       /\ task.kind = "embed" => result.vectors = Embedded(task.texts, task.answer)
       /\ task.kind = "command" => result = ExecuteMatching(CommandOf(task.ids, task.entries))
       /\ task.kind = "recall" =>
            /\ result.sought = Sought(task.items)
            /\ result.recall = Recall(task.enabled, task.items, task.answer, task.rows)
       /\ task.kind = "present" =>
            result.shown = Presented(task.offer, task.subject, task.situation, task.open, task.vector)
       /\ task.kind = "settle" =>
            /\ result.state = <<ColdState(task.from), ColdState(task.to)>>
            /\ result.types = ColdTypes(task.to)
            /\ result.ratio = <<ExplorationRatio(task.from), ExplorationRatio(task.to)>>
            /\ result.cap = <<ConfidenceCap(task.from), ConfidenceCap(task.to)>>
            /\ result.stability = <<Stability(task.from), Stability(task.to)>>
       /\ task.kind = "slate" =>
            LET slate == Laid(task) IN
            /\ result.items = slate.items /\ result.eligible = slate.eligible
            /\ result.guard = slate.guard
            /\ result.related = [i \in DOMAIN slate.items |-> Related(slate.items[i], slate)]

\* A case is only ever given the result that its stage computes.
LEMMA StagesCompute ==
  ASSUME NEW CONSTANT cases
  PROVE  Stages(cases) => []Computed(cases)
<1>. DEFINE Start == result = None /\ task \in cases
<1>1. Start => Computed(cases)
  BY DEF Computed
<1>2. Computed(cases) /\ [Compute]_<<task, result>> => Computed(cases)'
  <2>. SUFFICES ASSUME Computed(cases), [Compute]_<<task, result>> PROVE Computed(cases)'
    OBVIOUS
  <2>1. CASE Compute /\ EligibilityCompute
    BY <2>1 DEF Compute, Computed, EligibilityCompute, Filter, Normalize, Judge
  <2>2. CASE Compute /\ CandidatesCompute
    BY <2>2 DEF Compute, Computed, CandidatesCompute, Merge, Assemble, Embed, Ask
  <2>3. CASE Compute /\ PresentingCompute
    BY <2>3 DEF Compute, Computed, PresentingCompute, Present, Join, Execute
  <2>4. CASE Compute /\ SlateCompute
    BY <2>4 DEF Compute, Computed, SlateCompute, LaySlate, Settle
  <2>5. CASE UNCHANGED <<task, result>>
    BY <2>5 DEF Computed
  <2> QED
    BY <2>1, <2>2, <2>3, <2>4, <2>5 DEF Compute
<1> QED
  BY <1>1, <1>2, PTL DEF Stages

-----------------------------------------------------------------------------
(* What a subject said.                                                     *)

\* The terms found in a text state one of three requirements.
StatesTerms(t) ==
  t.kind = "intent" => \A u \in t.terms : u.requirement \in {"MUST", "PREFER", "EXCLUDE"}

\* What a subject said binds every stage, whatever the texts, the profiles and the
\* answers of the provider: what it rules out is not searched for, a profile that
\* only rules out asks the provider nothing, and what is stated with different
\* requirements, or may mean several things, constrains nothing.
THEOREM StatementsBindAll ==
  ASSUME NEW CONSTANT cases, \A t \in cases : StatesTerms(t)
  PROVE  Stages(cases) => []StatementsBind
<1>1. Computed(cases) => ExcludedNeverSought
  <2>. SUFFICES ASSUME Computed(cases), task.kind = "recall", result # None
                PROVE  LET wanted == {i.code : i \in {j \in task.items : j.level # "EXCLUDED"}} IN
                       /\ result.sought \subseteq wanted
                       /\ result.recall.status # "DISABLED" => wanted \cap Concept # {}
                       /\ DOMAIN result.recall.scores # {} => result.recall.status = "AVAILABLE"
    BY DEF ExcludedNeverSought
  <2>. DEFINE wanted == {i.code : i \in {j \in task.items : j.level # "EXCLUDED"}}
  <2>1. result.sought = Sought(task.items)
        /\ result.recall = Recall(task.enabled, task.items, task.answer, task.rows)
    BY DEF Computed
  <2>2. Sought(task.items) \subseteq wanted \cap Concept
    BY DEF Sought
  <2>. HIDE DEF wanted
  <2>3. Sought(task.items) = {} => result.recall.status = "DISABLED"
    BY <2>1 DEF Recall, Prepared
  <2>4. result.recall.status # "AVAILABLE" => result.recall.scores = << >>
    BY <2>1 DEF Recall
  <2>5. DOMAIN << >> = {}
    OBVIOUS
  <2> QED
    BY <2>1, <2>2, <2>3, <2>4, <2>5 DEF wanted
<1>2. Computed(cases) => OnlySettledConstrains
  <2>. SUFFICES ASSUME Computed(cases), task.kind = "intent", result # None,
                       NEW c \in Project(result.intent, "VERIFIED_BUYER_CATALOG").require
                            \cup Project(result.intent, "VERIFIED_BUYER_CATALOG").forbid
                            \cup Project(result.intent, "VERIFIED_BUYER_CATALOG").asks,
                       NEW t \in task.terms, t.codes = {c}
                PROVE  t.requirement = IF c \in result.intent.must THEN "MUST" ELSE "EXCLUDE"
    BY DEF OnlySettledConstrains
  <2>1. result.intent = TextIntent(task.terms)
    BY DEF Computed
  <2>2. \A u \in task.terms : u.requirement \in {"MUST", "PREFER", "EXCLUDE"}
    BY DEF Computed, StatesTerms
  <2> QED
    BY <2>1, <2>2, StatedOnceConstrains
<1> QED
  BY <1>1, <1>2, StagesCompute, PTL DEF StatementsBind

-----------------------------------------------------------------------------
(* How much is known of a subject.                                          *)

Counts == {"completeness", "explicit", "behaviours", "details", "favorites", "checkins",
           "feedback", "consultations", "confidence", "consistency"}

\* A subject at two times: its counts are numbers, it stays a buyer or a visitor,
\* and it has or has not asked for a fresh start.
SettlesOne(t) ==
  t.kind = "settle" =>
    /\ \A f \in Counts : t.from[f] \in Nat /\ t.to[f] \in Nat
    /\ t.from.buyer = t.to.buyer /\ t.from.buyer \in BOOLEAN
    /\ t.from.reset = t.to.reset /\ t.from.reset \in BOOLEAN
    /\ t.from.verified \in BOOLEAN /\ t.to.verified \in BOOLEAN

\* b knows at least what a knows.
Knows(a, b) ==
  /\ \A f \in Counts : a[f] \in Nat /\ b[f] \in Nat /\ a[f] <= b[f]
  /\ a.buyer = b.buyer /\ a.reset = b.reset
  /\ a.verified => b.verified

\* More evidence never unsettles a subject.
LEMMA SettlesNoLess ==
  ASSUME NEW a, NEW b, Knows(a, b)
  PROVE  /\ StableSubject(a) => StableSubject(b)
         /\ WarmingSubject(a) => WarmingSubject(b)
<1>0. \A f \in Counts : a[f] \in Nat /\ b[f] \in Nat /\ a[f] <= b[f]
  BY DEF Knows
<1>1. /\ a.completeness \in Nat /\ b.completeness \in Nat /\ a.completeness <= b.completeness
      /\ a.explicit \in Nat /\ b.explicit \in Nat /\ a.explicit <= b.explicit
      /\ a.behaviours \in Nat /\ b.behaviours \in Nat /\ a.behaviours <= b.behaviours
      /\ a.details \in Nat /\ b.details \in Nat /\ a.details <= b.details
      /\ a.favorites \in Nat /\ b.favorites \in Nat /\ a.favorites <= b.favorites
      /\ a.checkins \in Nat /\ b.checkins \in Nat /\ a.checkins <= b.checkins
      /\ a.feedback \in Nat /\ b.feedback \in Nat /\ a.feedback <= b.feedback
      /\ a.consultations \in Nat /\ b.consultations \in Nat /\ a.consultations <= b.consultations
      /\ a.confidence \in Nat /\ b.confidence \in Nat /\ a.confidence <= b.confidence
  BY <1>0 DEF Counts
<1>2. a.buyer = b.buyer
  BY DEF Knows
<1>3. a.verified => b.verified
  BY DEF Knows
<1>4. CASE a.buyer
  <2>1. StableSubject(a) => StableSubject(b)
    BY <1>1, <1>2, <1>3, <1>4 DEF StableSubject
  <2>2. WarmingSubject(a) => WarmingSubject(b)
    BY <1>1, <1>2, <1>3, <1>4 DEF WarmingSubject
  <2> QED
    BY <2>1, <2>2
<1>5. CASE ~ a.buyer
  <2>1. StableSubject(a) => StableSubject(b)
    BY <1>1, <1>2, <1>5 DEF StableSubject
  <2>2. WarmingSubject(a) => WarmingSubject(b)
    BY <1>1, <1>2, <1>5 DEF WarmingSubject
  <2> QED
    BY <2>1, <2>2
<1> QED
  BY <1>4, <1>5

\* The state is one of four, and a fresh start is the only way to the fourth.
LEMMA StateOf ==
  ASSUME NEW s
  PROVE  /\ s.reset => ColdState(s) = "RESET"
         /\ ~ s.reset /\ StableSubject(s) => ColdState(s) = "STABLE"
         /\ ~ s.reset /\ ~ StableSubject(s) /\ WarmingSubject(s) => ColdState(s) = "WARMING"
         /\ ~ s.reset /\ ~ StableSubject(s) /\ ~ WarmingSubject(s) => ColdState(s) = "COLD"
  BY DEF ColdState

\* The larger and the smaller of two numbers.
LEMMA BetterOfTwo ==
  ASSUME NEW m \in Int, NEW n \in Int
  PROVE  /\ Max({m, n}) = (IF m >= n THEN m ELSE n)
         /\ Min({m, n}) = (IF m <= n THEN m ELSE n)
<1>1. \E x \in {m, n} : \A y \in {m, n} : x >= y
  OBVIOUS
<1>2. \E x \in {m, n} : \A y \in {m, n} : x <= y
  OBVIOUS
<1>3. Max({m, n}) \in {m, n} /\ \A y \in {m, n} : Max({m, n}) >= y
  BY <1>1 DEF Max
<1>4. Min({m, n}) \in {m, n} /\ \A y \in {m, n} : Min({m, n}) <= y
  BY <1>2 DEF Min
<1> QED
  BY <1>3, <1>4

\* What is kept within bounds keeps its order.
LEMMA WithinMonotone ==
  ASSUME NEW u \in Int, NEW v \in Int, u <= v
  PROVE  /\ Within(u, 0, 1000) \in Int /\ Within(v, 0, 1000) \in Int
         /\ Within(u, 0, 1000) <= Within(v, 0, 1000)
<1>. DEFINE lo == 0
            hi == 1000
            a == Max({u, lo})
            b == Max({v, lo})
<1>1. lo \in Int /\ hi \in Int
  OBVIOUS
<1>2. Within(u, 0, 1000) = Min({a, hi}) /\ Within(v, 0, 1000) = Min({b, hi})
  BY DEF Within
<1>. HIDE DEF lo, hi
<1>3. a = (IF u >= lo THEN u ELSE lo) /\ b = (IF v >= lo THEN v ELSE lo)
  BY <1>1, BetterOfTwo
<1>4. a \in Int /\ b \in Int /\ a <= b
  BY <1>1, <1>3
<1>. HIDE DEF a, b
<1>5. Min({a, hi}) = (IF a <= hi THEN a ELSE hi) /\ Min({b, hi}) = (IF b <= hi THEN b ELSE hi)
  BY <1>1, <1>4, BetterOfTwo
<1> QED
  BY <1>1, <1>2, <1>4, <1>5

\* More evidence never makes a subject look less stable.
LEMMA StabilityMonotone ==
  ASSUME NEW a, NEW b, Knows(a, b)
  PROVE  Stability(a) <= Stability(b)
<1>0. \A f \in Counts : a[f] \in Nat /\ b[f] \in Nat /\ a[f] <= b[f]
  BY DEF Knows
<1>1. /\ a.completeness \in Nat /\ b.completeness \in Nat /\ a.completeness <= b.completeness
      /\ a.explicit \in Nat /\ b.explicit \in Nat /\ a.explicit <= b.explicit
      /\ a.behaviours \in Nat /\ b.behaviours \in Nat /\ a.behaviours <= b.behaviours
      /\ a.feedback \in Nat /\ b.feedback \in Nat /\ a.feedback <= b.feedback
      /\ a.consistency \in Nat /\ b.consistency \in Nat /\ a.consistency <= b.consistency
  BY <1>0 DEF Counts
<1>2. ASSUME NEW m \in Nat, NEW n \in Nat, m <= n, NEW d \in {2, 4, 5}
      PROVE  Percent(m, d) \in Int /\ Percent(n, d) \in Int /\ Percent(m, d) <= Percent(n, d)
  <2>1. /\ (1000 * m) \div d \in Int /\ (1000 * n) \div d \in Int
        /\ (1000 * m) \div d <= (1000 * n) \div d
    BY <1>2
  <2>. DEFINE x == (1000 * m) \div d
              y == (1000 * n) \div d
  <2>2. x \in Int /\ y \in Int /\ x <= y
    BY <2>1
  <2>3. Percent(m, d) = Within(x, 0, 1000) /\ Percent(n, d) = Within(y, 0, 1000)
    BY DEF Percent
  <2>. HIDE DEF x, y
  <2>4. /\ Within(x, 0, 1000) \in Int /\ Within(y, 0, 1000) \in Int
        /\ Within(x, 0, 1000) <= Within(y, 0, 1000)
    BY <2>2, WithinMonotone
  <2> QED
    BY <2>3, <2>4
<1>. DEFINE d == IF a.buyer THEN 5 ELSE 4
            c1 == Within(10 * a.completeness, 0, 1000)
            c2 == Within(10 * b.completeness, 0, 1000)
            e1 == Percent(a.explicit, d)
            e2 == Percent(b.explicit, d)
            v1 == Percent(a.behaviours, 5)
            v2 == Percent(b.behaviours, 5)
            f1 == Percent(a.feedback, 2)
            f2 == Percent(b.feedback, 2)
            s1 == 35 * c1 + 25 * e1 + 20 * v1 + 10 * f1 + 10 * a.consistency
            s2 == 35 * c2 + 25 * e2 + 20 * v2 + 10 * f2 + 10 * b.consistency
<1>3. c1 \in Int /\ c2 \in Int /\ c1 <= c2
  <2>. DEFINE x == 10 * a.completeness
              y == 10 * b.completeness
  <2>1. x \in Int /\ y \in Int /\ x <= y
    BY <1>1
  <2>. HIDE DEF x, y
  <2>2. /\ Within(x, 0, 1000) \in Int /\ Within(y, 0, 1000) \in Int
        /\ Within(x, 0, 1000) <= Within(y, 0, 1000)
    BY <2>1, WithinMonotone
  <2> QED
    BY <2>2 DEF x, y
<1>4. e1 \in Int /\ e2 \in Int /\ e1 <= e2
  <2>1. d \in {2, 4, 5}
    OBVIOUS
  <2>. HIDE DEF d
  <2> QED
    BY <1>1, <1>2, <2>1
<1>5. v1 \in Int /\ v2 \in Int /\ v1 <= v2
  BY <1>1, <1>2
<1>6. f1 \in Int /\ f2 \in Int /\ f1 <= f2
  BY <1>1, <1>2
<1>7. a.buyer = b.buyer /\ Stability(a) = s1 \div 100 /\ Stability(b) = s2 \div 100
  <2>1. a.buyer = b.buyer
    BY DEF Knows
  <2>2. Stability(a) = s1 \div 100
    BY DEF Stability
  <2>3. Stability(b) = s2 \div 100
    BY <2>1 DEF Stability
  <2> QED
    BY <2>1, <2>2, <2>3
<1>. HIDE DEF c1, c2, e1, e2, v1, v2, f1, f2
<1>8. s1 \in Int /\ s2 \in Int /\ s1 <= s2
  BY <1>1, <1>3, <1>4, <1>5, <1>6
<1>. HIDE DEF s1, s2
<1> QED
  BY <1>7, <1>8

\* The rank of a state among those of a subject that asked for no fresh start.
Rank(s) == CASE s = "COLD" -> 0 [] s = "WARMING" -> 1 [] OTHER -> 2
CapOf(v) == IF v = None THEN 1000 ELSE v

\* More evidence never lowers the state of a subject or the cap on its scores,
\* nor raises the share of exploration.
LEMMA EvidenceHelps ==
  ASSUME NEW a, NEW b, Knows(a, b)
  PROVE  /\ Rank(ColdState(a)) <= Rank(ColdState(b))
         /\ ExplorationRatio(b) <= ExplorationRatio(a)
         /\ CapOf(ConfidenceCap(a)) <= CapOf(ConfidenceCap(b))
<1>1. a.reset = b.reset /\ a.buyer = b.buyer
  <2>1. a.reset = b.reset
    BY DEF Knows
  <2>2. a.buyer = b.buyer
    BY DEF Knows
  <2> QED
    BY <2>1, <2>2
<1>2. /\ a.explicit \in Nat /\ b.explicit \in Nat /\ a.explicit <= b.explicit
      /\ a.behaviours \in Nat /\ b.behaviours \in Nat /\ a.behaviours <= b.behaviours
      /\ a.feedback \in Nat /\ b.feedback \in Nat /\ a.feedback <= b.feedback
  <2>1. \A f \in Counts : a[f] \in Nat /\ b[f] \in Nat /\ a[f] <= b[f]
    BY DEF Knows
  <2> QED
    BY <2>1 DEF Counts
<1>3. \/ ColdState(a) = "RESET" /\ ColdState(b) = "RESET"
      \/ ColdState(a) = "STABLE" /\ ColdState(b) = "STABLE"
      \/ ColdState(a) = "WARMING" /\ ColdState(b) \in {"WARMING", "STABLE"}
      \/ ColdState(a) = "COLD" /\ ColdState(b) \in {"COLD", "WARMING", "STABLE"}
  BY <1>1, StateOf, SettlesNoLess
<1>4. Rank(ColdState(a)) <= Rank(ColdState(b))
  BY <1>3 DEF Rank
<1>5. ExplorationRatio(b) <= ExplorationRatio(a)
  <2>. DEFINE ratio(s) == CASE ColdState(s) = "WARMING" -> 150
                            [] ColdState(s) = "STABLE" -> 75 [] OTHER -> 250
  <2>1. \A s : ExplorationRatio(s) = IF s.buyer THEN Min({ratio(s), 100}) ELSE ratio(s)
    BY DEF ExplorationRatio
  <2>2. ratio(a) \in Int /\ ratio(b) \in Int /\ ratio(b) <= ratio(a)
    BY <1>3
  <2>. DEFINE r == ratio(a)
              q == ratio(b)
              most == 100
  <2>3. r \in Int /\ q \in Int /\ most \in Int /\ q <= r
    BY <2>2
  <2>4. /\ ExplorationRatio(a) = IF a.buyer THEN Min({r, most}) ELSE r
        /\ ExplorationRatio(b) = IF a.buyer THEN Min({q, most}) ELSE q
    BY <1>1, <2>1
  <2>. HIDE DEF r, q, most
  <2>5. Min({r, most}) = (IF r <= most THEN r ELSE most) /\ Min({q, most}) = (IF q <= most THEN q ELSE most)
    BY <2>3, BetterOfTwo
  <2> QED
    BY <2>3, <2>4, <2>5
<1>6. CapOf(ConfidenceCap(a)) <= CapOf(ConfidenceCap(b))
  <2>1. CASE ColdState(b) = "STABLE"
    <3>1. ConfidenceCap(b) = None
      BY <2>1 DEF ConfidenceCap
    <3>2. ConfidenceCap(a) \in {None, 850, 780, 720, 600}
      BY <1>2 DEF ConfidenceCap
    <3> QED
      BY <3>1, <3>2 DEF CapOf
  <2>2. CASE ColdState(b) # "STABLE"
    <3>1. ColdState(a) # "STABLE"
      BY <1>3, <2>2
    <3>2. ConfidenceCap(a) = IF a.feedback > 0 THEN 850 ELSE IF a.behaviours >= 3 THEN 780
                             ELSE IF a.explicit >= 5 THEN 720 ELSE 600
      BY <1>2, <3>1 DEF ConfidenceCap
    <3>3. ConfidenceCap(b) = IF b.feedback > 0 THEN 850 ELSE IF b.behaviours >= 3 THEN 780
                             ELSE IF b.explicit >= 5 THEN 720 ELSE 600
      BY <1>2, <2>2 DEF ConfidenceCap
    <3>4. None \notin {850, 780, 720, 600}
      BY NullAssumption
    <3> QED
      BY <1>2, <3>2, <3>3, <3>4 DEF CapOf
  <2> QED
    BY <2>1, <2>2
<1> QED
  BY <1>4, <1>5, <1>6

\* Only a settled subject is recommended to without a cap.
LEMMA CapUnlessSettled ==
  ASSUME NEW s, s.buyer \in BOOLEAN, s.reset \in BOOLEAN
  PROVE  ConfidenceCap(s) = None
           <=> ColdTypes(s) \cap {"COLD.NEW_USER", "COLD.NEW_BUYER", "COLD.RESET"} = {}
<1>1. ConfidenceCap(s) = None <=> ColdState(s) = "STABLE"
  BY NullAssumption DEF ConfidenceCap
<1>2. /\ "COLD.RESET" \in ColdTypes(s) <=> s.reset
      /\ "COLD.NEW_BUYER" \in ColdTypes(s) <=> s.buyer /\ ColdState(s) \notin {"STABLE", "RESET"}
      /\ "COLD.NEW_USER" \in ColdTypes(s) <=> ~ s.buyer /\ ColdState(s) \notin {"STABLE", "RESET"}
  BY DEF ColdTypes
<1>3. ColdState(s) = "RESET" <=> s.reset
  BY StateOf
<1> QED
  BY <1>1, <1>2, <1>3

\* More evidence never makes a subject less settled, less trusted or more explored
\* on, and only a settled subject is recommended to without a cap, whatever its
\* counts are and however many of them grow (EvidenceOnlyHelps).
THEOREM EvidenceOnlyHelpsAll ==
  ASSUME NEW CONSTANT cases, \A t \in cases : SettlesOne(t)
  PROVE  Stages(cases) => []EvidenceOnlyHelps
<1>1. Computed(cases) => EvidenceOnlyHelps
  <2>. SUFFICES ASSUME Computed(cases), task.kind = "settle", result # None,
                       \A f \in DOMAIN PersonDom \ {"verified"} : task.from[f] <= task.to[f],
                       task.from.verified => task.to.verified
                PROVE  /\ Rank(result.state[1]) <= Rank(result.state[2])
                       /\ result.ratio[2] <= result.ratio[1]
                       /\ CapOf(result.cap[1]) <= CapOf(result.cap[2])
                       /\ result.stability[1] <= result.stability[2]
                       /\ result.cap[2] = None
                            <=> result.types \cap {"COLD.NEW_USER", "COLD.NEW_BUYER", "COLD.RESET"} = {}
    BY DEF EvidenceOnlyHelps, Rank, CapOf
  <2>. DEFINE a == task.from
              b == task.to
  <2>1. SettlesOne(task)
    BY DEF Computed
  <2>2. /\ result.state = <<ColdState(a), ColdState(b)>> /\ result.types = ColdTypes(b)
        /\ result.ratio = <<ExplorationRatio(a), ExplorationRatio(b)>>
        /\ result.cap = <<ConfidenceCap(a), ConfidenceCap(b)>>
        /\ result.stability = <<Stability(a), Stability(b)>>
    BY DEF Computed
  <2>3. Counts \subseteq DOMAIN PersonDom \ {"verified"}
    BY DEF Counts, PersonDom
  <2>4. Knows(a, b)
    <3>1. \A f \in Counts : a[f] \in Nat /\ b[f] \in Nat /\ a[f] <= b[f]
      BY <2>1, <2>3 DEF SettlesOne
    <3>2. a.buyer = b.buyer /\ a.reset = b.reset
      BY <2>1 DEF SettlesOne
    <3> QED
      BY <3>1, <3>2 DEF Knows
  <2>5. b.buyer \in BOOLEAN /\ b.reset \in BOOLEAN
    BY <2>1 DEF SettlesOne
  <2>. HIDE DEF a, b
  <2>6. /\ Rank(ColdState(a)) <= Rank(ColdState(b))
        /\ ExplorationRatio(b) <= ExplorationRatio(a)
        /\ CapOf(ConfidenceCap(a)) <= CapOf(ConfidenceCap(b))
    BY <2>4, EvidenceHelps
  <2>7. Stability(a) <= Stability(b)
    BY <2>4, StabilityMonotone
  <2>8. ConfidenceCap(b) = None
          <=> ColdTypes(b) \cap {"COLD.NEW_USER", "COLD.NEW_BUYER", "COLD.RESET"} = {}
    BY <2>5, CapUnlessSettled
  <2> QED
    BY <2>2, <2>6, <2>7, <2>8
<1> QED
  BY <1>1, StagesCompute, PTL

-----------------------------------------------------------------------------
(* Ranks.                                                                   *)

\* A function on the first numbers is a sequence as long.
LEMMA LengthOf ==
  ASSUME NEW n \in Nat, NEW S, NEW s \in [1..n -> S]
  PROVE  s \in Seq(S) /\ Len(s) = n
  OBVIOUS

\* The first numbers are finitely many.
LEMMA FirstNumbers ==
  ASSUME NEW n \in Nat
  PROVE  IsFiniteSet(1..n) /\ Cardinality(1..n) = n
<1>. DEFINE one == 1
<1>1. one \in Int /\ n \in Int
  OBVIOUS
<1>2. IsFiniteSet(one..n) /\ Cardinality(one..n) = IF one > n THEN 0 ELSE n - one + 1
  <2>. HIDE DEF one
  <2> QED
    BY <1>1, FS_Interval
<1> QED
  BY <1>2

\* below gives what comes before each member of S, which is in order.
Orders(S, below) ==
  /\ below \in [S -> SUBSET S]
  /\ \A x \in S : x \notin below[x]
  /\ \A x, y \in S : x # y => x \in below[y] \/ y \in below[x]
  /\ \A x, y \in S : x \in below[y] => below[x] \subseteq below[y]

\* Each place in the order is taken.
LEMMA EveryRankTaken ==
  ASSUME NEW S, IsFiniteSet(S), NEW below, Orders(S, below),
         NEW k \in 1..Cardinality(S)
  PROVE  \E x \in S : Cardinality(below[x]) = k - 1
<1>. DEFINE n == Cardinality(S)
            T == 1..n
            rank == [x \in S |-> Cardinality(below[x]) + 1]
<1>1. n \in Nat
  BY FS_CardinalityType
<1>2. \A x \in S : /\ below[x] \in SUBSET S /\ x \notin below[x]
                  /\ IsFiniteSet(below[x]) /\ Cardinality(below[x]) \in Nat
  BY FS_Subset, FS_CardinalityType DEF Orders
<1>3. ASSUME NEW x \in S PROVE Cardinality(below[x]) + 1 \in T
  <2>1. below[x] \in SUBSET (S \ {x})
    BY <1>2
  <2>2. IsFiniteSet(S \ {x}) /\ Cardinality(S \ {x}) = n - 1
    BY FS_RemoveElement
  <2>3. Cardinality(below[x]) <= n - 1
    BY <2>1, <2>2, FS_Subset
  <2>4. Cardinality(below[x]) \in Nat
    BY <1>2
  <2>. HIDE DEF n
  <2> QED
    BY <1>1, <2>3, <2>4
<1>4. ASSUME NEW x \in S, NEW y \in S, x \in below[y]
      PROVE  Cardinality(below[x]) # Cardinality(below[y])
  <2>1. below[x] \in SUBSET below[y] /\ x \notin below[x]
    BY <1>2, <1>4 DEF Orders
  <2>2. IsFiniteSet(below[y])
    BY <1>2
  <2>3. Cardinality(below[y]) = Cardinality(below[x]) => below[y] = below[x]
    BY <2>1, <2>2, FS_Subset
  <2> QED
    BY <1>4, <2>1, <2>3
<1>5. \A x, y \in S : x # y => Cardinality(below[x]) # Cardinality(below[y])
  BY <1>4 DEF Orders
<1>6. rank \in [S -> T]
  BY <1>3
<1>7. \A x, y \in S : rank[x] = rank[y] => x = y
  BY <1>2, <1>5
<1>. HIDE DEF n, T, rank
<1>8. rank \in Injection(S, T)
  BY <1>6, <1>7 DEF Injection, IsInjective
<1>9. IsFiniteSet(T) /\ Cardinality(T) = n
  <2>. DEFINE one == 1
  <2>1. one \in Int /\ n \in Int /\ T = one..n
    BY <1>1 DEF T
  <2>2. n = 0 \/ n >= 1
    BY <1>1
  <2>3. IsFiniteSet(one..n) /\ Cardinality(one..n) = IF one > n THEN 0 ELSE n - one + 1
    <3>. HIDE DEF one
    <3> QED
      BY <2>1, FS_Interval
  <2> QED
    BY <1>1, <2>1, <2>2, <2>3
<1>10. rank \in Surjection(S, T)
  BY <1>8, <1>9, FS_Injection DEF n
<1>11. PICK x \in S : rank[x] = k
  BY <1>10 DEF Surjection, T, n
<1>12. Cardinality(below[x]) + 1 = k /\ Cardinality(below[x]) \in Nat
  BY <1>2, <1>11 DEF rank
<1> QED
  BY <1>12

\* order gives the members of S from the first to the last.
Lists(order, S, below) ==
  /\ order = [k \in 1..Cardinality(S) |-> order[k]]
  /\ \A k \in 1..Cardinality(S) : order[k] \in S /\ Cardinality(below[order[k]]) = k - 1

\* To choose, for each place, who takes it lists the members.
LEMMA Listing ==
  ASSUME NEW S, IsFiniteSet(S), NEW below, Orders(S, below),
         NEW order, order = [k \in 1..Cardinality(S) |-> order[k]],
         \A k \in 1..Cardinality(S) :
           (\E x \in S : Cardinality(below[x]) = k - 1)
             => order[k] \in S /\ Cardinality(below[order[k]]) = k - 1
  PROVE  Lists(order, S, below)
  BY EveryRankTaken DEF Lists

\* A list has every member at one place, and those before it at the places before.
LEMMA ListedOnce ==
  ASSUME NEW S, IsFiniteSet(S), NEW below, Orders(S, below),
         NEW order, Lists(order, S, below)
  PROVE  /\ order \in Seq(S) /\ Len(order) = Cardinality(S)
         /\ Cardinality(S) \in Nat /\ DOMAIN order = 1..Cardinality(S)
         /\ \A i, j \in DOMAIN order : order[i] = order[j] => i = j
         /\ \A x \in S : \E i \in DOMAIN order : order[i] = x
         /\ \A i, j \in DOMAIN order : order[i] \in below[order[j]] <=> i < j
<1>. DEFINE n == Cardinality(S)
            place(x) == Cardinality(below[x]) + 1
<1>1. n \in Nat
  BY FS_CardinalityType
<1>2. \A k \in 1..n : order[k] \in S /\ Cardinality(below[order[k]]) = k - 1
  BY DEF Lists
<1>3. order \in [1..n -> S]
  BY <1>2 DEF Lists
<1>4. order \in Seq(S) /\ Len(order) = n /\ DOMAIN order = 1..n
  <2>. HIDE DEF n
  <2> QED
    BY <1>1, <1>3, LengthOf
<1>5. \A x \in S : /\ below[x] \in SUBSET S /\ x \notin below[x]
                  /\ IsFiniteSet(below[x]) /\ Cardinality(below[x]) \in Nat
  BY FS_Subset, FS_CardinalityType DEF Orders
<1>6. ASSUME NEW x \in S, NEW y \in S, x \in below[y]
      PROVE  Cardinality(below[x]) < Cardinality(below[y])
  <2>1. below[x] \in SUBSET below[y] /\ x \notin below[x]
    BY <1>5, <1>6 DEF Orders
  <2>2. IsFiniteSet(below[y]) /\ below[x] # below[y]
    BY <1>5, <1>6, <2>1
  <2>3. Cardinality(below[x]) <= Cardinality(below[y])
        /\ (Cardinality(below[y]) = Cardinality(below[x]) => below[y] = below[x])
    BY <2>1, <2>2, FS_Subset
  <2> QED
    BY <1>5, <2>2, <2>3
<1>7. \A x, y \in S : x # y => x \in below[y] \/ y \in below[x]
  BY DEF Orders
<1>8. \A i, j \in 1..n : order[i] = order[j] => i = j
  <2>. HIDE DEF n
  <2> QED
    BY <1>1, <1>2
<1>9. ASSUME NEW i \in 1..n, NEW j \in 1..n PROVE order[i] \in below[order[j]] <=> i < j
  <2>. HIDE DEF n
  <2>1. order[i] \in S /\ order[j] \in S
        /\ Cardinality(below[order[i]]) = i - 1 /\ Cardinality(below[order[j]]) = j - 1
    BY <1>2
  <2>2. order[i] \in below[order[j]] => i - 1 < j - 1
    BY <1>6, <2>1
  <2>3. order[j] \in below[order[i]] => j - 1 < i - 1
    BY <1>6, <2>1
  <2>4. i < j => order[i] # order[j]
    BY <1>1, <1>8
  <2> QED
    BY <1>1, <1>7, <2>1, <2>2, <2>3, <2>4
<1>10. ASSUME NEW x \in S PROVE \E i \in 1..n : order[i] = x
  <2>. DEFINE i == place(x)
  <2>1. i \in 1..n
    <3>1. below[x] \in SUBSET (S \ {x})
      BY <1>5
    <3>2. IsFiniteSet(S \ {x}) /\ Cardinality(S \ {x}) = n - 1
      BY FS_RemoveElement
    <3>3. Cardinality(below[x]) <= n - 1
      BY <3>1, <3>2, FS_Subset
    <3>4. Cardinality(below[x]) \in Nat
      BY <1>5
    <3>. HIDE DEF n
    <3> QED
      BY <1>1, <3>3, <3>4
  <2>2. Cardinality(below[x]) = i - 1 /\ Cardinality(below[order[i]]) = i - 1 /\ order[i] \in S
    <3>1. Cardinality(below[x]) \in Nat
      BY <1>5
    <3>2. Cardinality(below[x]) = i - 1
      BY <3>1
    <3>. HIDE DEF i, n
    <3> QED
      BY <1>2, <2>1, <3>2
  <2>. HIDE DEF i, n
  <2>3. order[i] = x
    <3>1. order[i] \in below[x] => i - 1 < i - 1
      BY <1>6, <2>2
    <3>2. x \in below[order[i]] => i - 1 < i - 1
      BY <1>6, <2>2
    <3>3. i \in Int
      BY <1>1, <2>1
    <3> QED
      BY <1>7, <2>2, <3>1, <3>2, <3>3
  <2> QED
    BY <2>1, <2>3
<1> QED
  BY <1>1, <1>4, <1>8, <1>9, <1>10

\* Finitely many numbers have a smallest and a largest.
LEMMA Extremes ==
  ASSUME NEW S, IsFiniteSet(S), S # {}, S \subseteq Int
  PROVE  /\ Min(S) \in S /\ \A x \in S : Min(S) <= x
         /\ Max(S) \in S /\ \A x \in S : x <= Max(S)
<1>1. \E m \in S : \A x \in S : m <= x
  <2>. DEFINE T == {u \in SUBSET S : u # {} /\ ~ \E m \in u : \A x \in u : m <= x}
  <2>. SUFFICES ASSUME T # {} PROVE FALSE
    OBVIOUS
  <2>1. \A u \in T : u \subseteq S
    OBVIOUS
  <2>2. PICK u \in T : \A x \in u : u \ {x} \notin T
    <3>. HIDE DEF T
    <3> QED
      BY <2>1, SmallestSubset
  <2>3. PICK y \in u : TRUE
    OBVIOUS
  <2>4. PICK m \in u : (u \ {y} # {} => m # y /\ \A x \in u \ {y} : m <= x) /\ (u \ {y} = {} => m = y)
    BY <2>2, <2>3
  <2>5. u \subseteq Int
    OBVIOUS
  <2>6. \E n \in u : \A x \in u : n <= x
    <3>1. CASE m <= y
      BY <2>3, <2>4, <2>5, <3>1
    <3>2. CASE ~(m <= y)
      BY <2>3, <2>4, <2>5, <3>2
    <3> QED
      BY <3>1, <3>2
  <2> QED
    BY <2>6
<1>2. \E m \in S : \A x \in S : x <= m
  <2>. DEFINE T == {u \in SUBSET S : u # {} /\ ~ \E m \in u : \A x \in u : x <= m}
  <2>. SUFFICES ASSUME T # {} PROVE FALSE
    OBVIOUS
  <2>1. \A u \in T : u \subseteq S
    OBVIOUS
  <2>2. PICK u \in T : \A x \in u : u \ {x} \notin T
    <3>. HIDE DEF T
    <3> QED
      BY <2>1, SmallestSubset
  <2>3. PICK y \in u : TRUE
    OBVIOUS
  <2>4. PICK m \in u : (u \ {y} # {} => m # y /\ \A x \in u \ {y} : x <= m) /\ (u \ {y} = {} => m = y)
    BY <2>2, <2>3
  <2>5. u \subseteq Int
    OBVIOUS
  <2>6. \E n \in u : \A x \in u : x <= n
    <3>1. CASE y <= m
      BY <2>3, <2>4, <2>5, <3>1
    <3>2. CASE ~(y <= m)
      BY <2>3, <2>4, <2>5, <3>2
    <3> QED
      BY <3>1, <3>2
  <2> QED
    BY <2>6
<1>3. Min(S) \in S /\ \A x \in S : Min(S) <= x
  BY <1>1 DEF Min
<1>4. Max(S) \in S /\ \A x \in S : x <= Max(S)
  <2>1. \E m \in S : \A x \in S : m >= x
    BY <1>2
  <2>2. Max(S) \in S /\ \A x \in S : Max(S) >= x
    BY <2>1 DEF Max
  <2> QED
    BY <2>2
<1> QED
  BY <1>3, <1>4

\* What the members of a set are given: no more of it than members, as much when
\* no two are given the same.
LEMMA ImageOf ==
  ASSUME NEW S, IsFiniteSet(S), NEW f, f = [x \in S |-> f[x]]
  PROVE  /\ IsFiniteSet({f[x] : x \in S})
         /\ (\A x, y \in S : f[x] = f[y] => x = y) => Cardinality({f[x] : x \in S}) = Cardinality(S)
<1>. DEFINE T == {f[x] : x \in S}
<1>1. f \in [S -> T]
  OBVIOUS
<1>2. \A t \in T : \E x \in S : f[x] = t
  OBVIOUS
<1>. HIDE DEF T
<1>3. f \in Surjection(S, T)
  BY <1>1, <1>2 DEF Surjection
<1>4. (\A x, y \in S : f[x] = f[y] => x = y) => f \in Injection(S, T)
  BY <1>1 DEF Injection, IsInjective
<1>5. IsFiniteSet(T) /\ (Cardinality(T) = Cardinality(S) <=> f \in Injection(S, T))
  BY <1>3, FS_Surjection
<1> QED
  BY <1>4, <1>5 DEF T

-----------------------------------------------------------------------------
(* Folds.                                                                   *)

\* What holds of the start of a fold and is kept by every step of it holds of its
\* end.
LEMMA FoldWithin ==
  ASSUME NEW D, IsFiniteSet(D), D \subseteq Int, NEW V, NEW k, k[{}] \in V,
         \A s \in SUBSET D : s # {} /\ k[s \ {Max(s)}] \in V => k[s] \in V
  PROVE  k[D] \in V
<1>. DEFINE T == {s \in SUBSET D : k[s] \notin V}
<1>. SUFFICES ASSUME T # {} PROVE FALSE
  OBVIOUS
<1>1. \A s \in T : s \subseteq D
  OBVIOUS
<1>2. PICK s \in T : \A x \in s : s \ {x} \notin T
  <2>. HIDE DEF T
  <2> QED
    BY <1>1, SmallestSubset
<1>3. s # {} /\ s \in SUBSET D
  OBVIOUS
<1>4. IsFiniteSet(s)
  BY <1>3, FS_Subset
<1>5. Max(s) \in s
  BY <1>3, <1>4, Extremes
<1>6. k[s \ {Max(s)}] \in V
  BY <1>2, <1>3, <1>5
<1> QED
  BY <1>3, <1>6

\* h gives what F makes of the members of each subset of D, taken in their order.
Folds(h, D, V, base, F) ==
  /\ h \in [SUBSET D -> V]
  /\ \A s \in SUBSET D : h[s] = IF s = {} THEN base ELSE F[<<h[s \ {Max(s)}], Max(s)>>]

\* A fold whose steps stay within a set has a solution there.
LEMMA FoldExists ==
  ASSUME NEW D, IsFiniteSet(D), D \subseteq Int, NEW V, NEW base \in V, NEW F \in [V \X D -> V]
  PROVE  \E h : Folds(h, D, V, base, F)
<1>. DEFINE S == SUBSET D
            outside == CHOOSE z : z \notin S
            up == [s \in S |-> IF s = {} THEN outside ELSE s \ {Max(s)}]
            G == [q \in S \X V |-> IF q[1] = {} THEN base ELSE F[<<q[2], Max(q[1])>>]]
<1>1. outside \notin S
  BY NoSetContainsEverything
<1>. HIDE DEF outside
<1>2. ASSUME NEW s \in S, s # {} PROVE Max(s) \in s /\ Max(s) \in D /\ s \ {Max(s)} \in S
  <2>1. IsFiniteSet(s)
    BY FS_Subset
  <2>2. Max(s) \in s
    BY <1>2, <2>1, Extremes
  <2> QED
    BY <2>2
<1>3. up[{}] \notin S /\ \A s \in S : s # {} => up[s] = s \ {Max(s)} /\ up[s] \in S
  BY <1>1, <1>2
<1>4. Acyclic(S, up)
  <2>1. ASSUME NEW T \in SUBSET S, T # {} PROVE \E s \in T : up[s] \notin T
    <3>1. PICK s \in T : \A x \in s : s \ {x} \notin T
      BY <2>1, SmallestSubset
    <3>2. CASE s = {}
      BY <1>3, <3>2
    <3>3. CASE s # {}
      BY <1>2, <1>3, <3>1, <3>3
    <3> QED
      BY <3>2, <3>3
  <2> QED
    BY <2>1 DEF Acyclic
<1>5. G \in [S \X V -> V]
  <2>. SUFFICES ASSUME NEW s \in S, NEW v \in V
                PROVE  (IF s = {} THEN base ELSE F[<<v, Max(s)>>]) \in V
    OBVIOUS
  <2>1. CASE s = {}
    BY <2>1
  <2>2. CASE s # {}
    <3>1. <<v, Max(s)>> \in V \X D
      BY <1>2, <2>2
    <3>. HIDE DEF S
    <3> QED
      BY <2>2, <3>1
  <2> QED
    BY <2>1, <2>2
<1>6. \A s \in S, v \in V : G[<<s, v>>] = IF s = {} THEN base ELSE F[<<v, Max(s)>>]
  OBVIOUS
<1>. HIDE DEF up, G
<1>7. PICK h : Solves(h, S, up, V, base, G)
  BY <1>4, <1>5, Recursion
<1>8. h \in [S -> V]
  BY <1>7 DEF Solves
<1>9. ASSUME NEW s \in S
      PROVE  h[s] = IF s = {} THEN base ELSE F[<<h[s \ {Max(s)}], Max(s)>>]
  <2>1. h[s] = IF up[s] \in S THEN G[<<s, h[up[s]]>>] ELSE base
    BY <1>7 DEF Solves
  <2>2. CASE s = {}
    BY <1>3, <2>1, <2>2
  <2>3. CASE s # {}
    <3>. DEFINE t == up[s]
    <3>1. t \in S /\ t = s \ {Max(s)}
      BY <1>3, <2>3
    <3>2. h[s] = G[<<s, h[t]>>]
      BY <2>1, <3>1
    <3>. HIDE DEF t
    <3>3. h[t] \in V
      BY <1>8, <3>1
    <3> QED
      BY <1>6, <2>3, <3>1, <3>2, <3>3
  <2> QED
    BY <2>2, <2>3
<1> QED
  BY <1>8, <1>9 DEF Folds, S

-----------------------------------------------------------------------------
(* The conditions of an exhibitor.                                          *)

\* What the rows of trade conditions make of a start, row by row: V is where the
\* profiles are, and W what holds of them after a set of rows.
LEMMA TradeFolded ==
  ASSUME NEW E, NEW seq \in Seq(E), NEW V, NEW base \in V,
         \A v \in V, x \in E : TradeRow(v, x) \in V,
         NEW W, <<{}, base>> \in W,
         \A s \in SUBSET (DOMAIN seq) : \A v \in V :
           s # {} /\ <<s \ {Max(s)}, v>> \in W => <<s, TradeRow(v, seq[Max(s)])>> \in W
  PROVE  FoldLeft(TradeRow, base, seq) \in V /\ <<DOMAIN seq, FoldLeft(TradeRow, base, seq)>> \in W
<1>. DEFINE D == DOMAIN seq
            op(v, x) == TradeRow(v, x)
            F == [q \in V \X D |-> op(q[1], seq[q[2]])]
            Eq(g) == g = [s \in SUBSET D |-> IF s = {} THEN base
                                             ELSE op(g[s \ {Max(s)}], seq[Max(s)])]
            k == CHOOSE g : Eq(g)
            X == {q \in (SUBSET D) \X V : q \in W}
            both == [s \in SUBSET D |-> <<s, k[s]>>]
<1>1. IsFiniteSet(D) /\ D \subseteq Int /\ \A i \in D : seq[i] \in E
  BY FirstNumbers
<1>2. \A v \in V : \A i \in D : op(v, seq[i]) \in V
  BY <1>1
<1>3. FoldLeft(TradeRow, base, seq) = k[D]
  BY DEF FoldLeft, MapThenFoldSet
<1>4. \A s \in SUBSET D : \A v \in V :
        s # {} /\ <<s \ {Max(s)}, v>> \in W => <<s, op(v, seq[Max(s)])>> \in W
  OBVIOUS
<1>. HIDE DEF D, op
<1>5. F \in [V \X D -> V] /\ \A v \in V : \A i \in D : F[<<v, i>>] = op(v, seq[i])
  BY <1>2
<1>. HIDE DEF F
<1>6. PICK h : Folds(h, D, V, base, F)
  BY <1>1, <1>5, FoldExists
<1>7. /\ h \in [SUBSET D -> V]
      /\ \A s \in SUBSET D : h[s] = IF s = {} THEN base ELSE F[<<h[s \ {Max(s)}], Max(s)>>]
  BY <1>6 DEF Folds
<1>8. \A s \in SUBSET D : s # {} => Max(s) \in D /\ s \ {Max(s)} \in SUBSET D
  <2>. SUFFICES ASSUME NEW s \in SUBSET D, s # {} PROVE Max(s) \in D
    OBVIOUS
  <2>1. IsFiniteSet(s)
    BY <1>1, FS_Subset
  <2>2. Max(s) \in s
    BY <1>1, <2>1, Extremes
  <2> QED
    BY <2>2
<1>9. Eq(h)
  <2>1. ASSUME NEW s \in SUBSET D
        PROVE  h[s] = IF s = {} THEN base ELSE op(h[s \ {Max(s)}], seq[Max(s)])
    <3>1. CASE s = {}
      BY <1>7, <3>1
    <3>2. CASE s # {}
      <4>. DEFINE m == Max(s)
                  u == s \ {m}
      <4>1. m \in D /\ u \in SUBSET D
        BY <1>8, <3>2
      <4>2. h[s] = F[<<h[u], m>>]
        BY <1>7, <3>2
      <4>. HIDE DEF m, u
      <4>3. h[u] \in V
        BY <1>7, <4>1
      <4>4. h[s] = op(h[u], seq[m])
        BY <1>5, <4>1, <4>2, <4>3
      <4> QED
        BY <3>2, <4>4 DEF u, m
    <3> QED
      BY <3>1, <3>2
  <2> QED
    BY <1>7, <2>1
<1>10. Eq(k)
  <2>. HIDE DEF Eq
  <2> QED
    BY <1>9
<1>. HIDE DEF k
<1>11. /\ k[{}] = base
       /\ \A s \in SUBSET D : s # {} => k[s] = op(k[s \ {Max(s)}], seq[Max(s)])
  BY <1>10
<1>. HIDE DEF Eq
<1>12. both[D] \in X
  <2>1. both[{}] \in X
    <3>1. {} \in SUBSET D /\ both[{}] = <<{}, base>>
      BY <1>11
    <3> QED
      BY <3>1
  <2>2. ASSUME NEW s \in SUBSET D, s # {}, both[s \ {Max(s)}] \in X PROVE both[s] \in X
    <3>. DEFINE m == Max(s)
                u == s \ {m}
                v == k[u]
    <3>1. m \in D /\ u \in SUBSET D /\ k[s] = op(v, seq[m])
      BY <1>8, <1>11, <2>2
    <3>2. both[u] = <<u, v>> /\ both[s] = <<s, k[s]>>
      BY <3>1
    <3>3. v \in V /\ <<u, v>> \in W
      BY <2>2, <3>2
    <3>4. <<s, op(v, seq[m])>> \in W
      BY <1>4, <2>2, <3>3
    <3>. HIDE DEF m, u, v
    <3>5. op(v, seq[m]) \in V
      BY <1>2, <3>1, <3>3
    <3>. HIDE DEF both
    <3> QED
      BY <3>1, <3>2, <3>4, <3>5
  <2>. HIDE DEF X, both
  <2> QED
    BY <1>1, <2>1, <2>2, FoldWithin
<1>13. both[D] = <<D, k[D]>>
  OBVIOUS
<1>14. k[D] \in V /\ <<D, k[D]>> \in W
  BY <1>12, <1>13
<1> QED
  BY <1>3, <1>14 DEF D

\* The same of the rows of capabilities.
LEMMA CapabilitiesFolded ==
  ASSUME NEW E, NEW seq \in Seq(E), NEW V, NEW base \in V,
         \A v \in V, x \in E : CapabilityRow(v, x) \in V,
         NEW W, <<{}, base>> \in W,
         \A s \in SUBSET (DOMAIN seq) : \A v \in V :
           s # {} /\ <<s \ {Max(s)}, v>> \in W => <<s, CapabilityRow(v, seq[Max(s)])>> \in W
  PROVE  FoldLeft(CapabilityRow, base, seq) \in V /\ <<DOMAIN seq, FoldLeft(CapabilityRow, base, seq)>> \in W
<1>. DEFINE D == DOMAIN seq
            op(v, x) == CapabilityRow(v, x)
            F == [q \in V \X D |-> op(q[1], seq[q[2]])]
            Eq(g) == g = [s \in SUBSET D |-> IF s = {} THEN base
                                             ELSE op(g[s \ {Max(s)}], seq[Max(s)])]
            k == CHOOSE g : Eq(g)
            X == {q \in (SUBSET D) \X V : q \in W}
            both == [s \in SUBSET D |-> <<s, k[s]>>]
<1>1. IsFiniteSet(D) /\ D \subseteq Int /\ \A i \in D : seq[i] \in E
  BY FirstNumbers
<1>2. \A v \in V : \A i \in D : op(v, seq[i]) \in V
  BY <1>1
<1>3. FoldLeft(CapabilityRow, base, seq) = k[D]
  BY DEF FoldLeft, MapThenFoldSet
<1>4. \A s \in SUBSET D : \A v \in V :
        s # {} /\ <<s \ {Max(s)}, v>> \in W => <<s, op(v, seq[Max(s)])>> \in W
  OBVIOUS
<1>. HIDE DEF D, op
<1>5. F \in [V \X D -> V] /\ \A v \in V : \A i \in D : F[<<v, i>>] = op(v, seq[i])
  BY <1>2
<1>. HIDE DEF F
<1>6. PICK h : Folds(h, D, V, base, F)
  BY <1>1, <1>5, FoldExists
<1>7. /\ h \in [SUBSET D -> V]
      /\ \A s \in SUBSET D : h[s] = IF s = {} THEN base ELSE F[<<h[s \ {Max(s)}], Max(s)>>]
  BY <1>6 DEF Folds
<1>8. \A s \in SUBSET D : s # {} => Max(s) \in D /\ s \ {Max(s)} \in SUBSET D
  <2>. SUFFICES ASSUME NEW s \in SUBSET D, s # {} PROVE Max(s) \in D
    OBVIOUS
  <2>1. IsFiniteSet(s)
    BY <1>1, FS_Subset
  <2>2. Max(s) \in s
    BY <1>1, <2>1, Extremes
  <2> QED
    BY <2>2
<1>9. Eq(h)
  <2>1. ASSUME NEW s \in SUBSET D
        PROVE  h[s] = IF s = {} THEN base ELSE op(h[s \ {Max(s)}], seq[Max(s)])
    <3>1. CASE s = {}
      BY <1>7, <3>1
    <3>2. CASE s # {}
      <4>. DEFINE m == Max(s)
                  u == s \ {m}
      <4>1. m \in D /\ u \in SUBSET D
        BY <1>8, <3>2
      <4>2. h[s] = F[<<h[u], m>>]
        BY <1>7, <3>2
      <4>. HIDE DEF m, u
      <4>3. h[u] \in V
        BY <1>7, <4>1
      <4>4. h[s] = op(h[u], seq[m])
        BY <1>5, <4>1, <4>2, <4>3
      <4> QED
        BY <3>2, <4>4 DEF u, m
    <3> QED
      BY <3>1, <3>2
  <2> QED
    BY <1>7, <2>1
<1>10. Eq(k)
  <2>. HIDE DEF Eq
  <2> QED
    BY <1>9
<1>. HIDE DEF k
<1>11. /\ k[{}] = base
       /\ \A s \in SUBSET D : s # {} => k[s] = op(k[s \ {Max(s)}], seq[Max(s)])
  BY <1>10
<1>. HIDE DEF Eq
<1>12. both[D] \in X
  <2>1. both[{}] \in X
    <3>1. {} \in SUBSET D /\ both[{}] = <<{}, base>>
      BY <1>11
    <3> QED
      BY <3>1
  <2>2. ASSUME NEW s \in SUBSET D, s # {}, both[s \ {Max(s)}] \in X PROVE both[s] \in X
    <3>. DEFINE m == Max(s)
                u == s \ {m}
                v == k[u]
    <3>1. m \in D /\ u \in SUBSET D /\ k[s] = op(v, seq[m])
      BY <1>8, <1>11, <2>2
    <3>2. both[u] = <<u, v>> /\ both[s] = <<s, k[s]>>
      BY <3>1
    <3>3. v \in V /\ <<u, v>> \in W
      BY <2>2, <3>2
    <3>4. <<s, op(v, seq[m])>> \in W
      BY <1>4, <2>2, <3>3
    <3>. HIDE DEF m, u, v
    <3>5. op(v, seq[m]) \in V
      BY <1>2, <3>1, <3>3
    <3>. HIDE DEF both
    <3> QED
      BY <3>1, <3>2, <3>4, <3>5
  <2>. HIDE DEF X, both
  <2> QED
    BY <1>1, <2>1, <2>2, FoldWithin
<1>13. both[D] = <<D, k[D]>>
  OBVIOUS
<1>14. k[D] \in V /\ <<D, k[D]>> \in W
  BY <1>12, <1>13
<1> QED
  BY <1>3, <1>14 DEF D

\* Where the conditions of an exhibitor are, whose rows are in R and C.
Supplies(R, C) ==
  [channels : SUBSET UNION {r.channels : r \in R},
   regions  : SUBSET ((UNION {r.regions : r \in R}) \cup (UNION {c.regions : c \in C})),
   moq      : Int \cup {None},
   capacity : {None} \cup {c.capacity : c \in C},
   oem      : {"UNKNOWN"} \cup {r.oem : r \in R}]

\* A row of trade conditions says whether it is the common one and gives a number, or
\* none, as the least order.
TradeRows(R) == \A r \in R : r.common \in BOOLEAN /\ r.moq \in Int \cup {None}

\* The rows with a place in s have been read into v.
ReadInto(v, trade, s) ==
  /\ v.oem \in StatusReadings({trade[i] : i \in s})
  /\ \A i \in s : trade[i].moq # None => v.moq # None /\ v.moq <= trade[i].moq
  /\ v.moq # None => \E i \in s : trade[i].moq = v.moq
  /\ v.channels = UNION {trade[i].channels : i \in s}
  /\ v.regions = UNION {trade[i].regions : i \in s}

LEMMA RowKeepsSupplies ==
  ASSUME NEW R, NEW C, TradeRows(R), NEW v \in Supplies(R, C)
  PROVE  /\ \A r \in R : TradeRow(v, r) \in Supplies(R, C)
         /\ \A c \in C : CapabilityRow(v, c) \in Supplies(R, C)
<1>. DEFINE A == UNION {r.channels : r \in R}
            B == (UNION {r.regions : r \in R}) \cup (UNION {c.regions : c \in C})
            K == {None} \cup {c.capacity : c \in C}
            O == {"UNKNOWN"} \cup {r.oem : r \in R}
            V == [channels : SUBSET A, regions : SUBSET B, moq : Int \cup {None}, capacity : K, oem : O]
<1>1. Supplies(R, C) = V
  BY DEF Supplies
<1>2. /\ \A r \in R : r.channels \subseteq A /\ r.regions \subseteq B /\ r.oem \in O
      /\ \A c \in C : c.regions \subseteq B /\ c.capacity \in K
      /\ None \in K
  <2>1. \A r \in R : /\ r.channels \in {q.channels : q \in R} /\ r.regions \in {q.regions : q \in R}
                     /\ r.oem \in {q.oem : q \in R}
    OBVIOUS
  <2>2. \A c \in C : c.regions \in {q.regions : q \in C} /\ c.capacity \in {q.capacity : q \in C}
    OBVIOUS
  <2>3. ASSUME NEW r \in R PROVE r.channels \subseteq A /\ r.regions \subseteq B /\ r.oem \in O
    BY <2>1
  <2>4. ASSUME NEW c \in C PROVE c.regions \subseteq B /\ c.capacity \in K
    <3>. DEFINE Z == {q.regions : q \in C}
                Y == {q.capacity : q \in C}
                X == UNION {q.regions : q \in R}
    <3>1. c.regions \in Z /\ c.capacity \in Y
      BY <2>2
    <3>2. B = X \cup UNION Z /\ K = {None} \cup Y
      OBVIOUS
    <3>. HIDE DEF Z, Y, X, B, K
    <3>3. c.regions \subseteq UNION Z
      BY <3>1
    <3>. DEFINE U == UNION Z
    <3>4. c.regions \subseteq U /\ B = X \cup U
      BY <3>2, <3>3
    <3>. HIDE DEF U
    <3> QED
      BY <3>1, <3>2, <3>4
  <2> QED
    BY <2>3, <2>4
<1>3. \A r \in R : r.moq \in Int \cup {None}
  BY DEF TradeRows
<1>. HIDE DEF A, B, K, O
<1>4. /\ v = [channels |-> v.channels, regions |-> v.regions, moq |-> v.moq,
              capacity |-> v.capacity, oem |-> v.oem]
      /\ v.channels \subseteq A /\ v.regions \subseteq B /\ v.moq \in Int \cup {None}
      /\ v.capacity \in K /\ v.oem \in O
  BY <1>1
<1>5. ASSUME NEW r \in R PROVE TradeRow(v, r) \in V
  <2>1. Least(v.moq, r.moq) \in Int \cup {None}
    BY <1>3, <1>4 DEF Least
  <2> QED
    BY <1>2, <1>4, <2>1 DEF TradeRow
<1>6. ASSUME NEW c \in C PROVE CapabilityRow(v, c) \in V
  <2>1. Most(v.capacity, c.capacity) \in K
    BY <1>2, <1>4 DEF Most
  <2> QED
    BY <1>2, <1>4, <2>1 DEF CapabilityRow
<1> QED
  BY <1>1, <1>5, <1>6

LEMMA UnionOver ==
  ASSUME NEW s, NEW m \in s, NEW of
  PROVE  UNION {of[i] : i \in s} = (UNION {of[i] : i \in s \ {m}}) \cup of[m]
<1>. DEFINE Z == UNION {of[i] : i \in s}
            Y == UNION {of[i] : i \in s \ {m}}
            X == Y \cup of[m]
<1>1. \A x : x \in Z <=> \E i \in s : x \in of[i]
  OBVIOUS
<1>2. \A x : x \in Y <=> \E i \in s \ {m} : x \in of[i]
  OBVIOUS
<1>3. \A x : x \in X <=> x \in Y \/ x \in of[m]
  OBVIOUS
<1>. HIDE DEF Z, Y, X
<1>4. Z = X
  BY <1>1, <1>2, <1>3
<1> QED
  BY <1>4 DEF Z, Y, X

\* What a status is after one row more: it is one of the readings of the rows.
ReadAfter(o, r) == IF r.common \/ o = "UNKNOWN" THEN r.oem ELSE o
LEMMA OneMoreReading ==
  ASSUME NEW S, NEW r, r.common \in BOOLEAN, NEW o, o \in StatusReadings(S)
  PROVE  ReadAfter(o, r) \in StatusReadings(S \cup {r})
<1>. SUFFICES (IF r.common \/ o = "UNKNOWN" THEN r.oem ELSE o) \in StatusReadings(S \cup {r})
  BY DEF ReadAfter
<1>. DEFINE T == S \cup {r}
            common(U) == {x \in U : x.common}
            said(U) == {x.oem : x \in U \ common(U)} \ {"UNKNOWN"}
            all(U) == {x.oem : x \in common(U)}
            open(U) == \E x \in common(U) : x.oem = "UNKNOWN"
<1>1. \A U : StatusReadings(U) =
        IF common(U) = {} THEN IF said(U) = {} THEN {"UNKNOWN"} ELSE said(U)
        ELSE all(U) \cup (IF open(U) THEN said(U) ELSE {})
  BY DEF StatusReadings
<1>2. /\ common(S) \subseteq common(T) /\ (common(T) # common(S) => r.common)
      /\ r.common => r \in common(T) /\ r.oem \in all(T)
  OBVIOUS
<1>3. /\ said(S) \subseteq said(T) /\ "UNKNOWN" \notin said(S) /\ "UNKNOWN" \notin said(T)
      /\ ~r.common /\ r.oem # "UNKNOWN" => r.oem \in said(T)
      /\ ~r.common /\ r.oem = "UNKNOWN" => said(T) = said(S)
  <2>1. \A x : x \in said(S) <=> x # "UNKNOWN" /\ \E y \in S : ~y.common /\ x = y.oem
    OBVIOUS
  <2>2. \A x : x \in said(T) <=> x # "UNKNOWN" /\ \E y \in T : ~y.common /\ x = y.oem
    OBVIOUS
  <2>. HIDE DEF said
  <2>3. ~r.common /\ r.oem = "UNKNOWN" => \A x : x \in said(T) <=> x \in said(S)
    <3>. SUFFICES ASSUME ~r.common, r.oem = "UNKNOWN", NEW x PROVE x \in said(T) <=> x \in said(S)
      OBVIOUS
    <3>1. x # "UNKNOWN" => ((\E y \in T : ~y.common /\ x = y.oem) <=> \E y \in S : ~y.common /\ x = y.oem)
      OBVIOUS
    <3>. HIDE DEF T
    <3> QED
      BY <2>1, <2>2, <3>1
  <2>4. ~r.common /\ r.oem = "UNKNOWN" => said(T) = said(S)
    <3>. DEFINE A == said(T)
                B == said(S)
    <3>. HIDE DEF A, B
    <3>1. (\A x : x \in A <=> x \in B) => A = B
      OBVIOUS
    <3> QED
      BY <2>3, <3>1 DEF A, B
  <2> QED
    BY <2>1, <2>2, <2>4
<1>4. all(S) \subseteq all(T) /\ (open(S) => open(T)) /\ ("UNKNOWN" \in all(S) => open(S) /\ common(S) # {})
      /\ (open(T) => "UNKNOWN" \in all(T))
  OBVIOUS
<1>. HIDE DEF T, common, said, all, open
<1>5. CASE r.common
  BY <1>1, <1>2, <1>5 DEF T
<1>6. CASE ~r.common /\ o # "UNKNOWN"
  <2>1. common(T) = common(S)
    BY <1>2, <1>6
  <2> QED
    BY <1>1, <1>3, <1>4, <1>6, <2>1 DEF T
<1>7. CASE ~r.common /\ o = "UNKNOWN"
  <2>1. common(T) = common(S)
    BY <1>2, <1>7
  <2>2. CASE common(S) = {}
    <3>1. said(S) = {}
      BY <1>1, <1>3, <1>7, <2>2
    <3> QED
      BY <1>1, <1>3, <1>7, <2>1, <2>2, <3>1 DEF T
  <2>3. CASE common(S) # {}
    <3>1. open(S)
      BY <1>1, <1>3, <1>4, <1>7, <2>3
    <3> QED
      BY <1>1, <1>3, <1>4, <1>7, <2>1, <2>3, <3>1 DEF T
  <2> QED
    BY <2>2, <2>3
<1> QED
  BY <1>5, <1>6, <1>7 DEF T

\* One row more has been read.
LEMMA RowRead ==
  ASSUME NEW R, NEW C, TradeRows(R), NEW trade \in Seq(R), NEW s \in SUBSET (DOMAIN trade), NEW m \in s,
         NEW v \in Supplies(R, C), ReadInto(v, trade, s \ {m})
  PROVE  ReadInto(TradeRow(v, trade[m]), trade, s)
<1>. DEFINE D == DOMAIN trade
            u == s \ {m}
            r == trade[m]
            w == TradeRow(v, r)
<1>1. (\A i \in D : trade[i] \in R) /\ m \in D /\ s \subseteq D /\ u \subseteq D /\ r \in R
  OBVIOUS
<1>2. \A i \in D : trade[i].common \in BOOLEAN /\ trade[i].moq \in Int \cup {None}
  BY <1>1 DEF TradeRows
<1>3. v.moq \in Int \cup {None}
  BY DEF Supplies
<1>4. /\ w.oem = ReadAfter(v.oem, r)
      /\ w.moq = Least(v.moq, r.moq) /\ w.channels = v.channels \cup r.channels
      /\ w.regions = v.regions \cup r.regions
  BY DEF TradeRow, ReadAfter
<1>. HIDE DEF D, w
<1>5. w.oem \in StatusReadings({trade[i] : i \in s})
  <2>. DEFINE S == {trade[i] : i \in u}
  <2>1. {trade[i] : i \in s} = S \cup {r}
    OBVIOUS
  <2>2. v.oem \in StatusReadings(S)
    BY DEF ReadInto
  <2>3. r.common \in BOOLEAN
    BY <1>1, <1>2
  <2>. HIDE DEF S, r
  <2>4. ReadAfter(v.oem, r) \in StatusReadings(S \cup {r})
    BY <2>2, <2>3, OneMoreReading
  <2> QED
    BY <1>4, <2>1, <2>4
<1>6. ASSUME NEW i \in s, trade[i].moq # None PROVE w.moq # None /\ w.moq <= trade[i].moq
  <2>. DEFINE x == v.moq
              y == r.moq
              z == trade[i].moq
  <2>1. x \in Int \cup {None} /\ y \in Int \cup {None} /\ z \in Int
    BY <1>1, <1>2, <1>3, <1>6
  <2>2. w.moq = IF x = None THEN y ELSE IF y = None \/ x <= y THEN x ELSE y
    BY <1>4 DEF Least
  <2>3. i # m => x # None /\ x <= z
    BY <1>6 DEF ReadInto
  <2>4. i = m => y = z
    OBVIOUS
  <2>. HIDE DEF x, y, z
  <2>5. None \notin Int
    BY NullAssumption
  <2>6. w.moq # None /\ w.moq <= z
    BY <1>6, <2>1, <2>2, <2>3, <2>4, <2>5 DEF z
  <2> QED
    BY <2>6 DEF z
<1>7. w.moq # None => \E i \in s : trade[i].moq = w.moq
  <2>1. w.moq = v.moq \/ w.moq = r.moq
    BY <1>4 DEF Least
  <2>2. v.moq # None => \E i \in u : trade[i].moq = v.moq
    BY DEF ReadInto
  <2> QED
    BY <2>1, <2>2
<1>8. w.channels = UNION {trade[i].channels : i \in s}
  <2>1. v.channels = UNION {trade[i].channels : i \in u}
    BY DEF ReadInto
  <2>2. s = u \cup {m}
    OBVIOUS
  <2>. DEFINE of == [i \in s |-> trade[i].channels]
  <2>3. /\ UNION {trade[i].channels : i \in s} = UNION {of[i] : i \in s}
        /\ UNION {trade[i].channels : i \in u} = UNION {of[i] : i \in u} /\ r.channels = of[m]
    <3>1. {trade[i].channels : i \in s} = {of[i] : i \in s} /\ {trade[i].channels : i \in u} = {of[i] : i \in u}
      OBVIOUS
    <3> QED
      BY <3>1
  <2>. HIDE DEF of, u
  <2>4. UNION {of[i] : i \in s} = (UNION {of[i] : i \in u}) \cup of[m]
    BY UnionOver DEF u
  <2> QED
    BY <1>4, <2>1, <2>3, <2>4 DEF u
<1>10. w.regions = UNION {trade[i].regions : i \in s}
  <2>1. v.regions = UNION {trade[i].regions : i \in u}
    BY DEF ReadInto
  <2>. DEFINE of == [i \in s |-> trade[i].regions]
  <2>2. /\ {trade[i].regions : i \in s} = {of[i] : i \in s}
        /\ {trade[i].regions : i \in u} = {of[i] : i \in u} /\ r.regions = of[m]
    OBVIOUS
  <2>. HIDE DEF of, u
  <2>3. UNION {of[i] : i \in s} = (UNION {of[i] : i \in u}) \cup of[m]
    BY UnionOver DEF u
  <2> QED
    BY <1>4, <2>1, <2>2, <2>3
<1>9. ReadInto(w, trade, s)
  BY <1>5, <1>6, <1>7, <1>8, <1>10 DEF ReadInto, D
<1> QED
  BY <1>9 DEF w

\* The conditions of an exhibitor, whatever the order of its rows.
ReadOut(p, trade, capabilities) ==
  /\ p.oem \in StatusReadings({trade[i] : i \in DOMAIN trade})
  /\ \A i \in DOMAIN trade : trade[i].moq # None => p.moq # None /\ p.moq <= trade[i].moq
  /\ p.moq # None => \E i \in DOMAIN trade : trade[i].moq = p.moq
  /\ p.channels = UNION {trade[i].channels : i \in DOMAIN trade}
  /\ p.regions = (UNION {trade[i].regions : i \in DOMAIN trade})
                 \cup UNION {capabilities[i].regions : i \in DOMAIN capabilities}
  /\ p.oem = FoldLeft(TradeRow, NoSupply, trade).oem

LEMMA SupplyOfRows ==
  ASSUME NEW R, NEW C, TradeRows(R), NEW trade \in Seq(R), NEW capabilities \in Seq(C)
  PROVE  ReadOut(SupplyProfile(trade, capabilities), trade, capabilities)
<1>. DEFINE p == SupplyProfile(trade, capabilities)
<1>. HIDE DEF p
<1>. SUFFICES ReadOut(p, trade, capabilities)
  BY DEF p
<1>. USE DEF ReadOut
<1>. DEFINE V == Supplies(R, C)
            D == DOMAIN trade
            W == {q \in (SUBSET D) \X V : ReadInto(q[2], trade, q[1])}
            first == FoldLeft(TradeRow, NoSupply, trade)
            X == {q \in (SUBSET (DOMAIN capabilities)) \X V :
                    /\ q[2].channels = first.channels /\ q[2].moq = first.moq
                    /\ q[2].oem = first.oem
                    /\ q[2].regions = first.regions \cup UNION {capabilities[i].regions : i \in q[1]}}
<1>1. /\ \A v \in V, r \in R : TradeRow(v, r) \in V
      /\ \A v \in V, c \in C : CapabilityRow(v, c) \in V
  BY RowKeepsSupplies
<1>2. NoSupply \in V
  BY DEF NoSupply, Supplies
<1>3. <<{}, NoSupply>> \in W
  <2>1. ReadInto(NoSupply, trade, {})
    <3>1. "UNKNOWN" \in StatusReadings({})
      BY DEF StatusReadings
    <3>2. {trade[i] : i \in {}} = {} /\ {trade[i].channels : i \in {}} = {}
          /\ {trade[i].regions : i \in {}} = {}
      OBVIOUS
    <3> QED
      BY <3>1, <3>2 DEF ReadInto, NoSupply
  <2>. HIDE DEF V
  <2> QED
    BY <1>2, <2>1
<1>4. \A s \in SUBSET D : s # {} => Max(s) \in s
  <2>. SUFFICES ASSUME NEW s \in SUBSET D, s # {} PROVE Max(s) \in s
    OBVIOUS
  <2>1. IsFiniteSet(D) /\ D \subseteq Int
    BY FirstNumbers
  <2>2. IsFiniteSet(s)
    BY <2>1, FS_Subset
  <2> QED
    BY <2>1, <2>2, Extremes
<1>5. ASSUME NEW s \in SUBSET D, NEW v \in V, s # {}, <<s \ {Max(s)}, v>> \in W
      PROVE  <<s, TradeRow(v, trade[Max(s)])>> \in W
  <2>. DEFINE m == Max(s)
  <2>1. m \in s /\ trade[m] \in R
    BY <1>4, <1>5
  <2>2. ReadInto(v, trade, s \ {m})
    BY <1>5
  <2>. HIDE DEF m, V
  <2>3. ReadInto(TradeRow(v, trade[m]), trade, s)
    BY <2>1, <2>2, RowRead DEF V
  <2> QED
    BY <1>1, <2>1, <2>3 DEF m
<1>6. first \in V /\ <<D, first>> \in W
  <2>. HIDE DEF V, W
  <2> QED
    BY <1>1, <1>2, <1>3, <1>5, TradeFolded
<1>7. ReadInto(first, trade, D)
  BY <1>6
<1>. HIDE DEF first, V, W
<1>8. <<{}, first>> \in X
  <2>1. {capabilities[i].regions : i \in {}} = {}
    OBVIOUS
  <2> QED
    BY <1>6, <2>1
<1>9. ASSUME NEW s \in SUBSET (DOMAIN capabilities), NEW v \in V, s # {}, <<s \ {Max(s)}, v>> \in X
      PROVE  <<s, CapabilityRow(v, capabilities[Max(s)])>> \in X
  <2>. DEFINE c == capabilities[Max(s)]
              w == CapabilityRow(v, c)
  <2>1. IsFiniteSet(DOMAIN capabilities) /\ DOMAIN capabilities \subseteq Int
    BY FirstNumbers
  <2>2. IsFiniteSet(s)
    BY <2>1, FS_Subset
  <2>3. Max(s) \in s
    BY <1>9, <2>1, <2>2, Extremes
  <2>4. c \in C
    BY <2>3
  <2>5. /\ v.channels = first.channels /\ v.moq = first.moq /\ v.oem = first.oem
        /\ v.regions = first.regions \cup UNION {capabilities[i].regions : i \in s \ {Max(s)}}
    BY <1>9
  <2>6. /\ w.channels = v.channels /\ w.moq = v.moq /\ w.oem = v.oem
        /\ w.regions = v.regions \cup c.regions
    BY DEF CapabilityRow
  <2>9. w.regions = first.regions \cup UNION {capabilities[i].regions : i \in s}
    <3>. DEFINE of == [i \in s |-> capabilities[i].regions]
                m == Max(s)
                u == s \ {m}
    <3>1. /\ {capabilities[i].regions : i \in s} = {of[i] : i \in s}
          /\ {capabilities[i].regions : i \in u} = {of[i] : i \in u} /\ c.regions = of[m] /\ m \in s
      BY <2>3
    <3>. HIDE DEF of, m, u
    <3>2. UNION {of[i] : i \in s} = (UNION {of[i] : i \in u}) \cup of[m]
      BY <3>1, UnionOver DEF u
    <3>3. v.regions = first.regions \cup UNION {capabilities[i].regions : i \in u}
      BY <2>5 DEF u, m
    <3> QED
      BY <2>6, <3>1, <3>2, <3>3
  <2>. HIDE DEF c
  <2>7. w \in V
    BY <1>1, <2>4
  <2>. HIDE DEF w
  <2>8. <<s, w>> \in X
    BY <2>5, <2>6, <2>7, <2>9
  <2> QED
    BY <2>8 DEF w, c
<1>10. FoldLeft(CapabilityRow, first, capabilities) \in V
       /\ <<DOMAIN capabilities, FoldLeft(CapabilityRow, first, capabilities)>> \in X
  <2>. HIDE DEF X
  <2> QED
    BY <1>1, <1>6, <1>8, <1>9, CapabilitiesFolded
<1>11. /\ p.channels = first.channels /\ p.moq = first.moq /\ p.oem = first.oem
       /\ p.regions = first.regions \cup UNION {capabilities[i].regions : i \in DOMAIN capabilities}
  <2>1. p = FoldLeft(CapabilityRow, first, capabilities)
    BY DEF p, SupplyProfile, first
  <2> QED
    BY <1>10, <2>1
<1> QED
  BY <1>7, <1>11 DEF ReadInto, D, first

\* Which row a status is read from, in three orders: a common row that comes last, a
\* row after a common one that says nothing, and a row that says something and comes
\* first where there is no common one.
LEMMA StatusOfOrder ==
  ASSUME NEW R, NEW C, TradeRows(R), NEW q \in Seq(R), NEW n \in Nat, n = Len(q), n > 0,
         NEW o, o = FoldLeft(TradeRow, NoSupply, q).oem
  PROVE  /\ q[n].common => o = q[n].oem
         /\ n > 1 /\ q[n - 1].common /\ q[n - 1].oem = "UNKNOWN" => o = q[n].oem
         /\ (\A i \in DOMAIN q : ~q[i].common) /\ q[1].oem # "UNKNOWN" => o = q[1].oem
<1>. DEFINE V == Supplies(R, C)
            D == DOMAIN q
            none == \A i \in D : ~q[i].common
            Read(v, s) ==
              /\ s = {} => v.oem = "UNKNOWN"
              /\ n \in s /\ q[n].common => v.oem = q[n].oem
              /\ n > 1 /\ n - 1 \in s /\ q[n - 1].common /\ q[n - 1].oem = "UNKNOWN"
                   => v.oem = IF n \in s THEN q[n].oem ELSE "UNKNOWN"
              /\ none /\ q[1].oem # "UNKNOWN" /\ 1 \in s => v.oem = q[1].oem
            W == {x \in (SUBSET D) \X V : Read(x[2], x[1])}
            last == FoldLeft(TradeRow, NoSupply, q)
<1>1. \A v \in V, r \in R : TradeRow(v, r) \in V
  BY RowKeepsSupplies
<1>2. NoSupply \in V
  BY DEF NoSupply, Supplies
<1>3. <<{}, NoSupply>> \in W
  <2>1. Read(NoSupply, {})
    BY DEF NoSupply
  <2>. HIDE DEF V, Read
  <2> QED
    BY <1>2, <2>1
<1>4. ASSUME NEW s \in SUBSET D, NEW v \in V, s # {}, <<s \ {Max(s)}, v>> \in W
      PROVE  <<s, TradeRow(v, q[Max(s)])>> \in W
  <2>. DEFINE m == Max(s)
              w == TradeRow(v, q[m])
              u == s \ {m}
  <2>1. IsFiniteSet(D) /\ D \subseteq Int /\ D = 1..n
    BY FirstNumbers
  <2>2. IsFiniteSet(s) /\ s \subseteq Int
    BY <2>1, FS_Subset
  <2>3. m \in s /\ \A i \in s : i <= m
    BY <1>4, <2>2, Extremes
  <2>4. Read(v, u)
    BY <1>4
  <2>5. w.oem = (IF q[m].common \/ v.oem = "UNKNOWN" THEN q[m].oem ELSE v.oem)
    BY DEF TradeRow
  <2>6. q[m] \in R
    BY <2>3
  <2>7. w \in V
    BY <1>1, <2>6
  <2>8. m \in 1..n /\ s \subseteq 1..n /\ u = s \ {m}
    BY <2>1, <2>3
  <2>. HIDE DEF m, w, u, V, D, none
  <2>9. n \in s /\ q[n].common => w.oem = q[n].oem
    BY <2>3, <2>5, <2>8
  <2>10. ASSUME n > 1, n - 1 \in s, q[n - 1].common, q[n - 1].oem = "UNKNOWN"
         PROVE  w.oem = IF n \in s THEN q[n].oem ELSE "UNKNOWN"
    <3>1. CASE n \in s
      <4>1. m = n /\ n - 1 \in u /\ n \notin u
        BY <2>3, <2>8, <2>10, <3>1
      <4>2. v.oem = "UNKNOWN"
        BY <2>4, <2>10, <4>1
      <4> QED
        BY <2>5, <3>1, <4>1, <4>2
    <3>2. CASE n \notin s
      <4>1. m = n - 1
        BY <2>3, <2>8, <2>10, <3>2
      <4> QED
        BY <2>5, <2>10, <3>2, <4>1
    <3> QED
      BY <3>1, <3>2
  <2>11. ASSUME none, q[1].oem # "UNKNOWN", 1 \in s PROVE w.oem = q[1].oem
    <3>1. CASE m = 1
      <4>1. u = {}
        BY <2>3, <2>8, <3>1
      <4> QED
        BY <2>4, <2>5, <3>1, <4>1
    <3>2. CASE m # 1
      <4>1. v.oem = q[1].oem
        BY <2>4, <2>8, <2>11, <3>2
      <4>2. ~q[m].common
        BY <2>3, <2>11 DEF none
      <4> QED
        BY <2>5, <2>11, <4>1, <4>2
    <3> QED
      BY <3>1, <3>2
  <2>12. Read(w, s)
    BY <1>4, <2>9, <2>10, <2>11
  <2>. HIDE DEF Read
  <2> QED
    BY <2>7, <2>12 DEF m, w
<1>5. last \in V /\ <<D, last>> \in W
  <2>. HIDE DEF V, W
  <2> QED
    BY <1>1, <1>2, <1>3, <1>4, TradeFolded
<1>6. Read(last, D)
  BY <1>5
<1>7. D = 1..n
  OBVIOUS
<1>. HIDE DEF last, D
<1>8. n \in D /\ 1 \in D /\ (n > 1 => n - 1 \in D)
  BY <1>7
<1> QED
  BY <1>6, <1>8 DEF last, D

\* A list with two places exchanged.
Exchanged(s, i, j) == [k \in DOMAIN s |-> s[IF k = i THEN j ELSE IF k = j THEN i ELSE k]]

\* It is the list in another order; so is one in another order of that.
LEMMA OrdersReached ==
  ASSUME NEW R, NEW s \in Seq(R), NEW q \in OrdersOf(s)
  PROVE  /\ q \in Seq(R) /\ Len(q) = Len(s) /\ DOMAIN q = DOMAIN s
         /\ {q[i] : i \in DOMAIN q} = {s[i] : i \in DOMAIN s}
         /\ \A i, j \in DOMAIN s : Exchanged(q, i, j) \in OrdersOf(s)
<1>. DEFINE D == DOMAIN s
<1>1. PICK f \in Surjection(D, D) : q = [i \in D |-> s[f[i]]]
  BY DEF OrdersOf
<1>2. f \in [D -> D] /\ \A w \in D : \E v \in D : f[v] = w
  BY DEF Surjection
<1>3. Len(s) \in Nat /\ D = 1..Len(s) /\ \A i \in D : s[i] \in R
  OBVIOUS
<1>4. DOMAIN q = D /\ \A i \in D : q[i] = s[f[i]] /\ q[i] \in R
  BY <1>1, <1>2, <1>3
<1>5. q \in Seq(R) /\ Len(q) = Len(s)
  <2>. DEFINE n == Len(s)
  <2>1. n \in Nat /\ q = [i \in 1..n |-> q[i]] /\ \A i \in 1..n : q[i] \in R
    BY <1>1, <1>3, <1>4
  <2>. HIDE DEF n
  <2>2. q \in Seq(R) /\ Len(q) = n
    BY <2>1
  <2> QED
    BY <2>2 DEF n
<1>6. {q[i] : i \in DOMAIN q} = {s[i] : i \in D}
  BY <1>2, <1>4
<1>7. ASSUME NEW i \in D, NEW j \in D PROVE Exchanged(q, i, j) \in OrdersOf(s)
  <2>. DEFINE at(k) == IF k = i THEN j ELSE IF k = j THEN i ELSE k
              g == [k \in D |-> f[at(k)]]
  <2>1. \A k \in D : at(k) \in D /\ at(at(k)) = k
    OBVIOUS
  <2>2. Exchanged(q, i, j) = [k \in D |-> q[at(k)]]
    BY <1>4 DEF Exchanged
  <2>. HIDE DEF at
  <2>3. g \in [D -> D] /\ \A k \in D : g[k] = f[at(k)]
    BY <1>2, <2>1
  <2>4. ASSUME NEW w \in D PROVE \E v \in D : g[v] = w
    <3>1. PICK x \in D : f[x] = w
      BY <1>2
    <3>2. at(x) \in D /\ g[at(x)] = w
      BY <2>1, <2>3, <3>1
    <3> QED
      BY <3>2
  <2>5. g \in Surjection(D, D)
    BY <2>3, <2>4 DEF Surjection
  <2>6. Exchanged(q, i, j) = [k \in D |-> s[g[k]]]
    BY <1>4, <2>1, <2>2, <2>3
  <2> QED
    BY <2>5, <2>6 DEF OrdersOf
<1> QED
  BY <1>3, <1>4, <1>5, <1>6, <1>7

LEMMA OrderItself ==
  ASSUME NEW R, NEW s \in Seq(R)
  PROVE  s \in OrdersOf(s)
<1>. DEFINE D == DOMAIN s
            f == [i \in D |-> i]
<1>1. f \in Surjection(D, D)
  BY DEF Surjection
<1>2. s = [i \in D |-> s[f[i]]]
  OBVIOUS
<1> QED
  BY <1>1, <1>2 DEF OrdersOf

\* Every reading of the rows is what some order of them gives.
LEMMA ReadingsReached ==
  ASSUME NEW R, NEW C, TradeRows(R), NEW trade \in Seq(R), NEW capabilities \in Seq(C),
         NEW v \in StatusReadings({trade[i] : i \in DOMAIN trade})
  PROVE  \E q \in OrdersOf(trade) : SupplyProfile(q, capabilities).oem = v
<1>. DEFINE D == DOMAIN trade
            n == Len(trade)
            rows == {trade[i] : i \in D}
            common == {r \in rows : r.common}
            said == {r.oem : r \in rows \ common} \ {"UNKNOWN"}
            open == \E r \in common : r.oem = "UNKNOWN"
            status(q) == FoldLeft(TradeRow, NoSupply, q).oem
<1>1. n \in Nat /\ D = 1..n /\ \A i \in D : trade[i] \in R
  OBVIOUS
<1>2. \A q \in OrdersOf(trade) :
        /\ q \in Seq(R) /\ Len(q) = n /\ DOMAIN q = D /\ {q[i] : i \in D} = rows
        /\ \A i, j \in D : Exchanged(q, i, j) \in OrdersOf(trade)
  <2>. SUFFICES ASSUME NEW q \in OrdersOf(trade)
                PROVE  /\ q \in Seq(R) /\ Len(q) = n /\ DOMAIN q = D /\ {q[i] : i \in D} = rows
                       /\ \A i, j \in D : Exchanged(q, i, j) \in OrdersOf(trade)
    OBVIOUS
  <2>1. /\ q \in Seq(R) /\ Len(q) = Len(trade) /\ DOMAIN q = DOMAIN trade
        /\ {q[i] : i \in DOMAIN q} = {trade[i] : i \in DOMAIN trade}
        /\ \A i, j \in DOMAIN trade : Exchanged(q, i, j) \in OrdersOf(trade)
    BY OrdersReached
  <2> QED
    BY <2>1
<1>3. \A q \in OrdersOf(trade) : SupplyProfile(q, capabilities).oem = status(q)
  <2>. SUFFICES ASSUME NEW q \in OrdersOf(trade) PROVE SupplyProfile(q, capabilities).oem = status(q)
    OBVIOUS
  <2>1. q \in Seq(R)
    BY <1>2
  <2>2. ReadOut(SupplyProfile(q, capabilities), q, capabilities)
    BY <2>1, SupplyOfRows
  <2> QED
    BY <2>2 DEF ReadOut
<1>4. trade \in OrdersOf(trade)
  BY OrderItself
<1>5. \A q \in OrdersOf(trade) : n > 0 =>
        /\ q[n].common => status(q) = q[n].oem
        /\ n > 1 /\ q[n - 1].common /\ q[n - 1].oem = "UNKNOWN" => status(q) = q[n].oem
        /\ (\A i \in D : ~q[i].common) /\ q[1].oem # "UNKNOWN" => status(q) = q[1].oem
  <2>. SUFFICES ASSUME NEW q \in OrdersOf(trade), n > 0
                PROVE  /\ q[n].common => status(q) = q[n].oem
                       /\ n > 1 /\ q[n - 1].common /\ q[n - 1].oem = "UNKNOWN" => status(q) = q[n].oem
                       /\ (\A i \in D : ~q[i].common) /\ q[1].oem # "UNKNOWN" => status(q) = q[1].oem
    OBVIOUS
  <2>1. q \in Seq(R) /\ Len(q) = n /\ DOMAIN q = D
    BY <1>2
  <2>. HIDE DEF n, D
  <2> QED
    BY <1>1, <2>1, StatusOfOrder
<1>6. v \in IF common = {} THEN IF said = {} THEN {"UNKNOWN"} ELSE said
            ELSE {r.oem : r \in common} \cup (IF open THEN said ELSE {})
  BY DEF StatusReadings
<1>7. \A x \in rows : \E i \in D : trade[i] = x
  OBVIOUS
<1>8. \A x \in said : x # "UNKNOWN" /\ \E r \in rows : ~r.common /\ r.oem = x
  OBVIOUS
<1>9. status(trade) \in StatusReadings(rows)
  <2>1. SupplyProfile(trade, capabilities).oem \in StatusReadings(rows)
    BY SupplyOfRows DEF ReadOut
  <2> QED
    BY <1>3, <1>4, <2>1
<1>10. \A q : \A i, j \in D : DOMAIN q = D =>
         /\ Exchanged(q, i, j)[j] = q[i] /\ Exchanged(q, i, j)[i] = q[j]
         /\ \A k \in D \ {i, j} : Exchanged(q, i, j)[k] = q[k]
  BY DEF Exchanged
<1>. SUFFICES \E q \in OrdersOf(trade) : status(q) = v
  BY <1>3
<1>11. ASSUME NEW r \in common, v = r.oem PROVE \E q \in OrdersOf(trade) : status(q) = v
  <2>1. PICK i \in D : trade[i] = r
    BY <1>7
  <2>2. n \in D /\ n > 0
    BY <1>1, <2>1
  <2>. DEFINE q == Exchanged(trade, i, n)
  <2>3. q \in OrdersOf(trade) /\ q[n] = r
    BY <1>2, <1>4, <1>10, <2>1, <2>2
  <2>. HIDE DEF q
  <2> QED
    BY <1>5, <1>11, <2>2, <2>3
<1>12. ASSUME common = {}, v \in said PROVE \E q \in OrdersOf(trade) : status(q) = v
  <2>1. PICK r \in rows : r.oem = v /\ v # "UNKNOWN"
    BY <1>8, <1>12
  <2>2. PICK i \in D : trade[i] = r
    BY <1>7
  <2>3. 1 \in D /\ n > 0
    BY <1>1, <2>2
  <2>. DEFINE q == Exchanged(trade, i, 1)
  <2>4. q \in OrdersOf(trade) /\ q[1] = r
    BY <1>2, <1>4, <1>10, <2>2, <2>3
  <2>. HIDE DEF q
  <2>5. \A k \in D : q[k] \in rows
    BY <1>2, <2>4
  <2>6. \A k \in D : ~q[k].common
    BY <1>12, <2>5
  <2> QED
    BY <1>5, <2>1, <2>3, <2>4, <2>6
<1>13. ASSUME open, v \in said PROVE \E q \in OrdersOf(trade) : status(q) = v
  <2>1. PICK r \in rows : ~r.common /\ r.oem = v
    BY <1>8, <1>13
  <2>2. PICK x \in rows : x.common /\ x.oem = "UNKNOWN"
    BY <1>13
  <2>3. PICK i \in D : trade[i] = r
    BY <1>7
  <2>4. PICK j \in D : trade[j] = x
    BY <1>7
  <2>5. i # j
    BY <2>1, <2>2, <2>3, <2>4
  <2>6. n > 1 /\ n \in D /\ n - 1 \in D /\ n - 1 # n /\ i \in D /\ j \in D
    <3>1. i \in 1..n /\ j \in 1..n
      BY <1>1, <2>3, <2>4
    <3>. HIDE DEF n
    <3>2. n > 1 /\ n \in 1..n /\ n - 1 \in 1..n /\ n - 1 # n
      BY <1>1, <2>5, <3>1
    <3> QED
      BY <1>1, <3>1, <3>2
  <2>. DEFINE q == Exchanged(trade, i, n)
              h == IF j = n THEN i ELSE j
              o == Exchanged(q, h, n - 1)
  <2>7. q \in OrdersOf(trade) /\ q[n] = r /\ DOMAIN q = D
    BY <1>2, <1>4, <1>10, <2>3, <2>6
  <2>8. h \in D /\ h # n /\ q[h] = x
    <3>1. DOMAIN trade = D
      OBVIOUS
    <3>2. q[n] = trade[i] /\ q[i] = trade[n] /\ \A k \in D \ {i, n} : q[k] = trade[k]
      BY <1>10, <2>6, <3>1
    <3>. HIDE DEF q, D, n
    <3>3. CASE j = n
      BY <2>4, <2>5, <2>6, <3>2, <3>3
    <3>4. CASE j # n
      BY <2>4, <2>5, <2>6, <3>2, <3>4
    <3> QED
      BY <3>3, <3>4
  <2>. HIDE DEF q, h
  <2>9. o \in OrdersOf(trade) /\ o[n - 1] = x /\ o[n] = r
    <3>. HIDE DEF n, D
    <3>1. o \in OrdersOf(trade)
      BY <1>2, <2>6, <2>7, <2>8
    <3>2. o[n - 1] = q[h]
      BY <1>10, <2>6, <2>7, <2>8
    <3>3. n \in D \ {h, n - 1}
      BY <2>6, <2>8
    <3>4. o[n] = q[n]
      BY <1>10, <2>6, <2>7, <2>8, <3>3
    <3> QED
      BY <2>7, <2>8, <3>1, <3>2, <3>4
  <2>. HIDE DEF o
  <2> QED
    BY <1>5, <2>1, <2>2, <2>6, <2>9
<1>14. ASSUME common = {}, said = {} PROVE \E q \in OrdersOf(trade) : status(q) = v
  <2>1. v = "UNKNOWN"
    BY <1>6, <1>14
  <2>2. status(trade) = "UNKNOWN"
    BY <1>9, <1>14 DEF StatusReadings
  <2> QED
    BY <1>4, <2>1, <2>2
<1> QED
  <2>1. common # {} /\ v \notin said => \E r \in common : v = r.oem
    BY <1>6
  <2>2. common # {} /\ v \in said => open \/ \E r \in common : v = r.oem
    BY <1>6
  <2>3. common = {} /\ said # {} => v \in said
    BY <1>6
  <2>. HIDE DEF common, said, open, status
  <2> QED
    BY <1>11, <1>12, <1>13, <1>14, <2>1, <2>2, <2>3

\* What is settled of the conditions of an exhibitor, and what its rows leave open.
SettledOf(p, trade, capabilities) ==
  LET rows == {trade[i] : i \in DOMAIN trade}
      more == {capabilities[i] : i \in DOMAIN capabilities}
  IN /\ p.oem \in StatusReadings(rows)
     /\ \A v \in StatusReadings(rows) :
          \E q \in OrdersOf(trade) : SupplyProfile(q, capabilities).oem = v
     /\ \A r \in rows : r.moq # None => p.moq # None /\ p.moq <= r.moq
     /\ p.moq # None => \E r \in rows : r.moq = p.moq
     /\ p.channels = UNION {r.channels : r \in rows}
     /\ p.regions = (UNION {r.regions : r \in rows}) \cup UNION {c.regions : c \in more}

LEMMA SupplyConfined ==
  ASSUME NEW R, NEW C, TradeRows(R), NEW trade \in Seq(R), NEW capabilities \in Seq(C)
  PROVE  SettledOf(SupplyProfile(trade, capabilities), trade, capabilities)
<1>. DEFINE p == SupplyProfile(trade, capabilities)
<1>. HIDE DEF p
<1>0. ReadOut(p, trade, capabilities)
  BY SupplyOfRows DEF p
<1>. SUFFICES SettledOf(p, trade, capabilities)
  BY DEF p
<1>. DEFINE rows == {trade[i] : i \in DOMAIN trade}
            more == {capabilities[i] : i \in DOMAIN capabilities}
<1>1. /\ {r.channels : r \in rows} = {trade[i].channels : i \in DOMAIN trade}
      /\ {r.regions : r \in rows} = {trade[i].regions : i \in DOMAIN trade}
      /\ {c.regions : c \in more} = {capabilities[i].regions : i \in DOMAIN capabilities}
  OBVIOUS
<1>2. \A v \in StatusReadings(rows) : \E q \in OrdersOf(trade) : SupplyProfile(q, capabilities).oem = v
  BY ReadingsReached
<1>3. /\ p.oem \in StatusReadings(rows)
      /\ \A i \in DOMAIN trade : trade[i].moq # None => p.moq # None /\ p.moq <= trade[i].moq
      /\ p.moq # None => \E i \in DOMAIN trade : trade[i].moq = p.moq
      /\ p.channels = UNION {trade[i].channels : i \in DOMAIN trade}
      /\ p.regions = (UNION {trade[i].regions : i \in DOMAIN trade})
                     \cup UNION {capabilities[i].regions : i \in DOMAIN capabilities}
  BY <1>0 DEF ReadOut
<1>4. /\ \A r \in rows : r.moq # None => p.moq # None /\ p.moq <= r.moq
      /\ p.moq # None => \E r \in rows : r.moq = p.moq
  BY <1>3
<1> QED
  BY <1>1, <1>2, <1>3, <1>4 DEF SettledOf

-----------------------------------------------------------------------------
(* Rankings.                                                                *)

\* The order of a key, from the largest, in which equal ones are told apart by number.
KeyAbove(S, key) == [d \in S |-> {c \in S : key[c] > key[d] \/ (key[c] = key[d] /\ c < d)}]

LEMMA KeyOrders ==
  ASSUME NEW S, S \subseteq Int, NEW key, \A c \in S : key[c] \in Int
  PROVE  Orders(S, KeyAbove(S, key))
<1>. DEFINE before(c, d) == key[c] > key[d] \/ (key[c] = key[d] /\ c < d)
            below == KeyAbove(S, key)
<1>1. \A c, d \in S : c \in below[d] <=> before(c, d)
  BY DEF KeyAbove
<1>2. below \in [S -> SUBSET S]
  BY DEF KeyAbove
<1>. HIDE DEF below
<1>3. \A c \in S : c \notin below[c]
  BY <1>1
<1>4. \A c, d \in S : c # d => c \in below[d] \/ d \in below[c]
  BY <1>1
<1>5. ASSUME NEW c \in S, NEW d \in S, c \in below[d], NEW b \in below[c] PROVE b \in below[d]
  <2>1. b \in S
    BY <1>2
  <2>2. before(b, c) /\ before(c, d)
    BY <1>1, <1>5, <2>1
  <2>. DEFINE x == key[b]
              y == key[c]
              z == key[d]
  <2>3. x \in Int /\ y \in Int /\ z \in Int /\ b \in Int /\ c \in Int /\ d \in Int
    BY <2>1
  <2>4. (x > y \/ (x = y /\ b < c)) /\ (y > z \/ (y = z /\ c < d))
    BY <2>2
  <2>. HIDE DEF x, y, z
  <2>5. x > z \/ (x = z /\ b < d)
    BY <2>3, <2>4
  <2>6. before(b, d)
    BY <2>5 DEF x, z
  <2> QED
    BY <1>1, <2>1, <2>6
<1> QED
  BY <1>2, <1>3, <1>4, <1>5 DEF Orders, below

\* An order of T is one of what stands for T.
PulledBack(S, f, below) == [x \in S |-> {y \in S : f[y] \in below[f[x]]}]

LEMMA OrderPulledBack ==
  ASSUME NEW S, NEW T, NEW f \in [S -> T], \A x, y \in S : f[x] = f[y] => x = y,
         NEW below, Orders(T, below)
  PROVE  Orders(S, PulledBack(S, f, below))
<1>. DEFINE back == PulledBack(S, f, below)
<1>1. /\ back \in [S -> SUBSET S]
      /\ \A x, y \in S : y \in back[x] <=> f[y] \in below[f[x]]
  BY DEF PulledBack
<1>2. /\ \A x \in T : x \notin below[x]
      /\ \A x, y \in T : x # y => x \in below[y] \/ y \in below[x]
      /\ \A x, y \in T : x \in below[y] => below[x] \subseteq below[y]
  BY DEF Orders
<1>. HIDE DEF back
<1>3. \A x \in S : f[x] \in T
  OBVIOUS
<1>4. \A x \in S : x \notin back[x]
  BY <1>1, <1>2, <1>3
<1>5. \A x, y \in S : x # y => x \in back[y] \/ y \in back[x]
  BY <1>1, <1>2, <1>3
<1>6. \A x, y \in S : x \in back[y] => back[x] \subseteq back[y]
  <2>. SUFFICES ASSUME NEW x \in S, NEW y \in S, x \in back[y], NEW z \in back[x] PROVE z \in back[y]
    OBVIOUS
  <2>1. z \in S
    BY <1>1
  <2>2. f[z] \in below[f[x]] /\ f[x] \in below[f[y]]
    BY <1>1, <2>1
  <2>3. f[z] \in below[f[y]]
    BY <1>2, <1>3, <2>2
  <2> QED
    BY <1>1, <2>1, <2>3
<1> QED
  BY <1>1, <1>4, <1>5, <1>6 DEF Orders, back

\* Who has so many before it has the place after them.
LEMMA PlaceIsRank ==
  ASSUME NEW S, IsFiniteSet(S), NEW below, Orders(S, below), NEW order, Lists(order, S, below),
         NEW x \in S
  PROVE  /\ Cardinality(below[x]) + 1 \in 1..Cardinality(S)
         /\ \A k \in 1..Cardinality(S) : Cardinality(below[x]) = k - 1 <=> order[k] = x
<1>. DEFINE n == Cardinality(S)
<1>1. PICK i \in DOMAIN order : order[i] = x
  BY ListedOnce
<1>2. DOMAIN order = 1..n /\ \A j, k \in DOMAIN order : order[j] = order[k] => j = k
  BY ListedOnce
<1>3. Cardinality(below[x]) = i - 1
  BY <1>1, <1>2 DEF Lists
<1>4. i \in 1..n /\ n \in Nat
  BY <1>1, <1>2, FS_CardinalityType
<1>. HIDE DEF n
<1>5. Cardinality(below[x]) + 1 \in 1..n
  BY <1>3, <1>4
<1>6. ASSUME NEW k \in 1..n PROVE Cardinality(below[x]) = k - 1 <=> order[k] = x
  <2>1. i - 1 = k - 1 <=> i = k
    BY <1>4
  <2> QED
    BY <1>1, <1>2, <1>3, <1>4, <1>6, <2>1
<1> QED
  BY <1>5, <1>6 DEF n

\* Those of some ids whose entry passed.
PassedOf(ids, entries) ==
  {ids[i] : i \in {j \in DOMAIN ids : entries[ids[j]].recalled /\ entries[ids[j]].passed}}

IdsOf(ids) == {ids[i] : i \in DOMAIN ids}

ScoresOf(D, entries) == [d \in D |-> entries[d].score]

\* Candidates of D, no two of the same id, are given in some order.
Commanded(ids, D, entries) ==
  /\ ids \in Seq(D) /\ D \subseteq Int /\ \A i, j \in DOMAIN ids : ids[i] = ids[j] => i = j
  /\ \A d \in D : entries[d].score \in Int

\* The ranking is the order by score of those that passed, whatever the order the
\* candidates were given in.
LEMMA RankingOf ==
  ASSUME NEW ids, NEW D, NEW entries, Commanded(ids, D, entries),
         NEW I, I = PassedOf(ids, entries),
         NEW r, r = ExecuteMatching(CommandOf(ids, entries))
  PROVE  /\ IsFiniteSet(I) /\ I \subseteq D /\ Lists(r.ranked, I, KeyAbove(I, ScoresOf(D, entries)))
         /\ r.excluded = IdsOf(ids) \ I
<1>. DEFINE command == CommandOf(ids, entries)
            L == DOMAIN ids
            in == {i \in L : entries[ids[i]].recalled /\ entries[ids[i]].passed}
            key == ScoresOf(D, entries)
            below == KeyAbove(I, key)
            f == [i \in in |-> ids[i]]
            back == PulledBack(in, f, below)
            e(k) == CHOOSE x \in in : Cardinality({y \in in : ByScore(command[y], command[x])}) = k - 1
            order == [k \in 1..Cardinality(in) |-> e(k)]
<1>1. /\ D \subseteq Int /\ \A i, j \in L : ids[i] = ids[j] => i = j
      /\ \A d \in D : entries[d].score \in Int
      /\ \A i \in L : ids[i] \in D
      /\ IsFiniteSet(L)
  <2>1. ids \in Seq(D)
    BY DEF Commanded
  <2>2. Len(ids) \in Nat /\ L = 1..Len(ids) /\ \A i \in L : ids[i] \in D
    BY <2>1
  <2>3. IsFiniteSet(L)
    BY <2>2, FirstNumbers
  <2> QED
    BY <2>2, <2>3 DEF Commanded
<1>2. /\ DOMAIN command = L
      /\ \A i \in L : /\ command[i].id = ids[i] /\ command[i].score = entries[ids[i]].score
                      /\ command[i].recalled = entries[ids[i]].recalled
                      /\ command[i].passed = entries[ids[i]].passed
  BY DEF CommandOf
<1>3. in = {i \in DOMAIN command : command[i].recalled /\ command[i].passed}
  <2>. HIDE DEF command
  <2> QED
    BY <1>2
<1>4. /\ r.ranked = [k \in DOMAIN order |-> command[order[k]].id]
      /\ r.excluded = {command[i].id : i \in L \ in}
  <2>. DEFINE there == {i \in DOMAIN command : command[i].recalled /\ command[i].passed}
              places == [k \in 1..Cardinality(there) |->
                           CHOOSE x \in there :
                             Cardinality({y \in there : ByScore(command[y], command[x])}) = k - 1]
  <2>1. /\ r.ranked = [k \in DOMAIN places |-> command[places[k]].id]
        /\ r.excluded = {command[i].id : i \in DOMAIN command \ there}
    BY DEF ExecuteMatching, Arranged
  <2>2. there = in
    BY <1>3
  <2>. HIDE DEF there, command, in
  <2>3. places = order
    BY <2>2
  <2>4. DOMAIN command \ there = L \ in
    BY <1>2, <2>2
  <2>. HIDE DEF places, order
  <2> QED
    BY <2>1, <2>3, <2>4
<1>5. in \subseteq L /\ IsFiniteSet(in) /\ I = {f[i] : i \in in}
  BY <1>1, FS_Subset DEF PassedOf
<1>6. f \in [in -> I] /\ (\A i \in in : f[i] = ids[i]) /\ \A i, j \in in : f[i] = f[j] => i = j
  BY <1>1, <1>5
<1>7. I \subseteq D
  <2>1. \A i \in in : f[i] \in D
    BY <1>1, <1>5, <1>6
  <2>. HIDE DEF f
  <2> QED
    BY <1>5, <2>1
<1>8. \A d \in D : key[d] = entries[d].score /\ key[d] \in Int
  BY <1>1 DEF ScoresOf
<1>9. Orders(I, below)
  <2>. HIDE DEF key
  <2>1. I \subseteq Int /\ \A d \in I : key[d] \in Int
    BY <1>1, <1>7, <1>8
  <2> QED
    BY <2>1, KeyOrders
<1>10. f = [i \in in |-> f[i]]
  OBVIOUS
<1>11. \A d \in I : below[d] = {c \in I : key[c] > key[d] \/ (key[c] = key[d] /\ c < d)}
  BY DEF KeyAbove
<1>12. \A i \in in : back[i] = {j \in in : f[j] \in below[f[i]]}
  BY DEF PulledBack
<1>. HIDE DEF f, key, below, in, command, L, order
<1>13. Orders(in, back)
  BY <1>6, <1>9, OrderPulledBack
<1>14. IsFiniteSet(I) /\ Cardinality(I) = Cardinality(in)
  BY <1>5, <1>6, <1>10, ImageOf
<1>. HIDE DEF back
<1>15. \A i \in in : back[i] = {j \in in : ByScore(command[j], command[i])}
  <2>1. ASSUME NEW i \in in, NEW j \in in
        PROVE  f[j] \in below[f[i]] <=> ByScore(command[j], command[i])
    <3>1. i \in L /\ j \in L /\ f[i] \in I /\ f[j] \in I /\ f[i] = ids[i] /\ f[j] = ids[j]
      BY <1>5, <1>6
    <3>2. /\ key[f[i]] = command[i].score /\ key[f[j]] = command[j].score
          /\ command[i].id = f[i] /\ command[j].id = f[j]
      BY <1>2, <1>7, <1>8, <3>1
    <3> QED
      BY <1>11, <3>1, <3>2 DEF ByScore
  <2> QED
    BY <1>12, <2>1
<1>16. \A k : (\E x \in in : Cardinality(back[x]) = k - 1) => e(k) \in in /\ Cardinality(back[e(k)]) = k - 1
  <2>. SUFFICES ASSUME NEW k, \E x \in in : Cardinality(back[x]) = k - 1
                PROVE  e(k) \in in /\ Cardinality(back[e(k)]) = k - 1
    OBVIOUS
  <2>1. \E x \in in : Cardinality({y \in in : ByScore(command[y], command[x])}) = k - 1
    BY <1>15
  <2>2. e(k) \in in /\ Cardinality({y \in in : ByScore(command[y], command[e(k)])}) = k - 1
    BY <2>1
  <2>. HIDE DEF e
  <2> QED
    BY <1>15, <2>2
<1>17. Lists(order, in, back)
  <2>. DEFINE n == Cardinality(in)
  <2>1. order = [k \in 1..n |-> e(k)]
    BY DEF order
  <2>. HIDE DEF e
  <2>2. /\ order = [k \in 1..n |-> order[k]]
        /\ \A k \in 1..n : (\E x \in in : Cardinality(back[x]) = k - 1)
             => order[k] \in in /\ Cardinality(back[order[k]]) = k - 1
    BY <1>16, <2>1
  <2> QED
    BY <1>5, <1>13, <2>2, Listing
<1>18. ASSUME NEW i \in in PROVE Cardinality(below[f[i]]) = Cardinality(back[i])
  <2>. DEFINE S == back[i]
              g == [j \in S |-> f[j]]
              T == below[f[i]]
  <2>1. S \subseteq in /\ f[i] \in I /\ T \subseteq I
    BY <1>6, <1>11, <1>12
  <2>2. IsFiniteSet(S)
    BY <1>5, <2>1, FS_Subset
  <2>3. T = {f[j] : j \in S}
    <3>1. \A d \in T : \E j \in in : d = f[j]
      BY <1>5, <2>1
    <3>2. \A j \in in : j \in S <=> f[j] \in T
      BY <1>12
    <3>. HIDE DEF S, T
    <3> QED
      BY <2>1, <3>1, <3>2
  <2>. HIDE DEF S, T
  <2>4. T = {g[j] : j \in S} /\ g = [j \in S |-> g[j]]
    BY <2>3
  <2>5. \A x, y \in S : g[x] = g[y] => x = y
    BY <1>6, <2>1
  <2>. HIDE DEF g
  <2>6. Cardinality({g[j] : j \in S}) = Cardinality(S)
    BY <2>2, <2>4, <2>5, ImageOf
  <2> QED
    BY <2>4, <2>6 DEF S, T
<1>19. Lists(r.ranked, I, below)
  <2>. DEFINE n == Cardinality(in)
              s == r.ranked
  <2>1. DOMAIN order = 1..n /\ \A k \in 1..n : order[k] \in in /\ Cardinality(back[order[k]]) = k - 1
    BY <1>17 DEF Lists
  <2>2. s = [k \in 1..n |-> command[order[k]].id]
    BY <1>4, <2>1
  <2>3. \A k \in 1..n : s[k] = f[order[k]]
    <3>1. TAKE k \in 1..n
    <3>2. order[k] \in in /\ order[k] \in L
      BY <1>5, <2>1
    <3> QED
      BY <1>2, <1>6, <2>2, <3>2
  <2>4. s = [k \in 1..n |-> s[k]]
    BY <2>2
  <2>. HIDE DEF s
  <2>5. \A k \in 1..n : s[k] \in I /\ Cardinality(below[s[k]]) = k - 1
    BY <1>6, <1>18, <2>1, <2>3
  <2> QED
    BY <1>14, <2>4, <2>5 DEF Lists, s
<1>20. r.excluded = {ids[i] : i \in L} \ I
  <2>1. {command[i].id : i \in L \ in} = {ids[i] : i \in L \ in}
    BY <1>2
  <2>2. \A i \in L : ids[i] \in I <=> i \in in
    BY <1>1, <1>5, <1>6
  <2>3. {ids[i] : i \in L \ in} = {ids[i] : i \in L} \ I
    BY <2>2
  <2> QED
    BY <1>4, <2>1, <2>3
<1> QED
  BY <1>7, <1>14, <1>19, <1>20 DEF below, key, L, IdsOf

\* A list without one of its members.
LEMMA WithoutOne ==
  ASSUME NEW D, NEW ids \in Seq(D), NEW i \in DOMAIN ids, NEW w, w = RemoveAt(ids, i)
  PROVE  /\ w \in Seq(D) /\ DOMAIN w = 1..(Len(ids) - 1) /\ Len(ids) \in Nat /\ DOMAIN ids = 1..Len(ids)
         /\ \A k \in DOMAIN w : w[k] = ids[IF k < i THEN k ELSE k + 1]
<1>. DEFINE n == Len(ids)
            a == SubSeq(ids, 1, i - 1)
            b == SubSeq(ids, i + 1, n)
<1>1. n \in Nat /\ DOMAIN ids = 1..n /\ i \in 1..n
  OBVIOUS
<1>2. a \in Seq(D) /\ Len(a) = i - 1 /\ \A k \in 1..(i - 1) : a[k] = ids[k]
  BY <1>1
<1>3. b \in Seq(D) /\ Len(b) = n - i /\ \A k \in 1..(n - i) : b[k] = ids[k + i]
  BY <1>1
<1>4. w = a \o b
  BY DEF RemoveAt
<1>. HIDE DEF a, b, n
<1>5. w \in Seq(D) /\ Len(w) = n - 1
  <2>1. a \in Seq(D) /\ b \in Seq(D)
    BY <1>2, <1>3
  <2>2. w \in Seq(D) /\ Len(w) = Len(a) + Len(b)
    BY <1>4, <2>1
  <2>3. Len(a) = i - 1 /\ Len(b) = n - i /\ i \in Int /\ n \in Int
    BY <1>1, <1>2, <1>3
  <2> QED
    BY <2>2, <2>3
<1>6. DOMAIN w = 1..(n - 1)
  BY <1>5
<1>7. ASSUME NEW k \in 1..(n - 1) PROVE w[k] = ids[IF k < i THEN k ELSE k + 1]
  <2>1. CASE k < i
    <3>1. k \in 1..Len(a)
      BY <1>1, <1>2, <2>1
    <3>2. w[k] = a[k]
      BY <1>2, <1>3, <1>4, <3>1
    <3>3. a[k] = ids[k]
      BY <1>2, <3>1
    <3> QED
      BY <2>1, <3>2, <3>3
  <2>2. CASE ~(k < i)
    <3>1. k - Len(a) \in 1..(n - i) /\ k > Len(a) /\ k <= Len(a) + Len(b) /\ (k - Len(a)) + i = k + 1
      BY <1>1, <1>2, <1>3, <2>2
    <3>2. w[k] = b[k - Len(a)]
      <4>1. a \in Seq(D) /\ b \in Seq(D) /\ Len(b) \in Nat /\ Len(a) \in Nat
        BY <1>2, <1>3
      <4>2. k \in (Len(a) + 1)..(Len(a) + Len(b))
        BY <1>3, <3>1, <4>1
      <4> QED
        BY <1>4, <4>1, <4>2
    <3>3. b[k - Len(a)] = ids[(k - Len(a)) + i]
      <4>. DEFINE h == k - Len(a)
      <4>1. h \in 1..(n - i)
        BY <3>1
      <4>. HIDE DEF h
      <4>2. b[h] = ids[h + i]
        BY <1>3, <4>1
      <4> QED
        BY <4>2 DEF h
    <3> QED
      BY <2>2, <3>1, <3>2, <3>3
  <2> QED
    BY <2>1, <2>2
<1> QED
  BY <1>1, <1>5, <1>6, <1>7 DEF n

\* A case whose rows or candidates may come in any order: rows as they are stored, or a
\* permutation of the candidates.
InAnyOrder(t) ==
  /\ t.kind = "supply" =>
       \E R, C : TradeRows(R) /\ t.trade \in Seq(R) /\ t.capabilities \in Seq(C)
  /\ t.kind = "command" =>
       \E n \in Nat : Len(t.ids) = n /\ Commanded(t.ids, 1..n, t.entries)

\* Who passed is the same in whatever order, and without one that did not.
LEMMA PassedInOrder ==
  ASSUME NEW n \in Nat, NEW ids, Len(ids) = n, NEW entries, Commanded(ids, 1..n, entries),
         NEW same, same = [i \in DOMAIN ids |-> i]
  PROVE  /\ Commanded(same, 1..n, entries) /\ PassedOf(same, entries) = PassedOf(ids, entries)
         /\ IdsOf(same) = IdsOf(ids)
<1>. DEFINE D == 1..n
<1>1. /\ ids \in Seq(D) /\ DOMAIN ids = D /\ \A i, j \in D : ids[i] = ids[j] => i = j
      /\ \A d \in D : entries[d].score \in Int
  BY DEF Commanded
<1>2. ids \in [D -> D]
  BY <1>1
<1>3. same \in Seq(D) /\ DOMAIN same = D /\ \A i \in D : same[i] = i
  BY <1>1
<1>4. IsFiniteSet(D) /\ D \subseteq Int
  BY FirstNumbers
<1>. HIDE DEF D
<1>5. ids \in Injection(D, D)
  BY <1>1, <1>2 DEF Injection, IsInjective
<1>6. ids \in Surjection(D, D)
  BY <1>4, <1>5, FS_Injection
<1>7. \A d \in D : \E i \in D : ids[i] = d
  BY <1>6 DEF Surjection
<1>8. \A i \in D : ids[i] \in D
  BY <1>2
<1>9. PassedOf(same, entries) = PassedOf(ids, entries)
  <2>1. ASSUME NEW d PROVE d \in PassedOf(ids, entries) <=> d \in D /\ entries[d].recalled /\ entries[d].passed
    <3>1. ASSUME d \in D /\ entries[d].recalled /\ entries[d].passed PROVE d \in PassedOf(ids, entries)
      <4>1. PICK i \in D : ids[i] = d
        BY <1>7, <3>1
      <4>2. i \in {j \in DOMAIN ids : entries[ids[j]].recalled /\ entries[ids[j]].passed}
        BY <1>1, <3>1, <4>1
      <4> QED
        BY <4>1, <4>2 DEF PassedOf
    <3>2. ASSUME d \in PassedOf(ids, entries) PROVE d \in D /\ entries[d].recalled /\ entries[d].passed
      <4>1. PICK i \in DOMAIN ids : d = ids[i] /\ entries[ids[i]].recalled /\ entries[ids[i]].passed
        BY <3>2 DEF PassedOf
      <4> QED
        BY <1>1, <1>8, <4>1
    <3> QED
      BY <3>1, <3>2
  <2>2. ASSUME NEW d PROVE d \in PassedOf(same, entries) <=> d \in D /\ entries[d].recalled /\ entries[d].passed
    BY <1>3 DEF PassedOf
  <2> QED
    BY <2>1, <2>2
<1>10. {same[i] : i \in DOMAIN same} = {ids[i] : i \in DOMAIN ids}
  <2>. DEFINE X == {same[i] : i \in DOMAIN same}
              Y == {ids[i] : i \in DOMAIN ids}
  <2>1. \A d : d \in X <=> d \in D
    BY <1>3
  <2>2. \A d : d \in Y <=> \E i \in D : d = ids[i]
    BY <1>1
  <2>3. \A d : d \in Y <=> d \in D
    BY <1>7, <1>8, <2>2
  <2>. HIDE DEF X, Y
  <2>4. X = Y
    BY <2>1, <2>3
  <2> QED
    BY <2>4 DEF X, Y
<1>11. Commanded(same, D, entries)
  BY <1>1, <1>3, <1>4 DEF Commanded
<1> QED
  BY <1>9, <1>10, <1>11 DEF D, IdsOf

LEMMA PassedWithout ==
  ASSUME NEW D, NEW ids, NEW entries, Commanded(ids, D, entries),
         NEW i \in DOMAIN ids, ids[i] \notin PassedOf(ids, entries), NEW w, w = RemoveAt(ids, i)
  PROVE  Commanded(w, D, entries) /\ PassedOf(w, entries) = PassedOf(ids, entries)
<1>. DEFINE n == Len(ids)
            at(k) == IF k < i THEN k ELSE k + 1
<1>1. /\ ids \in Seq(D) /\ D \subseteq Int /\ \A k, j \in DOMAIN ids : ids[k] = ids[j] => k = j
      /\ \A d \in D : entries[d].score \in Int
  BY DEF Commanded
<1>2. /\ w \in Seq(D) /\ DOMAIN w = 1..(n - 1) /\ n \in Nat /\ DOMAIN ids = 1..n
      /\ \A k \in DOMAIN w : w[k] = ids[at(k)]
  BY <1>1, WithoutOne
<1>. HIDE DEF n
<1>3. i \in 1..n
  BY <1>2
<1>4. /\ \A k \in 1..(n - 1) : at(k) \in 1..n /\ at(k) # i
      /\ \A k, j \in 1..(n - 1) : at(k) = at(j) => k = j
      /\ \A k \in 1..n : k # i => \E j \in 1..(n - 1) : at(j) = k
  <2>1. \A k \in 1..(n - 1) : at(k) \in 1..n /\ at(k) # i
    BY <1>2, <1>3
  <2>2. \A k, j \in 1..(n - 1) : at(k) = at(j) => k = j
    BY <1>2, <1>3
  <2>3. ASSUME NEW k \in 1..n, k # i PROVE \E j \in 1..(n - 1) : at(j) = k
    <3>1. CASE k < i
      <4>1. k \in 1..(n - 1) /\ at(k) = k
        BY <1>2, <1>3, <3>1
      <4> QED
        BY <4>1
    <3>2. CASE ~(k < i)
      <4>1. k - 1 \in 1..(n - 1) /\ at(k - 1) = k
        BY <1>2, <1>3, <2>3, <3>2
      <4> QED
        BY <4>1
    <3> QED
      BY <3>1, <3>2
  <2> QED
    BY <2>1, <2>2, <2>3
<1>. HIDE DEF at
<1>5. \A k, j \in DOMAIN w : w[k] = w[j] => k = j
  BY <1>1, <1>2, <1>4
<1>6. Commanded(w, D, entries)
  BY <1>1, <1>2, <1>5 DEF Commanded
<1>7. PassedOf(w, entries) \subseteq PassedOf(ids, entries)
  BY <1>2, <1>4 DEF PassedOf
<1>8. ASSUME NEW d \in PassedOf(ids, entries) PROVE d \in PassedOf(w, entries)
  <2>1. PICK k \in DOMAIN ids : d = ids[k] /\ entries[ids[k]].recalled /\ entries[ids[k]].passed
    BY DEF PassedOf
  <2>2. k # i /\ k \in 1..n
    BY <1>2, <2>1
  <2>3. PICK j \in 1..(n - 1) : at(j) = k
    BY <1>4, <2>2
  <2>4. j \in DOMAIN w /\ w[j] = d
    BY <1>2, <2>1, <2>3
  <2> QED
    BY <2>1, <2>4 DEF PassedOf
<1> QED
  BY <1>6, <1>7, <1>8

\* Whatever the rows of an exhibitor and the candidates of a command, and in whatever
\* order they are given: the least order, the channels and the regions are those of all
\* rows, the statuses are one of their readings, each of which some order of the rows
\* gives, and the ranking is the same, without those that are left out as with them
\* (OrderConfined).
THEOREM OrderAlwaysConfined ==
  ASSUME NEW CONSTANT cases, \A t \in cases : InAnyOrder(t)
  PROVE  Stages(cases) => []OrderConfined
<1>1. Computed(cases) => OrderConfined
  <2>. SUFFICES ASSUME Computed(cases), result # None PROVE OrderConfined
    BY DEF OrderConfined, SupplyOfAllRows, RankingDeterministic
  <2>0. InAnyOrder(task)
    BY DEF Computed
  <2>1. SupplyOfAllRows
    <3>. SUFFICES ASSUME task.kind = "supply" PROVE SupplyOfAllRows
      BY DEF SupplyOfAllRows
    <3>1. PICK R, C : TradeRows(R) /\ task.trade \in Seq(R) /\ task.capabilities \in Seq(C)
      BY <2>0 DEF InAnyOrder
    <3>2. result = SupplyProfile(task.trade, task.capabilities)
      BY DEF Computed
    <3>3. SettledOf(SupplyProfile(task.trade, task.capabilities), task.trade, task.capabilities)
      BY <3>1, SupplyConfined
    <3> QED
      BY <3>2, <3>3 DEF SupplyOfAllRows, SettledOf
  <2>2. RankingDeterministic
    <3>. SUFFICES ASSUME task.kind = "command" PROVE RankingDeterministic
      BY DEF RankingDeterministic
    <3>. DEFINE ids == task.ids
                entries == task.entries
                same == [i \in DOMAIN ids |-> i]
                I == PassedOf(ids, entries)
                executed(s) == ExecuteMatching(CommandOf(s, entries))
    <3>1. PICK n \in Nat : Len(ids) = n /\ Commanded(ids, 1..n, entries)
      BY <2>0 DEF InAnyOrder
    <3>. DEFINE D == 1..n
                below == KeyAbove(I, ScoresOf(D, entries))
    <3>2. result = executed(ids)
      BY DEF Computed
    <3>3. /\ Commanded(same, D, entries) /\ PassedOf(same, entries) = I
          /\ IdsOf(same) = IdsOf(ids)
      <4>1. same = [i \in DOMAIN ids |-> i]
        OBVIOUS
      <4>. HIDE DEF ids, entries, same
      <4>2. Commanded(same, 1..n, entries) /\ PassedOf(same, entries) = PassedOf(ids, entries)
        BY <3>1, <4>1, PassedInOrder
      <4>3. IdsOf(same) = IdsOf(ids)
        BY <3>1, <4>1, PassedInOrder
      <4> QED
        BY <4>2, <4>3
    <3>. HIDE DEF ids, entries, D, same, I, executed
    <3>4. /\ IsFiniteSet(I) /\ I \subseteq D /\ Lists(result.ranked, I, below)
          /\ result.excluded = IdsOf(ids) \ I
      BY <3>1, <3>2, RankingOf DEF I, executed, D
    <3>5. \A s : Commanded(s, D, entries) /\ PassedOf(s, entries) = I
                   => /\ Lists(executed(s).ranked, I, below)
                      /\ executed(s).excluded = IdsOf(s) \ I
      BY RankingOf DEF executed
    <3>6. Orders(I, below)
      <4>1. /\ \A d \in D : ScoresOf(D, entries)[d] = entries[d].score /\ entries[d].score \in Int
            /\ D \subseteq Int
        BY <3>1 DEF ScoresOf, Commanded, D
      <4>2. I \subseteq Int /\ \A d \in I : ScoresOf(D, entries)[d] \in Int
        BY <3>4, <4>1
      <4> QED
        BY <4>2, KeyOrders
    <3>. HIDE DEF below
    <3>7. \A q : Lists(q, I, below) => q = result.ranked
      <4>. SUFFICES ASSUME NEW q, Lists(q, I, below) PROVE q = result.ranked
        OBVIOUS
      <4>. DEFINE m == Cardinality(I)
                  a == result.ranked
      <4>1. /\ q = [k \in 1..m |-> q[k]] /\ a = [k \in 1..m |-> a[k]]
            /\ \A k \in 1..m : q[k] \in I /\ Cardinality(below[q[k]]) = k - 1
        BY <3>4 DEF Lists
      <4>. HIDE DEF m, a
      <4>2. \A k \in 1..m : a[k] = q[k]
        BY <3>4, <3>6, <4>1, PlaceIsRank DEF m, a
      <4>3. q = a
        BY <4>1, <4>2
      <4> QED
        BY <4>3 DEF a
    <3>8. executed(same).ranked = result.ranked /\ executed(same).excluded = result.excluded
      BY <3>3, <3>4, <3>5, <3>7
    <3>9. executed(same) = result
      <4>1. \A s : executed(s) = [ranked |-> executed(s).ranked, excluded |-> executed(s).excluded]
        BY DEF executed, ExecuteMatching
      <4>2. result = [ranked |-> result.ranked, excluded |-> result.excluded]
        BY <3>2, <4>1
      <4> QED
        BY <3>8, <4>1, <4>2
    <3>10. ASSUME NEW i \in DOMAIN ids, ids[i] \in result.excluded
           PROVE  executed(RemoveAt(ids, i)).ranked = result.ranked
      <4>1. ids[i] \notin I
        BY <3>4, <3>10 DEF IdsOf
      <4>2. Commanded(RemoveAt(ids, i), D, entries) /\ PassedOf(RemoveAt(ids, i), entries) = I
        BY <3>1, <4>1, PassedWithout DEF I, D
      <4> QED
        BY <3>5, <3>7, <4>2
    <3> QED
      BY <3>9, <3>10 DEF RankingDeterministic, executed, same, ids, entries
  <2> QED
    BY <2>1, <2>2 DEF OrderConfined
<1> QED
  BY <1>1, StagesCompute, PTL

-----------------------------------------------------------------------------
(* The pool of candidates.                                                  *)

\* A set of numbers put in the order of a key, or of themselves.
LEMMA SortedLists ==
  ASSUME NEW S, IsFiniteSet(S), S \subseteq Int, NEW key, \A c \in S : key[c] \in Int
  PROVE  Lists(Sorted(S, key), S, KeyAbove(S, key))
<1>. DEFINE before(c, d) == key[c] > key[d] \/ (key[c] = key[d] /\ c < d)
            below == KeyAbove(S, key)
            order == Sorted(S, key)
            e(k) == CHOOSE x \in S : Cardinality({y \in S : before(y, x)}) = k - 1
            m == Cardinality(S)
<1>1. Orders(S, below)
  BY KeyOrders
<1>2. \A x \in S : below[x] = {y \in S : before(y, x)}
  BY DEF KeyAbove
<1>3. order = [k \in 1..m |-> e(k)]
  BY DEF Sorted, Arranged
<1>. HIDE DEF below, m, before, order
<1>4. \A k : (\E x \in S : Cardinality(below[x]) = k - 1) => e(k) \in S /\ Cardinality(below[e(k)]) = k - 1
  <2>. SUFFICES ASSUME NEW k, \E x \in S : Cardinality(below[x]) = k - 1
                PROVE  e(k) \in S /\ Cardinality(below[e(k)]) = k - 1
    OBVIOUS
  <2>1. \E x \in S : Cardinality({y \in S : before(y, x)}) = k - 1
    BY <1>2
  <2>2. e(k) \in S /\ Cardinality({y \in S : before(y, e(k))}) = k - 1
    BY <2>1
  <2>. HIDE DEF e
  <2> QED
    BY <1>2, <2>2
<1>. HIDE DEF e
<1>5. /\ order = [k \in 1..m |-> order[k]]
      /\ \A k \in 1..m : (\E x \in S : Cardinality(below[x]) = k - 1)
           => order[k] \in S /\ Cardinality(below[order[k]]) = k - 1
  BY <1>3, <1>4
<1> QED
  BY <1>1, <1>5, Listing DEF m, order, below

LEMMA SortedIn ==
  ASSUME NEW S, IsFiniteSet(S), S \subseteq Int, NEW key, \A c \in S : key[c] \in Int
  PROVE  Sorted(S, key) \in Seq(S)
<1>. DEFINE below == KeyAbove(S, key)
            order == Sorted(S, key)
<1>1. Orders(S, below) /\ Lists(order, S, below)
  BY KeyOrders, SortedLists
<1>. HIDE DEF below, order
<1>2. order \in Seq(S)
  BY <1>1, ListedOnce
<1> QED
  BY <1>2 DEF order

LEMMA NumbersIn ==
  ASSUME NEW S, IsFiniteSet(S), S \subseteq Int
  PROVE  ByIdentity(S) \in Seq(S)
<1>. DEFINE key == [c \in S |-> 0]
            a == Sorted(S, key)
            b == ByIdentity(S)
            m == Cardinality(S)
            u(k) == CHOOSE x \in S :
                      Cardinality({y \in S : key[y] > key[x] \/ (key[y] = key[x] /\ y < x)}) = k - 1
            v(k) == CHOOSE x \in S : Cardinality({y \in S : y < x}) = k - 1
<1>1. a \in Seq(S)
  BY SortedIn
<1>2. a = [k \in 1..m |-> u(k)]
  BY DEF Sorted, Arranged
<1>3. b = [k \in 1..m |-> v(k)]
  BY DEF ByIdentity, Arranged
<1>4. \A x \in S : {y \in S : key[y] > key[x] \/ (key[y] = key[x] /\ y < x)} = {y \in S : y < x}
  OBVIOUS
<1>. HIDE DEF a, b, m, key
<1>5. \A k : u(k) = v(k)
  BY <1>4
<1>. HIDE DEF u, v
<1>6. a = b
  BY <1>2, <1>3, <1>5
<1> QED
  BY <1>1, <1>6 DEF b

\* The smaller of two numbers.
LEMMA SmallerOf ==
  ASSUME NEW a \in Int, NEW b \in Int
  PROVE  Min({a, b}) = IF a <= b THEN a ELSE b
<1>1. IsFiniteSet({a, b}) /\ {a, b} # {} /\ {a, b} \subseteq Int
  <2>1. IsFiniteSet({a} \cup {b}) /\ {a, b} = {a} \cup {b}
    BY FS_AddElement, FS_Singleton
  <2> QED
    BY <2>1
<1>2. Min({a, b}) \in {a, b} /\ Min({a, b}) <= a /\ Min({a, b}) <= b
  BY <1>1, Extremes
<1> QED
  BY <1>2

\* The first so many of a list.
LEMMA FirstIn ==
  ASSUME NEW S, NEW seq \in Seq(S), NEW n \in Nat, n <= Len(seq)
  PROVE  SubSeq(seq, 1, n) \in Seq(S)
  OBVIOUS

LEMMA FirstMany ==
  ASSUME NEW S, NEW seq \in Seq(S), NEW n \in Nat, n <= Len(seq)
  PROVE  DOMAIN SubSeq(seq, 1, n) = 1..n
  OBVIOUS

LEMMA FirstPlaces ==
  ASSUME NEW S, NEW seq \in Seq(S), NEW n \in Nat, n <= Len(seq), NEW i \in 1..n
  PROVE  SubSeq(seq, 1, n)[i] = seq[i]
  OBVIOUS

\* Among some places of a list, the last is one of them.
LEMMA LastOfPlaces ==
  ASSUME NEW E, NEW seq \in Seq(E)
  PROVE  \A s \in SUBSET DOMAIN seq : s # {} => Max(s) \in s /\ \A i \in s : i <= Max(s)
<1>. SUFFICES ASSUME NEW s \in SUBSET DOMAIN seq, s # {} PROVE Max(s) \in s /\ \A i \in s : i <= Max(s)
  OBVIOUS
<1>1. IsFiniteSet(DOMAIN seq) /\ DOMAIN seq \subseteq Int
  BY FirstNumbers
<1>2. IsFiniteSet(s) /\ s \subseteq Int
  BY <1>1, FS_Subset
<1> QED
  BY <1>2, Extremes

\* What found, taken and picked candidates add up to.
Taken(base, seq, limit, channel) == FoldLeft(LAMBDA s, c : Take(s, c, limit, channel), base, seq)
Picked(pool, base, seq) == FoldLeft(LAMBDA s, c : Pick(pool, s, c), base, seq)

\* A channel keeps what it makes of a start in V, and W of it after the candidates at a
\* set of places.
FoundKeeps(E, seq, V, base, channel, W) ==
  /\ base \in V /\ <<{}, base>> \in W
  /\ \A v \in V, x \in E : Found(v, x, channel) \in V
  /\ \A s \in SUBSET (DOMAIN seq) : \A v \in V :
       s # {} /\ <<s \ {Max(s)}, v>> \in W => <<s, Found(v, seq[Max(s)], channel)>> \in W

LEMMA FoundFolded ==
  ASSUME NEW E, NEW seq \in Seq(E), NEW V, NEW base, NEW channel, NEW W,
         FoundKeeps(E, seq, V, base, channel, W)
  PROVE  Enter(base, seq, channel) \in V /\ <<DOMAIN seq, Enter(base, seq, channel)>> \in W
<1>. base \in V /\ <<{}, base>> \in W
  BY DEF FoundKeeps
<1>. DEFINE D == DOMAIN seq
            op(v, x) == Found(v, x, channel)
            F == [q \in V \X D |-> op(q[1], seq[q[2]])]
            Eq(g) == g = [s \in SUBSET D |-> IF s = {} THEN base
                                             ELSE op(g[s \ {Max(s)}], seq[Max(s)])]
            k == CHOOSE g : Eq(g)
            X == {q \in (SUBSET D) \X V : q \in W}
            both == [s \in SUBSET D |-> <<s, k[s]>>]
<1>1. IsFiniteSet(D) /\ D \subseteq Int /\ \A i \in D : seq[i] \in E
  BY FirstNumbers
<1>2. \A v \in V : \A i \in D : op(v, seq[i]) \in V
  BY <1>1 DEF FoundKeeps
<1>3. Enter(base, seq, channel) = k[D]
  BY DEF Enter, FoldLeft, MapThenFoldSet
<1>4. \A s \in SUBSET D : \A v \in V :
        s # {} /\ <<s \ {Max(s)}, v>> \in W => <<s, op(v, seq[Max(s)])>> \in W
  BY DEF FoundKeeps
<1>. HIDE DEF D, op
<1>5. F \in [V \X D -> V] /\ \A v \in V : \A i \in D : F[<<v, i>>] = op(v, seq[i])
  BY <1>2
<1>. HIDE DEF F
<1>6. PICK h : Folds(h, D, V, base, F)
  BY <1>1, <1>5, FoldExists
<1>7. /\ h \in [SUBSET D -> V]
      /\ \A s \in SUBSET D : h[s] = IF s = {} THEN base ELSE F[<<h[s \ {Max(s)}], Max(s)>>]
  BY <1>6 DEF Folds
<1>8. \A s \in SUBSET D : s # {} => Max(s) \in D /\ s \ {Max(s)} \in SUBSET D
  <2>. SUFFICES ASSUME NEW s \in SUBSET D, s # {} PROVE Max(s) \in D
    OBVIOUS
  <2>1. IsFiniteSet(s)
    BY <1>1, FS_Subset
  <2>2. Max(s) \in s
    BY <1>1, <2>1, Extremes
  <2> QED
    BY <2>2
<1>9. Eq(h)
  <2>1. ASSUME NEW s \in SUBSET D
        PROVE  h[s] = IF s = {} THEN base ELSE op(h[s \ {Max(s)}], seq[Max(s)])
    <3>1. CASE s = {}
      BY <1>7, <3>1
    <3>2. CASE s # {}
      <4>. DEFINE m == Max(s)
                  u == s \ {m}
      <4>1. m \in D /\ u \in SUBSET D
        BY <1>8, <3>2
      <4>2. h[s] = F[<<h[u], m>>]
        BY <1>7, <3>2
      <4>. HIDE DEF m, u
      <4>3. h[u] \in V
        BY <1>7, <4>1
      <4>4. h[s] = op(h[u], seq[m])
        BY <1>5, <4>1, <4>2, <4>3
      <4> QED
        BY <3>2, <4>4 DEF u, m
    <3> QED
      BY <3>1, <3>2
  <2> QED
    BY <1>7, <2>1
<1>10. Eq(k)
  <2>. HIDE DEF Eq
  <2> QED
    BY <1>9
<1>. HIDE DEF k
<1>11. /\ k[{}] = base
       /\ \A s \in SUBSET D : s # {} => k[s] = op(k[s \ {Max(s)}], seq[Max(s)])
  BY <1>10
<1>. HIDE DEF Eq
<1>12. both[D] \in X
  <2>1. both[{}] \in X
    <3>1. {} \in SUBSET D /\ both[{}] = <<{}, base>>
      BY <1>11
    <3> QED
      BY <3>1
  <2>2. ASSUME NEW s \in SUBSET D, s # {}, both[s \ {Max(s)}] \in X PROVE both[s] \in X
    <3>. DEFINE m == Max(s)
                u == s \ {m}
                v == k[u]
    <3>1. m \in D /\ u \in SUBSET D /\ k[s] = op(v, seq[m])
      BY <1>8, <1>11, <2>2
    <3>2. both[u] = <<u, v>> /\ both[s] = <<s, k[s]>>
      BY <3>1
    <3>3. v \in V /\ <<u, v>> \in W
      BY <2>2, <3>2
    <3>4. <<s, op(v, seq[m])>> \in W
      BY <1>4, <2>2, <3>3
    <3>. HIDE DEF m, u, v
    <3>5. op(v, seq[m]) \in V
      BY <1>2, <3>1, <3>3
    <3>. HIDE DEF both
    <3> QED
      BY <3>1, <3>2, <3>4, <3>5
  <2>. HIDE DEF X, both
  <2> QED
    BY <1>1, <2>1, <2>2, FoldWithin
<1>13. both[D] = <<D, k[D]>>
  OBVIOUS
<1>14. k[D] \in V /\ <<D, k[D]>> \in W
  BY <1>12, <1>13
<1> QED
  BY <1>3, <1>14 DEF D

\* The same of a channel with a limit.
TakeKeeps(E, seq, V, base, limit, channel, W) ==
  /\ base \in V /\ <<{}, base>> \in W
  /\ \A v \in V, x \in E : Take(v, x, limit, channel) \in V
  /\ \A s \in SUBSET (DOMAIN seq) : \A v \in V :
       s # {} /\ <<s \ {Max(s)}, v>> \in W => <<s, Take(v, seq[Max(s)], limit, channel)>> \in W

LEMMA TakenFolded ==
  ASSUME NEW E, NEW seq \in Seq(E), NEW V, NEW base, NEW limit, NEW channel, NEW W,
         TakeKeeps(E, seq, V, base, limit, channel, W)
  PROVE  Taken(base, seq, limit, channel) \in V /\ <<DOMAIN seq, Taken(base, seq, limit, channel)>> \in W
<1>. base \in V /\ <<{}, base>> \in W
  BY DEF TakeKeeps
<1>. DEFINE D == DOMAIN seq
            op(v, x) == Take(v, x, limit, channel)
            F == [q \in V \X D |-> op(q[1], seq[q[2]])]
            Eq(g) == g = [s \in SUBSET D |-> IF s = {} THEN base
                                             ELSE op(g[s \ {Max(s)}], seq[Max(s)])]
            k == CHOOSE g : Eq(g)
            X == {q \in (SUBSET D) \X V : q \in W}
            both == [s \in SUBSET D |-> <<s, k[s]>>]
<1>1. IsFiniteSet(D) /\ D \subseteq Int /\ \A i \in D : seq[i] \in E
  BY FirstNumbers
<1>2. \A v \in V : \A i \in D : op(v, seq[i]) \in V
  BY <1>1 DEF TakeKeeps
<1>3. Taken(base, seq, limit, channel) = k[D]
  BY DEF Taken, FoldLeft, MapThenFoldSet
<1>4. \A s \in SUBSET D : \A v \in V :
        s # {} /\ <<s \ {Max(s)}, v>> \in W => <<s, op(v, seq[Max(s)])>> \in W
  BY DEF TakeKeeps
<1>. HIDE DEF D, op
<1>5. F \in [V \X D -> V] /\ \A v \in V : \A i \in D : F[<<v, i>>] = op(v, seq[i])
  BY <1>2
<1>. HIDE DEF F
<1>6. PICK h : Folds(h, D, V, base, F)
  BY <1>1, <1>5, FoldExists
<1>7. /\ h \in [SUBSET D -> V]
      /\ \A s \in SUBSET D : h[s] = IF s = {} THEN base ELSE F[<<h[s \ {Max(s)}], Max(s)>>]
  BY <1>6 DEF Folds
<1>8. \A s \in SUBSET D : s # {} => Max(s) \in D /\ s \ {Max(s)} \in SUBSET D
  <2>. SUFFICES ASSUME NEW s \in SUBSET D, s # {} PROVE Max(s) \in D
    OBVIOUS
  <2>1. IsFiniteSet(s)
    BY <1>1, FS_Subset
  <2>2. Max(s) \in s
    BY <1>1, <2>1, Extremes
  <2> QED
    BY <2>2
<1>9. Eq(h)
  <2>1. ASSUME NEW s \in SUBSET D
        PROVE  h[s] = IF s = {} THEN base ELSE op(h[s \ {Max(s)}], seq[Max(s)])
    <3>1. CASE s = {}
      BY <1>7, <3>1
    <3>2. CASE s # {}
      <4>. DEFINE m == Max(s)
                  u == s \ {m}
      <4>1. m \in D /\ u \in SUBSET D
        BY <1>8, <3>2
      <4>2. h[s] = F[<<h[u], m>>]
        BY <1>7, <3>2
      <4>. HIDE DEF m, u
      <4>3. h[u] \in V
        BY <1>7, <4>1
      <4>4. h[s] = op(h[u], seq[m])
        BY <1>5, <4>1, <4>2, <4>3
      <4> QED
        BY <3>2, <4>4 DEF u, m
    <3> QED
      BY <3>1, <3>2
  <2> QED
    BY <1>7, <2>1
<1>10. Eq(k)
  <2>. HIDE DEF Eq
  <2> QED
    BY <1>9
<1>. HIDE DEF k
<1>11. /\ k[{}] = base
       /\ \A s \in SUBSET D : s # {} => k[s] = op(k[s \ {Max(s)}], seq[Max(s)])
  BY <1>10
<1>. HIDE DEF Eq
<1>12. both[D] \in X
  <2>1. both[{}] \in X
    <3>1. {} \in SUBSET D /\ both[{}] = <<{}, base>>
      BY <1>11
    <3> QED
      BY <3>1
  <2>2. ASSUME NEW s \in SUBSET D, s # {}, both[s \ {Max(s)}] \in X PROVE both[s] \in X
    <3>. DEFINE m == Max(s)
                u == s \ {m}
                v == k[u]
    <3>1. m \in D /\ u \in SUBSET D /\ k[s] = op(v, seq[m])
      BY <1>8, <1>11, <2>2
    <3>2. both[u] = <<u, v>> /\ both[s] = <<s, k[s]>>
      BY <3>1
    <3>3. v \in V /\ <<u, v>> \in W
      BY <2>2, <3>2
    <3>4. <<s, op(v, seq[m])>> \in W
      BY <1>4, <2>2, <3>3
    <3>. HIDE DEF m, u, v
    <3>5. op(v, seq[m]) \in V
      BY <1>2, <3>1, <3>3
    <3>. HIDE DEF both
    <3> QED
      BY <3>1, <3>2, <3>4, <3>5
  <2>. HIDE DEF X, both
  <2> QED
    BY <1>1, <2>1, <2>2, FoldWithin
<1>13. both[D] = <<D, k[D]>>
  OBVIOUS
<1>14. k[D] \in V /\ <<D, k[D]>> \in W
  BY <1>12, <1>13
<1> QED
  BY <1>3, <1>14 DEF D

\* The same of the hits of the semantic channel.
PickKeeps(E, seq, V, base, pool, W) ==
  /\ base \in V /\ <<{}, base>> \in W
  /\ \A v \in V, x \in E : Pick(pool, v, x) \in V
  /\ \A s \in SUBSET (DOMAIN seq) : \A v \in V :
       s # {} /\ <<s \ {Max(s)}, v>> \in W => <<s, Pick(pool, v, seq[Max(s)])>> \in W

LEMMA PickFolded ==
  ASSUME NEW E, NEW seq \in Seq(E), NEW V, NEW base, NEW pool, NEW W,
         PickKeeps(E, seq, V, base, pool, W)
  PROVE  Picked(pool, base, seq) \in V /\ <<DOMAIN seq, Picked(pool, base, seq)>> \in W
<1>. base \in V /\ <<{}, base>> \in W
  BY DEF PickKeeps
<1>. DEFINE D == DOMAIN seq
            op(v, x) == Pick(pool, v, x)
            F == [q \in V \X D |-> op(q[1], seq[q[2]])]
            Eq(g) == g = [s \in SUBSET D |-> IF s = {} THEN base
                                             ELSE op(g[s \ {Max(s)}], seq[Max(s)])]
            k == CHOOSE g : Eq(g)
            X == {q \in (SUBSET D) \X V : q \in W}
            both == [s \in SUBSET D |-> <<s, k[s]>>]
<1>1. IsFiniteSet(D) /\ D \subseteq Int /\ \A i \in D : seq[i] \in E
  BY FirstNumbers
<1>2. \A v \in V : \A i \in D : op(v, seq[i]) \in V
  BY <1>1 DEF PickKeeps
<1>3. Picked(pool, base, seq) = k[D]
  BY DEF Picked, FoldLeft, MapThenFoldSet
<1>4. \A s \in SUBSET D : \A v \in V :
        s # {} /\ <<s \ {Max(s)}, v>> \in W => <<s, op(v, seq[Max(s)])>> \in W
  BY DEF PickKeeps
<1>. HIDE DEF D, op
<1>5. F \in [V \X D -> V] /\ \A v \in V : \A i \in D : F[<<v, i>>] = op(v, seq[i])
  BY <1>2
<1>. HIDE DEF F
<1>6. PICK h : Folds(h, D, V, base, F)
  BY <1>1, <1>5, FoldExists
<1>7. /\ h \in [SUBSET D -> V]
      /\ \A s \in SUBSET D : h[s] = IF s = {} THEN base ELSE F[<<h[s \ {Max(s)}], Max(s)>>]
  BY <1>6 DEF Folds
<1>8. \A s \in SUBSET D : s # {} => Max(s) \in D /\ s \ {Max(s)} \in SUBSET D
  <2>. SUFFICES ASSUME NEW s \in SUBSET D, s # {} PROVE Max(s) \in D
    OBVIOUS
  <2>1. IsFiniteSet(s)
    BY <1>1, FS_Subset
  <2>2. Max(s) \in s
    BY <1>1, <2>1, Extremes
  <2> QED
    BY <2>2
<1>9. Eq(h)
  <2>1. ASSUME NEW s \in SUBSET D
        PROVE  h[s] = IF s = {} THEN base ELSE op(h[s \ {Max(s)}], seq[Max(s)])
    <3>1. CASE s = {}
      BY <1>7, <3>1
    <3>2. CASE s # {}
      <4>. DEFINE m == Max(s)
                  u == s \ {m}
      <4>1. m \in D /\ u \in SUBSET D
        BY <1>8, <3>2
      <4>2. h[s] = F[<<h[u], m>>]
        BY <1>7, <3>2
      <4>. HIDE DEF m, u
      <4>3. h[u] \in V
        BY <1>7, <4>1
      <4>4. h[s] = op(h[u], seq[m])
        BY <1>5, <4>1, <4>2, <4>3
      <4> QED
        BY <3>2, <4>4 DEF u, m
    <3> QED
      BY <3>1, <3>2
  <2> QED
    BY <1>7, <2>1
<1>10. Eq(k)
  <2>. HIDE DEF Eq
  <2> QED
    BY <1>9
<1>. HIDE DEF k
<1>11. /\ k[{}] = base
       /\ \A s \in SUBSET D : s # {} => k[s] = op(k[s \ {Max(s)}], seq[Max(s)])
  BY <1>10
<1>. HIDE DEF Eq
<1>12. both[D] \in X
  <2>1. both[{}] \in X
    <3>1. {} \in SUBSET D /\ both[{}] = <<{}, base>>
      BY <1>11
    <3> QED
      BY <3>1
  <2>2. ASSUME NEW s \in SUBSET D, s # {}, both[s \ {Max(s)}] \in X PROVE both[s] \in X
    <3>. DEFINE m == Max(s)
                u == s \ {m}
                v == k[u]
    <3>1. m \in D /\ u \in SUBSET D /\ k[s] = op(v, seq[m])
      BY <1>8, <1>11, <2>2
    <3>2. both[u] = <<u, v>> /\ both[s] = <<s, k[s]>>
      BY <3>1
    <3>3. v \in V /\ <<u, v>> \in W
      BY <2>2, <3>2
    <3>4. <<s, op(v, seq[m])>> \in W
      BY <1>4, <2>2, <3>3
    <3>. HIDE DEF m, u, v
    <3>5. op(v, seq[m]) \in V
      BY <1>2, <3>1, <3>3
    <3>. HIDE DEF both
    <3> QED
      BY <3>1, <3>2, <3>4, <3>5
  <2>. HIDE DEF X, both
  <2> QED
    BY <1>1, <2>1, <2>2, FoldWithin
<1>13. both[D] = <<D, k[D]>>
  OBVIOUS
<1>14. k[D] \in V /\ <<D, k[D]>> \in W
  BY <1>12, <1>13
<1> QED
  BY <1>3, <1>14 DEF D

\* Where the selections are: candidates of I under channels of K.
Selections(I, K) == [order : Seq(I), tags : [I -> SUBSET K], added : Int]

OnceEach(order) == \A i, j \in DOMAIN order : order[i] = order[j] => i = j

\* w is v with one candidate found.
WithFound(I, K, v, c, channel, w) ==
  /\ w \in Selections(I, K)
  /\ w.order = IF \E i \in DOMAIN v.order : v.order[i] = c THEN v.order ELSE Append(v.order, c)
  /\ \A d \in I : w.tags[d] = IF d = c THEN v.tags[d] \cup {channel} ELSE v.tags[d]

LEMMA FoundWhat ==
  ASSUME NEW I, NEW K, NEW v \in Selections(I, K), NEW c \in I, NEW channel \in K
  PROVE  WithFound(I, K, v, c, channel, Found(v, c, channel))
<1>. DEFINE w == Found(v, c, channel)
<1>. DEFINE order == IF c \in ToSet(v.order) THEN v.order ELSE Append(v.order, c)
            tags == [v.tags EXCEPT ![c] = @ \cup {channel}]
<1>1. v = [order |-> v.order, tags |-> v.tags, added |-> v.added]
      /\ v.order \in Seq(I) /\ v.tags \in [I -> SUBSET K] /\ v.added \in Int
  BY DEF Selections
<1>2. w = [order |-> order, tags |-> tags, added |-> v.added]
  <2>1. w = [v EXCEPT !.tags[c] = @ \cup {channel}, !.order = IF c \in ToSet(@) THEN @ ELSE Append(@, c)]
    BY DEF Found
  <2>. HIDE DEF w
  <2> QED
    BY <1>1, <2>1
<1>3. order = IF \E i \in DOMAIN v.order : v.order[i] = c THEN v.order ELSE Append(v.order, c)
  BY DEF ToSet
<1>4. tags \in [I -> SUBSET K]
      /\ \A d \in I : tags[d] = IF d = c THEN v.tags[d] \cup {channel} ELSE v.tags[d]
  BY <1>1
<1>. HIDE DEF order, tags, w
<1>5. order \in Seq(I)
  BY <1>1, <1>3
<1>6. w \in Selections(I, K)
  BY <1>1, <1>2, <1>4, <1>5 DEF Selections
<1>7. WithFound(I, K, v, c, channel, w)
  BY <1>2, <1>3, <1>4, <1>6 DEF WithFound
<1> QED
  BY <1>7 DEF w

\* w has what v has, at the same places, none twice, and v's marks of the channels T.
Built(I, K, v, T, w) ==
  /\ w \in Selections(I, K) /\ OnceEach(w.order)
  /\ Len(v.order) <= Len(w.order) /\ \A i \in 1..Len(v.order) : w.order[i] = v.order[i]
  /\ \A c \in I : \A t \in T : t \in w.tags[c] <=> t \in v.tags[c]

LEMMA FoundBuilds ==
  ASSUME NEW I, NEW K, NEW v \in Selections(I, K), NEW T, NEW w, Built(I, K, v, T, w),
         NEW channel \in K, channel \notin T, NEW c \in I, NEW u, u = Found(w, c, channel)
  PROVE  Built(I, K, v, T, u)
<1>1. /\ w \in Selections(I, K) /\ OnceEach(w.order)
      /\ Len(v.order) <= Len(w.order) /\ \A i \in 1..Len(v.order) : w.order[i] = v.order[i]
      /\ \A d \in I : \A t \in T : t \in w.tags[d] <=> t \in v.tags[d]
  BY DEF Built
<1>2. /\ u \in Selections(I, K)
      /\ u.order = IF \E i \in DOMAIN w.order : w.order[i] = c THEN w.order ELSE Append(w.order, c)
      /\ \A d \in I : u.tags[d] = IF d = c THEN w.tags[d] \cup {channel} ELSE w.tags[d]
  <2>1. WithFound(I, K, w, c, channel, u)
    BY <1>1, FoundWhat
  <2> QED
    BY <2>1 DEF WithFound
<1>3. \A d \in I : \A t \in T : t \in u.tags[d] <=> t \in v.tags[d]
  BY <1>1, <1>2
<1>4. /\ v.order \in Seq(I) /\ Len(v.order) \in Nat
      /\ w.order \in Seq(I) /\ Len(w.order) \in Nat /\ DOMAIN w.order = 1..Len(w.order)
  BY <1>1 DEF Selections
<1>5. /\ OnceEach(u.order) /\ Len(v.order) <= Len(u.order)
      /\ \A i \in 1..Len(v.order) : u.order[i] = v.order[i]
  <2>1. CASE \E i \in DOMAIN w.order : w.order[i] = c
    BY <1>1, <1>2, <2>1
  <2>2. CASE ~ \E i \in DOMAIN w.order : w.order[i] = c
    <3>. DEFINE o == w.order
                n == Len(o)
                a == u.order
                m == Len(v.order)
    <3>1. a = Append(o, c) /\ \A i \in DOMAIN o : o[i] # c
      BY <1>2, <2>2
    <3>2. o \in Seq(I) /\ n \in Nat /\ DOMAIN o = 1..n /\ m \in Nat /\ m <= n
      BY <1>1, <1>4
    <3>3. OnceEach(o) /\ \A i \in 1..m : o[i] = v.order[i]
      BY <1>1
    <3>. HIDE DEF o, a, m
    <3>4. /\ DOMAIN a = 1..(n + 1) /\ Len(a) = n + 1 /\ a[n + 1] = c
          /\ \A i \in 1..n : a[i] = o[i]
      BY <3>1, <3>2
    <3>. HIDE DEF n
    <3>5. OnceEach(a)
      <4>. SUFFICES ASSUME NEW i \in 1..(n + 1), NEW j \in 1..(n + 1), a[i] = a[j] PROVE i = j
        BY <3>4 DEF OnceEach
      <4>1. CASE i \in 1..n /\ j \in 1..n
        BY <3>2, <3>3, <3>4, <4>1 DEF OnceEach
      <4>2. CASE i \in 1..n /\ j = n + 1
        BY <3>1, <3>2, <3>4, <4>2
      <4>3. CASE i = n + 1 /\ j \in 1..n
        BY <3>1, <3>2, <3>4, <4>3
      <4> QED
        BY <3>2, <4>1, <4>2, <4>3
    <3>6. m <= Len(a) /\ \A i \in 1..m : a[i] = v.order[i]
      BY <3>2, <3>3, <3>4
    <3> QED
      BY <3>5, <3>6 DEF a, m
  <2> QED
    BY <2>1, <2>2
<1> QED
  BY <1>2, <1>3, <1>5 DEF Built

LEMMA TakeBuilds ==
  ASSUME NEW I, NEW K, NEW v \in Selections(I, K), NEW T, NEW w, Built(I, K, v, T, w),
         NEW channel \in K, channel \notin T, NEW c \in I, NEW limit
  PROVE  Built(I, K, v, T, Take(w, c, limit, channel))
<1>. DEFINE u == Found(w, c, channel)
            x == [u EXCEPT !.added = @ + 1]
<1>1. Built(I, K, v, T, u)
  BY FoundBuilds
<1>. HIDE DEF u
<1>2. u \in Selections(I, K)
  BY <1>1 DEF Built
<1>3. x \in Selections(I, K) /\ x.order = u.order /\ x.tags = u.tags
  <2>1. u = [order |-> u.order, tags |-> u.tags, added |-> u.added]
        /\ u.order \in Seq(I) /\ u.tags \in [I -> SUBSET K] /\ u.added \in Int
    BY <1>2 DEF Selections
  <2>2. x = [order |-> u.order, tags |-> u.tags, added |-> u.added + 1]
    BY <2>1
  <2>. HIDE DEF x
  <2> QED
    BY <2>1, <2>2 DEF Selections
<1>4. Built(I, K, v, T, x)
  <2>. HIDE DEF x
  <2> QED
    BY <1>1, <1>3 DEF Built
<1>5. Take(w, c, limit, channel) \in {w, u, x}
  BY DEF Take, u
<1>. HIDE DEF x
<1> QED
  BY <1>1, <1>4, <1>5

\* What a channel brings in disturbs none of what is there.
LEMMA EnterBuilds ==
  ASSUME NEW I, NEW K, NEW v \in Selections(I, K), NEW T, NEW w, Built(I, K, v, T, w),
         NEW channel \in K, channel \notin T, NEW seq \in Seq(I)
  PROVE  Built(I, K, v, T, Enter(w, seq, channel))
<1>. DEFINE V == {u \in Selections(I, K) : Built(I, K, v, T, u)}
            W == (SUBSET DOMAIN seq) \X V
<1>1. w \in V
  BY DEF Built
<1>2. \A u \in V, c \in I : Found(u, c, channel) \in V
  <2>. SUFFICES ASSUME NEW u \in V, NEW c \in I PROVE Found(u, c, channel) \in V
    OBVIOUS
  <2>1. Built(I, K, v, T, Found(u, c, channel))
    BY FoundBuilds
  <2>2. Found(u, c, channel) \in Selections(I, K)
    BY <2>1 DEF Built
  <2> QED
    BY <2>1, <2>2
<1>3. <<{}, w>> \in W
  BY <1>1
<1>4. \A i \in DOMAIN seq : seq[i] \in I
  OBVIOUS
<1>5. \A s \in SUBSET DOMAIN seq : s # {} => Max(s) \in s
  BY LastOfPlaces
<1>. HIDE DEF V
<1>6. \A s \in SUBSET DOMAIN seq : \A u \in V :
        s # {} /\ <<s \ {Max(s)}, u>> \in W => <<s, Found(u, seq[Max(s)], channel)>> \in W
  BY <1>2, <1>4, <1>5
<1>. HIDE DEF W
<1>7. FoundKeeps(I, seq, V, w, channel, W)
  BY <1>1, <1>2, <1>3, <1>6 DEF FoundKeeps
<1>8. Enter(w, seq, channel) \in V
  BY <1>7, FoundFolded
<1> QED
  BY <1>8 DEF V

LEMMA ChannelBuilds ==
  ASSUME NEW I, NEW K, NEW v \in Selections(I, K), NEW T, NEW w, Built(I, K, v, T, w),
         NEW channel \in K, channel \notin T, NEW seq \in Seq(I), NEW limit
  PROVE  Built(I, K, v, T, Channel(w, seq, limit, channel))
<1>. DEFINE V == {u \in Selections(I, K) : Built(I, K, v, T, u)}
            W == (SUBSET DOMAIN seq) \X V
            base == [w EXCEPT !.added = 0]
<1>1. base \in V
  <2>1. w = [order |-> w.order, tags |-> w.tags, added |-> w.added]
        /\ w.order \in Seq(I) /\ w.tags \in [I -> SUBSET K]
    BY DEF Built, Selections
  <2>2. base = [order |-> w.order, tags |-> w.tags, added |-> 0]
    BY <2>1
  <2>. HIDE DEF base
  <2>3. base \in Selections(I, K) /\ base.order = w.order /\ base.tags = w.tags
    BY <2>1, <2>2 DEF Selections
  <2>4. Built(I, K, v, T, base)
    BY <2>3 DEF Built
  <2> QED
    BY <2>3, <2>4
<1>. HIDE DEF base
<1>2. \A u \in V, c \in I : Take(u, c, limit, channel) \in V
  <2>. SUFFICES ASSUME NEW u \in V, NEW c \in I PROVE Take(u, c, limit, channel) \in V
    OBVIOUS
  <2>1. Built(I, K, v, T, Take(u, c, limit, channel))
    BY TakeBuilds
  <2>2. Take(u, c, limit, channel) \in Selections(I, K)
    BY <2>1 DEF Built
  <2> QED
    BY <2>1, <2>2
<1>3. <<{}, base>> \in W
  BY <1>1
<1>4. \A i \in DOMAIN seq : seq[i] \in I
  OBVIOUS
<1>5. \A s \in SUBSET DOMAIN seq : s # {} => Max(s) \in s
  BY LastOfPlaces
<1>. HIDE DEF V
<1>6. \A s \in SUBSET DOMAIN seq : \A u \in V :
        s # {} /\ <<s \ {Max(s)}, u>> \in W => <<s, Take(u, seq[Max(s)], limit, channel)>> \in W
  BY <1>2, <1>4, <1>5
<1>. HIDE DEF W
<1>7. TakeKeeps(I, seq, V, base, limit, channel, W)
  BY <1>1, <1>2, <1>3, <1>6 DEF TakeKeeps
<1>8. Taken(base, seq, limit, channel) \in V
  BY <1>7, TakenFolded
<1>9. Channel(w, seq, limit, channel) = Taken(base, seq, limit, channel)
  BY DEF Channel, Taken, base
<1> QED
  BY <1>8, <1>9 DEF V

\* Once the candidates at the places s have come in, u has and marks them and what w has
\* and marks.
Marked(I, w, channel, seq, s, u) ==
  /\ \A c \in I : channel \in u.tags[c] <=> channel \in w.tags[c] \/ \E i \in s : seq[i] = c
  /\ \A c \in I : (\E i \in DOMAIN u.order : u.order[i] = c)
                    <=> (\E i \in DOMAIN w.order : w.order[i] = c) \/ \E i \in s : seq[i] = c

LEMMA FoundMarks ==
  ASSUME NEW I, NEW K, NEW w, NEW channel \in K, NEW seq \in Seq(I), NEW s \in SUBSET DOMAIN seq,
         NEW m \in s, NEW v \in Selections(I, K), Marked(I, w, channel, seq, s \ {m}, v)
  PROVE  Marked(I, w, channel, seq, s, Found(v, seq[m], channel))
<1>. DEFINE c == seq[m]
            u == Found(v, c, channel)
<1>1. c \in I
  OBVIOUS
<1>2. WithFound(I, K, v, c, channel, u)
  BY <1>1, FoundWhat
<1>3. \A d : (\E i \in s : seq[i] = d) <=> (\E i \in s \ {m} : seq[i] = d) \/ d = c
  OBVIOUS
<1>. HIDE DEF c, u
<1>4. ASSUME NEW d \in I
      PROVE  channel \in u.tags[d] <=> channel \in w.tags[d] \/ \E i \in s : seq[i] = d
  <2>1. u.tags[d] = IF d = c THEN v.tags[d] \cup {channel} ELSE v.tags[d]
    BY <1>2 DEF WithFound
  <2>2. channel \in v.tags[d] <=> channel \in w.tags[d] \/ \E i \in s \ {m} : seq[i] = d
    BY DEF Marked
  <2> QED
    BY <1>3, <2>1, <2>2
<1>5. ASSUME NEW d \in I
      PROVE  (\E i \in DOMAIN u.order : u.order[i] = d)
               <=> (\E i \in DOMAIN w.order : w.order[i] = d) \/ \E i \in s : seq[i] = d
  <2>. DEFINE o == v.order
              a == u.order
  <2>1. o \in Seq(I) /\ a = IF \E i \in DOMAIN o : o[i] = c THEN o ELSE Append(o, c)
    BY <1>2 DEF WithFound, Selections
  <2>2. (\E i \in DOMAIN o : o[i] = d)
          <=> (\E i \in DOMAIN w.order : w.order[i] = d) \/ \E i \in s \ {m} : seq[i] = d
    BY DEF Marked
  <2>. HIDE DEF o, a
  <2>3. (\E i \in DOMAIN a : a[i] = d) <=> (\E i \in DOMAIN o : o[i] = d) \/ d = c
    <3>1. CASE \E i \in DOMAIN o : o[i] = c
      BY <2>1, <3>1
    <3>2. CASE ~ \E i \in DOMAIN o : o[i] = c
      <4>. DEFINE n == Len(o)
      <4>1. a = Append(o, c)
        BY <2>1, <3>2
      <4>2. o \in Seq(I) /\ n \in Nat /\ DOMAIN o = 1..n
        BY <2>1
      <4>3. DOMAIN a = 1..(n + 1) /\ a[n + 1] = c /\ \A i \in 1..n : a[i] = o[i]
        BY <1>1, <4>1, <4>2 DEF c
      <4>. HIDE DEF n
      <4> QED
        BY <4>2, <4>3
    <3> QED
      BY <3>1, <3>2
  <2> QED
    BY <1>3, <2>2, <2>3 DEF a
<1>6. Marked(I, w, channel, seq, s, u)
  BY <1>4, <1>5 DEF Marked
<1> QED
  BY <1>6 DEF u, c

LEMMA EnterMarks ==
  ASSUME NEW I, NEW K, NEW w \in Selections(I, K), OnceEach(w.order), NEW channel \in K, NEW seq \in Seq(I)
  PROVE  /\ Built(I, K, w, {}, Enter(w, seq, channel))
         /\ Marked(I, w, channel, seq, DOMAIN seq, Enter(w, seq, channel))
<1>. DEFINE V == {u \in Selections(I, K) : Built(I, K, w, {}, u)}
            W == {q \in (SUBSET DOMAIN seq) \X V : Marked(I, w, channel, seq, q[1], q[2])}
<1>1. w.order \in Seq(I) /\ Len(w.order) \in Nat
  BY DEF Selections
<1>2. Built(I, K, w, {}, w)
  BY <1>1 DEF Built
<1>3. w \in V
  BY <1>2
<1>4. \A u \in V, c \in I : Found(u, c, channel) \in V
  <2>. SUFFICES ASSUME NEW u \in V, NEW c \in I PROVE Found(u, c, channel) \in V
    OBVIOUS
  <2>1. channel \notin {}
    OBVIOUS
  <2>2. Built(I, K, w, {}, Found(u, c, channel))
    BY <2>1, FoundBuilds
  <2>3. Found(u, c, channel) \in Selections(I, K)
    BY <2>2 DEF Built
  <2> QED
    BY <2>2, <2>3
<1>5. <<{}, w>> \in W
  <2>1. Marked(I, w, channel, seq, {}, w)
    BY DEF Marked
  <2> QED
    BY <1>3, <2>1
<1>6. \A s \in SUBSET DOMAIN seq : s # {} => Max(s) \in s
  BY LastOfPlaces
<1>7. ASSUME NEW s \in SUBSET DOMAIN seq, NEW u \in V, s # {}, <<s \ {Max(s)}, u>> \in W
      PROVE  <<s, Found(u, seq[Max(s)], channel)>> \in W
  <2>. DEFINE m == Max(s)
  <2>1. m \in s /\ Marked(I, w, channel, seq, s \ {m}, u) /\ u \in Selections(I, K)
    BY <1>6, <1>7
  <2>. HIDE DEF m
  <2>2. Marked(I, w, channel, seq, s, Found(u, seq[m], channel))
    BY <2>1, FoundMarks
  <2>3. seq[m] \in I
    BY <2>1
  <2>4. Found(u, seq[m], channel) \in V
    BY <1>4, <2>3
  <2>. HIDE DEF V
  <2> QED
    BY <2>2, <2>4 DEF m
<1>. DEFINE e == Enter(w, seq, channel)
            D == DOMAIN seq
<1>8. \A s \in SUBSET D : \A u \in V :
        s # {} /\ <<s \ {Max(s)}, u>> \in W => <<s, Found(u, seq[Max(s)], channel)>> \in W
  <2>. HIDE DEF V, W
  <2> QED
    BY <1>7
<1>9. e \in V /\ <<D, e>> \in W
  <2>. HIDE DEF V, W
  <2>1. FoundKeeps(I, seq, V, w, channel, W)
    BY <1>3, <1>4, <1>5, <1>8 DEF FoundKeeps
  <2> QED
    BY <2>1, FoundFolded
<1>. HIDE DEF e, D
<1>10. Built(I, K, w, {}, e) /\ Marked(I, w, channel, seq, D, e)
  BY <1>9
<1> QED
  BY <1>10 DEF e, D

-----------------------------------------------------------------------------
(* The hits of the semantic channel.                                        *)

\* A pool of numbered candidates whose keys are numbers, and the scores of participations.
PoolShape(pool, scores) ==
  /\ IsFiniteSet(DOMAIN pool) /\ DOMAIN pool \subseteq Int
  /\ \A c \in DOMAIN pool :
       pool[c].relevance \in Int /\ pool[c].quality \in Int /\ pool[c].created \in Int
  /\ \A p \in DOMAIN scores : scores[p] \in Int

HitBelow(pool, scores) ==
  [d \in Hits(pool, scores) |-> {c \in Hits(pool, scores) : HitBefore(pool, scores, c, d)}]

LEMMA HitsOrdered ==
  ASSUME NEW pool, NEW scores, PoolShape(pool, scores)
  PROVE  /\ IsFiniteSet(Hits(pool, scores)) /\ Hits(pool, scores) \subseteq DOMAIN pool
         /\ Orders(Hits(pool, scores), HitBelow(pool, scores))
<1>. DEFINE H == Hits(pool, scores)
            below == HitBelow(pool, scores)
            s == [c \in H |-> scores[pool[c].participation]]
            q == [c \in H |-> pool[c].quality]
            before(a, b) == \/ s[a] > s[b]
                            \/ s[a] = s[b] /\ q[a] > q[b]
                            \/ s[a] = s[b] /\ q[a] = q[b] /\ a < b
<1>1. IsFiniteSet(H) /\ H \subseteq DOMAIN pool
  BY FS_Subset DEF Hits, PoolShape
<1>2. \A c \in H : c \in Int /\ s[c] \in Int /\ q[c] \in Int
  BY DEF Hits, PoolShape
<1>3. \A a, b \in H : HitBefore(pool, scores, a, b) <=> before(a, b)
  BY DEF HitBefore
<1>4. below \in [H -> SUBSET H]
  BY DEF HitBelow
<1>5. \A a, b \in H : a \in below[b] <=> before(a, b)
  BY <1>3 DEF HitBelow
<1>. HIDE DEF H, below, s, q
<1>6. \A a \in H : a \notin below[a]
  BY <1>2, <1>5
<1>7. \A a, b \in H : a # b => a \in below[b] \/ b \in below[a]
  BY <1>2, <1>5
<1>8. ASSUME NEW a \in H, NEW b \in H, a \in below[b], NEW c \in below[a] PROVE c \in below[b]
  <2>1. c \in H
    BY <1>4
  <2>. DEFINE x == s[a]
              y == s[b]
              z == s[c]
              k == q[a]
              l == q[b]
              m == q[c]
  <2>2. {x, y, z, k, l, m, a, b, c} \subseteq Int
    BY <1>2, <2>1
  <2>3. before(c, a) /\ before(a, b)
    BY <1>5, <1>8, <2>1
  <2>4. /\ z > x \/ (z = x /\ m > k) \/ (z = x /\ m = k /\ c < a)
        /\ x > y \/ (x = y /\ k > l) \/ (x = y /\ k = l /\ a < b)
    BY <2>3
  <2>. HIDE DEF x, y, z, k, l, m
  <2>5. z > y \/ (z = y /\ m > l) \/ (z = y /\ m = l /\ c < b)
    BY <2>2, <2>4
  <2>6. before(c, b)
    BY <2>5 DEF z, y, m, l
  <2> QED
    BY <1>5, <2>1, <2>6
<1>9. Orders(H, below)
  BY <1>4, <1>6, <1>7, <1>8 DEF Orders
<1> QED
  BY <1>1, <1>9 DEF H, below

LEMMA HitsListed ==
  ASSUME NEW pool, NEW scores, PoolShape(pool, scores)
  PROVE  Lists(BestHits(pool, scores), Hits(pool, scores), HitBelow(pool, scores))
<1>. DEFINE H == Hits(pool, scores)
            before(a, b) == HitBefore(pool, scores, a, b)
            below == HitBelow(pool, scores)
            order == BestHits(pool, scores)
            e(k) == CHOOSE x \in H : Cardinality({y \in H : before(y, x)}) = k - 1
            m == Cardinality(H)
<1>1. Orders(H, below) /\ IsFiniteSet(H)
  BY HitsOrdered
<1>2. \A x \in H : below[x] = {y \in H : before(y, x)}
  BY DEF HitBelow
<1>3. order = [k \in 1..m |-> e(k)]
  BY DEF BestHits, Arranged
<1>. HIDE DEF H, below, m, before, order
<1>4. \A k : (\E x \in H : Cardinality(below[x]) = k - 1) => e(k) \in H /\ Cardinality(below[e(k)]) = k - 1
  <2>. SUFFICES ASSUME NEW k, \E x \in H : Cardinality(below[x]) = k - 1
                PROVE  e(k) \in H /\ Cardinality(below[e(k)]) = k - 1
    OBVIOUS
  <2>1. \E x \in H : Cardinality({y \in H : before(y, x)}) = k - 1
    BY <1>2
  <2>2. e(k) \in H /\ Cardinality({y \in H : before(y, e(k))}) = k - 1
    BY <2>1
  <2>. HIDE DEF e
  <2> QED
    BY <1>2, <2>2
<1>. HIDE DEF e
<1>5. /\ order = [k \in 1..m |-> order[k]]
      /\ \A k \in 1..m : (\E x \in H : Cardinality(below[x]) = k - 1)
           => order[k] \in H /\ Cardinality(below[order[k]]) = k - 1
  BY <1>3, <1>4
<1>6. Lists(order, H, below)
  BY <1>1, <1>5, Listing DEF m
<1> QED
  BY <1>6 DEF order, H, below

\* What is taken has as many as it may of a participation.
FullOf(pool, taken, c) ==
  Cardinality(OfParticipation(pool, ToSet(taken), pool[c].participation)) >= PerParticipation

\* What is taken keeps the limits.
WithinLimits(pool, I) ==
  {t \in Seq(I) : /\ Len(t) <= VectorLimit
                  /\ IsFiniteSet(ToSet(t)) /\ Cardinality(ToSet(t)) <= Len(t)
                  /\ \A p : Cardinality(OfParticipation(pool, ToSet(t), p)) <= PerParticipation}

LEMMA PickWhat ==
  ASSUME NEW I, NEW pool, NEW t \in WithinLimits(pool, I), NEW c \in I
  PROVE  /\ Pick(pool, t, c) \in WithinLimits(pool, I)
         /\ \/ Pick(pool, t, c) = t /\ (Len(t) >= VectorLimit \/ FullOf(pool, t, c))
            \/ /\ ToSet(Pick(pool, t, c)) = ToSet(t) \cup {c}
               /\ ~ (Len(t) >= VectorLimit) /\ ~ FullOf(pool, t, c)
<1>. DEFINE u == Pick(pool, t, c)
            Q == ToSet(t)
            R == ToSet(u)
            n == Len(t)
            of(S, p) == OfParticipation(pool, S, p)
            full == Len(t) >= VectorLimit \/ FullOf(pool, t, c)
<1>1. VectorLimit \in Nat /\ PerParticipation \in Nat
  BY LimitsAssumption
<1>2. /\ t \in Seq(I) /\ n \in Nat /\ n <= VectorLimit /\ IsFiniteSet(Q) /\ Cardinality(Q) <= n
      /\ \A p : Cardinality(of(Q, p)) <= PerParticipation
  BY DEF WithinLimits
<1>3. CASE full
  <2>1. u = t
    BY <1>3 DEF Pick, FullOf
  <2> QED
    BY <1>3, <2>1
<1>4. CASE ~full
  <2>1. u = Append(t, c)
    BY <1>4 DEF Pick, FullOf
  <2>2. R = Q \cup {c}
    <3>1. /\ DOMAIN t = 1..n /\ DOMAIN u = 1..(n + 1) /\ u[n + 1] = c
          /\ \A i \in 1..n : u[i] = t[i]
      BY <1>2, <2>1
    <3>2. \A d : d \in R <=> \E i \in 1..(n + 1) : u[i] = d
      BY <3>1 DEF ToSet
    <3>3. \A d : d \in Q <=> \E i \in 1..n : t[i] = d
      BY <3>1 DEF ToSet
    <3>. HIDE DEF R, Q, u, n
    <3>4. \A i \in 1..(n + 1) : i \in 1..n \/ i = n + 1
      BY <1>2
    <3>5. n + 1 \in 1..(n + 1) /\ \A i \in 1..n : i \in 1..(n + 1)
      BY <1>2
    <3>6. \A d : d \in R <=> d \in Q \/ d = c
      BY <3>1, <3>2, <3>3, <3>4, <3>5
    <3> QED
      BY <3>6
  <2>3. u \in Seq(I) /\ Len(u) = n + 1 /\ n + 1 <= VectorLimit
    BY <1>1, <1>2, <1>4, <2>1
  <2>. HIDE DEF R, Q, u, n
  <2>4. Cardinality(Q) \in Nat /\ IsFiniteSet(R)
        /\ Cardinality(R) = IF c \in Q THEN Cardinality(Q) ELSE Cardinality(Q) + 1
    BY <1>2, <2>2, FS_AddElement, FS_CardinalityType
  <2>5. Cardinality(R) <= n + 1
    BY <1>2, <2>4
  <2>6. ASSUME NEW p PROVE Cardinality(of(R, p)) <= PerParticipation
    <3>1. CASE p # pool[c].participation
      <4>1. of(R, p) = of(Q, p)
        BY <2>2, <3>1 DEF OfParticipation
      <4> QED
        BY <1>2, <4>1
    <3>2. CASE p = pool[c].participation
      <4>. DEFINE A == of(Q, p)
                  B == of(R, p)
      <4>1. B = A \cup {c} /\ A \subseteq Q
        BY <2>2, <3>2 DEF OfParticipation
      <4>2. ~ (Cardinality(A) >= PerParticipation)
        BY <1>4, <3>2 DEF FullOf, Q
      <4>. HIDE DEF A, B
      <4>3. IsFiniteSet(A) /\ Cardinality(A) \in Nat
        BY <1>2, <4>1, FS_Subset, FS_CardinalityType
      <4>4. Cardinality(B) = IF c \in A THEN Cardinality(A) ELSE Cardinality(A) + 1
        BY <4>1, <4>3, FS_AddElement
      <4>5. Cardinality(B) <= PerParticipation
        BY <1>1, <4>2, <4>3, <4>4
      <4> QED
        BY <4>5 DEF B
    <3> QED
      BY <3>1, <3>2
  <2>7. u \in WithinLimits(pool, I)
    BY <2>3, <2>4, <2>5, <2>6 DEF WithinLimits, R
  <2> QED
    BY <1>4, <2>2, <2>7 DEF R, Q, u
<1> QED
  BY <1>3, <1>4

\* The hits at the places s have been gone through and t was taken: one is passed over
\* only when no more fit or none of its participation, and a worse one is then taken
\* only in the latter case.
Reached(pool, hits, s, t) ==
  /\ \A d \in ToSet(t) : \E j \in s : hits[j] = d
  /\ \A j \in s : hits[j] \in ToSet(t) \/ Len(t) >= VectorLimit \/ FullOf(pool, t, hits[j])
  /\ \A i, j \in s : j < i /\ hits[i] \in ToSet(t) => hits[j] \in ToSet(t) \/ FullOf(pool, t, hits[j])

LEMMA FullStays ==
  ASSUME NEW I, NEW pool, NEW t, NEW u \in WithinLimits(pool, I), ToSet(t) \subseteq ToSet(u),
         NEW c, FullOf(pool, t, c)
  PROVE  FullOf(pool, u, c)
<1>. DEFINE A == OfParticipation(pool, ToSet(t), pool[c].participation)
            B == OfParticipation(pool, ToSet(u), pool[c].participation)
<1>1. A \subseteq B /\ B \subseteq ToSet(u)
  BY DEF OfParticipation
<1>2. IsFiniteSet(ToSet(u)) /\ PerParticipation \in Nat
  BY LimitsAssumption DEF WithinLimits
<1>3. Cardinality(A) >= PerParticipation
  BY DEF FullOf
<1>. HIDE DEF A, B
<1>4. IsFiniteSet(B) /\ IsFiniteSet(A) /\ Cardinality(A) <= Cardinality(B)
  BY <1>1, <1>2, FS_Subset
<1>5. Cardinality(A) \in Nat /\ Cardinality(B) \in Nat
  BY <1>4, FS_CardinalityType
<1>6. Cardinality(B) >= PerParticipation
  BY <1>2, <1>3, <1>4, <1>5
<1> QED
  BY <1>6 DEF FullOf, B

LEMMA PickReaches ==
  ASSUME NEW I, NEW pool, NEW hits \in Seq(I), \A i, j \in DOMAIN hits : hits[i] = hits[j] => i = j,
         NEW s \in SUBSET DOMAIN hits, NEW m \in s, \A i \in s : i <= m,
         NEW t \in WithinLimits(pool, I), Reached(pool, hits, s \ {m}, t)
  PROVE  Reached(pool, hits, s, Pick(pool, t, hits[m]))
<1>. DEFINE c == hits[m]
            u == Pick(pool, t, c)
            Q == ToSet(t)
            R == ToSet(u)
            D == DOMAIN hits
            full(j) == FullOf(pool, t, hits[j])
            fuller(j) == FullOf(pool, u, hits[j])
<1>1. /\ D \subseteq Int /\ s \subseteq D /\ c \in I
      /\ \A i, j \in s : hits[i] = hits[j] => i = j
  OBVIOUS
<1>2. /\ u \in WithinLimits(pool, I)
      /\ \/ u = t /\ (Len(t) >= VectorLimit \/ FullOf(pool, t, c))
         \/ R = Q \cup {c} /\ ~ (Len(t) >= VectorLimit) /\ ~ FullOf(pool, t, c)
  BY <1>1, PickWhat
<1>3. /\ \A d \in Q : \E j \in s \ {m} : hits[j] = d
      /\ \A j \in s \ {m} : hits[j] \in Q \/ Len(t) >= VectorLimit \/ full(j)
      /\ \A i, j \in s \ {m} : j < i /\ hits[i] \in Q => hits[j] \in Q \/ full(j)
  BY DEF Reached
<1>4. hits[m] \notin Q
  BY <1>1, <1>3
<1>5. \A i, j \in s : j < i => j # m
  BY <1>1
<1>6. CASE u = t /\ (Len(t) >= VectorLimit \/ FullOf(pool, t, c))
  <2>1. \A d \in Q : \E j \in s : hits[j] = d
    BY <1>3
  <2>2. \A j \in s : hits[j] \in Q \/ Len(t) >= VectorLimit \/ full(j)
    BY <1>3, <1>6
  <2>3. \A i, j \in s : j < i /\ hits[i] \in Q => hits[j] \in Q \/ full(j)
    BY <1>3, <1>4, <1>5
  <2>4. Reached(pool, hits, s, t)
    BY <2>1, <2>2, <2>3 DEF Reached
  <2> QED
    BY <1>6, <2>4
<1>7. CASE R = Q \cup {c} /\ ~ (Len(t) >= VectorLimit) /\ ~ FullOf(pool, t, c)
  <2>1. \A j \in s : full(j) => fuller(j)
    BY <1>2, <1>7, FullStays
  <2>. HIDE DEF R, Q, u, full, fuller
  <2>2. \A j \in s \ {m} : hits[j] \in Q \/ full(j)
    BY <1>3, <1>7
  <2>3. \A j \in s \ {m} : hits[j] \in R \/ fuller(j)
    BY <1>7, <2>1, <2>2
  <2>4. hits[m] \in R
    BY <1>7
  <2>5. \A d \in R : \E j \in s : hits[j] = d
    BY <1>3, <1>7
  <2>6. \A j \in s : hits[j] \in R \/ fuller(j)
    BY <2>3, <2>4
  <2>7. Reached(pool, hits, s, u)
    BY <2>5, <2>6 DEF Reached, R, fuller
  <2> QED
    BY <2>7 DEF u
<1> QED
  BY <1>2, <1>6, <1>7

LEMMA PicksReach ==
  ASSUME NEW pool, NEW scores, PoolShape(pool, scores)
  PROVE  /\ VectorPicks(pool, scores) \in WithinLimits(pool, Hits(pool, scores))
         /\ Reached(pool, BestHits(pool, scores), DOMAIN BestHits(pool, scores), VectorPicks(pool, scores))
<1>. DEFINE I == Hits(pool, scores)
            below == HitBelow(pool, scores)
            hits == BestHits(pool, scores)
            D == DOMAIN hits
            base == << >>
            V == WithinLimits(pool, I)
            W == {q \in (SUBSET D) \X V : Reached(pool, hits, q[1], q[2])}
            e == VectorPicks(pool, scores)
<1>1. /\ hits \in Seq(I) /\ \A i, j \in D : hits[i] = hits[j] => i = j
  <2>1. IsFiniteSet(I) /\ Orders(I, below) /\ Lists(hits, I, below)
    BY HitsOrdered, HitsListed
  <2>. HIDE DEF I, below, hits
  <2> QED
    BY <2>1, ListedOnce
<1>2. e = Picked(pool, base, hits)
  BY DEF VectorPicks, Picked
<1>3. ToSet(base) = {} /\ base \in Seq(I) /\ Len(base) = 0
  BY DEF ToSet
<1>. HIDE DEF I, hits, base, e
<1>4. base \in V
  <2>1. IsFiniteSet({}) /\ Cardinality({}) = 0
    BY FS_EmptySet
  <2>2. \A p : OfParticipation(pool, {}, p) = {}
    BY DEF OfParticipation
  <2>3. 0 \in Nat /\ 0 <= VectorLimit /\ 0 <= PerParticipation
    BY LimitsAssumption
  <2>4. /\ IsFiniteSet(ToSet(base)) /\ Cardinality(ToSet(base)) <= Len(base)
        /\ \A p : Cardinality(OfParticipation(pool, ToSet(base), p)) <= PerParticipation
    BY <1>3, <2>1, <2>2, <2>3
  <2> QED
    BY <1>3, <2>3, <2>4 DEF WithinLimits
<1>5. <<{}, base>> \in W
  <2>1. Reached(pool, hits, {}, base)
    BY <1>3 DEF Reached
  <2> QED
    BY <1>4, <2>1
<1>6. \A t \in V, c \in I : Pick(pool, t, c) \in V
  BY PickWhat
<1>7. ASSUME NEW s \in SUBSET D, NEW t \in V, s # {}, <<s \ {Max(s)}, t>> \in W
      PROVE  <<s, Pick(pool, t, hits[Max(s)])>> \in W
  <2>. DEFINE m == Max(s)
  <2>1. m \in s /\ \A i \in s : i <= m
    BY <1>1, <1>7, LastOfPlaces
  <2>2. Reached(pool, hits, s \ {m}, t)
    BY <1>7
  <2>3. hits[m] \in I
    BY <1>1, <2>1
  <2>. HIDE DEF m
  <2>4. Reached(pool, hits, s, Pick(pool, t, hits[m]))
    BY <1>1, <2>1, <2>2, PickReaches
  <2>5. Pick(pool, t, hits[m]) \in V
    BY <1>6, <2>3
  <2>. HIDE DEF V
  <2> QED
    BY <2>4, <2>5 DEF m
<1>8. \A s \in SUBSET D : \A t \in V :
        s # {} /\ <<s \ {Max(s)}, t>> \in W => <<s, Pick(pool, t, hits[Max(s)])>> \in W
  <2>. HIDE DEF V, W
  <2> QED
    BY <1>7
<1>9. e \in V /\ <<D, e>> \in W
  <2>. HIDE DEF V, W
  <2>1. PickKeeps(I, hits, V, base, pool, W)
    BY <1>4, <1>5, <1>6, <1>8 DEF PickKeeps
  <2> QED
    BY <1>1, <1>2, <2>1, PickFolded
<1>10. Reached(pool, hits, D, e)
  BY <1>9
<1> QED
  BY <1>9, <1>10 DEF I, hits, e

\* What the semantic channel picks is spread over the participations.
LEMMA PicksSpread ==
  ASSUME NEW pool, NEW scores, PoolShape(pool, scores), NEW P, P = ToSet(VectorPicks(pool, scores)),
         NEW of, of = [p \in DOMAIN scores |-> Cardinality(OfParticipation(pool, P, p))]
  PROVE  /\ P \subseteq DOMAIN pool /\ Cardinality(P) <= VectorLimit
         /\ \A p \in DOMAIN scores : of[p] <= PerParticipation
         /\ \A p, q \in DOMAIN scores : scores[p] > scores[q] /\ of[q] > 0
              => of[p] >= Min({PerParticipation, Cardinality(OfParticipation(pool, DOMAIN pool, p))})
<1>. DEFINE I == Hits(pool, scores)
            below == HitBelow(pool, scores)
            hits == BestHits(pool, scores)
            t == VectorPicks(pool, scores)
            Of(S, p) == OfParticipation(pool, S, p)
<1>1. t \in WithinLimits(pool, I) /\ Reached(pool, hits, DOMAIN hits, t)
  BY PicksReach
<1>2. IsFiniteSet(I) /\ I \subseteq DOMAIN pool /\ Orders(I, below) /\ Lists(hits, I, below)
  BY HitsOrdered, HitsListed
<1>3. /\ t \in Seq(I) /\ Len(t) \in Nat /\ Len(t) <= VectorLimit
      /\ IsFiniteSet(P) /\ Cardinality(P) \in Nat /\ Cardinality(P) <= Len(t)
      /\ \A p \in DOMAIN scores : of[p] <= PerParticipation
      /\ VectorLimit \in Nat /\ PerParticipation \in Nat
  <2>1. t \in Seq(I) /\ Len(t) \in Nat
    BY <1>1 DEF WithinLimits
  <2>2. /\ Len(t) <= VectorLimit /\ IsFiniteSet(P) /\ Cardinality(P) <= Len(t)
        /\ \A p : Cardinality(OfParticipation(pool, P, p)) <= PerParticipation
    BY <1>1 DEF WithinLimits
  <2>3. Cardinality(P) \in Nat
    BY <2>2, FS_CardinalityType
  <2>4. \A p \in DOMAIN scores : of[p] = Cardinality(OfParticipation(pool, P, p))
    OBVIOUS
  <2>5. VectorLimit \in Nat /\ PerParticipation \in Nat
    BY LimitsAssumption
  <2> QED
    BY <2>1, <2>2, <2>3, <2>4, <2>5
<1>4. P \subseteq I
  BY <1>3 DEF ToSet
<1>5. P \subseteq DOMAIN pool /\ Cardinality(P) <= VectorLimit
  BY <1>2, <1>3, <1>4
<1>6. ASSUME NEW p \in DOMAIN scores, NEW q \in DOMAIN scores, scores[p] > scores[q], of[q] > 0
      PROVE  of[p] >= Min({PerParticipation, Cardinality(OfParticipation(pool, DOMAIN pool, p))})
  <2>. DEFINE A == Of(P, p)
              B == Of(DOMAIN pool, p)
              C == Of(P, q)
  <2>1. of[p] = Cardinality(A) /\ of[q] = Cardinality(C)
    OBVIOUS
  <2>2. A \subseteq P /\ A \subseteq B /\ C \subseteq P /\ B \subseteq DOMAIN pool
    BY <1>5 DEF OfParticipation
  <2>3. IsFiniteSet(DOMAIN pool)
    BY DEF PoolShape
  <2>4. /\ IsFiniteSet(A) /\ IsFiniteSet(B) /\ Cardinality(A) \in Nat /\ Cardinality(B) \in Nat
    <3>. HIDE DEF A, B
    <3> QED
      BY <1>3, <2>2, <2>3, FS_Subset, FS_CardinalityType
  <2>5. C # {}
    <3>. HIDE DEF C
    <3>1. Cardinality(C) > 0
      BY <1>6, <2>1
    <3>2. Cardinality({}) = 0
      BY FS_EmptySet
    <3> QED
      BY <3>1, <3>2
  <2>6. PICK x \in P : pool[x].participation = q
    BY <2>5 DEF OfParticipation
  <2>7. /\ \A d \in I : \E j \in DOMAIN hits : hits[j] = d
        /\ \A i, j \in DOMAIN hits : hits[i] \in below[hits[j]] <=> i < j
    <3>. HIDE DEF I, below, hits
    <3> QED
      BY <1>2, ListedOnce
  <2>8. ASSUME NEW y \in B PROVE y \in P \/ Cardinality(A) >= PerParticipation
    <3>1. y \in DOMAIN pool /\ pool[y].participation = p
      BY <2>8 DEF OfParticipation
    <3>2. y \in I /\ x \in I
      BY <1>4, <2>6, <3>1 DEF Hits
    <3>3. HitBefore(pool, scores, y, x)
      BY <1>6, <2>6, <3>1 DEF HitBefore
    <3>4. y \in below[x]
      BY <3>2, <3>3 DEF HitBelow
    <3>5. PICK i \in DOMAIN hits : hits[i] = x
      BY <2>7, <3>2
    <3>6. PICK j \in DOMAIN hits : hits[j] = y
      BY <2>7, <3>2
    <3>7. j < i
      BY <2>7, <3>4, <3>5, <3>6
    <3>8. y \in P \/ FullOf(pool, t, y)
      BY <1>1, <2>6, <3>5, <3>6, <3>7 DEF Reached
    <3> QED
      BY <3>1, <3>8 DEF FullOf
  <2>. HIDE DEF A, B
  <2>9. Min({PerParticipation, Cardinality(B)})
          = IF PerParticipation <= Cardinality(B) THEN PerParticipation ELSE Cardinality(B)
    BY <1>3, <2>4, SmallerOf
  <2>10. ASSUME Cardinality(A) >= PerParticipation PROVE of[p] >= Min({PerParticipation, Cardinality(B)})
    <3>. DEFINE a == Cardinality(A)
                b == Cardinality(B)
    <3>. HIDE DEF a, b
    <3>1. a \in Nat /\ b \in Nat /\ of[p] = a /\ a >= PerParticipation
      BY <2>1, <2>4, <2>10 DEF a, b
    <3>2. Min({PerParticipation, b}) <= PerParticipation /\ Min({PerParticipation, b}) \in Int
      BY <1>3, <2>9, <3>1 DEF b
    <3>3. of[p] >= Min({PerParticipation, b})
      BY <1>3, <3>1, <3>2
    <3> QED
      BY <3>3 DEF b
  <2>11. ASSUME ~ (Cardinality(A) >= PerParticipation) PROVE of[p] >= Min({PerParticipation, Cardinality(B)})
    <3>1. \A y \in B : y \in P
      BY <2>8, <2>11
    <3>2. \A y \in B : y \in A
      BY <3>1 DEF A, B, OfParticipation
    <3>3. A = B
      BY <2>2, <3>2
    <3>. DEFINE b == Cardinality(B)
    <3>. HIDE DEF b
    <3>4. of[p] = b /\ b \in Nat
      BY <2>1, <2>4, <3>3 DEF b
    <3>5. Min({PerParticipation, b}) <= b /\ Min({PerParticipation, b}) \in Int
      BY <1>3, <2>9, <3>4 DEF b
    <3>6. of[p] >= Min({PerParticipation, b})
      BY <3>4, <3>5
    <3> QED
      BY <3>6 DEF b
  <2> QED
    BY <2>10, <2>11 DEF B
<1> QED
  BY <1>3, <1>5, <1>6

-----------------------------------------------------------------------------
(* The channels one after another.                                          *)

Channels == {"STRUCTURED", "VECTOR", "POPULARITY", "INTEREST", "EXPLORATION"}

LEMMA AmongMore ==
  ASSUME NEW S, NEW I, S \subseteq I, NEW seq \in Seq(S)
  PROVE  seq \in Seq(I)
  OBVIOUS

LEMMA OrdersOfPool ==
  ASSUME NEW pool, NEW scores, PoolShape(pool, scores)
  PROVE  /\ By(pool, "relevance") \in Seq(DOMAIN pool)
         /\ By(pool, "quality") \in Seq(DOMAIN pool)
         /\ By(pool, "created") \in Seq(DOMAIN pool)
         /\ \A S \in SUBSET DOMAIN pool : ByIdentity(S) \in Seq(DOMAIN pool)
<1>. DEFINE I == DOMAIN pool
            key(field) == [c \in I |-> pool[c][field]]
<1>1. IsFiniteSet(I) /\ I \subseteq Int
  BY DEF PoolShape
<1>2. \A field \in {"relevance", "quality", "created"} : \A c \in I : key(field)[c] \in Int
  BY DEF PoolShape
<1>3. \A field : By(pool, field) = Sorted(I, key(field))
  BY DEF By
<1>. HIDE DEF key, I
<1>4. ASSUME NEW field \in {"relevance", "quality", "created"} PROVE By(pool, field) \in Seq(I)
  <2>. DEFINE k == key(field)
  <2>1. \A c \in I : k[c] \in Int
    BY <1>2
  <2>2. By(pool, field) = Sorted(I, k)
    BY <1>3
  <2>. HIDE DEF k
  <2>3. Sorted(I, k) \in Seq(I)
    BY <1>1, <2>1, SortedIn
  <2> QED
    BY <2>2, <2>3
<1>5. ASSUME NEW S \in SUBSET I PROVE ByIdentity(S) \in Seq(I)
  <2>1. IsFiniteSet(S) /\ S \subseteq Int
    BY <1>1, FS_Subset
  <2>2. ByIdentity(S) \in Seq(S)
    BY <2>1, NumbersIn
  <2> QED
    BY <2>2, AmongMore
<1>6. By(pool, "relevance") \in Seq(I) /\ By(pool, "quality") \in Seq(I) /\ By(pool, "created") \in Seq(I)
  BY <1>4
<1> QED
  BY <1>5, <1>6 DEF I

LEMMA StructuredFirst ==
  ASSUME NEW pool, NEW scores, PoolShape(pool, scores), NEW v, v = Structured(pool)
  PROVE  /\ v \in Selections(DOMAIN pool, Channels) /\ OnceEach(v.order)
         /\ \A c \in DOMAIN pool : "STRUCTURED" \in v.tags[c] <=> \E i \in DOMAIN v.order : v.order[i] = c
         /\ \A c \in DOMAIN pool : "VECTOR" \notin v.tags[c]
<1>. DEFINE I == DOMAIN pool
            K == {"STRUCTURED"}
            base == [order |-> << >>, tags |-> [c \in I |-> {}], added |-> 0]
            ranked == By(pool, "relevance")
            n == Min({Len(ranked), StructuredLimit})
            seq == SubSeq(ranked, 1, n)
            channel == "STRUCTURED"
<1>1. v = Enter(base, seq, channel)
  BY DEF Structured
<1>2. ranked \in Seq(I)
  BY OrdersOfPool
<1>. HIDE DEF ranked
<1>3. n \in Nat /\ n <= Len(ranked)
  <2>1. Len(ranked) \in Nat /\ StructuredLimit \in Nat
    BY <1>2, LimitsAssumption
  <2> QED
    BY <2>1, SmallerOf
<1>. HIDE DEF n
<1>4. seq \in Seq(I)
  <2>. HIDE DEF I
  <2> QED
    BY <1>2, <1>3, FirstIn
<1>5. base \in Selections(I, K) /\ OnceEach(base.order)
      /\ (\A c \in I : base.tags[c] = {}) /\ base.order = << >>
  BY DEF Selections, OnceEach
<1>. HIDE DEF I, base, seq
<1>6. Built(I, K, base, {}, v) /\ Marked(I, base, channel, seq, DOMAIN seq, v)
  BY <1>1, <1>4, <1>5, EnterMarks
<1>7. v \in Selections(I, K) /\ OnceEach(v.order)
  BY <1>6 DEF Built
<1>8. v \in Selections(I, Channels)
  BY <1>7 DEF Selections, Channels
<1>9. \A c \in I : "VECTOR" \notin v.tags[c]
  BY <1>7 DEF Selections
<1>10. \A c \in I : channel \in v.tags[c] <=> \E i \in DOMAIN v.order : v.order[i] = c
  <2>1. /\ \A c \in I : channel \in v.tags[c] <=> channel \in base.tags[c] \/ \E i \in DOMAIN seq : seq[i] = c
        /\ \A c \in I : (\E i \in DOMAIN v.order : v.order[i] = c)
             <=> (\E i \in DOMAIN base.order : base.order[i] = c) \/ \E i \in DOMAIN seq : seq[i] = c
    BY <1>6 DEF Marked
  <2>2. \A c \in I : channel \notin base.tags[c] /\ ~ \E i \in DOMAIN base.order : base.order[i] = c
    BY <1>5
  <2> QED
    BY <2>1, <2>2
<1> QED
  BY <1>7, <1>8, <1>9, <1>10 DEF I

\* The pool is what the channels built on the first, and on the second, cut at the cap.
Grown(pool, first, similar, r) ==
  \E u : /\ Built(DOMAIN pool, Channels, first, {"STRUCTURED"}, u)
         /\ Built(DOMAIN pool, Channels, similar, {"VECTOR"}, u)
         /\ r.order = SubSeq(u.order, 1, Min({Len(u.order), PoolCap})) /\ r.tags = u.tags

LEMMA GeneratedFrom ==
  ASSUME NEW pool, NEW recall, PoolShape(pool, recall.scores), NEW events, NEW r,
         r = Generate(pool, recall, events),
         NEW first, first = Structured(pool),
         NEW similar, similar = Enter(first, VectorPicks(pool, recall.scores), "VECTOR")
  PROVE  Grown(pool, first, similar, r)
<1>. DEFINE I == DOMAIN pool
            K == Channels
            related  == {c \in DOMAIN pool : pool[c].exhibitor \in Saved(events)}
            picks    == VectorPicks(pool, recall.scores)
            popular  == Channel(similar, By(pool, "quality"), PopularityLimit, "POPULARITY")
            interest == Channel(popular, ByIdentity(related), InterestLimit, "INTEREST")
            u        == Channel(interest, By(pool, "created"), ExplorationLimit, "EXPLORATION")
<1>1. r = [order |-> SubSeq(u.order, 1, Min({Len(u.order), PoolCap})), tags |-> u.tags]
  BY DEF Generate
<1>2. /\ By(pool, "quality") \in Seq(I) /\ By(pool, "created") \in Seq(I) /\ ByIdentity(related) \in Seq(I)
  BY OrdersOfPool
<1>3. picks \in Seq(I)
  <2>1. picks \in Seq(Hits(pool, recall.scores))
    BY PicksReach DEF WithinLimits
  <2>2. Hits(pool, recall.scores) \subseteq I
    BY DEF Hits
  <2>. HIDE DEF picks, I
  <2> QED
    BY <2>1, <2>2, AmongMore
<1>4. first \in Selections(I, K) /\ OnceEach(first.order)
  BY StructuredFirst
<1>5. /\ {"VECTOR", "POPULARITY", "INTEREST", "EXPLORATION"} \subseteq K
      /\ \A c \in {"VECTOR", "POPULARITY", "INTEREST", "EXPLORATION"} : c \notin {"STRUCTURED"}
      /\ \A c \in {"POPULARITY", "INTEREST", "EXPLORATION"} : c \notin {"VECTOR"}
  BY DEF Channels
<1>6. similar = Enter(first, picks, "VECTOR")
  OBVIOUS
<1>. DEFINE T == {"STRUCTURED"}
            Y == {"VECTOR"}
<1>. HIDE DEF I, K, picks, related, T, Y
<1>7. Built(I, K, first, T, first)
  <2>1. first.order \in Seq(I)
    BY <1>4 DEF Selections
  <2> QED
    BY <1>4, <2>1 DEF Built
<1>8. Built(I, K, first, T, similar)
  <2>1. "VECTOR" \in K /\ "VECTOR" \notin T
    BY <1>5 DEF T
  <2> QED
    BY <1>3, <1>4, <1>6, <1>7, <2>1, EnterBuilds
<1>9. similar \in Selections(I, K) /\ OnceEach(similar.order)
  BY <1>8 DEF Built
<1>10. Built(I, K, similar, Y, similar)
  <2>1. similar.order \in Seq(I)
    BY <1>9 DEF Selections
  <2> QED
    BY <1>9, <2>1 DEF Built
<1>11. /\ \A c \in {"POPULARITY", "INTEREST", "EXPLORATION"} : c \in K /\ c \notin T /\ c \notin Y
  BY <1>5 DEF T, Y
<1>12. Built(I, K, first, T, popular) /\ Built(I, K, similar, Y, popular)
  <2>1. "POPULARITY" \in K /\ "POPULARITY" \notin T /\ "POPULARITY" \notin Y
    BY <1>11
  <2>2. Built(I, K, first, T, popular)
    BY <1>2, <1>4, <1>8, <2>1, ChannelBuilds
  <2>3. Built(I, K, similar, Y, popular)
    BY <1>2, <1>9, <1>10, <2>1, ChannelBuilds
  <2> QED
    BY <2>2, <2>3
<1>. HIDE DEF popular
<1>13. Built(I, K, first, T, interest) /\ Built(I, K, similar, Y, interest)
  <2>1. "INTEREST" \in K /\ "INTEREST" \notin T /\ "INTEREST" \notin Y
    BY <1>11
  <2>2. Built(I, K, first, T, interest)
    BY <1>2, <1>4, <1>12, <2>1, ChannelBuilds
  <2>3. Built(I, K, similar, Y, interest)
    BY <1>2, <1>9, <1>12, <2>1, ChannelBuilds
  <2> QED
    BY <2>2, <2>3
<1>. HIDE DEF interest
<1>14. Built(I, K, first, T, u) /\ Built(I, K, similar, Y, u)
  <2>1. "EXPLORATION" \in K /\ "EXPLORATION" \notin T /\ "EXPLORATION" \notin Y
    BY <1>11
  <2>2. Built(I, K, first, T, u)
    BY <1>2, <1>4, <1>13, <2>1, ChannelBuilds
  <2>3. Built(I, K, similar, Y, u)
    BY <1>2, <1>9, <1>13, <2>1, ChannelBuilds
  <2> QED
    BY <2>2, <2>3
<1>. HIDE DEF u
<1>15. r.order = SubSeq(u.order, 1, Min({Len(u.order), PoolCap})) /\ r.tags = u.tags
  <2>. DEFINE cut == SubSeq(u.order, 1, Min({Len(u.order), PoolCap}))
  <2>1. r = [order |-> cut, tags |-> u.tags]
    BY <1>1
  <2>. HIDE DEF cut
  <2>2. r.order = cut /\ r.tags = u.tags
    BY <2>1
  <2> QED
    BY <2>2 DEF cut
<1> QED
  BY <1>14, <1>15 DEF Grown, I, K, T, Y

\* What a pool shows of the first channel.
PartOfFirst(r) ==
  {<<i, r.order[i]>> : i \in {j \in DOMAIN r.order : "STRUCTURED" \in r.tags[r.order[j]]}}

\* It is what that channel found, in its places, up to the cap.
LEMMA FirstStays ==
  ASSUME NEW pool, NEW recall, PoolShape(pool, recall.scores), NEW events, NEW r,
         r = Generate(pool, recall, events), NEW first, first = Structured(pool)
  PROVE  PartOfFirst(r) = {<<i, first.order[i]>> : i \in {j \in DOMAIN first.order : j <= PoolCap}}
<1>. DEFINE I == DOMAIN pool
            similar == Enter(first, VectorPicks(pool, recall.scores), "VECTOR")
<1>1. PICK u : /\ Built(I, Channels, first, {"STRUCTURED"}, u)
               /\ r.order = SubSeq(u.order, 1, Min({Len(u.order), PoolCap})) /\ r.tags = u.tags
  <2>1. similar = Enter(first, VectorPicks(pool, recall.scores), "VECTOR")
    OBVIOUS
  <2>. HIDE DEF similar
  <2>2. Grown(pool, first, similar, r)
    BY <2>1, GeneratedFrom
  <2> QED
    BY <2>2 DEF Grown
<1>2. /\ first \in Selections(I, Channels) /\ OnceEach(first.order)
      /\ \A c \in I : "STRUCTURED" \in first.tags[c] <=> \E i \in DOMAIN first.order : first.order[i] = c
  BY StructuredFirst
<1>. HIDE DEF I
<1>. DEFINE o == u.order
            a == first.order
            b == r.order
            n == Min({Len(o), PoolCap})
<1>3. /\ o \in Seq(I) /\ OnceEach(o) /\ Len(a) <= Len(o) /\ (\A i \in 1..Len(a) : o[i] = a[i])
      /\ \A c \in I : "STRUCTURED" \in u.tags[c] <=> "STRUCTURED" \in first.tags[c]
  BY <1>1 DEF Built, Selections
<1>4. a \in Seq(I) /\ DOMAIN a = 1..Len(a) /\ Len(a) \in Nat
  BY <1>2 DEF Selections
<1>5. /\ n \in Nat /\ n <= Len(o) /\ n <= PoolCap /\ (n = Len(o) \/ n = PoolCap)
      /\ Len(o) \in Nat /\ PoolCap \in Nat
  <2>. DEFINE l == Len(o)
  <2>1. l \in Nat /\ PoolCap \in Nat
    BY <1>3, LimitsAssumption
  <2>. HIDE DEF l
  <2>2. Min({l, PoolCap}) = IF l <= PoolCap THEN l ELSE PoolCap
    BY <2>1, SmallerOf
  <2>. DEFINE m == Min({l, PoolCap})
  <2>. HIDE DEF m
  <2>3. m = IF l <= PoolCap THEN l ELSE PoolCap
    BY <2>2 DEF m
  <2>4. m \in Nat /\ m <= l /\ m <= PoolCap /\ (m = l \/ m = PoolCap)
    BY <2>1, <2>3
  <2> QED
    BY <2>1, <2>4 DEF m, l
<1>6. b = SubSeq(o, 1, n) /\ r.tags = u.tags
  BY <1>1
<1>. HIDE DEF n, o, a, b
<1>7. b \in Seq(I) /\ DOMAIN b = 1..n /\ \A i \in 1..n : b[i] = o[i]
  <2>1. SubSeq(o, 1, n) \in Seq(I)
    BY <1>3, <1>5, FirstIn
  <2>2. DOMAIN SubSeq(o, 1, n) = 1..n
    BY <1>3, <1>5, FirstMany
  <2>3. \A i \in 1..n : SubSeq(o, 1, n)[i] = o[i]
    BY <1>3, <1>5, FirstPlaces
  <2> QED
    BY <1>6, <2>1, <2>2, <2>3
<1>8. \A j \in 1..n : j \in DOMAIN o /\ o[j] \in I
  BY <1>3, <1>5
<1>9. ASSUME NEW j \in 1..n PROVE "STRUCTURED" \in r.tags[b[j]] <=> j \in DOMAIN a
  <2>. DEFINE c == o[j]
  <2>1. c \in I /\ b[j] = c /\ j \in DOMAIN o
    BY <1>7, <1>8
  <2>2. "STRUCTURED" \in r.tags[c] <=> \E i \in DOMAIN a : a[i] = c
    BY <1>2, <1>3, <1>6, <2>1 DEF a
  <2>3. ASSUME NEW i \in DOMAIN a, a[i] = c PROVE i = j
    <3>1. i \in DOMAIN o /\ o[i] = o[j]
      BY <1>3, <1>4, <2>3
    <3> QED
      BY <1>3, <2>1, <3>1 DEF OnceEach
  <2>4. j \in DOMAIN a => a[j] = c
    BY <1>3, <1>4
  <2>. HIDE DEF c
  <2> QED
    BY <2>1, <2>2, <2>3, <2>4
<1>10. {j \in DOMAIN b : "STRUCTURED" \in r.tags[b[j]]} = {j \in DOMAIN a : j <= PoolCap}
  <2>1. \A j : j \in 1..n /\ j \in DOMAIN a <=> j \in DOMAIN a /\ j <= PoolCap
    BY <1>3, <1>4, <1>5
  <2> QED
    BY <1>7, <1>9, <2>1
<1>11. \A j \in {k \in DOMAIN b : "STRUCTURED" \in r.tags[b[k]]} : b[j] = a[j]
  BY <1>3, <1>4, <1>7, <1>9
<1>12. {<<i, b[i]>> : i \in {j \in DOMAIN b : "STRUCTURED" \in r.tags[b[j]]}}
         = {<<i, a[i]>> : i \in {j \in DOMAIN a : j <= PoolCap}}
  BY <1>10, <1>11
<1> QED
  BY <1>12 DEF PartOfFirst, a, b

\* The semantic channel marks what it picks.
LEMMA PicksMarked ==
  ASSUME NEW pool, NEW recall, PoolShape(pool, recall.scores), NEW events, NEW r,
         r = Generate(pool, recall, events)
  PROVE  {c \in DOMAIN pool : "VECTOR" \in r.tags[c]} = ToSet(VectorPicks(pool, recall.scores))
<1>. DEFINE I == DOMAIN pool
            first == Structured(pool)
            picks == VectorPicks(pool, recall.scores)
            similar == Enter(first, picks, "VECTOR")
<1>1. PICK u : Built(I, Channels, similar, {"VECTOR"}, u) /\ r.tags = u.tags
  <2>1. first = Structured(pool) /\ similar = Enter(first, VectorPicks(pool, recall.scores), "VECTOR")
    OBVIOUS
  <2>. HIDE DEF similar, first
  <2>2. Grown(pool, first, similar, r)
    BY <2>1, GeneratedFrom
  <2> QED
    BY <2>2 DEF Grown
<1>2. /\ first \in Selections(I, Channels) /\ OnceEach(first.order)
      /\ \A c \in I : "VECTOR" \notin first.tags[c]
  <2>1. first = Structured(pool)
    OBVIOUS
  <2>. HIDE DEF first
  <2> QED
    BY <2>1, StructuredFirst
<1>3. picks \in Seq(I)
  <2>1. picks \in Seq(Hits(pool, recall.scores))
    BY PicksReach DEF WithinLimits
  <2>2. Hits(pool, recall.scores) \subseteq I
    BY DEF Hits
  <2>. HIDE DEF picks, I
  <2> QED
    BY <2>1, <2>2, AmongMore
<1>4. similar = Enter(first, picks, "VECTOR") /\ "VECTOR" \in Channels
  BY DEF Channels
<1>. HIDE DEF I, first, picks, similar
<1>5. Marked(I, first, "VECTOR", picks, DOMAIN picks, similar)
  BY <1>2, <1>3, <1>4, EnterMarks
<1>6. \A c \in I : "VECTOR" \in similar.tags[c] <=> \E i \in DOMAIN picks : picks[i] = c
  BY <1>2, <1>5 DEF Marked
<1>7. \A c \in I : "VECTOR" \in r.tags[c] <=> \E i \in DOMAIN picks : picks[i] = c
  BY <1>1, <1>6 DEF Built
<1>8. \A i \in DOMAIN picks : picks[i] \in I
  BY <1>3
<1>9. ToSet(picks) = {c \in I : \E i \in DOMAIN picks : picks[i] = c}
  BY <1>8 DEF ToSet
<1> QED
  BY <1>7, <1>9 DEF I, picks

-----------------------------------------------------------------------------
(* The texts embedded, and what the semantic channel adds to a pool.        *)

\* Each text has the vector of a usable result given for it.
Aligned(texts, vectors, given) ==
  /\ Cardinality({d.index : d \in given}) = Len(texts)
  /\ \A i \in DOMAIN texts :
       \E d \in given : d.index = i /\ d.usable /\ d.vector = vectors[i]

LEMMA EmbeddedAligned ==
  ASSUME NEW T, NEW E, NEW texts \in Seq(T), NEW answer, answer # None => answer.data \in Seq(E),
         NEW vectors, vectors = Embedded(texts, answer), vectors # None,
         NEW given, given = {answer.data[k] : k \in DOMAIN answer.data}
  PROVE  Aligned(texts, vectors, given)
<1>. DEFINE data == answer.data
            places(i) == {k \in DOMAIN data : data[k].index = i}
            at(i) == CHOOSE k \in DOMAIN data :
                       data[k].index = i /\ \A j \in DOMAIN data : data[j].index = i => j <= k
            last(i) == data[at(i)]
<1>1. /\ texts # << >> /\ answer # None /\ Len(data) = Len(texts)
      /\ {d.index : d \in given} = DOMAIN texts /\ \A i \in DOMAIN texts : last(i).usable
  BY DEF Embedded
<1>2. vectors = [i \in DOMAIN texts |-> last(i).vector]
  BY <1>1 DEF Embedded
<1>3. data \in Seq(E)
  BY <1>1
<1>4. Cardinality({d.index : d \in given}) = Len(texts)
  <2>1. Len(texts) \in Nat /\ DOMAIN texts = 1..Len(texts)
    OBVIOUS
  <2>2. Cardinality(1..Len(texts)) = Len(texts)
    BY <2>1, FirstNumbers
  <2> QED
    BY <1>1, <2>1, <2>2
<1>5. ASSUME NEW i \in DOMAIN texts PROVE at(i) \in DOMAIN data /\ data[at(i)].index = i
  <2>1. PICK d \in given : d.index = i
    BY <1>1
  <2>2. places(i) \in SUBSET DOMAIN data /\ places(i) # {}
    BY <2>1
  <2>3. Max(places(i)) \in places(i) /\ \A j \in places(i) : j <= Max(places(i))
    <3>. DEFINE s == places(i)
    <3>1. s \in SUBSET DOMAIN data /\ s # {}
      BY <2>2
    <3>. HIDE DEF s, data
    <3>2. Max(s) \in s /\ \A j \in s : j <= Max(s)
      BY <1>3, <3>1, LastOfPlaces
    <3> QED
      BY <3>2 DEF s
  <2>4. \E k \in DOMAIN data : data[k].index = i /\ \A j \in DOMAIN data : data[j].index = i => j <= k
    <3>. DEFINE k == Max(places(i))
    <3>1. k \in places(i) /\ \A j \in places(i) : j <= k
      BY <2>3
    <3>. HIDE DEF k
    <3>2. k \in DOMAIN data /\ data[k].index = i /\ \A j \in DOMAIN data : data[j].index = i => j <= k
      BY <3>1
    <3> QED
      BY <3>2
  <2>. HIDE DEF data
  <2> QED
    BY <2>4
<1>6. \A k \in DOMAIN data : data[k] \in given
  OBVIOUS
<1>. HIDE DEF at, data
<1>7. ASSUME NEW i \in DOMAIN texts
      PROVE  \E d \in given : d.index = i /\ d.usable /\ d.vector = vectors[i]
  <2>1. last(i) \in given /\ last(i).index = i /\ last(i).usable /\ vectors[i] = last(i).vector
    BY <1>1, <1>2, <1>5, <1>6
  <2> QED
    BY <2>1
<1> QED
  BY <1>4, <1>7 DEF Aligned

\* A case of a pool has numbered candidates and keys, a case of texts an answer that is a
\* list of results when there is one.
RecallCase(t) ==
  /\ t.kind = "pool" => PoolShape(t.pool, t.recall.scores)
  /\ t.kind = "embed" =>
       \E T, E : t.texts \in Seq(T) /\ (t.answer # None => t.answer.data \in Seq(E))

\* Whatever the pool, the scores and the answer of the provider: each text gets its own
\* vector or none does, the first channel's part of the pool is what it is without the
\* semantic channel, and that channel is spread over the participations (RecallContained).
THEOREM RecallAlwaysContained ==
  ASSUME NEW CONSTANT cases, \A t \in cases : RecallCase(t)
  PROVE  Stages(cases) => []RecallContained
<1>1. Computed(cases) => RecallContained
  <2>. SUFFICES ASSUME Computed(cases), result # None PROVE RecallContained
    BY DEF RecallContained, VectorOfItsText, FailureKeepsStructured, VectorSpread
  <2>0. RecallCase(task)
    BY DEF Computed
  <2>1. VectorOfItsText
    <3>. SUFFICES ASSUME task.kind = "embed", result.vectors # None PROVE VectorOfItsText
      BY DEF VectorOfItsText
    <3>. DEFINE texts == task.texts
                answer == task.answer
                vectors == result.vectors
                given == {answer.data[k] : k \in DOMAIN answer.data}
    <3>1. PICK T, E : texts \in Seq(T) /\ (answer # None => answer.data \in Seq(E))
      BY <2>0 DEF RecallCase
    <3>2. vectors = Embedded(texts, answer) /\ vectors # None
      BY DEF Computed
    <3>3. given = {answer.data[k] : k \in DOMAIN answer.data}
      OBVIOUS
    <3>4. Aligned(texts, vectors, given)
      <4>. HIDE DEF texts, answer, vectors, given
      <4> QED
        BY <3>1, <3>2, <3>3, EmbeddedAligned
    <3> QED
      BY <3>4 DEF VectorOfItsText, Aligned
  <2>. DEFINE pool == task.pool
              scores == task.recall.scores
  <2>2. task.kind = "pool" =>
          PoolShape(pool, scores) /\ result = Generate(pool, task.recall, task.events)
    BY <2>0 DEF RecallCase, Computed
  <2>3. FailureKeepsStructured
    <3>. SUFFICES ASSUME task.kind = "pool" PROVE FailureKeepsStructured
      BY DEF FailureKeepsStructured
    <3>. DEFINE none == [status |-> "UNAVAILABLE", scores |-> << >>]
                recall == task.recall
                without == Generate(pool, none, task.events)
                first == Structured(pool)
    <3>1. PoolShape(pool, none.scores)
      BY <2>2 DEF PoolShape
    <3>2. /\ PoolShape(pool, recall.scores) /\ result = Generate(pool, recall, task.events)
          /\ without = Generate(pool, none, task.events) /\ first = Structured(pool)
      BY <2>2
    <3>3. PartOfFirst(result) = PartOfFirst(without)
      <4>. HIDE DEF pool, recall, none, without, first
      <4> QED
        BY <3>1, <3>2, FirstStays
    <3> QED
      BY <3>3 DEF FailureKeepsStructured, PartOfFirst
  <2>4. VectorSpread
    <3>. SUFFICES ASSUME task.kind = "pool" PROVE VectorSpread
      BY DEF VectorSpread
    <3>. DEFINE recall == task.recall
                events == task.events
                hit == {c \in DOMAIN pool : "VECTOR" \in result.tags[c]}
                P == ToSet(VectorPicks(pool, scores))
                of == [p \in DOMAIN scores |-> Cardinality(OfParticipation(pool, P, p))]
    <3>1. PoolShape(pool, scores) /\ PoolShape(pool, recall.scores)
          /\ result = Generate(pool, recall, events)
      BY <2>2
    <3>2. hit = P
      <4>1. {c \in DOMAIN pool : "VECTOR" \in result.tags[c]} = ToSet(VectorPicks(pool, recall.scores))
        <5>. HIDE DEF pool, recall, events
        <5> QED
          BY <3>1, PicksMarked
      <4> QED
        BY <4>1
    <3>3. P = ToSet(VectorPicks(pool, scores))
          /\ of = [p \in DOMAIN scores |-> Cardinality(OfParticipation(pool, P, p))]
      OBVIOUS
    <3>4. /\ Cardinality(P) <= VectorLimit
          /\ \A p \in DOMAIN scores : of[p] <= PerParticipation
          /\ \A p, q \in DOMAIN scores : scores[p] > scores[q] /\ of[q] > 0
               => of[p] >= Min({PerParticipation, Cardinality(OfParticipation(pool, DOMAIN pool, p))})
      <4>. HIDE DEF pool, scores, P, of
      <4> QED
        BY <3>1, <3>3, PicksSpread
    <3>5. \A p \in DOMAIN scores : of[p] = Cardinality(OfParticipation(pool, hit, p))
      BY <3>2
    <3>. HIDE DEF P, of
    <3>6. /\ Cardinality(hit) <= VectorLimit
          /\ \A p \in DOMAIN scores : Cardinality(OfParticipation(pool, hit, p)) <= PerParticipation
          /\ \A p, q \in DOMAIN scores :
               scores[p] > scores[q] /\ Cardinality(OfParticipation(pool, hit, q)) > 0
               => Cardinality(OfParticipation(pool, hit, p))
                    >= Min({PerParticipation, Cardinality(OfParticipation(pool, DOMAIN pool, p))})
      <4>. HIDE DEF hit, pool, scores
      <4>1. Cardinality(hit) <= VectorLimit
        BY <3>2, <3>4
      <4>2. ASSUME NEW p \in DOMAIN scores
            PROVE  of[p] = Cardinality(OfParticipation(pool, hit, p))
        BY <3>5
      <4> QED
        BY <3>4, <4>1, <4>2
    <3> QED
      BY <3>6 DEF VectorSpread
  <2> QED
    BY <2>1, <2>3, <2>4 DEF RecallContained
<1> QED
  BY <1>1, StagesCompute, PTL
=============================================================================
