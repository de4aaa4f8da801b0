---------------------------- MODULE VisitorProofs ----------------------------
(***************************************************************************)
(* Proofs about Visitor, for any number of requests, codes and events: type *)
(* correctness, one line of versions, that behaviour never overrules a      *)
(* statement, and what the snapshots of the versions and the recommendation *)
(* runs hold.                                                               *)
(*                                                                          *)
(* No form locks the profile.  What makes the versions serial is what a     *)
(* form knows from its read, FormsSeen: it has seen a version that exists,  *)
(* so that the number it claims is free only if nothing came in between.    *)
(***************************************************************************)
EXTENDS Visitor, FiniteSetTheorems, SequenceTheorems, WellFoundedInduction, TLAPS

\* The part of VersionsSerial that is about rows.
Line ==
  /\ profile.row_version = profile.current_version
  /\ profile.current_version >= 1
  /\ {v.number : v \in Known} = 1..profile.current_version
  /\ IsFiniteSet(versions) /\ Cardinality(Known) = profile.current_version
  /\ \A v \in versions : v.number = 1 => v = Created
  /\ \A v \in versions : v.if_match # None => v.number = v.if_match + 1

\* What a form relies on: it has seen a version that exists, under its tag.
FormsSeen ==
  \A r \in Requests : task[r].kind \in Forms =>
    /\ task[r].seen <= profile.current_version /\ task[r].seen >= 1
    /\ task[r].row_version = task[r].seen
    /\ task[r].if_match \in {None, task[r].seen}

\* A decision that may still commit concerns a proposal nobody has applied.
AppliedOnce ==
  /\ extraction.applied <= 1
  /\ extraction.status = "PROPOSED" => extraction.applied = 0
  /\ \A r \in Requests :
       task[r].kind = "decision" /\ task[r].seen = profile.current_version
         => extraction.applied = 0

IInv == TypeOK /\ Line /\ FormsSeen /\ AppliedOnce

\* FormAt, of the rows V of the versions.
IsForm(V, n, v) ==
  /\ v \in V /\ v.number <= n /\ v.reason # "BEHAVIOR_LEARNING"
  /\ \A w \in V : w.number <= n /\ w.reason # "BEHAVIOR_LEARNING" => w.number <= v.number

FormOf(V, n) == CHOOSE v \in V : IsForm(V, n, v)

\* A number names a version, and at each there is a form in force.
History ==
  /\ \A v, w \in Known : v.number = w.number => v = w
  /\ \A n \in 1..profile.current_version : \E v \in Known : IsForm(Known, n, v)

\* The form in force is the profile as it is.
Faithful ==
  /\ FormOf(Known, profile.current_version).attributes = active
  /\ FormOf(Known, profile.current_version).user_type = profile.user_type

\* What a run has read of versions 1..c, t a task or a stored row: the profile,
\* its attributes no later than version last, the version it is tied to.
ProfileRead(V, c, t) ==
  t.reported \in 1..c /\ t.user_type = FormOf(V, t.reported).user_type

AttributesRead(V, t, last) ==
  \E n \in t.reported..last : t.attributes = FormOf(V, n).attributes

VersionRead(V, c, t) == t.snapshot \in t.reported..c /\ AttributesRead(V, t, t.snapshot)

TaskBracketed(V, c, t) ==
  /\ t.kind \in {"run", "attributes-read", "resolved"} => ProfileRead(V, c, t)
  /\ t.kind = "attributes-read" => AttributesRead(V, t, c)
  /\ t.kind = "resolved" /\ t.snapshot # None => VersionRead(V, c, t)

RowBracketed(V, c, x) == ProfileRead(V, c, x) /\ VersionRead(V, c, x)

Rows == [reported : Nat, user_type : UserTypes, attributes : [Codes -> Sources \cup {None}],
         snapshot : Nat, status : {"ACTIVE", "INVALIDATED"}]

Bracketed ==
  /\ runs \in [Requests -> Rows \cup {None}]
  /\ \A r \in Requests : TaskBracketed(Known, profile.current_version, task[r])
  /\ \A r \in Requests : runs[r] # None => RowBracketed(Known, profile.current_version, runs[r])

\* What a target list may hold, and what the preferences of a profile are.
Target == [code : Codes, signal : Int]
Levels == [Codes -> -Full..Full \cup {None}]

\* ScoreAfter, of the rows s of the adjustments.
LeftBy(a) == IF a.applied THEN a.new ELSE a.previous

ScoreOf(s, c, n) ==
  LET made == {i \in 1..n : s[i].code = c}
  IN IF made = {} THEN 0 ELSE LeftBy(s[CHOOSE i \in made : \A j \in made : j <= i])

\* The rows s stand for the places of the lists that are in x, one for each.
Placed(s, x) ==
  /\ \A i, j \in 1..Len(s) : s[i].event = s[j].event /\ s[i].place = s[j].place => i = j
  /\ \A e \in Events : x[e] # None =>
       \A place \in DOMAIN x[e] : \E i \in 1..Len(s) : s[i].event = e /\ s[i].place = place
  /\ \A i \in 1..Len(s) :
       /\ x[s[i].event] # None /\ s[i].place \in DOMAIN x[s[i].event]
       /\ s[i].code = x[s[i].event][s[i].place].code

\* Each row of s goes on from where those before it left its code.
Led(s) == \A i \in 1..Len(s) : s[i].previous = ScoreOf(s, s[i].code, i - 1)

Adjustments == [event : Events, place : Nat, code : Codes, previous : Int, new : Int,
                applied : BOOLEAN]

LearnInv ==
  /\ IInv
  /\ adjustments \in Seq(Adjustments)
  /\ Placed(adjustments, signals)
  /\ Led(adjustments)
  /\ \A c \in Codes : Score(inferred[c]) = ScoreOf(adjustments, c, Len(adjustments))

HistoryInv == IInv /\ History /\ Faithful /\ Bracketed

\* What a run is tied to, or will be, is a version row.
Tied ==
  \A r \in Requests :
    /\ task[r].kind = "resolved" /\ task[r].snapshot # None
         => \E v \in versions : v.number = task[r].snapshot
    /\ runs[r] # None => \E v \in versions : v.number = runs[r].snapshot

-----------------------------------------------------------------------------
(* Lemmas.                                                                  *)

\* What a clamp leaves is within its bounds.
LEMMA ClampBounds ==
  ASSUME NEW x \in Int, NEW limit \in Nat
  PROVE  Clamp(x, limit) \in -limit..limit
BY DEF Clamp

\* A set of numbers that is not empty has a least one.
LEMMA LeastOf ==
  ASSUME NEW T \in SUBSET Nat, T # {}
  PROVE  \E x \in T : \A y \in T : x <= y
<1>. DEFINE R == {s \in Nat \X Nat : s[1] < s[2]}
<1>1. IsWellFoundedOn(R, Nat)
  BY NatLessThanWellFounded DEF OpToRel
<1>2. \A x, y \in Nat : y < x => <<y, x>> \in R
  OBVIOUS
<1>. HIDE DEF R
<1>3. PICK x \in T : \A y \in T : ~ (<<y, x>> \in R)
  BY <1>1, WFMin
<1>4. x \in Nat /\ \A y \in T : y \in Nat /\ ~ (y < x)
  BY <1>2, <1>3
<1> QED
  BY <1>4

\* Of the numbers up to a bound, some set that is not empty has a largest one.
LEMMA LargestOf ==
  ASSUME NEW n \in Nat, NEW T \in SUBSET (1..n), T # {}
  PROVE  \E x \in T : \A y \in T : y <= x
<1>. DEFINE U == {k \in Nat : \A y \in T : y <= k}
<1>1. U \in SUBSET Nat /\ n \in U
  OBVIOUS
<1>2. PICK k \in U : \A m \in U : k <= m
  BY <1>1, LeastOf
<1>3. k \in Nat /\ \A y \in T : y <= k
  OBVIOUS
<1>4. k \in T
  <2>. SUFFICES ASSUME k \notin T PROVE FALSE
    OBVIOUS
  <2>1. PICK t \in T : TRUE
    OBVIOUS
  <2>2. k >= 1 /\ k - 1 \in Nat
    BY <1>3, <2>1
  <2>3. \A y \in T : y <= k - 1
    <3>. SUFFICES ASSUME NEW y \in T PROVE y <= k - 1
      OBVIOUS
    <3>1. y \in Nat /\ y <= k /\ y # k
      BY <1>3
    <3> QED
      BY <1>3, <3>1
  <2>4. k - 1 \in U
    BY <2>2, <2>3
  <2> QED
    BY <1>2, <1>3, <2>4
<1> QED
  BY <1>3, <1>4

\* A recursion along the numbers up to n has a solution.
Solves(g, n, V, base, G) ==
  /\ g \in [0..n -> V] /\ g[0] = base
  /\ \A i \in 1..n : g[i] = G[<<g[i - 1], i>>]

LEMMA Recursion ==
  ASSUME NEW n \in Nat, NEW V, NEW base \in V, NEW G \in [V \X (1..n) -> V]
  PROVE  \E g : Solves(g, n, V, base, G)
<1>. DEFINE Part(k, g) == /\ g \in [0..k -> V] /\ g[0] = base
                          /\ \A i \in 1..k : g[i] = G[<<g[i - 1], i>>]
            T == {k \in 0..n : ~ \E g : Part(k, g)}
<1>1. T = {}
  <2>. SUFFICES ASSUME T # {} PROVE FALSE
    OBVIOUS
  <2>1. T \in SUBSET Nat
    OBVIOUS
  <2>2. PICK k \in T : \A y \in T : k <= y
    BY <2>1, LeastOf
  <2>3. k \in 0..n /\ ~ \E g : Part(k, g)
    OBVIOUS
  <2>4. CASE k = 0
    <3>. DEFINE g == [i \in 0..0 |-> base]
    <3>1. Part(0, g)
      OBVIOUS
    <3>. HIDE DEF Part, g
    <3> QED
      BY <2>3, <2>4, <3>1
  <2>5. CASE k # 0
    <3>1. k - 1 \in 0..n /\ k - 1 \notin T
      <4>1. k - 1 \in 0..n /\ ~ (k <= k - 1)
        BY <2>3, <2>5
      <4> QED
        BY <2>2, <4>1
    <3>2. PICK g : Part(k - 1, g)
      BY <3>1
    <3>. DEFINE v == G[<<g[k - 1], k>>]
                h == [i \in 0..k |-> IF i = k THEN v ELSE g[i]]
    <3>3. /\ g \in [0..(k - 1) -> V] /\ g[0] = base
          /\ \A i \in 1..(k - 1) : g[i] = G[<<g[i - 1], i>>]
      BY <3>2
    <3>4. k \in 1..n /\ k - 1 \in 0..(k - 1)
      BY <2>3, <2>5
    <3>5. v \in V
      <4>1. g[k - 1] \in V
        BY <3>3, <3>4
      <4> QED
        BY <3>4, <4>1
    <3>. HIDE DEF v
    <3>6. \A i \in 0..k : i = k \/ i \in 0..(k - 1)
      BY <3>4
    <3>7. h \in [0..k -> V] /\ h[k] = v /\ \A i \in 0..(k - 1) : h[i] = g[i]
      BY <3>3, <3>4, <3>5, <3>6
    <3>. HIDE DEF h
    <3>8. h[0] = base
      BY <3>3, <3>4, <3>7
    <3>9. ASSUME NEW i \in 1..k PROVE h[i] = G[<<h[i - 1], i>>]
      <4>1. i - 1 \in 0..(k - 1)
        BY <3>4
      <4>2. CASE i = k
        BY <3>7, <4>1, <4>2 DEF v
      <4>3. CASE i # k
        <5>1. i \in 1..(k - 1) /\ i \in 0..(k - 1)
          BY <3>4, <4>3
        <5> QED
          BY <3>3, <3>7, <4>1, <5>1
      <4> QED
        BY <4>2, <4>3
    <3>10. Part(k, h)
      BY <3>7, <3>8, <3>9
    <3>. HIDE DEF Part
    <3> QED
      BY <2>3, <3>10
  <2> QED
    BY <2>4, <2>5
<1>2. PICK g : Part(n, g)
  <2>1. n \in 0..n
    OBVIOUS
  <2> QED
    BY <1>1, <2>1
<1> QED
  BY <1>2 DEF Solves

\* The lists of an event are sequences of targets, and no list is None.
LEMMA TargetLists ==
  ASSUME NEW e \in Events, NEW targets \in Reports[e] \cup {<< >>}
  PROVE  targets \in Seq(Target) /\ targets # None
<1>1. Reports[e] \subseteq Seq(Target) /\ None \notin Seq(Target)
  BY VisitorAssumption DEF Target
<1>2. << >> \in Seq(Target)
  OBVIOUS
<1> QED
  BY <1>1, <1>2

\* A target moves a score within its scale, and a preference stays one.
LEMMA MovedInScale ==
  ASSUME TypeOK, NEW x \in -Full..Full \cup {None}, NEW signal \in Int
  PROVE  Moved(Score(x), signal) \in -Full..Full /\ Score(x) \in Int
<1>1. UpdateCap[profile.user_type] \in Nat /\ Full \in Nat
  BY VisitorAssumption DEF TypeOK, UserTypes
<1>2. Score(x) \in Int
  BY <1>1 DEF Score
<1>. DEFINE step == Clamp(signal, UpdateCap[profile.user_type])
<1>3. step \in Int
  BY <1>1 DEF Clamp
<1>. HIDE DEF step
<1>4. Score(x) + step \in Int
  BY <1>2, <1>3
<1>5. Clamp(Score(x) + step, Full) \in -Full..Full
  BY <1>1, <1>4, ClampBounds
<1> QED
  BY <1>2, <1>5 DEF Moved, step

LEMMA AfterTargetLevels ==
  ASSUME TypeOK, NEW known \in Levels, NEW t \in Target
  PROVE  AfterTarget(known, t) \in Levels
<1>1. t.code \in Codes /\ t.signal \in Int /\ known[t.code] \in -Full..Full \cup {None}
  BY DEF Levels, Target
<1>2. Moved(Score(known[t.code]), t.signal) \in -Full..Full
  BY <1>1, MovedInScale
<1> QED
  BY <1>1, <1>2 DEF AfterTarget, Levels

\* The preferences before and after each target of a list.
LEMMA PreferencesAre ==
  ASSUME TypeOK, NEW targets \in Seq(Target)
  PROVE  /\ Preferences(targets) \in [0..Len(targets) -> Levels]
         /\ Preferences(targets)[0] = inferred
         /\ \A i \in 1..Len(targets) :
              Preferences(targets)[i] = AfterTarget(Preferences(targets)[i - 1], targets[i])
<1>. DEFINE n == Len(targets)
            G == [p \in Levels \X (1..n) |-> AfterTarget(p[1], targets[p[2]])]
            Is(g) == g = [i \in 0..n |-> IF i = 0 THEN inferred ELSE AfterTarget(g[i - 1], targets[i])]
<1>1. n \in Nat /\ \A i \in 1..n : targets[i] \in Target
  BY LenProperties
<1>2. inferred \in Levels
  BY DEF TypeOK, Levels
<1>3. G \in [Levels \X (1..n) -> Levels]
  BY <1>1, AfterTargetLevels
<1>4. \A known \in Levels, i \in 1..n : G[<<known, i>>] = AfterTarget(known, targets[i])
  OBVIOUS
<1>5. Preferences(targets) = CHOOSE g : Is(g)
  BY DEF Preferences
<1>. HIDE DEF G
<1>6. PICK g : /\ g \in [0..n -> Levels] /\ g[0] = inferred
               /\ \A i \in 1..n : g[i] = G[<<g[i - 1], i>>]
  <2>1. n \in Nat
    BY <1>1
  <2>. HIDE DEF n
  <2>2. \E g : Solves(g, n, Levels, inferred, G)
    BY <1>2, <1>3, <2>1, Recursion
  <2> QED
    BY <2>2 DEF Solves
<1>. HIDE DEF n
<1>7. \A i \in 0..n : i = 0 \/ (i \in 1..n /\ i - 1 \in 0..n)
  BY <1>1
<1>8. \A i \in 0..n : g[i] = IF i = 0 THEN inferred ELSE AfterTarget(g[i - 1], targets[i])
  <2>. SUFFICES ASSUME NEW i \in 0..n
                PROVE  g[i] = IF i = 0 THEN inferred ELSE AfterTarget(g[i - 1], targets[i])
    OBVIOUS
  <2>2. CASE i = 0
    BY <1>6, <2>2
  <2>3. CASE i # 0
    <3>1. i \in 1..n /\ g[i - 1] \in Levels
      BY <1>6, <1>7, <2>3
    <3> QED
      BY <1>4, <1>6, <2>3, <3>1
  <2> QED
    BY <2>2, <2>3
<1>9. Is(g)
  BY <1>6, <1>8
<1>. DEFINE h == Preferences(targets)
<1>10. Is(h)
  <2>1. \E x : Is(x)
    BY <1>9
  <2>. HIDE DEF Is
  <2> QED
    BY <1>5, <2>1
<1>11. /\ DOMAIN h = 0..n /\ h[0] = inferred
       /\ \A i \in 1..n : h[i] = AfterTarget(h[i - 1], targets[i])
  <2>1. h = [i \in 0..n |-> IF i = 0 THEN inferred ELSE AfterTarget(h[i - 1], targets[i])]
    BY <1>10
  <2>. HIDE DEF h
  <2> QED
    BY <1>1, <2>1
<1>12. h \in [0..n -> Levels]
  <2>. DEFINE T == {k \in 0..n : h[k] \notin Levels}
  <2>. HIDE DEF h
  <2>1. T = {}
    <3>. SUFFICES ASSUME T # {} PROVE FALSE
      OBVIOUS
    <3>1. T \in SUBSET Nat
      OBVIOUS
    <3>2. PICK k \in T : \A y \in T : k <= y
      BY <3>1, LeastOf
    <3>3. k \in 0..n /\ h[k] \notin Levels
      OBVIOUS
    <3>4. k \in 1..n
      BY <1>2, <1>7, <1>11, <3>3
    <3>5. k - 1 \in 0..n /\ k - 1 \notin T
      <4>1. k - 1 \in 0..n /\ ~ (k <= k - 1)
        BY <1>1, <3>4
      <4> QED
        BY <3>2, <4>1
    <3>6. h[k - 1] \in Levels
      BY <3>5
    <3>7. h[k] \in Levels
      BY <1>1, <1>11, <3>4, <3>6, AfterTargetLevels
    <3> QED
      BY <3>3, <3>7
  <2>2. h = [i \in 0..n |-> h[i]]
    <3>1. h = [i \in 0..n |-> IF i = 0 THEN inferred ELSE AfterTarget(h[i - 1], targets[i])]
      BY <1>10 DEF h
    <3> QED
      BY <3>1
  <2> QED
    BY <2>1, <2>2
<1> QED
  BY <1>11, <1>12 DEF n

\* The task of a form is a record of what the form has seen.
LEMMA FormTask ==
  ASSUME TypeOK, NEW r \in Requests, task[r].kind \in Forms
  PROVE  /\ task[r].seen \in Nat
         /\ task[r].row_version \in Nat
         /\ task[r].if_match \in Nat \cup {None}
<1>1. task[r] \in Tasks
  BY DEF TypeOK
<1>2. task[r] \in [kind : Forms, seen : Nat, row_version : Nat, if_match : Nat \cup {None}]
  BY <1>1 DEF Tasks, Idle, Done, Forms
<1> QED
  BY <1>2

\* A request that ends leaves the others as they were.
LEMMA Finished ==
  ASSUME TypeOK, NEW r \in Requests, Finish(r)
  PROVE  /\ task' \in [Requests -> Tasks]
         /\ task'[r] = Done
         /\ \A q \in Requests \ {r} : task'[q] = task[q]
BY DEF TypeOK, Finish, Tasks

\* One more version, under the next number, extends the line.
LEMMA LineExtended ==
  ASSUME IInv, NEW new, new.number = profile.current_version + 1,
         new.if_match \in {None, profile.current_version},
         versions' = versions \cup {new},
         profile'.current_version = profile.current_version + 1,
         profile'.row_version = profile.row_version + 1
  PROVE  Line'
<1>. DEFINE n == profile.current_version
<1>1. n \in Nat /\ profile.row_version = n /\ n >= 1
  BY DEF IInv, TypeOK, Line
<1>2. Known' = Known \cup {new}
  BY DEF Known
<1>3. {v.number : v \in Known'} = 1..(n + 1)
  <2>1. {v.number : v \in Known'} = {v.number : v \in Known} \cup {n + 1}
    BY <1>2
  <2>2. {v.number : v \in Known'} = (1..n) \cup {n + 1}
    BY <2>1 DEF IInv, Line
  <2>3. (1..n) \cup {n + 1} = 1..(n + 1)
    BY <1>1
  <2> QED
    BY <2>2, <2>3
<1>4. IsFiniteSet(versions') /\ Cardinality(Known') = n + 1
  <2>1. IsFiniteSet(versions) /\ IsFiniteSet(Known) /\ Cardinality(Known) = n
    BY FS_AddElement DEF IInv, Line, Known
  <2>2. new \notin Known
    <3>1. n + 1 \notin 1..n
      BY <1>1
    <3>2. n + 1 \notin {v.number : v \in Known}
      BY <3>1 DEF IInv, Line
    <3> QED
      BY <3>2
  <2>3. IsFiniteSet(versions \cup {new})
    BY <2>1, FS_AddElement
  <2>4. Cardinality(Known \cup {new}) = Cardinality(Known) + 1
    BY <2>1, <2>2, FS_AddElement
  <2> QED
    BY <1>2, <2>1, <2>3, <2>4
<1>5. \A v \in versions' : v.if_match # None => v.number = v.if_match + 1
  BY DEF IInv, Line
<1>6. \A v \in versions' : v.number = 1 => v = Created
  BY <1>1 DEF IInv, Line
<1> QED
  BY <1>1, <1>3, <1>4, <1>5, <1>6 DEF Line

\* A form that commits has seen the current version, and adds the next one.
LEMMA Bumped ==
  ASSUME IInv, NEW r \in Requests, task[r].kind \in Forms, NEW type \in UserTypes,
         NEW after \in [Codes -> Sources \cup {None}], NEW patch, NEW reason,
         BumpVersion(r, type, after, patch, reason)
  PROVE  /\ task[r].seen = profile.current_version
         /\ profile' \in [user_type : UserTypes, current_version : Nat, row_version : Nat]
         /\ profile'.current_version = profile.current_version + 1
         /\ active' \in [Codes -> Sources \cup {None}]
         /\ \A v \in versions' : v.number \in Nat
         /\ Line'
         /\ Finish(r)
<1>. DEFINE number == task[r].seen + 1
            new == [number |-> number, reason |-> reason, if_match |-> task[r].if_match,
                    user_type |-> type, attributes |-> Snapshot(after),
                    price |-> IF patch.sets THEN patch.price ELSE LatestPrice]
<1>1. /\ task[r].seen \in Nat
      /\ task[r].seen <= profile.current_version /\ task[r].seen >= 1
      /\ task[r].row_version = task[r].seen
      /\ task[r].if_match \in {None, task[r].seen}
      /\ profile.current_version \in Nat
  BY FormTask DEF IInv, FormsSeen, TypeOK
<1>2. number \notin {v.number : v \in Known}
  BY <1>1 DEF BumpVersion, Unclaimed, Known, Created
<1>3. task[r].seen = profile.current_version
  <2>1. number \notin 1..profile.current_version
    BY <1>2 DEF IInv, Line
  <2> QED
    BY <1>1, <2>1
<1>4. /\ profile' = [user_type |-> type, current_version |-> number, row_version |-> number]
      /\ active' = after
      /\ Finish(r)
  BY <1>1 DEF BumpVersion
<1>5. versions' = versions \cup {new}
  BY DEF BumpVersion
<1>6. new.number = number /\ new.if_match = task[r].if_match
  OBVIOUS
<1>7. \A v \in versions' : v.number \in Nat
  BY <1>1, <1>5, <1>6 DEF IInv, TypeOK
<1>8. Line'
  <2>1. /\ profile'.current_version = profile.current_version + 1
        /\ profile'.row_version = profile.row_version + 1
    BY <1>1, <1>3, <1>4 DEF IInv, Line
  <2>2. new.number = profile.current_version + 1 /\ new.if_match \in {None, profile.current_version}
    BY <1>1, <1>3, <1>6
  <2>. HIDE DEF new
  <2> QED
    BY <1>5, <2>1, <2>2, LineExtended
<1> QED
  BY <1>1, <1>3, <1>4, <1>7, <1>8

\* What a form that commits leaves of the other requests.
LEMMA FormsAfterBump ==
  ASSUME IInv, NEW r \in Requests, Finish(r),
         profile'.current_version = profile.current_version + 1
  PROVE  /\ FormsSeen'
         /\ \A q \in Requests : task'[q].kind \in Forms => task'[q].seen # profile'.current_version
<1>1. task'[r].kind \notin Forms
  BY Finished DEF IInv, Done, Forms
<1>2. ASSUME NEW q \in Requests, task'[q].kind \in Forms
      PROVE  /\ task'[q].seen <= profile'.current_version
             /\ task'[q].row_version = task'[q].seen
             /\ task'[q].if_match \in {None, task'[q].seen}
             /\ task'[q].seen # profile'.current_version
             /\ task'[q].seen >= 1
  <2>1. q # r /\ task'[q] = task[q]
    BY <1>1, <1>2, Finished DEF IInv
  <2>2. task[q].seen \in Nat /\ task[q].seen <= profile.current_version
    BY <2>1, <1>2, FormTask DEF IInv, FormsSeen
  <2>3. profile.current_version \in Nat
    BY DEF IInv, TypeOK
  <2> QED
    BY <2>1, <2>2, <2>3, <1>2 DEF IInv, FormsSeen
<1> QED
  BY <1>2 DEF FormsSeen

\* A step that moves no version and gives request r a task that is no form, or
\* ends it.
LEMMA NoVersion ==
  ASSUME IInv, NEW r \in Requests, NEW t \in Tasks, t.kind \notin Forms,
         task' = [task EXCEPT ![r] = t], UNCHANGED <<profile, versions>>
  PROVE  /\ task' \in [Requests -> Tasks]
         /\ Line' /\ FormsSeen'
         /\ \A q \in Requests : task'[q].kind \in Forms => task'[q] = task[q]
<1>1. task' \in [Requests -> Tasks]
  BY DEF IInv, TypeOK
<1>2. \A q \in Requests : task'[q].kind \in Forms => task'[q] = task[q]
  BY DEF IInv, TypeOK
<1>3. Line'
  BY DEF IInv, Line, Known
<1>4. FormsSeen'
  BY <1>2 DEF IInv, FormsSeen
<1> QED
  BY <1>1, <1>2, <1>3, <1>4

\* A step that touches nothing but a task that is no form.
LEMMA QuietIInv ==
  ASSUME IInv, NEW r \in Requests, NEW t \in Tasks, t.kind \notin Forms,
         task' = [task EXCEPT ![r] = t],
         UNCHANGED <<profile, active, versions, extraction, learned>>
  PROVE  IInv'
<1>1. /\ task' \in [Requests -> Tasks] /\ Line' /\ FormsSeen'
      /\ \A q \in Requests : task'[q].kind \in Forms => task'[q] = task[q]
  BY NoVersion
<1>2. TypeOK'
  BY <1>1 DEF IInv, TypeOK, learned
<1>3. AppliedOnce'
  BY <1>1 DEF IInv, AppliedOnce, Forms
<1> QED
  BY <1>1, <1>2, <1>3 DEF IInv

\* If there is a version row, the latest one is that of the profile.
LEMMA LatestNumber ==
  ASSUME Line, profile.current_version \in Nat, versions # {}
  PROVE  /\ Latest.number = profile.current_version /\ Latest.number \in Nat
         /\ Latest \in versions
<1>. DEFINE n == profile.current_version
<1>1. n \in {v.number : v \in Known} /\ \A v \in versions : v.number \in 1..n
  BY DEF Line, Known
<1>2. PICK v \in versions : v.number = n
  <2>1. CASE n = 1
    BY <1>1, <2>1
  <2>2. CASE n # 1
    BY <1>1, <2>2 DEF Known, Created
  <2> QED
    BY <2>1, <2>2
<1>3. \A w \in versions : w.number <= v.number
  BY <1>1, <1>2
<1>4. Latest \in versions /\ \A w \in versions : w.number <= Latest.number
  BY <1>2, <1>3 DEF Latest
<1> QED
  BY <1>1, <1>2, <1>4

\* A commit that makes a version and leaves the extraction and what was learned.
LEMMA FormCommits ==
  ASSUME IInv, NEW r \in Requests, task[r].kind \in Forms, NEW type \in UserTypes,
         NEW after \in [Codes -> Sources \cup {None}], NEW patch, NEW reason,
         BumpVersion(r, type, after, patch, reason), UNCHANGED <<extraction, learned>>
  PROVE  IInv'
<1>1. /\ profile' \in [user_type : UserTypes, current_version : Nat, row_version : Nat]
      /\ profile'.current_version = profile.current_version + 1
      /\ active' \in [Codes -> Sources \cup {None}]
      /\ \A v \in versions' : v.number \in Nat
      /\ Line'
      /\ Finish(r)
  BY Bumped
<1>2. task' \in [Requests -> Tasks]
  BY <1>1, Finished DEF IInv
<1>3. TypeOK'
  BY <1>1, <1>2 DEF IInv, TypeOK, learned
<1>4. /\ FormsSeen'
      /\ \A q \in Requests : task'[q].kind \in Forms => task'[q].seen # profile'.current_version
  BY <1>1, FormsAfterBump
<1>5. AppliedOnce'
  BY <1>4 DEF IInv, AppliedOnce, Forms
<1> QED
  BY <1>1, <1>3, <1>4, <1>5 DEF IInv

-----------------------------------------------------------------------------
(* The invariant.                                                           *)

LEMMA InitIInv == Init => IInv
<1>. SUFFICES ASSUME Init PROVE IInv
  OBVIOUS
<1>1. TypeOK
  <2>1. \A v \in versions : v.number \in Nat
    BY DEF Init, Created
  <2>2. extraction \in [code : Codes, status : {"PROPOSED", "CONFIRMED", "REJECTED"}, applied : Nat]
    BY VisitorAssumption DEF Init
  <2>3. /\ profile \in [user_type : UserTypes, current_version : Nat, row_version : Nat]
        /\ active \in [Codes -> Sources \cup {None}]
        /\ inferred \in [Codes -> -Full..Full \cup {None}]
        /\ task \in [Requests -> Tasks]
    BY DEF Init, UserTypes, Tasks
  <2>4. DOMAIN signals = Events /\ \A e \in Events : signals[e] \in Reports[e] \cup {<< >>, None}
    BY DEF Init
  <2> QED
    BY <2>1, <2>2, <2>3, <2>4 DEF TypeOK
<1>2. Line
  <2>1. Known = {Created} /\ Created.number = 1 /\ Created.if_match = None
    BY DEF Init, Known, Created
  <2>2. IsFiniteSet(versions) /\ Cardinality(Known) = 1
    <3>1. IsFiniteSet({Created}) /\ Cardinality({Created}) = 1 /\ IsFiniteSet({})
      BY FS_Singleton, FS_EmptySet
    <3>. HIDE DEF Created
    <3> QED
      BY <2>1, <3>1 DEF Init
  <2>3. {w.number : w \in Known} = {1}
    BY <2>1
  <2>4. 1..1 = {1}
    OBVIOUS
  <2> QED
    BY <2>1, <2>2, <2>3, <2>4 DEF Init, Line
<1>3. \A r \in Requests : task[r].kind \notin Forms
  BY DEF Init, Idle, Forms
<1>4. FormsSeen /\ AppliedOnce
  BY <1>3 DEF Init, FormsSeen, AppliedOnce, Forms
<1> QED
  BY <1>1, <1>2, <1>4 DEF IInv

\* A form reads the profile.
LEMMA BeginFormIInv ==
  ASSUME IInv, NEW r \in Requests, NEW form \in Forms, NEW tag \in {None} \cup 1..profile.row_version,
         BeginForm(r, form, tag)
  PROVE  IInv'
<1>. DEFINE t == [kind |-> form, seen |-> profile.current_version,
                  row_version |-> profile.row_version, if_match |-> tag]
<1>0. /\ profile.current_version \in Nat /\ profile.row_version = profile.current_version
      /\ UNCHANGED <<profile, active, versions, extraction, learned>>
  BY DEF IInv, TypeOK, Line, BeginForm
<1>1. CASE task' = [task EXCEPT ![r] = Done]
  <2>1. Done \in Tasks /\ Done.kind \notin Forms
    BY DEF Done, Tasks, Forms
  <2>2. /\ task' \in [Requests -> Tasks] /\ Line' /\ FormsSeen'
        /\ \A q \in Requests : task'[q].kind \in Forms => task'[q] = task[q]
    BY <1>0, <1>1, <2>1, NoVersion
  <2>3. TypeOK'
    BY <1>0, <2>2 DEF IInv, TypeOK, learned
  <2>4. AppliedOnce'
    BY <1>0, <2>2 DEF IInv, AppliedOnce, Forms
  <2> QED
    BY <2>2, <2>3, <2>4 DEF IInv
<1>2. CASE /\ task' = [task EXCEPT ![r] = t]
           /\ tag \in {None, profile.row_version}
           /\ form = "decision" => extraction.status = "PROPOSED"
  <2>1. t \in [kind : Forms, seen : Nat, row_version : Nat, if_match : Nat \cup {None}]
    BY <1>0
  <2>2. t \in Tasks
    BY <2>1 DEF Tasks
  <2>3. task' \in [Requests -> Tasks]
    BY <1>2, <2>2 DEF IInv, TypeOK
  <2>4. task'[r] = t /\ \A q \in Requests \ {r} : task'[q] = task[q]
    BY <1>2 DEF IInv, TypeOK
  <2>5. TypeOK'
    BY <1>0, <2>3 DEF IInv, TypeOK, learned
  <2>6. Line'
    BY <1>0 DEF IInv, Line, Known
  <2>7. FormsSeen'
    <3>1. profile.current_version >= 1
      BY DEF IInv, Line
    <3> QED
      BY <1>0, <1>2, <2>4, <3>1 DEF IInv, FormsSeen
  <2>8. AppliedOnce'
    BY <1>0, <1>2, <2>4 DEF IInv, AppliedOnce
  <2> QED
    BY <2>5, <2>6, <2>7, <2>8 DEF IInv
<1> QED
  BY <1>1, <1>2 DEF BeginForm

\* A form, or the decision on an extraction, commits.
LEMMA CommitFormIInv ==
  ASSUME IInv, NEW r \in Requests, CommitForm(r)
  PROVE  IInv'
<1>0. /\ profile.user_type \in UserTypes
      /\ active \in [Codes -> Sources \cup {None}]
  BY DEF IInv, TypeOK
<1>1. \A group, codes : \A source \in Sources :
        Replaced(group, codes, source) \in [Codes -> Sources \cup {None}]
  BY <1>0 DEF Replaced
<1>2. \A add, remove : AddedRemoved(add, remove) \in [Codes -> Sources \cup {None}]
  BY <1>0 DEF AddedRemoved, Sources
<1>3. CASE UpdateUserType(r)
  <2>1. PICK type \in UserTypes : BumpVersion(r, type, active, Keep, "USER_TYPE")
    BY <1>3 DEF UpdateUserType
  <2> QED
    BY <1>0, <1>3, <2>1, FormCommits DEF UpdateUserType, Forms
<1>4. CASE UpdateGoals(r)
  <2>1. PICK codes \in SUBSET Goals :
          BumpVersion(r, profile.user_type, Replaced(Goals, codes, "USER_SELECTED"), Keep,
                      "GOALS_UPDATED")
    BY <1>4 DEF UpdateGoals
  <2>2. Replaced(Goals, codes, "USER_SELECTED") \in [Codes -> Sources \cup {None}]
    BY <1>1 DEF Sources
  <2> QED
    BY <1>0, <1>4, <2>1, <2>2, FormCommits DEF UpdateGoals, Forms
<1>5. CASE UpdateConsumerPreferences(r)
  <2>1. PICK codes \in SUBSET (Catalogue \ Goals), price \in Prices \cup {None} :
          BumpVersion(r, profile.user_type, Replaced(Codes \ Goals, codes, "USER_SELECTED"),
                      Set(price), "CONSUMER_PREFERENCES_UPDATED")
    BY <1>5 DEF UpdateConsumerPreferences
  <2>2. Replaced(Codes \ Goals, codes, "USER_SELECTED") \in [Codes -> Sources \cup {None}]
    BY <1>1 DEF Sources
  <2> QED
    BY <1>0, <1>5, <2>1, <2>2, FormCommits DEF UpdateConsumerPreferences, Forms
<1>6. CASE UpdateBuyerNeeds(r)
  <2>1. PICK codes \in SUBSET (Catalogue \ Goals) :
          BumpVersion(r, profile.user_type, Replaced(Codes \ Goals, codes, "USER_SELECTED"),
                      Keep, "BUYER_NEEDS_UPDATED")
    BY <1>6 DEF UpdateBuyerNeeds
  <2>2. Replaced(Codes \ Goals, codes, "USER_SELECTED") \in [Codes -> Sources \cup {None}]
    BY <1>1 DEF Sources
  <2> QED
    BY <1>0, <1>6, <2>1, <2>2, FormCommits DEF UpdateBuyerNeeds, Forms
<1>7. CASE UpdateVisitPlan(r)
  <2>1. BumpVersion(r, profile.user_type, active, Keep, "VISIT_PLAN_UPDATED")
    BY <1>7 DEF UpdateVisitPlan
  <2> QED
    BY <1>0, <1>7, <2>1, FormCommits DEF UpdateVisitPlan, Forms
<1>8. CASE PatchProfile(r)
  <2>1. PICK add \in SUBSET (Catalogue \ Goals), remove \in SUBSET (Catalogue \ Goals),
             patch \in {Keep} \cup {Set(p) : p \in Prices} :
          BumpVersion(r, profile.user_type, AddedRemoved(add, remove), patch, "USER_UPDATE")
    BY <1>8 DEF PatchProfile
  <2>2. AddedRemoved(add, remove) \in [Codes -> Sources \cup {None}]
    BY <1>2
  <2> QED
    BY <1>0, <1>8, <2>1, <2>2, FormCommits DEF PatchProfile, Forms
<1>9. CASE PatchAttributes(r)
  <2>1. PICK put \in SUBSET Catalogue, remove \in SUBSET Catalogue :
          BumpVersion(r, profile.user_type, Replaced(remove, put, "USER_EDITED"), Keep,
                      "ATTRIBUTES_PATCHED")
    BY <1>9 DEF PatchAttributes
  <2>2. Replaced(remove, put, "USER_EDITED") \in [Codes -> Sources \cup {None}]
    BY <1>1 DEF Sources
  <2> QED
    BY <1>0, <1>9, <2>1, <2>2, FormCommits DEF PatchAttributes, Forms
<1>10. CASE ConfirmExtraction(r)
  <2>. DEFINE after == [active EXCEPT ![extraction.code] = "USER_TYPED"]
  <2>0. extraction \in [code : Codes, status : {"PROPOSED", "CONFIRMED", "REJECTED"}, applied : Nat]
    BY DEF IInv, TypeOK
  <2>1. /\ BumpVersion(r, profile.user_type, after, Keep, "AI_CONFIRMATION")
        /\ extraction' = [code |-> extraction.code, status |-> "CONFIRMED",
                          applied |-> extraction.applied + 1]
        /\ UNCHANGED learned
        /\ task[r].kind = "decision"
    BY <1>10, <2>0 DEF ConfirmExtraction
  <2>2. after \in [Codes -> Sources \cup {None}]
    BY <1>0 DEF Sources
  <2>3. /\ task[r].seen = profile.current_version
        /\ profile' \in [user_type : UserTypes, current_version : Nat, row_version : Nat]
        /\ profile'.current_version = profile.current_version + 1
        /\ active' \in [Codes -> Sources \cup {None}]
        /\ \A v \in versions' : v.number \in Nat
        /\ Line'
        /\ Finish(r)
    BY <1>0, <2>1, <2>2, Bumped DEF Forms
  <2>4. extraction.applied = 0
    BY <2>1, <2>3 DEF IInv, AppliedOnce
  <2>5. task' \in [Requests -> Tasks]
    BY <2>3, Finished DEF IInv
  <2>6. TypeOK'
    BY <2>0, <2>1, <2>3, <2>4, <2>5 DEF IInv, TypeOK, learned
  <2>7. /\ FormsSeen'
        /\ \A q \in Requests : task'[q].kind \in Forms => task'[q].seen # profile'.current_version
    BY <2>3, FormsAfterBump
  <2>8. AppliedOnce'
    BY <2>1, <2>4, <2>7 DEF AppliedOnce, Forms
  <2> QED
    BY <2>3, <2>6, <2>7, <2>8 DEF IInv
<1>11. CASE RejectExtraction(r) \/ ConfirmUnlisted(r)
  <2>1. Done \in Tasks /\ Done.kind \notin Forms
    BY DEF Done, Tasks, Forms
  <2>2. /\ task' \in [Requests -> Tasks] /\ Line' /\ FormsSeen'
        /\ \A q \in Requests : task'[q].kind \in Forms => task'[q] = task[q]
    BY <1>11, <2>1, NoVersion DEF RejectExtraction, ConfirmUnlisted, Finish
  <2>3. PICK s \in {"REJECTED", "CONFIRMED"} : extraction' = [extraction EXCEPT !.status = s]
    BY <1>11 DEF RejectExtraction, ConfirmUnlisted
  <2>4. /\ extraction' \in [code : Codes, status : {"PROPOSED", "CONFIRMED", "REJECTED"},
                            applied : Nat]
        /\ extraction'.applied = extraction.applied /\ extraction'.status = s
    BY <2>3 DEF IInv, TypeOK
  <2>5. TypeOK'
    BY <1>11, <2>2, <2>4 DEF RejectExtraction, ConfirmUnlisted, IInv, TypeOK, learned
  <2>6. UNCHANGED profile
    BY <1>11 DEF RejectExtraction, ConfirmUnlisted
  <2>7. AppliedOnce'
    BY <2>2, <2>4, <2>6 DEF IInv, AppliedOnce, Forms
  <2> QED
    BY <2>2, <2>5, <2>7 DEF IInv
<1> QED
  BY <1>3, <1>4, <1>5, <1>6, <1>7, <1>8, <1>9, <1>10, <1>11 DEF CommitForm

\* Learning begins or answers a replay.
LEMMA BeginLearnIInv ==
  ASSUME IInv, NEW r \in Requests, NEW e \in Events, BeginLearn(r, e)
  PROVE  IInv'
<1>. DEFINE t == IF signals[e] # None THEN Done ELSE [kind |-> "learning", event |-> e]
<1>1. Done \in Tasks /\ Done.kind \notin Forms
  BY DEF Done, Tasks, Forms
<1>2. [kind |-> "learning", event |-> e] \in Tasks
  BY DEF Tasks
<1>3. t \in Tasks /\ t.kind \notin Forms
  BY <1>1, <1>2 DEF Forms
<1>4. task' = [task EXCEPT ![r] = t] /\ UNCHANGED <<profile, active, versions, extraction, learned>>
  BY DEF BeginLearn
<1>. HIDE DEF t
<1> QED
  BY <1>3, <1>4, QuietIInv

\* Learning commits.
LEMMA CommitLearnIInv ==
  ASSUME IInv, NEW r \in Requests, CommitLearn(r)
  PROVE  IInv'
<1>. DEFINE number == profile.current_version + 1
            new == [number |-> number, reason |-> "BEHAVIOR_LEARNING", if_match |-> None,
                    user_type |-> None, attributes |-> None, price |-> None]
<1>1. task[r].kind = "learning" /\ task[r] \in Tasks
  BY DEF CommitLearn, IInv, TypeOK
<1>2. task[r].event \in Events
  BY <1>1 DEF Tasks, Idle, Done, Forms
<1>3. UNCHANGED <<active, extraction>> /\ Finish(r)
  BY DEF CommitLearn
<1>4. /\ inferred' \in [Codes -> -Full..Full \cup {None}]
      /\ DOMAIN signals' = Events /\ \A e \in Events : signals'[e] \in Reports[e] \cup {<< >>, None}
  <2>1. PICK targets \in Reports[task[r].event] \cup {<< >>} :
          /\ signals' = [signals EXCEPT ![task[r].event] = targets]
          /\ inferred' = Preferences(targets)[Len(targets)]
    BY DEF CommitLearn
  <2>2. targets \in Seq([code : Codes, signal : Int])
    BY <1>2, TargetLists DEF Target
  <2>3. Len(targets) \in 0..Len(targets)
    BY <2>2
  <2>4. TypeOK
    BY DEF IInv
  <2>5. Preferences(targets)[Len(targets)] \in Levels
    BY <2>2, <2>3, <2>4, PreferencesAre DEF Target
  <2>6. inferred' \in [Codes -> -Full..Full \cup {None}]
    BY <2>1, <2>5 DEF Levels
  <2>7. \A e \in Events : signals'[e] = IF e = task[r].event THEN targets ELSE signals[e]
    BY <2>1, <2>4 DEF TypeOK
  <2>8. DOMAIN signals' = Events
    BY <2>1, <2>4 DEF TypeOK
  <2> QED
    BY <2>4, <2>6, <2>7, <2>8 DEF TypeOK
<1>5. CASE UNCHANGED <<profile, versions>>
  <2>1. Done \in Tasks /\ Done.kind \notin Forms
    BY DEF Done, Tasks, Forms
  <2>2. /\ task' \in [Requests -> Tasks] /\ Line' /\ FormsSeen'
        /\ \A q \in Requests : task'[q].kind \in Forms => task'[q] = task[q]
    BY <1>3, <1>5, <2>1, NoVersion DEF Finish
  <2>3. TypeOK'
    BY <1>3, <1>4, <1>5, <2>2 DEF IInv, TypeOK
  <2>4. AppliedOnce'
    BY <1>3, <1>5, <2>2 DEF IInv, AppliedOnce, Forms
  <2> QED
    BY <2>2, <2>3, <2>4 DEF IInv
<1>6. CASE /\ profile' = [profile EXCEPT !.current_version = number, !.row_version = @ + 1]
           /\ versions' = versions \cup {new}
  <2>1. /\ profile \in [user_type : UserTypes, current_version : Nat, row_version : Nat]
        /\ profile.current_version \in Nat
    BY DEF IInv, TypeOK
  <2>2. /\ profile' \in [user_type : UserTypes, current_version : Nat, row_version : Nat]
        /\ profile'.current_version = profile.current_version + 1
        /\ profile'.row_version = profile.row_version + 1
    <3>. DEFINE rows == profile.row_version + 1
    <3>1. rows \in Nat /\ number \in Nat
      BY <2>1
    <3>2. profile' = [profile EXCEPT !.current_version = number, !.row_version = rows]
      BY <1>6
    <3>. HIDE DEF new, number, rows
    <3>3. profile' \in [user_type : UserTypes, current_version : Nat, row_version : Nat]
      BY <2>1, <3>1, <3>2
    <3>4. profile'.current_version = number
      BY <2>1, <3>1, <3>2
    <3>5. profile'.row_version = rows
      BY <2>1, <3>1, <3>2
    <3> QED
      BY <3>3, <3>4, <3>5 DEF number, rows
  <2>3. new.number = number /\ new.if_match = None
    OBVIOUS
  <2>5. \A v \in versions' : v.number \in Nat
    BY <1>6, <2>1, <2>3 DEF IInv, TypeOK
  <2>6. versions' = versions \cup {new}
    BY <1>6
  <2>. HIDE DEF new
  <2>7. Line'
    BY <2>2, <2>3, <2>6, LineExtended
  <2>8. /\ FormsSeen'
        /\ \A q \in Requests : task'[q].kind \in Forms => task'[q].seen # profile'.current_version
    BY <1>3, <2>2, FormsAfterBump
  <2>9. TypeOK'
    BY <1>3, <1>4, <2>2, <2>5, Finished DEF IInv, TypeOK
  <2>10. AppliedOnce'
    BY <1>3, <2>8 DEF IInv, AppliedOnce, Forms
  <2> QED
    BY <2>7, <2>8, <2>9, <2>10 DEF IInv
<1> QED
  BY <1>5, <1>6 DEF CommitLearn

\* A recommendation run reads and is stored, or a request is abandoned.
LEMMA RunIInv ==
  ASSUME IInv, NEW r \in Requests,
         \/ BeginRun(r) \/ ReadAttributes(r) \/ ReadVersion(r) \/ StoreRecommendation(r)
         \/ RefuseStore(r) \/ Abandon(r)
  PROVE  IInv'
<1>0. /\ profile.user_type \in UserTypes /\ profile.current_version \in Nat
      /\ active \in [Codes -> Sources \cup {None}]
      /\ task \in [Requests -> Tasks]
  BY DEF IInv, TypeOK
<1>1. CASE BeginRun(r)
  <2>. DEFINE t == [kind |-> "run", reported |-> profile.current_version,
                    user_type |-> profile.user_type]
  <2>1. t \in Tasks /\ t.kind \notin Forms
    BY <1>0 DEF Tasks, Forms
  <2> QED
    BY <1>1, <2>1, QuietIInv DEF BeginRun
<1>2. CASE ReadAttributes(r)
  <2>. DEFINE t == [kind |-> "attributes-read", reported |-> task[r].reported,
                    user_type |-> task[r].user_type, attributes |-> active]
  <2>1. task[r] \in [kind : {"run"}, reported : Nat, user_type : UserTypes]
    BY <1>0, <1>2 DEF ReadAttributes, Tasks, Idle, Done, Forms
  <2>2. t \in [kind : {"attributes-read"}, reported : Nat, user_type : UserTypes,
               attributes : [Codes -> Sources \cup {None}]]
    BY <1>0, <2>1
  <2>3. t \in Tasks /\ t.kind \notin Forms
    BY <2>2 DEF Tasks, Forms
  <2>4. task' = [task EXCEPT ![r] = t]
    BY <1>0, <1>2 DEF ReadAttributes
  <2> QED
    BY <1>2, <2>3, <2>4, QuietIInv DEF ReadAttributes
<1>3. CASE ReadVersion(r)
  <2>. DEFINE t == [kind |-> "resolved", reported |-> task[r].reported,
                    user_type |-> task[r].user_type, attributes |-> task[r].attributes,
                    snapshot |-> SnapshotOf(task[r])]
  <2>1. task[r] \in [kind : {"attributes-read"}, reported : Nat, user_type : UserTypes,
                     attributes : [Codes -> Sources \cup {None}]]
    BY <1>0, <1>3 DEF ReadVersion, Tasks, Idle, Done, Forms
  <2>2. SnapshotOf(task[r]) \in Nat \cup {None}
    BY LatestNumber DEF IInv, TypeOK, SnapshotOf
  <2>3. t \in [kind : {"resolved"}, reported : Nat, user_type : UserTypes,
               attributes : [Codes -> Sources \cup {None}], snapshot : Nat \cup {None}]
    BY <2>1, <2>2
  <2>4. t \in Tasks /\ t.kind \notin Forms
    BY <2>3 DEF Tasks, Forms
  <2>5. task' = [task EXCEPT ![r] = t]
    BY <1>0, <1>3 DEF ReadVersion
  <2> QED
    BY <1>3, <2>4, <2>5, QuietIInv DEF ReadVersion
<1>4. CASE StoreRecommendation(r) \/ RefuseStore(r) \/ Abandon(r)
  <2>1. Done \in Tasks /\ Done.kind \notin Forms
    BY DEF Done, Tasks, Forms
  <2> QED
    BY <1>4, <2>1, QuietIInv DEF StoreRecommendation, RefuseStore, Abandon, Finish
<1> QED
  BY <1>1, <1>2, <1>3, <1>4

LEMMA NextIInv == IInv /\ [Next]_vars => IInv'
<1>. SUFFICES ASSUME IInv, [Next]_vars PROVE IInv'
  OBVIOUS
<1>1. CASE Next
  <2>1. PICK r \in Requests :
          \/ \E form \in Forms, tag \in {None} \cup 1..profile.row_version : BeginForm(r, form, tag)
          \/ CommitForm(r)
          \/ \E e \in Events : BeginLearn(r, e)
          \/ CommitLearn(r)
          \/ BeginRun(r) \/ ReadAttributes(r) \/ ReadVersion(r) \/ StoreRecommendation(r)
          \/ RefuseStore(r) \/ Abandon(r)
    BY <1>1 DEF Next
  <2> QED
    BY <2>1, BeginFormIInv, CommitFormIInv, BeginLearnIInv, CommitLearnIInv, RunIInv
<1>2. CASE UNCHANGED vars
  BY <1>2 DEF vars, IInv, TypeOK, Line, Known, FormsSeen, AppliedOnce
<1> QED
  BY <1>1, <1>2

-----------------------------------------------------------------------------
(* Snapshots and runs.                                                      *)

\* A row that is in force is the one FormOf finds.
LEMMA FormFound ==
  ASSUME NEW V, \A v, w \in V : v.number = w.number => v = w,
         \A v \in V : v.number \in Nat,
         NEW n, NEW v, IsForm(V, n, v)
  PROVE  FormOf(V, n) = v
<1>1. FormOf(V, n) \in V /\ IsForm(V, n, FormOf(V, n))
  BY DEF FormOf, IsForm
<1>2. FormOf(V, n).number <= v.number /\ v.number <= FormOf(V, n).number
  BY <1>1 DEF IsForm
<1>3. FormOf(V, n).number = v.number
  BY <1>1, <1>2 DEF IsForm
<1> QED
  BY <1>1, <1>3 DEF IsForm

\* One more version disturbs none before it, and is in force if a form made it.
LEMMA VersionAdded ==
  ASSUME NEW V, NEW c \in Nat \ {0}, NEW new,
         \A v, w \in V : v.number = w.number => v = w,
         \A v \in V : v.number \in 1..c,
         \A n \in 1..c : \E v \in V : IsForm(V, n, v),
         new.number = c + 1
  PROVE  /\ \A v, w \in V \cup {new} : v.number = w.number => v = w
         /\ \A n \in 1..(c + 1) : \E v \in V \cup {new} : IsForm(V \cup {new}, n, v)
         /\ \A n \in 1..c : FormOf(V \cup {new}, n) = FormOf(V, n)
         /\ FormOf(V \cup {new}, c + 1) =
              IF new.reason # "BEHAVIOR_LEARNING" THEN new ELSE FormOf(V, c)
<1>. DEFINE W == V \cup {new}
<1>1. \A v, w \in W : v.number = w.number => v = w
  OBVIOUS
<1>2. \A v \in W : v.number \in Nat
  OBVIOUS
<1>3. ASSUME NEW n \in 1..c, NEW v \in V, IsForm(V, n, v)
      PROVE  IsForm(W, n, v)
  BY <1>3 DEF IsForm
<1>4. ASSUME NEW n \in 1..c
      PROVE  FormOf(W, n) = FormOf(V, n) /\ \E v \in W : IsForm(W, n, v)
  <2>1. PICK v \in V : IsForm(V, n, v)
    OBVIOUS
  <2>2. IsForm(W, n, v) /\ v \in W
    BY <1>3, <2>1
  <2>. HIDE DEF W
  <2>3. FormOf(V, n) = v
    BY <2>1, FormFound
  <2>4. FormOf(W, n) = v
    BY <1>1, <1>2, <2>2, FormFound
  <2> QED
    BY <2>2, <2>3, <2>4
<1>5. /\ FormOf(W, c + 1) = IF new.reason # "BEHAVIOR_LEARNING" THEN new ELSE FormOf(V, c)
      /\ \E v \in W : IsForm(W, c + 1, v)
  <2>1. CASE new.reason # "BEHAVIOR_LEARNING"
    <3>1. IsForm(W, c + 1, new) /\ new \in W
      BY <2>1 DEF IsForm
    <3>. HIDE DEF W
    <3>2. FormOf(W, c + 1) = new
      BY <1>1, <1>2, <3>1, FormFound
    <3> QED
      BY <2>1, <3>1, <3>2
  <2>2. CASE new.reason = "BEHAVIOR_LEARNING"
    <3>1. c \in 1..c
      OBVIOUS
    <3>2. PICK v \in V : IsForm(V, c, v)
      BY <3>1
    <3>3. IsForm(W, c + 1, v) /\ v \in W
      BY <2>2, <3>2 DEF IsForm
    <3>. HIDE DEF W
    <3>4. FormOf(V, c) = v
      BY <3>2, FormFound
    <3>5. FormOf(W, c + 1) = v
      BY <1>1, <1>2, <3>3, FormFound
    <3> QED
      BY <2>2, <3>3, <3>4, <3>5
  <2> QED
    BY <2>1, <2>2
<1>6. \A n \in 1..(c + 1) : n \in 1..c \/ n = c + 1
  OBVIOUS
<1>. HIDE DEF W
<1>7. \A n \in 1..(c + 1) : \E v \in W : IsForm(W, n, v)
  BY <1>4, <1>5, <1>6
<1> QED
  BY <1>1, <1>4, <1>5, <1>7 DEF W

\* What was read stays as it was read, however the history goes on.
LEMMA BracketsKept ==
  ASSUME NEW V, NEW W, NEW c \in Nat, NEW d \in Nat, c <= d,
         \A n \in 1..c : FormOf(W, n) = FormOf(V, n), NEW t
  PROVE  /\ ProfileRead(V, c, t) => ProfileRead(W, d, t)
         /\ ProfileRead(V, c, t) /\ AttributesRead(V, t, c) => AttributesRead(W, t, d)
         /\ ProfileRead(V, c, t) /\ VersionRead(V, c, t) => VersionRead(W, d, t)
<1>. SUFFICES ASSUME ProfileRead(V, c, t)
              PROVE  /\ ProfileRead(W, d, t)
                     /\ AttributesRead(V, t, c) => AttributesRead(W, t, d)
                     /\ VersionRead(V, c, t) => VersionRead(W, d, t)
  BY DEF ProfileRead
<1>1. t.reported \in 1..c
  BY DEF ProfileRead
<1>2. ProfileRead(W, d, t)
  BY <1>1 DEF ProfileRead
<1>3. ASSUME AttributesRead(V, t, c)
      PROVE  AttributesRead(W, t, d)
  <2>1. PICK n \in t.reported..c : t.attributes = FormOf(V, n).attributes
    BY <1>3 DEF AttributesRead
  <2>2. n \in 1..c /\ n \in t.reported..d
    BY <1>1, <2>1
  <2>3. t.attributes = FormOf(W, n).attributes
    BY <2>1, <2>2
  <2> QED
    BY <2>2, <2>3 DEF AttributesRead
<1>4. ASSUME VersionRead(V, c, t)
      PROVE  VersionRead(W, d, t)
  <2>1. t.snapshot \in t.reported..c
    BY <1>4 DEF VersionRead
  <2>2. PICK n \in t.reported..t.snapshot : t.attributes = FormOf(V, n).attributes
    BY <1>4 DEF VersionRead, AttributesRead
  <2>3. n \in 1..c /\ t.snapshot \in t.reported..d
    BY <1>1, <2>1, <2>2
  <2>4. t.attributes = FormOf(W, n).attributes
    BY <2>2, <2>3
  <2> QED
    BY <2>2, <2>3, <2>4 DEF VersionRead, AttributesRead
<1> QED
  BY <1>2, <1>3, <1>4

\* An invalidation leaves of a run what it was made of.
LEMMA RunsKept ==
  ASSUME runs \in [Requests -> Rows \cup {None}],
         UNCHANGED runs \/ InvalidateActiveRecommendations
  PROVE  /\ runs' \in [Requests -> Rows \cup {None}]
         /\ \A q \in Requests : runs'[q] # None =>
              /\ runs[q] # None
              /\ runs'[q].reported = runs[q].reported
              /\ runs'[q].user_type = runs[q].user_type
              /\ runs'[q].attributes = runs[q].attributes
              /\ runs'[q].snapshot = runs[q].snapshot
<1>1. CASE UNCHANGED runs
  BY <1>1
<1>2. CASE InvalidateActiveRecommendations
  <2>. DEFINE off(x) == [x EXCEPT !.status = "INVALIDATED"]
  <2>1. ASSUME NEW x \in Rows
        PROVE  /\ off(x) \in Rows
               /\ off(x).reported = x.reported /\ off(x).user_type = x.user_type
               /\ off(x).attributes = x.attributes /\ off(x).snapshot = x.snapshot
    BY DEF Rows
  <2>2. runs' = [q \in Requests |-> IF runs[q] # None /\ runs[q].status = "ACTIVE"
                                    THEN off(runs[q]) ELSE runs[q]]
    BY <1>2 DEF InvalidateActiveRecommendations
  <2>. HIDE DEF off
  <2>3. \A q \in Requests : runs[q] # None => runs[q] \in Rows
    OBVIOUS
  <2>4. \A q \in Requests :
          runs'[q] = runs[q] \/ (runs[q] # None /\ runs'[q] = off(runs[q]))
    BY <2>2
  <2>5. runs' \in [Requests -> Rows \cup {None}]
    <3>1. ASSUME NEW q \in Requests PROVE runs'[q] \in Rows \cup {None}
      BY <2>1, <2>3, <2>4
    <3>2. DOMAIN runs' = Requests /\ runs' = [q \in Requests |-> runs'[q]]
      BY <2>2
    <3> QED
      BY <3>1, <3>2
  <2> QED
    BY <2>1, <2>3, <2>4, <2>5
<1> QED
  BY <1>1, <1>2

\* A version is added, by a form, of the profile as the form leaves it, or by
\* learning, which leaves the profile.
LEMMA HistoryGrows ==
  ASSUME HistoryInv, NEW r \in Requests, Finish(r),
         UNCHANGED runs \/ InvalidateActiveRecommendations,
         profile'.current_version = profile.current_version + 1,
         NEW new, new.number = profile.current_version + 1,
         versions' = versions \cup {new},
         IF new.reason # "BEHAVIOR_LEARNING"
         THEN new.attributes = active' /\ new.user_type = profile'.user_type
         ELSE active' = active /\ profile'.user_type = profile.user_type
  PROVE  History' /\ Faithful' /\ Bracketed'
<1>. DEFINE c == profile.current_version
<1>1. c \in Nat \ {0} /\ \A v \in Known : v.number \in 1..c
  BY DEF HistoryInv, IInv, TypeOK, Line
<1>0. Known' = Known \cup {new}
  BY DEF Known
<1>2. /\ \A v, w \in Known : v.number = w.number => v = w
      /\ \A n \in 1..c : \E v \in Known : IsForm(Known, n, v)
  BY DEF HistoryInv, History
<1>3. /\ \A v, w \in Known' : v.number = w.number => v = w
      /\ \A n \in 1..(c + 1) : \E v \in Known' : IsForm(Known', n, v)
      /\ \A n \in 1..c : FormOf(Known', n) = FormOf(Known, n)
      /\ FormOf(Known', c + 1) =
           IF new.reason # "BEHAVIOR_LEARNING" THEN new ELSE FormOf(Known, c)
  <2>1. new.number = c + 1
    OBVIOUS
  <2>. HIDE DEF c
  <2>2. /\ \A v, w \in Known \cup {new} : v.number = w.number => v = w
        /\ \A n \in 1..(c + 1) : \E v \in Known \cup {new} : IsForm(Known \cup {new}, n, v)
        /\ \A n \in 1..c : FormOf(Known \cup {new}, n) = FormOf(Known, n)
        /\ FormOf(Known \cup {new}, c + 1) =
             IF new.reason # "BEHAVIOR_LEARNING" THEN new ELSE FormOf(Known, c)
    BY ZenonT(40), <1>1, <1>2, <2>1, VersionAdded
  <2> QED
    BY <1>0, <2>2
<1>4. profile'.current_version = c + 1
  OBVIOUS
<1>5. History'
  BY <1>3, <1>4 DEF History
<1>6. Faithful'
  BY <1>3, <1>4 DEF HistoryInv, Faithful
<1>. HIDE DEF c
<1>7. c \in Nat /\ c + 1 \in Nat /\ c <= c + 1
  BY <1>1
<1>8. ASSUME NEW q \in Requests
      PROVE  TaskBracketed(Known', c + 1, task'[q])
  <2>1. CASE q = r
    BY <2>1, Finished DEF HistoryInv, IInv, TaskBracketed, Done
  <2>2. CASE q # r
    <3>1. task'[q] = task[q]
      BY <2>2, Finished DEF HistoryInv, IInv
    <3>2. TaskBracketed(Known, c, task[q])
      BY DEF HistoryInv, Bracketed, c
    <3>3. TaskBracketed(Known', c + 1, task[q])
      BY <1>3, <1>7, <3>2, BracketsKept DEF TaskBracketed
    <3> QED
      BY <3>1, <3>3
  <2> QED
    BY <2>1, <2>2
<1>9. /\ runs' \in [Requests -> Rows \cup {None}]
      /\ \A q \in Requests : runs'[q] # None =>
           /\ runs[q] # None
           /\ runs'[q].reported = runs[q].reported
           /\ runs'[q].user_type = runs[q].user_type
           /\ runs'[q].attributes = runs[q].attributes
           /\ runs'[q].snapshot = runs[q].snapshot
  BY RunsKept DEF HistoryInv, Bracketed
<1>10. ASSUME NEW q \in Requests, runs'[q] # None
       PROVE  RowBracketed(Known', c + 1, runs'[q])
  <2>1. RowBracketed(Known, c, runs[q])
    BY <1>9, <1>10 DEF HistoryInv, Bracketed, c
  <2>2. RowBracketed(Known', c + 1, runs[q])
    BY <1>3, <1>7, <2>1, BracketsKept DEF RowBracketed
  <2> QED
    BY <1>9, <1>10, <2>2 DEF RowBracketed, ProfileRead, VersionRead, AttributesRead
<1>11. Bracketed'
  BY <1>4, <1>8, <1>9, <1>10 DEF Bracketed
<1> QED
  BY <1>5, <1>6, <1>11

\* The history stays, and request r goes on to what it has read of it.
LEMMA HistoryStays ==
  ASSUME HistoryInv, NEW r \in Requests, NEW t, task' = [task EXCEPT ![r] = t],
         TaskBracketed(Known, profile.current_version, t),
         UNCHANGED <<profile, active, versions, runs>>
  PROVE  History' /\ Faithful' /\ Bracketed'
<1>0. Known' = Known
  BY DEF Known
<1>1. History' /\ Faithful'
  BY <1>0 DEF HistoryInv, History, Faithful
<1>2. \A q \in Requests : task'[q] = IF q = r THEN t ELSE task[q]
  BY DEF HistoryInv, IInv, TypeOK
<1>3. Bracketed'
  BY <1>0, <1>2 DEF HistoryInv, Bracketed
<1> QED
  BY <1>1, <1>3

\* A change to the profile is a version that a form made of it.
LEMMA FormHistory ==
  ASSUME HistoryInv, NEW r \in Requests, task[r].kind \in Forms, NEW type \in UserTypes,
         NEW after \in [Codes -> Sources \cup {None}], NEW patch, NEW reason,
         reason # "BEHAVIOR_LEARNING", BumpVersion(r, type, after, patch, reason),
         UNCHANGED runs \/ InvalidateActiveRecommendations
  PROVE  History' /\ Faithful' /\ Bracketed'
<1>. DEFINE number == task[r].seen + 1
            new == [number |-> number, reason |-> reason, if_match |-> task[r].if_match,
                    user_type |-> type, attributes |-> Snapshot(after),
                    price |-> IF patch.sets THEN patch.price ELSE LatestPrice]
<1>1. /\ task[r].seen = profile.current_version
      /\ profile'.current_version = profile.current_version + 1
      /\ Finish(r)
  BY Bumped DEF HistoryInv
<1>2. profile'.user_type = type /\ active' = after /\ versions' = versions \cup {new}
  BY DEF BumpVersion
<1>3. /\ new.number = profile.current_version + 1 /\ new.reason # "BEHAVIOR_LEARNING"
      /\ new.attributes = active' /\ new.user_type = profile'.user_type
  BY <1>1, <1>2 DEF Snapshot
<1>. HIDE DEF new, number
<1> QED
  BY <1>1, <1>2, <1>3, HistoryGrows

\* The history goes on, or stays, as a form commits.
LEMMA CommitFormHistory ==
  ASSUME HistoryInv, NEW r \in Requests, CommitForm(r)
  PROVE  History' /\ Faithful' /\ Bracketed'
<1>0. /\ profile.user_type \in UserTypes
      /\ active \in [Codes -> Sources \cup {None}]
  BY DEF HistoryInv, IInv, TypeOK
<1>1. \A group, codes, source : source \in Sources =>
        Replaced(group, codes, source) \in [Codes -> Sources \cup {None}]
  BY <1>0 DEF Replaced
<1>2. \A add, remove : AddedRemoved(add, remove) \in [Codes -> Sources \cup {None}]
  BY <1>0 DEF AddedRemoved, Sources
<1>3. CASE UpdateUserType(r)
  <2>1. PICK type \in UserTypes : /\ BumpVersion(r, type, active, Keep, "USER_TYPE")
                                  /\ UNCHANGED runs \/ InvalidateActiveRecommendations
    BY <1>3 DEF UpdateUserType
  <2> QED
    BY <1>0, <1>3, <2>1, FormHistory DEF UpdateUserType, Forms
<1>4. CASE UpdateGoals(r)
  <2>1. PICK codes \in SUBSET Goals :
          BumpVersion(r, profile.user_type, Replaced(Goals, codes, "USER_SELECTED"), Keep,
                      "GOALS_UPDATED")
    BY <1>4 DEF UpdateGoals
  <2>2. Replaced(Goals, codes, "USER_SELECTED") \in [Codes -> Sources \cup {None}]
    BY <1>1 DEF Sources
  <2> QED
    BY <1>0, <1>4, <2>1, <2>2, FormHistory DEF UpdateGoals, Forms
<1>5. CASE UpdateConsumerPreferences(r)
  <2>1. PICK codes \in SUBSET (Catalogue \ Goals), price \in Prices \cup {None} :
          BumpVersion(r, profile.user_type, Replaced(Codes \ Goals, codes, "USER_SELECTED"),
                      Set(price), "CONSUMER_PREFERENCES_UPDATED")
    BY <1>5 DEF UpdateConsumerPreferences
  <2>2. Replaced(Codes \ Goals, codes, "USER_SELECTED") \in [Codes -> Sources \cup {None}]
    BY <1>1 DEF Sources
  <2> QED
    BY <1>0, <1>5, <2>1, <2>2, FormHistory DEF UpdateConsumerPreferences, Forms
<1>6. CASE UpdateBuyerNeeds(r)
  <2>1. PICK codes \in SUBSET (Catalogue \ Goals) :
          BumpVersion(r, profile.user_type, Replaced(Codes \ Goals, codes, "USER_SELECTED"),
                      Keep, "BUYER_NEEDS_UPDATED")
    BY <1>6 DEF UpdateBuyerNeeds
  <2>2. Replaced(Codes \ Goals, codes, "USER_SELECTED") \in [Codes -> Sources \cup {None}]
    BY <1>1 DEF Sources
  <2> QED
    BY <1>0, <1>6, <2>1, <2>2, FormHistory DEF UpdateBuyerNeeds, Forms
<1>7. CASE UpdateVisitPlan(r)
  BY <1>0, <1>7, FormHistory DEF UpdateVisitPlan, Forms
<1>8. CASE PatchProfile(r)
  <2>1. PICK add \in SUBSET (Catalogue \ Goals), remove \in SUBSET (Catalogue \ Goals),
             patch \in {Keep} \cup {Set(p) : p \in Prices} :
          BumpVersion(r, profile.user_type, AddedRemoved(add, remove), patch, "USER_UPDATE")
    BY <1>8 DEF PatchProfile
  <2>2. AddedRemoved(add, remove) \in [Codes -> Sources \cup {None}]
    BY <1>2
  <2> QED
    BY <1>0, <1>8, <2>1, <2>2, FormHistory DEF PatchProfile, Forms
<1>9. CASE PatchAttributes(r)
  <2>1. PICK put \in SUBSET Catalogue, remove \in SUBSET Catalogue :
          BumpVersion(r, profile.user_type, Replaced(remove, put, "USER_EDITED"), Keep,
                      "ATTRIBUTES_PATCHED")
    BY <1>9 DEF PatchAttributes
  <2>2. Replaced(remove, put, "USER_EDITED") \in [Codes -> Sources \cup {None}]
    BY <1>1 DEF Sources
  <2> QED
    BY <1>0, <1>9, <2>1, <2>2, FormHistory DEF PatchAttributes, Forms
<1>10. CASE ConfirmExtraction(r)
  <2>. DEFINE after == [active EXCEPT ![extraction.code] = "USER_TYPED"]
  <2>1. after \in [Codes -> Sources \cup {None}]
    BY <1>0 DEF Sources
  <2>2. BumpVersion(r, profile.user_type, after, Keep, "AI_CONFIRMATION")
    BY <1>10 DEF ConfirmExtraction
  <2>. HIDE DEF after
  <2> QED
    BY <1>0, <1>10, <2>1, <2>2, FormHistory DEF ConfirmExtraction, Forms
<1>11. CASE RejectExtraction(r) \/ ConfirmUnlisted(r)
  <2>1. TaskBracketed(Known, profile.current_version, Done)
    BY DEF TaskBracketed, Done
  <2> QED
    BY <1>11, <2>1, HistoryStays DEF RejectExtraction, ConfirmUnlisted, Finish
<1> QED
  BY <1>3, <1>4, <1>5, <1>6, <1>7, <1>8, <1>9, <1>10, <1>11 DEF CommitForm

\* Learning adds a version no form made, or none.
LEMMA CommitLearnHistory ==
  ASSUME HistoryInv, NEW r \in Requests, CommitLearn(r)
  PROVE  History' /\ Faithful' /\ Bracketed'
<1>. DEFINE number == profile.current_version + 1
            new == [number |-> number, reason |-> "BEHAVIOR_LEARNING", if_match |-> None,
                    user_type |-> None, attributes |-> None, price |-> None]
<1>1. Finish(r) /\ UNCHANGED <<active, runs>>
  BY DEF CommitLearn
<1>2. CASE UNCHANGED <<profile, versions>>
  <2>1. TaskBracketed(Known, profile.current_version, Done)
    BY DEF TaskBracketed, Done
  <2> QED
    BY <1>1, <1>2, <2>1, HistoryStays DEF Finish
<1>3. CASE /\ profile' = [profile EXCEPT !.current_version = number, !.row_version = @ + 1]
           /\ versions' = versions \cup {new}
  <2>1. profile \in [user_type : UserTypes, current_version : Nat, row_version : Nat]
    BY DEF HistoryInv, IInv, TypeOK
  <2>2. profile'.current_version = number /\ profile'.user_type = profile.user_type
    <3>. DEFINE rows == profile.row_version + 1
    <3>1. profile' = [profile EXCEPT !.current_version = number, !.row_version = rows]
      BY <1>3
    <3>. HIDE DEF number, rows, new
    <3>2. profile'.current_version = number
      BY <2>1, <3>1
    <3>3. profile'.user_type = profile.user_type
      BY <2>1, <3>1
    <3> QED
      BY <3>2, <3>3
  <2>3. new.number = number /\ ~(new.reason # "BEHAVIOR_LEARNING")
    OBVIOUS
  <2>4. versions' = versions \cup {new}
    BY <1>3
  <2>. HIDE DEF new
  <2> QED
    BY <1>1, <2>2, <2>3, <2>4, HistoryGrows
<1> QED
  BY <1>2, <1>3 DEF CommitLearn

\* A recommendation run takes what its next statement sees.
LEMMA RunHistory ==
  ASSUME HistoryInv, NEW r \in Requests, BeginRun(r) \/ ReadAttributes(r) \/ ReadVersion(r)
  PROVE  History' /\ Faithful' /\ Bracketed'
<1>. DEFINE c == profile.current_version
<1>1. c \in Nat /\ c >= 1 /\ task[r] \in Tasks /\ TaskBracketed(Known, c, task[r])
  BY DEF HistoryInv, IInv, TypeOK, Line, Bracketed
<1>2. UNCHANGED <<profile, active, versions, runs>>
  BY DEF BeginRun, ReadAttributes, ReadVersion
<1>3. /\ FormOf(Known, c).attributes = active
      /\ FormOf(Known, c).user_type = profile.user_type
  BY DEF HistoryInv, Faithful
<1>4. CASE BeginRun(r)
  <2>. DEFINE t == [kind |-> "run", reported |-> c, user_type |-> profile.user_type]
  <2>1. ProfileRead(Known, c, t)
    BY <1>1, <1>3 DEF ProfileRead
  <2>2. TaskBracketed(Known, c, t)
    BY <2>1 DEF TaskBracketed
  <2> QED
    BY <1>2, <1>4, <2>2, HistoryStays DEF BeginRun
<1>5. CASE ReadAttributes(r)
  <2>. DEFINE t == [kind |-> "attributes-read", reported |-> task[r].reported,
                    user_type |-> task[r].user_type, attributes |-> active]
  <2>1. ProfileRead(Known, c, task[r])
    BY <1>1, <1>5 DEF ReadAttributes, TaskBracketed
  <2>2. ProfileRead(Known, c, t)
    BY <2>1 DEF ProfileRead
  <2>3. c \in t.reported..c
    BY <1>1, <2>1 DEF ProfileRead
  <2>4. AttributesRead(Known, t, c)
    BY <1>3, <2>3 DEF AttributesRead
  <2>5. TaskBracketed(Known, c, t)
    BY <2>2, <2>4 DEF TaskBracketed
  <2>6. task' = [task EXCEPT ![r] = t]
    BY <1>5 DEF ReadAttributes, HistoryInv, IInv, TypeOK
  <2>. HIDE DEF t
  <2> QED
    BY <1>2, <2>5, <2>6, HistoryStays
<1>6. CASE ReadVersion(r)
  <2>. DEFINE t == [kind |-> "resolved", reported |-> task[r].reported,
                    user_type |-> task[r].user_type, attributes |-> task[r].attributes,
                    snapshot |-> SnapshotOf(task[r])]
  <2>1. ProfileRead(Known, c, task[r]) /\ AttributesRead(Known, task[r], c)
    BY <1>1, <1>6 DEF ReadVersion, TaskBracketed
  <2>2. ProfileRead(Known, c, t)
    BY <2>1 DEF ProfileRead
  <2>3. c \in t.reported..c
    BY <1>1, <2>1 DEF ProfileRead
  <2>4. t.snapshot \in {c, None}
    BY <1>1, LatestNumber DEF HistoryInv, IInv, SnapshotOf
  <2>5. t.snapshot # None => VersionRead(Known, c, t)
    BY <2>1, <2>3, <2>4 DEF VersionRead, AttributesRead
  <2>6. TaskBracketed(Known, c, t)
    BY <2>2, <2>5 DEF TaskBracketed
  <2>7. task' = [task EXCEPT ![r] = t]
    BY <1>6 DEF ReadVersion, HistoryInv, IInv, TypeOK
  <2>. HIDE DEF t
  <2> QED
    BY <1>2, <2>6, <2>7, HistoryStays
<1> QED
  BY <1>4, <1>5, <1>6

\* A run is stored as it was resolved.
LEMMA StoreHistory ==
  ASSUME HistoryInv, NEW r \in Requests, StoreRecommendation(r)
  PROVE  History' /\ Faithful' /\ Bracketed'
<1>. DEFINE x == [reported |-> task[r].reported, user_type |-> task[r].user_type,
                  attributes |-> task[r].attributes, snapshot |-> task[r].snapshot,
                  status |-> "ACTIVE"]
            c == profile.current_version
<1>0. Known' = Known
  BY DEF StoreRecommendation, Known
<1>1. /\ task[r].kind = "resolved" /\ task[r].snapshot # None
      /\ runs' = [runs EXCEPT ![r] = x]
      /\ Finish(r) /\ UNCHANGED <<profile, active, versions>>
  BY DEF StoreRecommendation
<1>2. task[r] \in Tasks /\ TaskBracketed(Known, c, task[r])
  BY DEF HistoryInv, IInv, TypeOK, Bracketed
<1>3. task[r] \in [kind : {"resolved"}, reported : Nat, user_type : UserTypes,
                   attributes : [Codes -> Sources \cup {None}], snapshot : Nat \cup {None}]
  BY <1>1, <1>2 DEF Tasks, Idle, Done, Forms
<1>4. x \in Rows
  BY <1>1, <1>3 DEF Rows
<1>5. RowBracketed(Known, c, x)
  BY <1>1, <1>2 DEF TaskBracketed, RowBracketed, ProfileRead, VersionRead, AttributesRead
<1>6. TaskBracketed(Known, c, Done)
  BY DEF TaskBracketed, Done
<1>7. \A q \in Requests : task'[q] = Done \/ task'[q] = task[q]
  BY <1>1 DEF Finish, HistoryInv, IInv, TypeOK
<1>8. History' /\ Faithful'
  BY <1>0, <1>1 DEF HistoryInv, History, Faithful
<1>. HIDE DEF x
<1>9. /\ runs' \in [Requests -> Rows \cup {None}]
      /\ \A q \in Requests : runs'[q] = x \/ runs'[q] = runs[q]
  BY <1>1, <1>4 DEF HistoryInv, Bracketed
<1>10. Bracketed'
  BY <1>0, <1>1, <1>5, <1>6, <1>7, <1>9 DEF HistoryInv, Bracketed
<1> QED
  BY <1>8, <1>10

\* Forms and learning that begin, and requests that are given up, read nothing
\* of the history.
LEMMA OthersHistory ==
  ASSUME HistoryInv, NEW r \in Requests,
         \/ \E form \in Forms, tag \in {None} \cup 1..profile.row_version : BeginForm(r, form, tag)
         \/ \E e \in Events : BeginLearn(r, e)
         \/ RefuseStore(r) \/ Abandon(r)
  PROVE  History' /\ Faithful' /\ Bracketed'
<1>1. UNCHANGED <<profile, active, versions, runs>>
  BY DEF BeginForm, BeginLearn, RefuseStore, Abandon
<1>0. Done.kind = "done"
  BY DEF Done
<1>2. \E t : task' = [task EXCEPT ![r] = t] /\ t.kind \in Forms \cup {"learning", "done"}
  <2>1. CASE RefuseStore(r) \/ Abandon(r)
    BY <1>0, <2>1 DEF RefuseStore, Abandon, Finish
  <2>2. CASE \E e \in Events : BeginLearn(r, e)
    <3>1. PICK e \in Events : BeginLearn(r, e)
      BY <2>2
    <3>2. \/ task' = [task EXCEPT ![r] = Done]
          \/ task' = [task EXCEPT ![r] = [kind |-> "learning", event |-> e]]
      BY <3>1 DEF BeginLearn
    <3>3. CASE task' = [task EXCEPT ![r] = Done]
      BY <1>0, <3>3
    <3>4. CASE task' = [task EXCEPT ![r] = [kind |-> "learning", event |-> e]]
      <4>. DEFINE t == [kind |-> "learning", event |-> e]
      <4>1. t.kind = "learning" /\ task' = [task EXCEPT ![r] = t]
        BY <3>4
      <4>. HIDE DEF t
      <4> QED
        BY <4>1
    <3> QED
      BY <3>2, <3>3, <3>4
  <2>3. CASE \E form \in Forms, tag \in {None} \cup 1..profile.row_version : BeginForm(r, form, tag)
    <3>1. PICK form \in Forms, tag \in {None} \cup 1..profile.row_version : BeginForm(r, form, tag)
      BY <2>3
    <3>. DEFINE t == [kind |-> form, seen |-> profile.current_version,
                      row_version |-> profile.row_version, if_match |-> tag]
    <3>2. task' = [task EXCEPT ![r] = Done] \/ task' = [task EXCEPT ![r] = t]
      BY <3>1 DEF BeginForm
    <3>3. t.kind \in Forms
      OBVIOUS
    <3>. HIDE DEF t
    <3> QED
      BY <1>0, <3>2, <3>3
  <2> QED
    BY <2>1, <2>2, <2>3
<1>3. PICK t : task' = [task EXCEPT ![r] = t] /\ t.kind \in Forms \cup {"learning", "done"}
  BY <1>2
<1>4. TaskBracketed(Known, profile.current_version, t)
  BY <1>3 DEF TaskBracketed, Forms
<1> QED
  BY <1>1, <1>3, <1>4, HistoryStays

LEMMA InitHistory == Init => HistoryInv
<1>. SUFFICES ASSUME Init PROVE HistoryInv
  OBVIOUS
<1>. DEFINE v == Created
<1>1. /\ Known = {v} /\ v.number = 1 /\ v.reason # "BEHAVIOR_LEARNING"
      /\ v.attributes = active /\ v.user_type = profile.user_type
      /\ profile.current_version = 1
  BY DEF Init, Known, Created
<1>. HIDE DEF v
<1>2. IsForm({v}, 1, v)
  BY <1>1 DEF IsForm
<1>3. 1..1 = {1}
  OBVIOUS
<1>4. History
  BY <1>1, <1>2, <1>3 DEF History
<1>5. FormOf({v}, 1) = v
  BY <1>1, <1>2, FormFound
<1>6. Faithful
  BY <1>1, <1>5 DEF Faithful
<1>7. \A r \in Requests : runs[r] = None /\ TaskBracketed(Known, profile.current_version, task[r])
  BY DEF Init, Idle, TaskBracketed
<1>8. Bracketed
  BY <1>7 DEF Init, Bracketed
<1> QED
  BY <1>4, <1>6, <1>8, InitIInv DEF HistoryInv

LEMMA NextHistory == HistoryInv /\ [Next]_vars => HistoryInv'
<1>. SUFFICES ASSUME HistoryInv, [Next]_vars PROVE HistoryInv'
  OBVIOUS
<1>1. IInv'
  BY NextIInv DEF HistoryInv
<1>2. CASE Next
  <2>1. PICK r \in Requests :
          \/ \E form \in Forms, tag \in {None} \cup 1..profile.row_version : BeginForm(r, form, tag)
          \/ CommitForm(r)
          \/ \E e \in Events : BeginLearn(r, e)
          \/ CommitLearn(r)
          \/ BeginRun(r) \/ ReadAttributes(r) \/ ReadVersion(r) \/ StoreRecommendation(r)
          \/ RefuseStore(r) \/ Abandon(r)
    BY <1>2 DEF Next
  <2>2. History' /\ Faithful' /\ Bracketed'
    BY <2>1, CommitFormHistory, CommitLearnHistory, RunHistory, StoreHistory, OthersHistory
  <2> QED
    BY <1>1, <2>2 DEF HistoryInv
<1>3. CASE UNCHANGED vars
  <2>1. UNCHANGED <<profile, active, versions, runs, task>>
    BY <1>3 DEF vars
  <2>2. History' /\ Faithful' /\ Bracketed'
    BY <2>1 DEF HistoryInv, History, Faithful, Bracketed, Known
  <2> QED
    BY <1>1, <2>2 DEF HistoryInv
<1> QED
  BY <1>2, <1>3

LEMMA InitTied == Init => Tied
BY DEF Init, Tied, Idle

\* No version row goes away, and a run takes the latest that is there.
LEMMA NextTied == HistoryInv /\ Tied /\ [Next]_vars => Tied'
<1>. SUFFICES ASSUME HistoryInv, Tied, [Next]_vars PROVE Tied'
  OBVIOUS
<1>0. /\ task \in [Requests -> Tasks] /\ runs \in [Requests -> Rows \cup {None}]
  BY DEF HistoryInv, IInv, TypeOK, Bracketed
<1>1. versions \subseteq versions'
  <2>1. CASE \E r \in Requests : CommitForm(r)
    <3>1. \A r, type, after, patch, reason :
            BumpVersion(r, type, after, patch, reason) => versions \subseteq versions'
      BY DEF BumpVersion
    <3> QED
      BY <2>1, <3>1 DEF CommitForm, UpdateUserType, UpdateGoals, UpdateConsumerPreferences,
         UpdateBuyerNeeds, UpdateVisitPlan, PatchProfile, PatchAttributes, ConfirmExtraction,
         ConfirmUnlisted, RejectExtraction
  <2>2. CASE \E r \in Requests : CommitLearn(r)
    BY <2>2 DEF CommitLearn
  <2>3. \/ UNCHANGED versions
        \/ \E r \in Requests : CommitForm(r) \/ CommitLearn(r)
    BY DEF Next, BeginForm, BeginLearn, BeginRun, ReadAttributes, ReadVersion,
         StoreRecommendation, RefuseStore, Abandon, vars
  <2> QED
    BY <2>1, <2>2, <2>3
<1>2. ASSUME NEW q \in Requests, task'[q].kind = "resolved", task'[q].snapshot # None
      PROVE  \E v \in versions : v.number = task'[q].snapshot
  <2>1. CASE task'[q] = task[q]
    BY <1>2, <2>1 DEF Tied
  <2>2. CASE task'[q] # task[q]
    <3>1. ReadVersion(q)
      <4>1. PICK r \in Requests :
              \/ \E form \in Forms, tag \in {None} \cup 1..profile.row_version : BeginForm(r, form, tag)
              \/ CommitForm(r)
              \/ \E e \in Events : BeginLearn(r, e)
              \/ CommitLearn(r)
              \/ BeginRun(r) \/ ReadAttributes(r) \/ ReadVersion(r) \/ StoreRecommendation(r)
              \/ RefuseStore(r) \/ Abandon(r)
        BY <2>2 DEF Next, vars
      <4>2. CASE Finish(r)
        BY <1>0, <1>2, <2>2, <4>2 DEF Finish, Done
      <4>3. CASE CommitForm(r) \/ CommitLearn(r) \/ StoreRecommendation(r) \/ RefuseStore(r) \/ Abandon(r)
        <5>1. Finish(r)
          BY <4>3 DEF CommitForm, CommitLearn, StoreRecommendation, RefuseStore, Abandon,
             UpdateUserType, UpdateGoals, UpdateConsumerPreferences, UpdateBuyerNeeds,
             UpdateVisitPlan, PatchProfile, PatchAttributes, ConfirmExtraction, ConfirmUnlisted,
             RejectExtraction, BumpVersion
        <5> QED
          BY <4>2, <5>1
      <4>4. CASE \E form \in Forms, tag \in {None} \cup 1..profile.row_version : BeginForm(r, form, tag)
        BY <1>0, <1>2, <2>2, <4>4 DEF BeginForm, Done, Forms
      <4>5. CASE \E e \in Events : BeginLearn(r, e)
        BY <1>0, <1>2, <2>2, <4>5 DEF BeginLearn, Done
      <4>6. CASE BeginRun(r) \/ ReadAttributes(r)
        BY <1>0, <1>2, <2>2, <4>6 DEF BeginRun, ReadAttributes
      <4>7. CASE ReadVersion(r)
        BY <1>0, <2>2, <4>7 DEF ReadVersion
      <4> QED
        BY <4>1, <4>3, <4>4, <4>5, <4>6, <4>7
    <3>2. task'[q].snapshot = SnapshotOf(task[q])
      BY <1>0, <3>1 DEF ReadVersion
    <3>3. versions # {} /\ task'[q].snapshot = Latest.number
      BY <1>2, <3>2 DEF SnapshotOf
    <3> QED
      BY <3>3, LatestNumber DEF HistoryInv, IInv, TypeOK
  <2> QED
    BY <2>1, <2>2
<1>3. ASSUME NEW q \in Requests, runs'[q] # None
      PROVE  \E v \in versions : v.number = runs'[q].snapshot
  <2>1. CASE UNCHANGED runs \/ InvalidateActiveRecommendations
    BY <1>0, <1>3, <2>1, RunsKept DEF Tied
  <2>2. CASE \E r \in Requests : StoreRecommendation(r)
    <3>1. PICK r \in Requests : StoreRecommendation(r)
      BY <2>2
    <3>2. CASE q = r
      BY <1>0, <3>1, <3>2 DEF StoreRecommendation, Tied
    <3>3. CASE q # r
      BY <1>0, <1>3, <3>1, <3>3 DEF StoreRecommendation, Tied
    <3> QED
      BY <3>2, <3>3
  <2>3. \/ UNCHANGED runs \/ InvalidateActiveRecommendations
        \/ \E r \in Requests : StoreRecommendation(r)
    BY DEF Next, BeginForm, CommitForm, BeginLearn, CommitLearn, BeginRun, ReadAttributes, ReadVersion,
         RefuseStore, Abandon, UpdateUserType, UpdateGoals,
         UpdateConsumerPreferences, UpdateBuyerNeeds, UpdateVisitPlan, PatchProfile,
         PatchAttributes, ConfirmExtraction, ConfirmUnlisted, RejectExtraction, vars
  <2> QED
    BY <2>1, <2>2, <2>3
<1> QED
  BY <1>1, <1>2, <1>3 DEF Tied

\* FormAt is FormOf of the versions there are.
LEMMA FormAtIs ==
  ASSUME NEW n
  PROVE  FormAt(n) = FormOf(Known, n)
BY DEF FormAt, FormOf, IsForm

-----------------------------------------------------------------------------
(* Learning.                                                                *)

\* The score after one more row, and that rows further on do not count.
LEMMA OneMore ==
  ASSUME NEW s, NEW c, NEW n \in Nat
  PROVE  ScoreOf(s, c, n + 1) = IF s[n + 1].code = c THEN LeftBy(s[n + 1]) ELSE ScoreOf(s, c, n)
<1>. DEFINE made(m) == {i \in 1..m : s[i].code = c}
<1>1. CASE s[n + 1].code = c
  <2>1. n + 1 \in made(n + 1) /\ \A j \in made(n + 1) : j <= n + 1
    BY <1>1
  <2>2. \A i \in made(n + 1) : (\A j \in made(n + 1) : j <= i) => i = n + 1
    BY <2>1
  <2>. DEFINE x == CHOOSE i \in made(n + 1) : \A j \in made(n + 1) : j <= i
  <2>3. x = n + 1
    <3>. HIDE DEF made
    <3> QED
      BY <2>1, <2>2
  <2>4. ScoreOf(s, c, n + 1) = LeftBy(s[x])
    BY <2>1 DEF ScoreOf
  <2> QED
    BY <1>1, <2>3, <2>4
<1>2. CASE s[n + 1].code # c
  <2>1. made(n + 1) = made(n)
    BY <1>2
  <2>. DEFINE left(set) == IF set = {} THEN 0
                           ELSE LeftBy(s[CHOOSE i \in set : \A j \in set : j <= i])
  <2>2. ScoreOf(s, c, n + 1) = left(made(n + 1)) /\ ScoreOf(s, c, n) = left(made(n))
    BY DEF ScoreOf
  <2>. HIDE DEF left
  <2> QED
    BY <1>2, <2>1, <2>2
<1> QED
  BY <1>1, <1>2

LEMMA SameRows ==
  ASSUME NEW s, NEW t, NEW c, NEW n \in Nat, \A i \in 1..n : t[i] = s[i]
  PROVE  ScoreOf(t, c, n) = ScoreOf(s, c, n)
<1>. DEFINE made == {i \in 1..n : s[i].code = c}
            x == CHOOSE i \in made : \A j \in made : j <= i
<1>1. {i \in 1..n : t[i].code = c} = made
  OBVIOUS
<1>2. /\ ScoreOf(s, c, n) = IF made = {} THEN 0 ELSE LeftBy(s[x])
      /\ ScoreOf(t, c, n) = IF made = {} THEN 0 ELSE LeftBy(t[x])
  <2>1. ScoreOf(s, c, n) = IF made = {} THEN 0 ELSE LeftBy(s[x])
    BY DEF ScoreOf
  <2>2. ScoreOf(t, c, n) = LET all == {i \in 1..n : t[i].code = c}
          IN IF all = {} THEN 0 ELSE LeftBy(t[CHOOSE i \in all : \A j \in all : j <= i])
    BY DEF ScoreOf
  <2>. HIDE DEF made
  <2>3. ScoreOf(t, c, n) = IF made = {} THEN 0
          ELSE LeftBy(t[CHOOSE i \in made : \A j \in made : j <= i])
    BY <1>1, <2>2
  <2> QED
    BY <2>1, <2>3 DEF x
<1>3. made # {} => x \in 1..n
  <2>. SUFFICES ASSUME made # {} PROVE x \in 1..n
    OBVIOUS
  <2>1. made \in SUBSET (1..n)
    OBVIOUS
  <2>. HIDE DEF made
  <2>2. \E i \in made : \A j \in made : j <= i
    BY <2>1, LargestOf
  <2>3. x \in made
    BY <2>2
  <2> QED
    BY <2>1, <2>3
<1>. HIDE DEF made, x
<1> QED
  BY <1>2, <1>3

\* What the row of a target says, and that the target leaves the preferences so.
LEMMA RowOfTarget ==
  ASSUME TypeOK, NEW e \in Events, NEW place \in Nat, NEW t \in Target, NEW known \in Levels
  PROVE  /\ Adjustment(e, place, t, known) \in Adjustments
         /\ \A c \in Codes : Score(AfterTarget(known, t)[c]) =
              IF t.code = c THEN LeftBy(Adjustment(e, place, t, known)) ELSE Score(known[c])
<1>1. t.code \in Codes /\ t.signal \in Int /\ known[t.code] \in -Full..Full \cup {None}
  BY DEF Levels, Target
<1>. DEFINE new == Moved(Score(known[t.code]), t.signal)
<1>2. new \in -Full..Full /\ Score(known[t.code]) \in Int
  BY <1>1, MovedInScale
<1>3. new \in Int /\ new # None
  <2>1. new \in Int
    BY <1>2, VisitorAssumption
  <2> QED
    BY <2>1, VisitorAssumption
<1>4. Applies(t.code) \in BOOLEAN
  BY DEF Applies
<1>. HIDE DEF new
<1>5. Adjustment(e, place, t, known) = [event |-> e, place |-> place, code |-> t.code,
        previous |-> Score(known[t.code]), new |-> new, applied |-> Applies(t.code)]
  BY DEF Adjustment, new
<1>6. Adjustment(e, place, t, known) \in Adjustments
  BY <1>1, <1>2, <1>3, <1>4, <1>5 DEF Adjustments
<1>7. LeftBy(Adjustment(e, place, t, known)) =
        IF Applies(t.code) THEN new ELSE Score(known[t.code])
  BY <1>5 DEF LeftBy
<1>8. AfterTarget(known, t) = IF Applies(t.code) THEN [known EXCEPT ![t.code] = new] ELSE known
  BY DEF AfterTarget, new
<1>9. Score(new) = new
  BY <1>3 DEF Score
<1>10. ASSUME NEW c \in Codes
       PROVE  Score(AfterTarget(known, t)[c]) =
                IF t.code = c THEN LeftBy(Adjustment(e, place, t, known)) ELSE Score(known[c])
  <2>1. CASE Applies(t.code)
    <3>1. AfterTarget(known, t)[c] = IF c = t.code THEN new ELSE known[c]
      BY <1>8, <2>1 DEF Levels
    <3> QED
      BY <1>7, <1>9, <2>1, <3>1
  <2>2. CASE ~Applies(t.code)
    BY <1>7, <1>8, <2>2
  <2> QED
    BY <2>1, <2>2
<1> QED
  BY <1>6, <1>10

\* A list moves no score of a code that is stated.
LEMMA OnlyUnstatedMove ==
  ASSUME TypeOK, NEW targets \in Seq(Target), NEW c \in Codes,
         Preferences(targets)[Len(targets)][c] # inferred[c]
  PROVE  ~Stated(c)
<1>. DEFINE n == Len(targets)
            h == Preferences(targets)
            T == {k \in 0..n : h[k][c] # inferred[c]}
<1>1. /\ n \in Nat /\ \A i \in 1..n : targets[i] \in Target
      /\ h \in [0..n -> Levels] /\ h[0] = inferred
      /\ \A i \in 1..n : h[i] = AfterTarget(h[i - 1], targets[i])
  BY LenProperties, PreferencesAre
<1>. HIDE DEF n, h
<1>2. T \in SUBSET Nat /\ T # {}
  <2>1. n \in T
    BY <1>1 DEF n, h
  <2> QED
    BY <1>1, <2>1
<1>3. PICK k \in T : \A y \in T : k <= y
  BY <1>2, LeastOf
<1>4. k \in 0..n /\ h[k][c] # inferred[c]
  OBVIOUS
<1>5. k \in 1..n /\ k - 1 \in 0..n /\ k - 1 \notin T
  <2>1. k \in 1..n /\ k - 1 \in 0..n /\ ~ (k <= k - 1)
    BY <1>1, <1>4
  <2> QED
    BY <1>3, <2>1
<1>6. h[k - 1][c] = inferred[c] /\ h[k - 1] \in Levels
  BY <1>1, <1>5
<1>7. h[k] = AfterTarget(h[k - 1], targets[k])
  BY <1>1, <1>5
<1>8. AfterTarget(h[k - 1], targets[k])[c] # h[k - 1][c]
  BY <1>4, <1>6, <1>7
<1>9. Applies(targets[k].code) /\ targets[k].code = c
  BY <1>6, <1>8 DEF AfterTarget, Levels
<1> QED
  BY <1>9 DEF Applies

\* The row, by its fields.
LEMMA RowFields ==
  ASSUME NEW e, NEW place, NEW t, NEW known
  PROVE  /\ Adjustment(e, place, t, known).event = e
         /\ Adjustment(e, place, t, known).place = place
         /\ Adjustment(e, place, t, known).code = t.code
         /\ Adjustment(e, place, t, known).previous = Score(known[t.code])
BY DEF Adjustment

\* Learning takes its event once, and moves each score from where it is.
LEMMA CommitLearnOnce ==
  ASSUME LearnInv, NEW r \in Requests, CommitLearn(r)
  PROVE  /\ adjustments' \in Seq(Adjustments)
         /\ Placed(adjustments', signals')
         /\ Led(adjustments')
         /\ \A c \in Codes : Score(inferred'[c]) = ScoreOf(adjustments', c, Len(adjustments'))
<1>. DEFINE e == task[r].event
            s == adjustments
            t == adjustments'
            n == Len(s)
<1>1. e \in Events
  <2>1. task[r].kind = "learning" /\ task[r] \in Tasks
    BY DEF CommitLearn, LearnInv, IInv, TypeOK
  <2> QED
    BY <2>1 DEF Tasks, Idle, Done, Forms
<1>2. PICK targets \in Reports[e] \cup {<< >>} :
        /\ Unprocessed(e)
        /\ signals' = [signals EXCEPT ![e] = targets]
        /\ inferred' = Preferences(targets)[Len(targets)]
        /\ t = s \o Adjusted(e, targets)
  BY DEF CommitLearn
<1>. DEFINE m == Len(targets)
            known == Preferences(targets)
            rows == Adjusted(e, targets)
<1>3. /\ targets \in Seq(Target) /\ targets # None /\ m \in Nat
      /\ DOMAIN targets = 1..m /\ \A i \in 1..m : targets[i] \in Target
  BY <1>1, TargetLists, LenProperties
<1>4. TypeOK
  BY DEF LearnInv, IInv
<1>5. /\ known \in [0..m -> Levels] /\ known[0] = inferred
      /\ \A i \in 1..m : known[i] = AfterTarget(known[i - 1], targets[i])
  BY <1>3, <1>4, PreferencesAre
<1>6. /\ s \in Seq(Adjustments) /\ Placed(s, signals) /\ Led(s) /\ n \in Nat
      /\ \A c \in Codes : Score(inferred[c]) = ScoreOf(s, c, n)
  BY LenProperties DEF LearnInv
<1>7. signals[e] = None /\ inferred' = known[m] /\ t = s \o rows
  BY <1>2 DEF Unprocessed
<1>8. \A x \in Events : signals'[x] = IF x = e THEN targets ELSE signals[x]
  BY <1>2, <1>4 DEF TypeOK
<1>0. rows = [i \in 1..m |-> Adjustment(e, i, targets[i], known[i - 1])]
  BY DEF Adjusted
<1>. HIDE DEF e, n, m, known, rows
<1>9. \A i \in 1..m : i - 1 \in 0..m /\ i \in Nat
  BY <1>3
<1>10. rows \in Seq(Adjustments) /\ Len(rows) = m
  <2>1. \A i \in 1..m : Adjustment(e, i, targets[i], known[i - 1]) \in Adjustments
    BY <1>1, <1>3, <1>4, <1>5, <1>9, RowOfTarget
  <2>2. rows \in [1..m -> Adjustments]
    BY <1>0, <2>1
  <2> QED
    BY <1>3, <2>2, IsASeq, LenProperties
<1>11. \A i \in 1..m : rows[i] = Adjustment(e, i, targets[i], known[i - 1])
  BY <1>0
<1>12. /\ t \in Seq(Adjustments) /\ Len(t) = n + m
       /\ \A i \in 1..n : t[i] = s[i]
       /\ \A i \in 1..m : t[n + i] = rows[i]
  <2>1. /\ s \o rows \in Seq(Adjustments) /\ Len(s \o rows) = n + m
        /\ \A i \in 1..(n + m) : (s \o rows)[i] = IF i <= n THEN s[i] ELSE rows[i - n]
    BY <1>6, <1>10, ConcatProperties DEF n
  <2>2. \A i \in 1..n : i \in 1..(n + m) /\ i <= n
    BY <1>3, <1>6
  <2>3. \A i \in 1..m : n + i \in 1..(n + m) /\ ~ (n + i <= n) /\ (n + i) - n = i
    BY <1>3, <1>6
  <2> QED
    BY <1>7, <2>1, <2>2, <2>3
<1>13. \A j \in 1..(n + m) : j \in 1..n \/ \E i \in 1..m : j = n + i
  <2>. SUFFICES ASSUME NEW j \in 1..(n + m), j \notin 1..n
                PROVE  \E i \in 1..m : j = n + i
    OBVIOUS
  <2>1. j - n \in 1..m /\ j = n + (j - n)
    BY <1>3, <1>6
  <2> QED
    BY <2>1
<1>14. \A i \in 1..m : t[n + i].event = e /\ t[n + i].place = i /\ t[n + i].code = targets[i].code
  BY <1>11, <1>12, RowFields
<1>15. ASSUME NEW i \in 0..m PROVE \A c \in Codes : Score(known[i][c]) = ScoreOf(t, c, n + i)
  <2>. DEFINE T == {k \in 0..m : ~ \A c \in Codes : Score(known[k][c]) = ScoreOf(t, c, n + k)}
  <2>1. T = {}
    <3>. SUFFICES ASSUME T # {} PROVE FALSE
      OBVIOUS
    <3>1. T \in SUBSET Nat
      BY <1>3
    <3>2. PICK k \in T : \A y \in T : k <= y
      BY <3>1, LeastOf
    <3>3. k \in 0..m /\ ~ \A c \in Codes : Score(known[k][c]) = ScoreOf(t, c, n + k)
      OBVIOUS
    <3>4. k # 0
      <4>1. \A c \in Codes : ScoreOf(t, c, n) = ScoreOf(s, c, n)
        BY <1>6, <1>12, SameRows
      <4>2. n + 0 = n
        BY <1>6
      <4> QED
        BY <1>5, <1>6, <3>3, <4>1, <4>2
    <3>5. k \in 1..m /\ k - 1 \in 0..m /\ k - 1 \notin T
      <4>1. k \in 1..m /\ k - 1 \in 0..m /\ ~ (k <= k - 1)
        BY <1>3, <3>3, <3>4
      <4> QED
        BY <3>2, <4>1
    <3>6. \A c \in Codes : Score(known[k - 1][c]) = ScoreOf(t, c, n + (k - 1))
      BY <3>5
    <3>7. n + (k - 1) \in Nat /\ (n + (k - 1)) + 1 = n + k
      BY <1>6, <3>5
    <3>8. \A c \in Codes : ScoreOf(t, c, n + k) =
            IF t[n + k].code = c THEN LeftBy(t[n + k]) ELSE ScoreOf(t, c, n + (k - 1))
      <4>1. \A c \in Codes : ScoreOf(t, c, (n + (k - 1)) + 1) =
              IF t[(n + (k - 1)) + 1].code = c THEN LeftBy(t[(n + (k - 1)) + 1])
                                               ELSE ScoreOf(t, c, n + (k - 1))
        BY <3>7, OneMore
      <4> QED
        BY <3>7, <4>1
    <3>9. t[n + k] = Adjustment(e, k, targets[k], known[k - 1]) /\ t[n + k].code = targets[k].code
      BY <1>11, <1>12, <1>14, <3>5
    <3>10. known[k - 1] \in Levels /\ targets[k] \in Target /\ k \in Nat
      BY <1>3, <1>5, <3>5
    <3>11. \A c \in Codes : Score(AfterTarget(known[k - 1], targets[k])[c]) =
             IF targets[k].code = c THEN LeftBy(Adjustment(e, k, targets[k], known[k - 1]))
                                    ELSE Score(known[k - 1][c])
      BY <1>1, <1>4, <3>10, RowOfTarget
    <3>12. known[k] = AfterTarget(known[k - 1], targets[k])
      BY <1>5, <3>5
    <3> QED
      BY <3>3, <3>6, <3>8, <3>9, <3>11, <3>12
  <2> QED
    BY <2>1
<1>16. Placed(t, signals')
  <2>0. /\ \A j \in 1..n : s[j].event \in Events /\ s[j].event # e
    <3>1. \A j \in 1..n : s[j] \in Adjustments /\ signals[s[j].event] # None
      BY <1>6 DEF Placed, n
    <3> QED
      BY <1>7, <3>1 DEF Adjustments
  <2>1. ASSUME NEW i \in 1..(n + m), NEW j \in 1..(n + m),
               t[i].event = t[j].event, t[i].place = t[j].place
        PROVE  i = j
    <3>1. CASE i \in 1..n /\ j \in 1..n
      BY <1>6, <1>12, <2>1, <3>1 DEF Placed, n
    <3>2. CASE i \notin 1..n /\ j \notin 1..n
      BY <1>13, <1>14, <2>1, <3>2
    <3>3. CASE (i \in 1..n /\ j \notin 1..n) \/ (i \notin 1..n /\ j \in 1..n)
      BY <1>12, <1>13, <1>14, <2>0, <2>1, <3>3
    <3> QED
      BY <3>1, <3>2, <3>3
  <2>2. ASSUME NEW x \in Events, signals'[x] # None, NEW place \in DOMAIN signals'[x]
        PROVE  \E i \in 1..(n + m) : t[i].event = x /\ t[i].place = place
    <3>1. CASE x = e
      <4>1. place \in 1..m
        BY <1>3, <1>8, <2>2, <3>1
      <4>2. n + place \in 1..(n + m)
        BY <1>3, <1>6, <4>1
      <4> QED
        BY <1>14, <3>1, <4>1, <4>2
    <3>2. CASE x # e
      <4>1. PICK i \in 1..n : s[i].event = x /\ s[i].place = place
        BY <1>6, <1>8, <2>2, <3>2 DEF Placed, n
      <4>2. i \in 1..(n + m)
        BY <1>3, <1>6
      <4> QED
        BY <1>12, <4>1, <4>2
    <3> QED
      BY <3>1, <3>2
  <2>3. ASSUME NEW i \in 1..(n + m)
        PROVE  /\ signals'[t[i].event] # None /\ t[i].place \in DOMAIN signals'[t[i].event]
               /\ t[i].code = signals'[t[i].event][t[i].place].code
    <3>1. CASE i \in 1..n
      <4>1. t[i] = s[i] /\ signals'[s[i].event] = signals[s[i].event]
        BY <1>8, <1>12, <2>0, <3>1
      <4> QED
        BY <1>6, <3>1, <4>1 DEF Placed, n
    <3>2. CASE i \notin 1..n
      <4>1. PICK k \in 1..m : i = n + k
        BY <1>13, <3>2
      <4>2. signals'[e] = targets
        BY <1>1, <1>8
      <4> QED
        BY <1>3, <1>14, <4>1, <4>2
    <3> QED
      BY <3>1, <3>2
  <2> QED
    BY <1>12, <2>1, <2>2, <2>3 DEF Placed
<1>17. Led(t)
  <2>. SUFFICES ASSUME NEW j \in 1..(n + m)
                PROVE  t[j].previous = ScoreOf(t, t[j].code, j - 1)
    BY <1>12 DEF Led
  <2>1. CASE j \in 1..n
    <3>1. t[j] = s[j] /\ s[j].previous = ScoreOf(s, s[j].code, j - 1)
      BY <1>6, <1>12, <2>1 DEF Led, n
    <3>2. j - 1 \in Nat /\ \A i \in 1..(j - 1) : t[i] = s[i]
      BY <1>6, <1>12, <2>1
    <3>3. ScoreOf(t, s[j].code, j - 1) = ScoreOf(s, s[j].code, j - 1)
      BY <3>2, SameRows
    <3> QED
      BY <3>1, <3>3
  <2>2. CASE j \notin 1..n
    <3>1. PICK i \in 1..m : j = n + i
      BY <1>13, <2>2
    <3>2. i - 1 \in 0..m /\ n + (i - 1) = j - 1
      BY <1>3, <1>6, <3>1
    <3>3. t[j].previous = Score(known[i - 1][targets[i].code]) /\ t[j].code = targets[i].code
      <4>1. t[j] = Adjustment(e, i, targets[i], known[i - 1])
        BY <1>11, <1>12, <3>1
      <4> QED
        BY <4>1, RowFields
    <3>4. targets[i].code \in Codes
      BY <1>3, <3>1 DEF Target
    <3> QED
      BY <1>15, <3>2, <3>3, <3>4
  <2> QED
    BY <2>1, <2>2
<1>18. \A c \in Codes : Score(inferred'[c]) = ScoreOf(t, c, Len(t))
  <2>1. m \in 0..m
    BY <1>3
  <2> QED
    BY <1>7, <1>12, <1>15, <2>1
<1> QED
  BY <1>12, <1>16, <1>17, <1>18

LEMMA InitLearned == Init => LearnInv
<1>. SUFFICES ASSUME Init PROVE LearnInv
  OBVIOUS
<1>1. << >> \in Seq(Adjustments) /\ Len(<< >>) = 0 /\ ~\E i \in 1..0 : TRUE
  OBVIOUS
<1>2. adjustments = << >> /\ \A e \in Events : signals[e] = None
  BY DEF Init
<1>3. Placed(<< >>, signals) /\ Led(<< >>)
  BY <1>1, <1>2 DEF Placed, Led
<1>4. \A c \in Codes : Score(inferred[c]) = 0 /\ ScoreOf(<< >>, c, 0) = 0
  BY <1>1 DEF Init, Score, ScoreOf
<1> QED
  BY <1>1, <1>2, <1>3, <1>4, InitIInv DEF LearnInv

LEMMA NextLearned == LearnInv /\ [Next]_vars => LearnInv'
<1>. SUFFICES ASSUME LearnInv, [Next]_vars PROVE LearnInv'
  OBVIOUS
<1>1. IInv'
  BY NextIInv DEF LearnInv
<1>2. CASE UNCHANGED learned
  BY <1>1, <1>2 DEF LearnInv, learned
<1>3. CASE \E r \in Requests : CommitLearn(r)
  BY <1>1, <1>3, CommitLearnOnce DEF LearnInv
<1>4. UNCHANGED learned \/ \E r \in Requests : CommitLearn(r)
  BY DEF Next, BeginForm, CommitForm, BeginLearn, BeginRun, ReadAttributes, ReadVersion,
         StoreRecommendation, RefuseStore, Abandon, UpdateUserType, UpdateGoals, UpdateConsumerPreferences,
         UpdateBuyerNeeds, UpdateVisitPlan, PatchProfile, PatchAttributes, ConfirmExtraction,
         ConfirmUnlisted, RejectExtraction, learned, vars
<1> QED
  BY <1>2, <1>3, <1>4

-----------------------------------------------------------------------------
(* Theorems.                                                                *)

\* Every state the handlers reach is well formed: among the rest, no sequence
\* of events moves an inferred score off its scale.
THEOREM VisitorTypeCorrect == Spec => []TypeOK
<1>1. IInv => TypeOK
  BY DEF IInv
<1> QED
  BY InitIInv, NextIInv, <1>1, PTL DEF Spec

\* However forms, decisions and learning interleave, without a lock on what a
\* form reads, the versions of a profile are one line without gap or fork.
THEOREM VersionsAreSerial == Spec => []VersionsSerial
<1>1. IInv => VersionsSerial
  <2>. SUFFICES ASSUME IInv PROVE VersionsSerial
    OBVIOUS
  <2>. DEFINE n == profile.current_version
  <2>1. /\ n \in Nat /\ n >= 1 /\ profile.row_version = n
        /\ {v.number : v \in Known} = 1..n
        /\ IsFiniteSet(versions) /\ Cardinality(Known) = n
        /\ \A v \in versions : v.number = 1 => v = Created
        /\ \A v \in versions : v.if_match # None => v.number = v.if_match + 1
    BY DEF IInv, TypeOK, Line
  <2>2. extraction.applied <= 1
    BY DEF IInv, AppliedOnce
  <2>3. \E first \in {1, 2} : /\ {v.number : v \in versions} = first..n
                              /\ Cardinality(versions) = n + 1 - first
    <3>1. CASE Created \in versions
      <4>1. Known = versions
        BY <3>1 DEF Known
      <4> QED
        BY <2>1, <4>1
    <3>2. CASE Created \notin versions
      <4>1. Created.number = 1
        BY DEF Created
      <4>. HIDE DEF n
      <4>2. \A v \in versions : v.number \in 2..n
        <5>. SUFFICES ASSUME NEW v \in versions PROVE v.number \in 2..n
          OBVIOUS
        <5>1. v.number \in 1..n /\ v.number # 1
          BY <2>1, <3>2 DEF Known
        <5> QED
          BY <2>1, <5>1
      <4>3. \A k \in 2..n : \E v \in versions : v.number = k
        <5>. SUFFICES ASSUME NEW k \in 2..n PROVE \E v \in versions : v.number = k
          OBVIOUS
        <5>1. k \in 1..n /\ k # 1
          BY <2>1
        <5>2. PICK v \in Known : v.number = k
          BY <2>1, <5>1
        <5> QED
          BY <4>1, <5>1, <5>2 DEF Known
      <4>4. {v.number : v \in versions} = 2..n
        BY <4>2, <4>3
      <4>5. Cardinality(Known) = Cardinality(versions) + 1 /\ Cardinality(versions) \in Nat
        BY <2>1, <3>2, FS_AddElement, FS_CardinalityType DEF Known
      <4>6. Cardinality(versions) = n + 1 - 2
        BY <2>1, <4>5
      <4> QED
        BY <4>4, <4>6
    <3> QED
      BY <3>1, <3>2
  <2> QED
    BY <2>1, <2>2, <2>3 DEF VersionsSerial
<1> QED
  BY InitIInv, NextIInv, <1>1, PTL DEF Spec

\* A step that moves the inferred score of a code finds nothing stated about it
\* and leaves that so.
LEMMA NothingStated ==
  ASSUME IInv, Next, NEW c \in Codes, inferred'[c] # inferred[c]
  PROVE  active[c] = None /\ active'[c] = None
<1>1. PICK r \in Requests : CommitLearn(r)
  BY DEF Next, BeginForm, CommitForm, BeginLearn, BeginRun, ReadAttributes, ReadVersion,
         StoreRecommendation, RefuseStore, Abandon, UpdateUserType, UpdateGoals, UpdateConsumerPreferences,
         UpdateBuyerNeeds, UpdateVisitPlan, PatchProfile, PatchAttributes, ConfirmExtraction,
         ConfirmUnlisted, RejectExtraction, learned
<1>2. active' = active /\ ~Stated(c)
  <2>1. task[r].event \in Events
    <3>1. task[r].kind = "learning" /\ task[r] \in Tasks
      BY <1>1 DEF CommitLearn, IInv, TypeOK
    <3> QED
      BY <3>1 DEF Tasks, Idle, Done, Forms
  <2>2. PICK targets \in Reports[task[r].event] \cup {<< >>} :
          inferred' = Preferences(targets)[Len(targets)] /\ active' = active
    BY <1>1 DEF CommitLearn
  <2>3. targets \in Seq(Target) /\ TypeOK
    BY <2>1, TargetLists DEF IInv
  <2> QED
    BY <2>2, <2>3, OnlyUnstatedMove
<1>3. active[c] \in Sources \cup {None}
  BY DEF IInv, TypeOK
<1> QED
  BY <1>2, <1>3 DEF Stated, Sources

\* Learning never moves what the visitor states, whatever source the statement
\* came from and whatever events arrive.
THEOREM StatementsWin == Spec => ExplicitWins
<1>. DEFINE A == \A c \in Codes : inferred'[c] # inferred[c] => active[c] = None /\ active'[c] = None
<1>1. IInv /\ [Next]_vars => [A]_vars
  BY NothingStated
<1>2. IInv /\ [Next]_vars => IInv'
  BY NextIInv
<1>3. Init => IInv
  BY InitIInv
<1> QED
  BY <1>1, <1>2, <1>3, PTL DEF Spec, ExplicitWins

\* Forms that overlap, fail or are refused and any learning between them leave
\* the snapshot of the last form equal to the profile row and its attributes.
THEOREM SnapshotsAreFaithful == Spec => []SnapshotFaithful
<1>1. HistoryInv => SnapshotFaithful
  BY FormAtIs DEF HistoryInv, Faithful, SnapshotFaithful
<1> QED
  BY InitHistory, NextHistory, <1>1, PTL DEF Spec

\* A recommendation run, which reads the profile by three unlocked statements,
\* mixes what held between the version it reports and the one it is tied to.
THEOREM RunsAreBracketed == Spec => []RunBracketed
<1>1. HistoryInv /\ Tied => RunBracketed
  <2>. SUFFICES ASSUME HistoryInv, Tied, NEW r \in Requests, runs[r] # None
                PROVE  /\ runs[r].reported <= runs[r].snapshot
                       /\ runs[r].user_type = FormAt(runs[r].reported).user_type
                       /\ \E n \in runs[r].reported..runs[r].snapshot :
                            runs[r].attributes = FormAt(n).attributes
    BY DEF RunBracketed, Tied
  <2>1. RowBracketed(Known, profile.current_version, runs[r])
    BY DEF HistoryInv, Bracketed
  <2> QED
    BY <2>1, FormAtIs DEF RowBracketed, ProfileRead, VersionRead, AttributesRead
<1> QED
  BY InitHistory, NextHistory, InitTied, NextTied, <1>1, PTL DEF Spec

\* However often an event is reported, and by whatever requests at once, it
\* moves a preference once, and the score is what the adjustments lead to.
THEOREM LearnsOnce == Spec => []LearnedOnce
<1>1. LearnInv => LearnedOnce
  <2>. SUFFICES ASSUME LearnInv PROVE LearnedOnce
    OBVIOUS
  <2>1. \A c, n : ScoreAfter(c, n) = ScoreOf(adjustments, c, n)
    BY DEF ScoreAfter, ScoreOf, LeftBy
  <2>2. DOMAIN adjustments = 1..Len(adjustments)
    BY LenProperties DEF LearnInv
  <2>3. Placed(adjustments, signals) /\ Led(adjustments)
    BY DEF LearnInv
  <2>4. \A c \in Codes : Score(inferred[c]) = ScoreAfter(c, Len(adjustments))
    BY <2>1 DEF LearnInv
  <2>5. \A i \in DOMAIN adjustments :
          adjustments[i].previous = ScoreAfter(adjustments[i].code, i - 1)
    BY <2>1, <2>2, <2>3 DEF Led
  <2> QED
    BY <2>2, <2>3, <2>4, <2>5 DEF LearnedOnce, Placed
<1> QED
  BY InitLearned, NextLearned, <1>1, PTL DEF Spec

=============================================================================
