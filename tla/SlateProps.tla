----------------------------- MODULE SlateProps -----------------------------
(***************************************************************************)
(* Cases and properties of modules Slate and ColdStart: a slate is built    *)
(* from a pool laid out by a scenario, for a subject known more or less.    *)
(***************************************************************************)
EXTENDS ColdStart, Stage

Scenario0 == [n |-> 6, owners |-> "each", age |-> "old", scores |-> "steps", sound |-> TRUE,
              seen |-> 0, limit |-> 5, preference |-> "BALANCED", category |-> "each",
              exposed |-> 0, buyer |-> FALSE, known |-> "COLD"]
ScenarioDom ==
  [preference |-> {"DIVERSE", "NEW_DISCOVERY"}, sound |-> {FALSE}, seen |-> {2, 5},
   category |-> {"one"}, exposed |-> {3}, buyer |-> {TRUE}]
Layouts == {[Scenario0 EXCEPT !.owners = o, !.age = a, !.scores = s, !.limit = l, !.known = k] :
              o \in {"each", "one", "two", "three"}, a \in {"old", "new", "mixed"},
              s \in {"steps", "level", "steep", "two"}, l \in {2, 4, 5, 6},
              k \in {"COLD", "WARMING", "STABLE", None}}
Scenarios == Layouts \cup UNION {Changed(l, ScenarioDom) : l \in Layouts}
             \cup Changed2([Scenario0 EXCEPT !.n = 12, !.limit = 12, !.owners = "two"],
                           ScenarioDom @@ [age |-> {"new", "mixed"}, scores |-> {"steep", "level"},
                                           known |-> {"WARMING", None}])

Person0 == [buyer |-> FALSE, completeness |-> 50, reset |-> FALSE, explicit |-> 3, behaviours |-> 2,
            details |-> 2, favorites |-> 0, checkins |-> 0, feedback |-> 0, consultations |-> 0,
            confidence |-> 600, verified |-> FALSE, consistency |-> 500]
PersonDom == [completeness |-> {70}, explicit |-> {4, 5}, behaviours |-> {3, 5}, details |-> {3, 5},
              favorites |-> {1, 2}, checkins |-> {2}, feedback |-> {1, 2}, consultations |-> {2},
              confidence |-> {700}, verified |-> {TRUE}, consistency |-> {600}]
PersonOf(sc) ==
  [Person0 EXCEPT !.buyer = sc.buyer, !.completeness = IF sc.known = "STABLE" THEN 70 ELSE 50,
     !.behaviours = IF sc.known = "STABLE" THEN 5 ELSE 0, !.confidence = 700, !.consultations = 2, !.verified = sc.known # "COLD",
     !.favorites = IF sc.known = "COLD" THEN 0 ELSE 2]

\* The i-th candidate of a scenario.
Card(sc, i) ==
  [id |-> i, type |-> "PRODUCT",
   score |-> CASE sc.scores = "steps" -> 920 - 40 * i [] sc.scores = "level" -> 720
               [] sc.scores = "steep" -> 1000 - 110 * i [] OTHER -> IF i <= 2 THEN 900 ELSE 500,
   exhibitor |-> CASE sc.owners = "each" -> i [] sc.owners = "one" -> 1
                   [] sc.owners = "two" -> i % 2 [] OTHER -> IF i <= 3 THEN 1 ELSE i,
   category |-> IF sc.category = "one" THEN 1 ELSE i % 3, regions |-> {i % 3},
   price_band |-> i % 2, tastes |-> {i % 2}, channels |-> {}, trust |-> IF i % 2 = 0 THEN 800 ELSE 300,
   age |-> CASE sc.age = "old" -> 90 [] sc.age = "new" -> 10 [] OTHER -> IF i % 2 = 0 THEN 10 ELSE None,
   novelty |-> 100 * (i % 4), metres |-> 100 * i, sponsored |-> FALSE,
   seen |-> IF i % 3 = 1 THEN sc.seen ELSE 0, acted |-> 0,
   supply_approved |-> TRUE, master_approved |-> sc.sound \/ i > 2, operating |-> "OPEN", parts |-> 4,
   readiness |-> 800, consultation |-> TRUE, participating |-> TRUE, confidence |-> 900]

\* The case of a scenario; without a cold start decision the person is None.
SlateTasks ==
  {[kind |-> "slate", pool |-> {Card(sc, i) : i \in 1..sc.n}, limit |-> sc.limit,
    person |-> IF sc.known = None THEN None ELSE PersonOf(sc),
    profile |-> [buyer |-> sc.buyer, preference |-> sc.preference, categories |-> {}, regions |-> {}],
    exposure |-> (1 :> sc.exposed) @@ (2 :> 1)] : sc \in Scenarios}

\* The end of the pipeline: annotate for the person, then lay out.
RatioFor(person) == IF person = None THEN None ELSE ExplorationRatio(person)
Laid(t) == BuildSlate(IF t.person = None THEN t.pool ELSE Annotated(t.person, t.pool),
                      t.limit, t.profile, t.exposure, RatioFor(t.person))

Persons == UNION {Changed(p, PersonDom) :
                    p \in {Person0, [Person0 EXCEPT !.buyer = TRUE], [Person0 EXCEPT !.reset = TRUE]}}
SettleTasks == UNION {[kind : {"settle"}, from : {p}, to : Changed(p, PersonDom)] : p \in Persons}

LaySlate ==
  /\ task.kind = "slate"
  /\ \E slate \in {Laid(task)} :
       result' = [items |-> slate.items, eligible |-> slate.eligible, guard |-> slate.guard,
                  related |-> [i \in DOMAIN slate.items |-> Related(slate.items[i], slate)],
                  confidence |-> IF task.person = None THEN << >>
                                 ELSE [i \in DOMAIN slate.items |->
                                         RecommendationConfidence(task.person, slate.items[i])]]

Settle ==
  /\ task.kind = "settle"
  /\ result' = [state |-> <<ColdState(task.from), ColdState(task.to)>>, types |-> ColdTypes(task.to),
                ratio |-> <<ExplorationRatio(task.from), ExplorationRatio(task.to)>>,
                cap   |-> <<ConfidenceCap(task.from), ConfidenceCap(task.to)>>,
                stability |-> <<Stability(task.from), Stability(task.to)>>]

SlateCompute == LaySlate \/ Settle

Slated == task.kind = "slate" /\ result # None
PlanOf(t, slate) == SlotPlan(Min({t.limit, Len(slate.eligible)}), RatioFor(t.person))

\* Whatever fallback or reconstruction built the list: nothing is shown below
\* the floor or twice; an exhibitor has at most one card among the first five,
\* two among ten and three in all (one, for a buyer); and at most one newcomer
\* of the quality gate is among the first ten.
ListCapsHold ==
  Slated =>
    LET items == result.items
        head(k) == {i \in DOMAIN items : i <= k}
    IN /\ \A i \in DOMAIN items : items[i].score >= Floor /\ ~(items[i].seen >= 5 /\ items[i].acted = 0)
       /\ Cardinality({items[i].id : i \in DOMAIN items}) = Len(items)
       /\ \A i \in DOMAIN items :
            LET own(k) == Cardinality({j \in head(k) : items[j].exhibitor = items[i].exhibitor})
            IN items[i].exhibitor # None =>
                 /\ own(5) <= 1 /\ own(10) <= 2 /\ own(Len(items)) <= 3
                 /\ task.profile.buyer => own(Len(items)) <= 1
       /\ Cardinality({i \in head(10) : "COLD_START_QUALITY" \in items[i].channels}) <= 1

\* With slots to explore in the plan, the first ten explore no more than those
\* slots, in the list of the plan and in its reconstruction alike.
ExplorationContained ==
  Slated =>
    LET most  == ExplorationSlots(PlanOf(task, result))
        first == {i \in DOMAIN result.items : i <= 10}
    IN most > 0 => Cardinality({i \in first : IsExploration(result.items[i])}) <= most

\* A list kept as the plan laid it out has, on average, nearly the relevance of
\* the best candidates: within 0.03 over five cards and 0.05 over ten.
LossContained ==
  Slated /\ ~result.guard =>
    \A k \in {5, 10} :
      LET n == Min({k, Len(result.items)})
          total(s) == SumFunction([i \in 1..n |-> s[i].score])
      IN n > 0 => total(result.eligible) - total(result.items) < n * ((IF k = 5 THEN 30 ELSE 50) + 1)

\* A newcomer has the quality slot only when it was verified, well described and
\* relevant, whoever asks.
QualityVerified ==
  Slated => \A i \in DOMAIN result.items :
    LET c == result.items[i] IN
    "COLD_START_QUALITY" \in c.channels => Verified(c) /\ c.trust >= 700 /\ c.age <= NewDays

\* A buyer sees each product once, as a card or under the card of its exhibitor.
BuyerSeesOnce ==
  Slated /\ task.profile.buyer =>
    LET under(i) == {c.id : c \in result.related[i]}
        cards    == {c.id : c \in ToSet(result.items)}
    IN /\ Cardinality(cards) = Len(result.items)
       /\ \A i \in DOMAIN result.items : under(i) \cap cards = {}
       /\ \A i, j \in DOMAIN result.items : i # j => under(i) \cap under(j) = {}

\* More evidence never makes a subject less settled, less trusted or more
\* explored on; and only a settled subject is recommended to without a cap.
EvidenceOnlyHelps ==
  task.kind = "settle" /\ result # None /\
  (\A f \in DOMAIN PersonDom \ {"verified"} : task.from[f] <= task.to[f]) /\ (task.from.verified => task.to.verified) =>
    LET order(s) == CASE s = "COLD" -> 0 [] s = "WARMING" -> 1 [] OTHER -> 2
        cap(v)   == IF v = None THEN 1000 ELSE v
    IN /\ order(result.state[1]) <= order(result.state[2])
       /\ result.ratio[2] <= result.ratio[1]
       /\ cap(result.cap[1]) <= cap(result.cap[2])
       /\ result.stability[1] <= result.stability[2]
       /\ result.cap[2] = None
            <=> result.types \cap {"COLD.NEW_USER", "COLD.NEW_BUYER", "COLD.RESET"} = {}
=============================================================================
