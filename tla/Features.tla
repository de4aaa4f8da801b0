------------------------------ MODULE Features ------------------------------
(***************************************************************************)
(* The features of one candidate for one profile (feature_builder.py).      *)
(* A feature is a percentage, or None where something it needs is unknown.  *)
(*                                                                          *)
(* A candidate c is its payload with the supply profile of its exhibitor    *)
(* flattened in; a profile p its codes by field and its conditions.  Of a   *)
(* wholesale and a retail price limit it has the one that was stated (a     *)
(* profile never has both, profile_resolver.py:108), which both read; a     *)
(* limit of 0 scores as none.                                               *)
(***************************************************************************)
EXTENDS Ontology, Ranking, SequencesExt

\* A weighted mean of <<value, weight>> pairs over the values that are known
\* (_combine_weighted).
Combined(parts) ==
  LET known == {i \in DOMAIN parts : parts[i][1] # None}
  IN IF known = {} THEN None
     ELSE SumFunction([i \in known |-> parts[i][1] * parts[i][2]])
            \div SumFunction([i \in known |-> parts[i][2]])

\* _weighted_code_match; offered gives each code of the candidate its weight.
CodeMatch(wanted, offered) ==
  IF wanted = {} \/ DOMAIN offered = {} THEN None
  ELSE Larger({0} \cup {(MatchStrength(q[1], q[2]) * offered[q[2]]) \div 1000 :
                          q \in (wanted \cap Concept) \X (DOMAIN offered \cap Concept)})

\* _set_match.
SetMatch(left, right) ==
  IF left = {} \/ right = {} THEN None ELSE MaxMatchStrength(left, right) \div 10

\* _price_score.
PriceScore(price, limit) ==
  IF price = None \/ limit = None THEN None
  ELSE IF limit <= 0 THEN None
  ELSE IF price <= limit THEN 100 ELSE Max({0, 100 - (100 * (price - limit)) \div limit})

\* _candidate_price: an event price of 0 gives way to the retail price.
AskingPrice(c) == IF c.event_price \notin {None, 0} THEN c.event_price ELSE c.retail_price

\* _candidate_service_codes.
ServicesOf(c) ==
  c.services \cup (IF c.tasting = "AVAILABLE" THEN {"SERVICE.TASTING"} ELSE {})
             \cup (IF c.purchase \in {"AVAILABLE", "LIMITED"} THEN {"SERVICE.PURCHASE"} ELSE {})
             \cup (IF c.consultation = TRUE THEN {"SERVICE.CONSULTATION"} ELSE {})

GoalService == [g \in {"GOAL.TASTING"} |-> "SERVICE.TASTING"]

\* The weighted sum of the first three by priority; items are [priority, value]
\* and weights[n] those of n items.
ByPriority(items, weights) ==
  LET order == Arranged(DOMAIN items, LAMBDA i, j :
                 items[i].priority < items[j].priority
                   \/ (items[i].priority = items[j].priority /\ i < j))
      n == Min({3, Len(order)})
  IN IF n = 0 THEN None
     ELSE SumFunction([k \in 1..n |-> items[order[k]].value * weights[n][k]]) \div 100

\* _goal_match: goals are [code, priority], in the order of the profile.
GoalMatch(goals, codes, services) ==
  IF codes = {} /\ services = {} THEN None
  ELSE ByPriority([i \in DOMAIN goals |->
         [priority |-> goals[i].priority,
          value |-> IF goals[i].code \in DOMAIN GoalService
                       /\ GoalService[goals[i].code] \in services
                    THEN 100
                    ELSE RelationWeight(codes, "MATCHES_GOAL", {goals[i].code}) \div 10]],
         <<<<100>>, <<65, 35>>, <<55, 30, 15>>>>)

\* _service_match: no service codes at all is a mismatch, not an unknown.
ServiceMatch(requested, services) ==
  IF requested = {} THEN None ELSE MaxMatchStrength(requested, services) \div 10

CategoryCodes(c) ==
  [k \in c.business \cup ({c.category} \ {None}) |-> 100]

AlcoholMatch(wanted, alcohol) ==
  LET band == DeriveBand(Alcohol, alcohol) IN
  IF wanted = {} \/ alcohol = None THEN None
  ELSE IF band = None THEN None ELSE MaxMatchStrength(wanted, {band}) \div 10

\* _general_visitor_features.
VisitorFeatures(c, p) ==
  [goal     |-> GoalMatch(p.goals, c.usage \cup c.features, ServicesOf(c)),
   category |-> CodeMatch(p.categories, CategoryCodes(c)),
   sensory  |-> Combined(<<<<CodeMatch(p.taste, c.taste), 70>>,
                           <<CodeMatch(p.aroma, c.aroma), 30>>>>),
   price    |-> PriceScore(AskingPrice(c), p.price_max),
   alcohol  |-> AlcoholMatch(p.alcohol, c.alcohol),
   service  |-> ServiceMatch(p.services, ServicesOf(c)),
   usage    |-> Combined(<<<<SetMatch(p.use_cases, c.usage), 60>>,
                           <<SetMatch(p.product_features, c.features), 40>>>>),
   trust    |-> c.trust]

-----------------------------------------------------------------------------
(* Buyers.                                                                  *)

StatusScore == [YES |-> 100, CONDITIONAL |-> 70, NEGOTIABLE |-> 55, NO |-> 0, UNKNOWN |-> None]
GoalStatus  == [g \in {"BIZ_GOAL.OEM", "BIZ_GOAL.EXPORT"} |->
                  IF g = "BIZ_GOAL.OEM" THEN "oem" ELSE "export"]

\* _goal_status_matches and _priority_goal_score.
BusinessGoalMatch(goals, c) ==
  LET status(i) == StatusScore[c[GoalStatus[goals[i].code]]]
      scored == {i \in DOMAIN goals : goals[i].code \in DOMAIN GoalStatus /\ status(i) # None}
  IN ByPriority([i \in scored |-> [priority |-> goals[i].priority, value |-> status(i)]],
                <<<<100>>, <<70, 30>>, <<60, 30, 10>>>>)

\* preferred_buyer_json is an object; the supply profile keeps list() of it,
\* which is the list of its keys (candidate_generator.py:124).
PreferredBuyers(json) ==
  [shape |-> "list", value |-> IF json = None THEN << >> ELSE SetToSeq(DOMAIN json)]

Declares(raw, key) == raw.shape = "mapping" /\ key \in DOMAIN raw.value

\* _preference_items: [code -> weight].
PreferenceItems(raw, key) == IF Declares(raw, key) THEN raw.value[key] ELSE << >>

\* The larger of the units a buyer states, 0 counting as not stated.
BuyerUnits(p) == IF p.units_max \notin {None, 0} THEN p.units_max ELSE p.units_min

\* _preferred_order_volume.
OrderVolumeMatch(raw, units) ==
  IF ~Declares(raw, "order_volume") \/ units = None THEN None
  ELSE LET volume == raw.value["order_volume"] IN
       IF volume.min # None /\ units < volume.min THEN (100 * units) \div volume.min
       ELSE IF volume.max # None /\ units > volume.max THEN 90 ELSE 100

TimelineOrder == <<"IMMEDIATE", "SHORT_TERM", "MID_TERM", "LONG_TERM", "RESEARCH_ONLY">>

\* _decision_timing_match.
DecisionTimingMatch(raw, timeline) ==
  LET wanted == IF Declares(raw, "decision_timelines") THEN raw.value["decision_timelines"] ELSE {}
      at(t)  == CHOOSE i \in DOMAIN TimelineOrder : TimelineOrder[i] = t
      apart  == Min({Max({at(timeline) - at(w), at(w) - at(timeline)}) : w \in wanted})
  IN IF timeline = None \/ wanted = {} THEN None
     ELSE <<100, 80, 50, 30, 30>>[apart + 1]

\* What part of the units is available, in steps.
CapacityMatch(available, units) ==
  IF available = None \/ units = None THEN None
  ELSE IF units <= 0 THEN None
  ELSE CASE 2 * available >= 3 * units -> 100
         [] 2 * available <  3 * units /\ available >= units -> 90
         [] available < units /\ 5 * available >= 4 * units -> 60
         [] 5 * available < 4 * units /\ 2 * available >= units -> 30
         [] OTHER -> 0

MoqMatch(moq, units) ==
  IF moq = None \/ units = None THEN None
  ELSE IF moq <= units THEN 100 ELSE (100 * units) \div moq

MeetingMatch(c) == IF c.consultation = None THEN None ELSE IF c.consultation THEN 100 ELSE 0

\* _buyer_features: those of the buyer's direction, of the exhibitor's, and
\* what the two are joined with.
BuyerFeatures(c, p) ==
  LET raw      == PreferredBuyers(c.preferred)
      units    == BuyerUnits(p)
      goal     == BusinessGoalMatch(p.goals, c)
      product  == CodeMatch(p.categories, CategoryCodes(c))
      capacity == CapacityMatch(c.capacity, units)
  IN [buyer |->
        [business_goal |-> goal, product |-> product,
         channel |-> SetMatch(p.channels, c.channels), region |-> SetMatch(p.regions, c.regions),
         price |-> PriceScore(AskingPrice(c), p.price_max),
         moq |-> MoqMatch(c.moq, units), capacity |-> capacity, cooperation |-> goal,
         meeting |-> MeetingMatch(c), trust |-> Combined(<<<<c.readiness, 60>>, <<c.trust, 40>>>>)],
      exhibitor |->
        [buyer_type |-> CodeMatch(p.buyer_type, PreferenceItems(raw, "preferred_buyer_types")),
         channel |-> CodeMatch(p.channels, PreferenceItems(raw, "preferred_channels")),
         region |-> CodeMatch(p.regions, PreferenceItems(raw, "preferred_regions")),
         trade_type |-> CodeMatch(p.trade_type, PreferenceItems(raw, "trade_types")),
         order_volume |-> OrderVolumeMatch(raw, units), portfolio |-> product,
         decision_timing |-> DecisionTimingMatch(raw, p.timeline),
         verification |-> p.verification, meeting_readiness |-> p.meeting_readiness],
      declared   |-> raw.value # << >>,
      acceptance |-> Combined(<<<<capacity, 70>>, <<MeetingMatch(c), 30>>>>)]
=============================================================================
