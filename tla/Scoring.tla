------------------------------ MODULE Scoring ------------------------------
(***************************************************************************)
(* The deterministic scores (scoring/engine.py, engine/facade.py) and how   *)
(* the service applies them (base_scoring.py, reciprocal_matching.py).      *)
(*                                                                          *)
(* Components and confidences are percentages, scores hundredths of a       *)
(* point out of 100, weights hundredths; divisions round down where the     *)
(* code keeps the fraction.  Fingerprints are left out.                     *)
(***************************************************************************)
EXTENDS Features

ConsumerWeights == [goal |-> 20, category |-> 18, sensory |-> 18, price |-> 12, alcohol |-> 8,
                    service |-> 9, usage |-> 6, behavior |-> 4, trust |-> 5]
BuyerWeights == [business_goal |-> 12, product |-> 15, channel |-> 12, price |-> 10, moq |-> 12,
                 capacity |-> 10, region |-> 8, cooperation |-> 8, meeting |-> 5, trust |-> 8]
ExhibitorWeights == [buyer_type |-> 15, channel |-> 16, order_volume |-> 16, region |-> 10,
                     trade_type |-> 12, portfolio |-> 10, decision_timing |-> 8,
                     verification |-> 8, meeting_readiness |-> 5]

PresentIn(components) == {n \in DOMAIN components : components[n] # None}

\* calculate_directional_score; caps are the maxima of the caps that apply, in
\* hundredths.  None is the ScoreValidationError for no component at all.
Directional(weights, components, caps) ==
  LET present == PresentIn(components)
      total   == SumFunction([n \in present |-> weights[n]])
      contribution == [n \in present |-> (100 * components[n] * weights[n]) \div total]
      score   == (100 * SumFunction([n \in present |-> components[n] * weights[n]])) \div total
  IN IF present = {} THEN None
     ELSE [score |-> Min({score} \cup caps), contributions |-> contribution]

Harmonic(a, b, scale) == IF a = 0 \/ b = 0 THEN 0 ELSE (2 * a * b * scale) \div (a + b)

MatchStatus(least) == IF least < 4000 THEN "NOT_RECIPROCAL"
                      ELSE IF least < 5500 THEN "IMBALANCED_MATCH"
                      ELSE IF least < 7000 THEN "CONDITIONAL_MATCH" ELSE "MUTUAL_MATCH"

\* Mutant: a score of zero counts as unknown.
ReciprocalBaseZeroUnknown(b, e) ==
  IF b = 0 \/ e = 0 THEN Max({b, e}) ELSE (4 * b * e + b + e) \div (2 * (b + e))

\* The harmonic mean, rounded half up.
ReciprocalBase(b, e) == IF b = 0 \/ e = 0 THEN 0 ELSE (4 * b * e + b + e) \div (2 * (b + e))

GateCaps(least) == (IF least < 4000 THEN {4500} ELSE {}) \cup (IF least < 5500 THEN {6500} ELSE {})

\* calculate_reciprocal_score under RECIPROCAL_SCORE_V1, without adjustment.
Reciprocal(b, e, buyer_conf, exhibitor_conf, acceptance, caps) ==
  LET least     == Min({b, e})
      apart     == Max({b, e}) - least
      confident == (ReciprocalBase(b, e) * (900 + Harmonic(buyer_conf, exhibitor_conf, 1))) \div 1000
      uncapped  == Min({10000, Max({0, (confident * (400 + acceptance)) \div 500 - apart \div 10})})
  IN [final |-> Min({uncapped} \cup GateCaps(least) \cup caps), status |-> MatchStatus(least),
      imbalance |-> apart]

-----------------------------------------------------------------------------
(* What the service feeds the engine.                                       *)

\* _candidate_behavior_codes.
BehaviorCodes(c) == DOMAIN CategoryCodes(c) \cup DOMAIN c.taste \cup DOMAIN c.aroma
                    \cup c.usage \cup c.features

\* _behavior_score: inferred gives codes [score (-100..100), confidence].  With
\* some preference but none that is related the score is 0.
BehaviorScore(inferred, codes) ==
  LET weight(k) == (MaxMatchStrength(codes, {k}) * inferred[k].confidence) \div 1000
      total     == SumFunction([k \in DOMAIN inferred |-> weight(k)])
  IN IF DOMAIN inferred = {} \/ codes = {} THEN None
     ELSE IF total = 0 THEN 0
     ELSE (SumFunction([k \in DOMAIN inferred |-> weight(k) * inferred[k].score]) \div total
             + 100) \div 2

WithBehavior(features, score) ==
  [n \in DOMAIN features \cup {"behavior"} |-> IF n = "behavior" THEN score ELSE features[n]]

\* _score_confidence and _confidence: the weight that is known times how much
\* the sources are trusted.
Confidence(weights, components, source) ==
  (SumFunction([n \in PresentIn(components) |-> weights[n]]) * source) \div 100

SourceConfidence(completeness, trust) ==
  IF trust = None THEN completeness ELSE (completeness + trust) \div 2

\* _directional_caps of the exhibitor's direction.
ExhibitorCaps(k) ==
  (IF PresentIn(k) = {"buyer_type"} THEN {6000} ELSE {})
  \cup (IF k.channel = None /\ k.order_volume = None THEN {6500} ELSE {})
  \cup (IF k.verification = None THEN {7500} ELSE {})
  \cup (IF k.decision_timing = None THEN {8500} ELSE {})
  \cup (IF k.order_volume = None THEN {7500} ELSE {})

\* score_candidate and apply_reciprocal_matching for a candidate that passed;
\* None when the engine refuses it, which ends the request.
ScoreVisitor(c, p) ==
  LET of(k, d) ==
        IF d = None THEN None
        ELSE [score |-> d.score, status |-> None, imbalance |-> 0, components |-> k,
              toward |-> << >>, contributions |-> d.contributions, exhibitor |-> << >>]
      directed(k) == of(k, Directional(ConsumerWeights, k, {}))
  IN directed(WithBehavior(VisitorFeatures(c, p), BehaviorScore(p.inferred, BehaviorCodes(c))))

ReciprocalOf(p, f, d, e) ==
  Reciprocal(d.score, e.score,
    Confidence(BuyerWeights, f.buyer, SourceConfidence(p.completeness, f.buyer.trust)),
    Confidence(ExhibitorWeights, f.exhibitor,
               IF f.declared THEN p.completeness ELSE (7 * p.completeness) \div 10),
    IF f.acceptance = None THEN 50 ELSE f.acceptance,
    IF f.declared THEN {} ELSE {8000})

ScoreBuyer(c, p) ==
  LET joined(f, d, e, r) ==
        [score |-> r.final, status |-> r.status, imbalance |-> r.imbalance,
         components |-> f.buyer, toward |-> f.exhibitor,
         contributions |-> d.contributions, exhibitor |-> e.contributions]
      of(f, d, e) ==
        IF d = None THEN None
        ELSE IF c.type = "PROGRAM" THEN
          [score |-> d.score, status |-> None, imbalance |-> 0, components |-> f.buyer,
           toward |-> f.exhibitor, contributions |-> d.contributions, exhibitor |-> << >>]
        ELSE IF e = None THEN None
        ELSE joined(f, d, e, ReciprocalOf(p, f, d, e))
      directed(f) == of(f, Directional(BuyerWeights, f.buyer, {}),
                        Directional(ExhibitorWeights, f.exhibitor, ExhibitorCaps(f.exhibitor)))
  IN directed(BuyerFeatures(c, p))

ScoreCandidate(c, p) == IF p.user_type = "BUYER" THEN ScoreBuyer(c, p) ELSE ScoreVisitor(c, p)

-----------------------------------------------------------------------------
(* The facade: one command of candidates [id, recalled, passed, score].     *)

ByScore(a, b) == a.score > b.score \/ (a.score = b.score /\ a.id < b.id)

\* execute_matching: the ids in rank order, and the ids left out.
ExecuteMatching(command) ==
  LET in == {i \in DOMAIN command : command[i].recalled /\ command[i].passed}
      order == Arranged(in, LAMBDA i, j : ByScore(command[i], command[j]))
  IN [ranked |-> [k \in DOMAIN order |-> command[order[k]].id],
      excluded |-> {command[i].id : i \in DOMAIN command \ in}]
=============================================================================
