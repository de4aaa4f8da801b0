----------------------------- MODULE Presenting -----------------------------
(***************************************************************************)
(* What the situation of the subject adds to a score (context_reranker.py,  *)
(* context_policy.py) and the reasons shown for it                          *)
(* (explanation_generator.py, the claims of engine/facade.py).              *)
(*                                                                          *)
(* Parts are percentages, or None where something they need is unknown;     *)
(* minutes count from the server time of the request.                       *)
(***************************************************************************)
EXTENDS Scoring

VisitMinutes == 10

ContextWeights == [proximity |-> 20, time |-> 20, wait |-> 15, operation |-> 15, meeting |-> 10,
                   schedule |-> 10, inventory |-> 5, recent |-> 5]

\* _prepare_observed_fields: a unit of the map is 5 m, a minute of walking 60 m;
\* halves are rounded to the even minute.
WalkMinutes(units) ==
  LET half == (5 * units) % 60 = 30
      down == (5 * units) \div 60
      near == (5 * units + 30) \div 60
  IN IF units = None THEN None
     ELSE Max({1, IF half THEN down + (down % 2) ELSE near})

Proximity(units) == IF units = None THEN None ELSE 30000 \div (300 + 5 * units)

WaitFor(c) == IF c.type = "BOOTH" THEN c.wait ELSE None
OrZero(v)  == IF v = None THEN 0 ELSE v

Spare(remaining, required) == 50 + (50 * (remaining - required)) \div Max({remaining, 1})

\* _time_feasibility.
TimeFeasibility(c, x) ==
  IF c.type = "PROGRAM" THEN
    IF c.ends # None /\ OrZero(c.ends) <= 0 THEN 0
    ELSE IF c.starts = None \/ x.remaining = None THEN None
    ELSE IF c.starts < 0 THEN 60
    ELSE IF c.starts <= x.remaining THEN 100 ELSE 0
  ELSE IF x.remaining = None \/ (x.zone /\ c.units = None) THEN None
  ELSE LET required == OrZero(WalkMinutes(c.units)) + OrZero(WaitFor(c)) + VisitMinutes
       IN IF required > x.remaining THEN 0 ELSE Spare(x.remaining, required)

\* _wait_congestion: the mean of what is known of the two.
WaitCongestion(c, x) ==
  LET wait  == IF c.wait = None THEN None ELSE Max({0, 100 - (100 * c.wait) \div 30})
      level == CASE c.congestion = "LOW" -> 100 [] c.congestion = "MEDIUM" -> 60
                 [] c.congestion = "HIGH" -> IF x.avoid_congestion THEN 0 ELSE 20
                 [] OTHER -> None
  IN IF c.type # "BOOTH" THEN None ELSE Combined(<<<<wait, 1>>, <<level, 1>>>>)

\* _operational_availability.
Operation(c) ==
  CASE c.type = "BOOTH" -> (CASE c.operating = "OPEN" -> 100 [] c.operating = "PAUSED" -> 20
                              [] c.operating = "CLOSED" -> 0 [] OTHER -> None)
    [] c.type = "PRODUCT" -> (IF c.inventory = "SOLD_OUT" THEN 0
                              ELSE IF c.purchase \in {"AVAILABLE", "LIMITED"}
                                      \/ c.tasting = "AVAILABLE" THEN 100
                              ELSE IF c.purchase # None \/ c.tasting # None THEN 20 ELSE None)
    [] c.type = "EXHIBITOR" -> (CASE c.participation = "APPROVED" -> 100
                                  [] c.participation = "CANCELLED" -> 0 [] OTHER -> None)
    [] c.type = "PROGRAM" -> (CASE c.program \in {"PLANNED", "OPEN"} -> 100
                                [] c.program = "IN_PROGRESS" -> 80
                                [] c.program \in {"CANCELLED", "CLOSED", "ENDED"} -> 0
                                [] OTHER -> None)

\* _meeting_availability; open is whether the participation has an open slot,
\* None when the table of slots is not there.
MeetingAvailability(c, p, x, open) ==
  IF p.user_type # "BUYER" \/ c.type = "PROGRAM" THEN None
  ELSE IF x.meeting_here \/ open = TRUE THEN 100
  ELSE IF open = FALSE /\ c.consultation = TRUE THEN 0 ELSE None

\* _schedule_feasibility: before the next meeting, x.next minutes from now and
\* c.to_meeting units from the candidate.
ScheduleFeasibility(c, x) ==
  IF c.type = "PROGRAM" THEN TimeFeasibility(c, x)
  ELSE IF x.next = None THEN None
  ELSE IF x.meeting_here THEN 100
  ELSE IF x.next <= 0 THEN 0
  ELSE IF c.units = None THEN None
  ELSE IF 60 * (WalkMinutes(c.units) + OrZero(WaitFor(c)) + VisitMinutes) + 5 * c.to_meeting
            <= 60 * x.next THEN 100 ELSE 0

ContextParts(c, p, x, open) ==
  [proximity |-> Proximity(c.units), time |-> TimeFeasibility(c, x),
   wait |-> WaitCongestion(c, x), operation |-> Operation(c),
   meeting |-> MeetingAvailability(c, p, x, open), schedule |-> ScheduleFeasibility(c, x),
   inventory |-> IF c.type # "PRODUCT" THEN None
                 ELSE CASE c.inventory = "AVAILABLE" -> 40 [] c.inventory = "LOW" -> 100
                        [] c.inventory = "SOLD_OUT" -> 0 [] OTHER -> None,
   recent |-> IF x.viewed \/ x.visited THEN 0 ELSE None]

\* evaluate_context: 85 % of the score and 15 % of the context, if anything of
\* it is known.
Evaluated(c, p, x, open, score) ==
  LET d == Directional(ContextWeights, ContextParts(c, p, x, open), {})
  IN IF d = None THEN [context |-> None, final |-> score]
     ELSE [context |-> d.score, final |-> (85 * score + 15 * d.score) \div 100]

-----------------------------------------------------------------------------
(* Reasons: claims are [code, contribution], contributions None when there  *)
(* is none.                                                                 *)

\* The three with the largest contribution.
BestThree(reasons) ==
  LET order == Arranged(reasons, LAMBDA r, s :
                 OrZero(r.contribution) > OrZero(s.contribution)
                   \/ /\ OrZero(r.contribution) = OrZero(s.contribution)
                      /\ r.rank < s.rank)
  IN SubSeq(order, 1, Min({3, Len(order)}))

Claim(code, contribution, rank) == [code |-> code, contribution |-> contribution, rank |-> rank]

\* The codes of the claims in the order of their names (rank breaks ties).
CodeOf == [alcohol |-> "ALCOHOL_MATCH", business_goal |-> "BUSINESS_GOAL_MATCH",
           capacity |-> "CAPACITY_MATCH", category |-> "CATEGORY_MATCH",
           channel |-> "CHANNEL_MATCH", cooperation |-> "COOPERATION_MATCH",
           trust |-> "DATA_TRUST", goal |-> "GOAL_MATCH", meeting |-> "MEETING_AVAILABLE",
           moq |-> "MOQ_MATCH", price |-> "PRICE_MATCH", product |-> "PRODUCT_MATCH",
           region |-> "REGION_MATCH", service |-> "SERVICE_MATCH", sensory |-> "TASTE_MATCH",
           usage |-> "USAGE_MATCH"]
RankOf == [ALCOHOL_MATCH |-> 1, BUSINESS_GOAL_MATCH |-> 2, CAPACITY_MATCH |-> 3,
           CATEGORY_MATCH |-> 4, CHANNEL_MATCH |-> 5, COOPERATION_MATCH |-> 6, DATA_TRUST |-> 7,
           DIRECTION_IMBALANCE |-> 8, GOAL_MATCH |-> 9, MEETING_AVAILABLE |-> 10,
           MOQ_MATCH |-> 11, MUTUAL_CHANNEL_MATCH |-> 12, MUTUAL_PRODUCT_MATCH |-> 13,
           NEARBY |-> 14, PRICE_MATCH |-> 15, PRODUCT_MATCH |-> 16, REGION_MATCH |-> 17,
           SEMANTIC_MATCH |-> 18, SERVICE_MATCH |-> 19, TASTE_MATCH |-> 20, USAGE_MATCH |-> 21]
ClaimOf(code, contribution) == Claim(code, contribution, RankOf[code])

\* derive_directional_reason_claims with the evidence of _reason_evidence:
\* behaviour has none.
DirectionalClaims(scored, vector) ==
  BestThree({ClaimOf(CodeOf[n], scored.contributions[n]) :
               n \in {m \in DOMAIN scored.contributions \cap DOMAIN CodeOf :
                        scored.contributions[m] > 0}}
            \cup IF vector THEN {ClaimOf("SEMANTIC_MATCH", None)} ELSE {})

\* derive_reciprocal_reason_claims with the evidence of _facade_claims.
ReciprocalClaims(scored, slots) ==
  LET both(b, e) == IF b \in DOMAIN scored.contributions /\ e \in DOMAIN scored.exhibitor
                    THEN Min({scored.contributions[b], scored.exhibitor[e]}) ELSE 0
      mutual(code, b, e) == IF both(b, e) > 0 THEN {ClaimOf(code, both(b, e))} ELSE {}
  IN BestThree(mutual("MUTUAL_CHANNEL_MATCH", "channel", "channel")
               \cup mutual("MUTUAL_PRODUCT_MATCH", "product", "portfolio")
               \cup (IF slots THEN mutual("MEETING_AVAILABLE", "meeting", "meeting_readiness")
                     ELSE {})
               \cup IF scored.imbalance > 0
                    THEN {ClaimOf("DIRECTION_IMBALANCE", scored.imbalance \div 100)} ELSE {})

\* Mutant: the claim of a meeting has a text too.
TemplatedAll == DOMAIN RankOf

\* _CLAIM_TEMPLATES: a claim without a text is not shown.
Templated == DOMAIN RankOf \ {"MEETING_AVAILABLE", "NEARBY"}

\* generate_explanations.
Reasons(c, scored, context, slots, vector) ==
  LET claims == IF scored.exhibitor # << >> THEN ReciprocalClaims(scored, slots)
                ELSE DirectionalClaims(scored, vector)
      walk   == WalkMinutes(c.units)
      shown  == {claims[i] : i \in {j \in DOMAIN claims : claims[j].code \in Templated}}
                \cup (IF slots THEN {ClaimOf("MEETING_AVAILABLE", context)} ELSE {})
                \cup (IF walk # None /\ OrZero(walk) <= 10 THEN {ClaimOf("NEARBY", context)}
                      ELSE {})
  IN IF shown = {} THEN <<Claim("EXPLORATION_CANDIDATE", None, 0)>> ELSE BestThree(shown)

\* One candidate through score_candidates, apply_reciprocal_matching,
\* rerank_by_context and generate_explanations; None ends the request.
Presented(c, p, x, open, vector) ==
  LET slots == p.user_type = "BUYER" /\ open = TRUE
      shown(scored, e) == [scored |-> scored, final |-> e.final,
                           reasons |-> Reasons(c, scored, e.context, slots, vector)]
      of(scored) == IF scored = None THEN None
                    ELSE shown(scored, Evaluated(c, p, x, open, scored.score))
  IN of(ScoreCandidate(c, p))
=============================================================================
