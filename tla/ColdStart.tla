------------------------------ MODULE ColdStart -----------------------------
(***************************************************************************)
(* The cold start policy (cold_start_policy.py, cold_start_runtime.py): how *)
(* much is known of the subject, what it is asked next, how confident a     *)
(* recommendation may be, and which candidates are offered to explore.      *)
(*                                                                          *)
(* Shares and scores are in thousandths, completeness in percent.  A        *)
(* subject is [buyer, completeness, reset, explicit, behaviours, details,   *)
(* favorites, checkins, feedback, consultations, confidence, verified,      *)
(* consistency]; a candidate is that of module Slate with what the quality  *)
(* gate reads.                                                              *)
(***************************************************************************)
EXTENDS Slate

Percent(n, of) == Within((1000 * n) \div of, 0, 1000)

StableSubject(s) ==
  IF s.buyer THEN s.completeness >= 70 /\ s.verified /\ s.consultations >= 2
  ELSE s.completeness >= 60 /\ s.behaviours >= 5 /\ s.confidence >= 700

WarmingSubject(s) ==
  IF s.buyer THEN s.explicit >= 5 \/ s.verified \/ s.details >= 3 \/ s.favorites >= 1
  ELSE s.explicit >= 4 \/ s.favorites >= 2 \/ s.details >= 5 \/ s.checkins >= 2 \/ s.feedback >= 2

ColdState(s) ==
  IF s.reset THEN "RESET"
  ELSE IF StableSubject(s) THEN "STABLE" ELSE IF WarmingSubject(s) THEN "WARMING" ELSE "COLD"

ColdTypes(s) ==
  LET settled == ColdState(s) \in {"STABLE", "RESET"} IN
  {t \in {"COLD.RESET", "COLD.NEW_BUYER", "COLD.UNVERIFIED", "COLD.NEW_USER",
          "COLD.SPARSE_PROFILE", "COLD.SPARSE_BEHAVIOR"} :
     CASE t = "COLD.RESET"          -> s.reset
       [] t = "COLD.NEW_BUYER"      -> s.buyer /\ ~settled
       [] t = "COLD.UNVERIFIED"     -> s.buyer /\ ~s.reset /\ ~s.verified
       [] t = "COLD.NEW_USER"       -> ~s.buyer /\ ~settled
       [] t = "COLD.SPARSE_PROFILE" -> s.completeness < (IF s.buyer THEN 70 ELSE 60)
       [] OTHER                     -> s.behaviours < 5}

Stability(s) ==
  (35 * Within(10 * s.completeness, 0, 1000) + 25 * Percent(s.explicit, IF s.buyer THEN 5 ELSE 4)
     + 20 * Percent(s.behaviours, 5) + 10 * Percent(s.feedback, 2) + 10 * s.consistency) \div 100

ExplorationRatio(s) ==
  LET ratio == CASE ColdState(s) = "WARMING" -> 150 [] ColdState(s) = "STABLE" -> 75 [] OTHER -> 250
  IN IF s.buyer THEN Min({ratio, 100}) ELSE ratio

\* Mutant: the behaviours are looked at before the feedback.
ConfidenceCapBehaviours(s) ==
  IF ColdState(s) = "STABLE" THEN None ELSE IF s.behaviours >= 3 THEN 780
  ELSE IF s.feedback > 0 THEN 850 ELSE IF s.explicit >= 5 THEN 720 ELSE 600

\* The cap on the confidence of what is recommended; None is no cap.
ConfidenceCap(s) ==
  CASE ColdState(s) = "STABLE" -> None
    [] ColdState(s) # "STABLE" /\ s.feedback > 0 -> 850
    [] ColdState(s) # "STABLE" /\ s.feedback = 0 /\ s.behaviours >= 3 -> 780
    [] OTHER -> IF s.explicit >= 5 THEN 720 ELSE 600

-----------------------------------------------------------------------------
IsNew(c) == c.age # None /\ c.age \in 0..NewDays

Verified(c) == c.supply_approved /\ c.master_approved
Running(c)  == c.operating \in {None, "OPEN", "NORMAL"}
TrustOf(c)  == IF c.trust = None THEN 0 ELSE c.trust

\* The quality of a new entity; parts counts the stated parts of a product, 0..4.
Quality(c) ==
  LET flag(b) == IF b THEN 1000 ELSE 0 IN
  (25 * TrustOf(c) + 20 * 250 * c.parts + 20 * c.readiness + 15 * flag(Verified(c))
     + 10 * flag(c.consultation) + 10 * flag(Running(c))) \div 100

\* The gate of a new entity to the quality exploration slot.
PassesGate(c) == c.participating /\ TrustOf(c) >= 700 /\ Verified(c) /\ Running(c) /\ c.score >= Floor

EntityCap(c) ==
  IF ~IsNew(c) \/ Quality(c) >= 850 THEN None
  ELSE IF Verified(c) THEN 850 ELSE IF TrustOf(c) >= 700 THEN 750 ELSE 650

RecommendationConfidence(s, c) ==
  Min({IF c.confidence = None THEN 1000 ELSE c.confidence} \cup ({ConfidenceCap(s), EntityCap(c)} \ {None}))

\* The channels after the gate.
Gated(c) ==
  [c EXCEPT !.channels = IF ~IsNew(c) THEN @ ELSE IF PassesGate(c)
                         THEN @ \cup {"EXPLORATION", "COLD_START_QUALITY"} ELSE @ \ {"EXPLORATION"}]

\* How many candidates teach the preferences of a subject that is not settled.
LearningSlots(s, gated) ==
  LET target == Max({1, Rounded(Min({Cardinality(gated), 10}), ExplorationRatio(s))})
      ready  == Cardinality({c \in gated : "COLD_START_QUALITY" \in c.channels})
  IN IF ColdState(s) \in {"COLD", "WARMING"} THEN Max({0, target - Min({ready, 1})}) ELSE 0

\* The most novel of each category, the most novel categories first.
LearningPool(s, gated) ==
  LET pool == {c \in gated : "COLD_START_QUALITY" \notin c.channels /\ c.score >= Floor}
      before(c, d) == \/ c.novelty > d.novelty
                      \/ c.novelty = d.novelty /\ c.score > d.score
                      \/ c.novelty = d.novelty /\ c.score = d.score /\ c.id < d.id
      first == {c \in pool : \A d \in pool \ {c} : d.category = c.category => before(c, d)}
  IN {c \in first : Cardinality({d \in first : before(d, c)}) < LearningSlots(s, gated)}

\* apply_cold_start_annotations.
Annotated(s, candidates) ==
  LET gated == {Gated(c) : c \in candidates}
      learn == LearningPool(s, gated)
  IN {IF c \in learn THEN [c EXCEPT !.channels = @ \cup {"EXPLORATION", "PREFERENCE_LEARNING"}] ELSE c
        : c \in gated}
=============================================================================
