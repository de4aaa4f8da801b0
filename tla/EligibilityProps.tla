-------------------------- MODULE EligibilityProps --------------------------
(***************************************************************************)
(* Cases and properties of module Eligibility.                              *)
(***************************************************************************)
EXTENDS Eligibility, Stage, TLC

-----------------------------------------------------------------------------
(* A catalogue with one tree of regions, a channel, a taste, the three      *)
(* goals a status verifies, a goal that nothing verifies, and two bands of  *)
(* alcohol that conflict.                                                   *)

MCTypeOf ==
  ("KR" :> "REGION" @@ "SEOUL" :> "REGION" @@ "BUSAN" :> "REGION" @@
   "SHOP" :> "CHANNEL" @@ "DRY" :> "TASTE" @@ "TAKJU" :> "PRODUCT_CATEGORY" @@
   "BIZ_GOAL.OEM" :> "BUSINESS_GOAL" @@ "BIZ_GOAL.IMPORT" :> "BUSINESS_GOAL" @@
   "SERVICE.TASTING" :> "BOOTH_SERVICE" @@
   "LOW" :> "ALCOHOL_LEVEL" @@ "HIGH" :> "ALCOHOL_LEVEL")
MCConcept   == DOMAIN MCTypeOf
MCParent    == [c \in MCConcept |-> IF c \in {"SEOUL", "BUSAN"} THEN "KR" ELSE None]
MCRelations == {[source |-> "LOW", type |-> "CONFLICTS_WITH", target |-> "HIGH",
                 weight |-> 1000]}
MCAlcohol   == << [code |-> "LOW", min |-> 0, min_inclusive |-> TRUE,
                   max |-> 10, max_inclusive |-> FALSE],
                  [code |-> "HIGH", min |-> 10, min_inclusive |-> TRUE,
                   max |-> 100, max_inclusive |-> TRUE] >>

Supply0 == [approval |-> "APPROVED", moq |-> 1, capacity |-> 2, oem |-> "YES",
            private_label |-> "YES", export |-> "YES", regions |-> {"SEOUL"},
            channels |-> {"SHOP"}, business_types |-> {}]
Candidate0 == [type |-> "BOOTH", master |-> "APPROVED", approval |-> "APPROVED",
               participation |-> "ACTIVE", operating |-> "OPEN",
               tasting |-> "AVAILABLE", purchase |-> "AVAILABLE",
               inventory |-> "IN_STOCK", program |-> "OPEN",
               codes |-> {"DRY"}, event_price |-> None, retail_price |-> 2,
               wait |-> 5, consultation |-> TRUE, alcohol |-> 20, supply |-> Supply0]
SupplyDom == [approval |-> {"DRAFT"}, moq |-> {None, 3}, capacity |-> {None, 0},
              oem |-> {None, "NO", "CONDITIONAL"}, regions |-> {{}, {"KR"}, {"BUSAN"}},
              channels |-> {{}}]
CandidateDom == [type |-> {"PRODUCT", "EXHIBITOR", "PROGRAM"}, master |-> {None, "REJECTED"},
                 approval |-> {None, "PENDING"}, participation |-> {None, "CANCELLED"},
                 operating |-> {"CLOSED"}, tasting |-> {"ENDED"}, purchase |-> {"ENDED"},
                 inventory |-> {"SOLD_OUT"}, program |-> {"CANCELLED"}, codes |-> {{}, {"TAKJU"}},
                 event_price |-> {1, 3}, wait |-> {None, 50}, consultation |-> {None, FALSE},
                 alcohol |-> {None, 5},
                 supply |-> {None} \cup {[s EXCEPT !.business_types = {}] :
                                           s \in Changed(Supply0, SupplyDom)}]
Candidates == Changed2(Candidate0, CandidateDom)

Item(code, level) == [code |-> code, level |-> level]
ItemSets == {{}, {Item("SEOUL", "REQUIRED")}, {Item("KR", "REQUIRED"), Item("SHOP", "REQUIRED")},
             {Item("SEOUL", "REQUIRED"), Item("BUSAN", "REQUIRED")},
             {Item("BIZ_GOAL.OEM", "REQUIRED"), Item("DRY", "EXCLUDED")},
             {Item("BIZ_GOAL.IMPORT", "REQUIRED")}, {Item("SEOUL", "EXCLUDED")},
             {Item("LOW", "REQUIRED")}, {Item("TAKJU", "EXCLUDED"), Item("DRY", "PREFERRED")},
             {Item("KR", "REQUIRED"), Item("KR", "EXCLUDED")}}
Profiles == [user_type : {"BUYER", "GENERAL_VISITOR"}, items : ItemSets,
             price_limit_required : {TRUE}, price_max : {2}, units_min : {1},
             units_max : {1}, meeting_required : {TRUE}]
Context0 == [remaining_minutes |-> 20, exclude_visited |-> TRUE, visited |-> FALSE,
             excluded |-> FALSE]
Contexts == {Context0} \cup Changed(Context0, [remaining_minutes |-> {None, 10},
                                               visited |-> {TRUE}, excluded |-> {TRUE}])

FilterTasks ==
  [kind : {"filter"}, candidate : Candidates, profile : Profiles, context : {Context0}]
  \cup [kind : {"filter"}, candidate : Changed(Candidate0, CandidateDom),
        profile : Profiles, context : Contexts]

Filter ==
  /\ task.kind = "filter"
  /\ LET code == FilterCode(task.candidate, task.profile, task.context)
     IN result' = [code |-> code, shadow |-> Shadow(task.candidate, task.profile, code)]

\* Unknown data never rejects: forgetting one thing about an eligible candidate
\* leaves it eligible (hard_filter.py treats None as no evidence throughout; an
\* unknown event price falls back to the retail price and is left out).
UnknownNeverRejects ==
  task.kind = "filter" /\ result # None /\ result.code = None =>
    LET c == task.candidate IN
    /\ \A f \in {"master", "approval", "participation", "operating", "tasting",
                 "purchase", "inventory", "program", "retail_price", "wait", "consultation"} :
         FilterCode([c EXCEPT ![f] = None], task.profile, task.context) = None
    /\ c.supply # None =>
         /\ \A f \in {"moq", "capacity", "oem", "private_label", "export"} :
              FilterCode([c EXCEPT !.supply[f] = None], task.profile, task.context) = None
         /\ \A f \in {"regions", "channels"} :
              FilterCode([c EXCEPT !.supply[f] = {}], task.profile, task.context) = None

\* The two implementations agree on what both decide: a trade rejection of the
\* hard filter is reproduced by the evaluator for every verified exhibitor, and
\* whom the evaluator finds eligible the hard filter does not reject for trade.
ShadowAgrees ==
  task.kind = "filter" /\ result # None =>
    LET trade == {"OEM_MISMATCH", "PRIVATE_LABEL_MISMATCH", "EXPORT_MISMATCH",
                  "REGION_MISMATCH", "CHANNEL_MISMATCH"}
    IN result.code \in trade /\ ProfileIntent(task.profile) # None =>
         /\ VerifiedSupply(task.candidate) => result.shadow = "PARITY"
         /\ ~Admitted(task.candidate, Project(ProfileIntent(task.profile), Scope(task.profile)))

\* Three values: forgetting what is known of a candidate never makes the engine
\* library admit it (constraint_evaluation.py: unknown and missing values are
\* "never coerced to a pass").  The codes of booth services are left out: they are
\* derived from statuses, and an unknown status reads as a service not offered.
ForgettingNeverAdmits ==
  task.kind = "filter" /\ result # None /\ ProfileIntent(task.profile) # None =>
    LET c    == task.candidate
        plan == Project(ProfileIntent(task.profile), Scope(task.profile))
    IN ~Admitted(c, plan) =>
         /\ \A f \in {"alcohol", "master"} :
              ~Admitted([c EXCEPT ![f] = None], plan)
         /\ ~Admitted([c EXCEPT !.codes = {}], plan)
         /\ c.supply # None =>
              \A f \in {"oem", "approval"} : ~Admitted([c EXCEPT !.supply[f] = None], plan)
         /\ c.supply # None =>
              \A f \in {"regions", "channels"} : ~Admitted([c EXCEPT !.supply[f] = {}], plan)

-----------------------------------------------------------------------------
(* Text and gate.                                                           *)

Terms == [codes : {{"DRY"}, {"SEOUL"}, {"DRY", "TAKJU"}},
          requirement : {"MUST", "PREFER", "EXCLUDE"}]
IntentTasks == [kind : {"intent"}, terms : {S \in SUBSET Terms : Cardinality(S) <= 4}]

Normalize ==
  /\ task.kind = "intent"
  /\ result' = [intent |-> TextIntent(task.terms)]

\* What a text states twice with different requirements, and what a term may
\* mean among others, constrains nothing until the subject says which.
OnlySettledConstrains ==
  task.kind = "intent" /\ result # None =>
    LET plan == Project(result.intent, "VERIFIED_BUYER_CATALOG") IN
    \A c \in plan.require \cup plan.forbid \cup plan.asks :
      \A t \in task.terms : t.codes = {c} =>
        t.requirement = IF c \in result.intent.must THEN "MUST" ELSE "EXCLUDE"

\* The state is part of what a fingerprint is computed from.
Shadows == {[fingerprint |-> <<s, i>>, state |-> s] :
              s \in {"PARITY", "SAFETY_GAP", "DIVERGENCE", "NOT_APPLICABLE"}, i \in 1..2}
GateTasks ==
  [kind : {"gate"}, sample : UNION {[1..n -> Shadows] : n \in 1..4},
   evidence : {{}, {"REGRESSION", "ROLLBACK"}, {"REGRESSION", "ROLLBACK", "SAFETY_GAP_REVIEW"}}]

Judge ==
  /\ task.kind = "gate"
  /\ result' = [outcome |-> Gate(task.sample, task.evidence)]

\* The gate passes on distinct comparisons: what is delivered twice adds nothing
\* to the minimum sample, and no divergence hides in a passing one.
GateCountsOnce ==
  task.kind = "gate" /\ result # None /\ result.outcome = "PASS" =>
    LET seen == {task.sample[i] : i \in DOMAIN task.sample} IN
    /\ Cardinality({s \in seen : s.state # "NOT_APPLICABLE"}) >= MinimumSample
    /\ \A s \in seen : s.state # "DIVERGENCE"
    /\ (\E s \in seen : s.state = "SAFETY_GAP") => "SAFETY_GAP_REVIEW" \in task.evidence

\* The shadow may be relied on: it agrees with the hard filter where both decide,
\* and its gate passes on enough distinct comparisons only.
ShadowGateSound == ShadowAgrees /\ GateCountsOnce

EligibilityTasks   == FilterTasks \cup IntentTasks \cup GateTasks
EligibilityCompute == Filter \/ Normalize \/ Judge
=============================================================================
