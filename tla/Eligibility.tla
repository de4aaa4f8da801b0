----------------------------- MODULE Eligibility -----------------------------
(***************************************************************************)
(* Who may be recommended: the hard filter (hard_filter.py) that decides,   *)
(* and the three-valued constraint evaluator of the engine library          *)
(* (intent_normalization.py, intent_projection.py,                          *)
(* constraint_evaluation.py) that runs beside it as a shadow                *)
(* (constraint_shadow.py) and whose parity feeds a gate.                    *)
(*                                                                          *)
(* A candidate is its payload, a profile the ontology items and conditions  *)
(* of one subject.  Texts, fingerprints and contract versions are left out. *)
(***************************************************************************)
EXTENDS Ontology

CONSTANTS
  AssumedVisit,       \* ASSUMED_VISIT_MINUTES
  MinimumSample       \* MINIMUM_RUNTIME_COMPARABLE_SAMPLE

ASSUME PolicyAssumption == AssumedVisit \in Nat /\ MinimumSample \in Nat

\* The absent value is none of the values a status, a code or a reason takes.
ASSUME AbsentAssumption ==
  /\ None \notin BOOLEAN
  /\ None \notin {"APPROVED", "YES", "NO", "AVAILABLE", "LIMITED", "CANCELLED", "CLOSED",
                  "SOLD_OUT", "ENDED"}
  /\ None \notin {"USER_EXCLUDED", "ADMIN_NOT_APPROVED", "PARTICIPATION_CANCELLED",
                  "BOOTH_CLOSED", "PRODUCT_SOLD_OUT", "PRODUCT_UNAVAILABLE",
                  "PROGRAM_CANCELLED", "INSUFFICIENT_DATA", "PRICE_OVER_LIMIT",
                  "TIME_INSUFFICIENT", "ALREADY_VISITED", "MOQ_MISMATCH",
                  "CAPACITY_INSUFFICIENT", "REGION_MISMATCH", "CHANNEL_MISMATCH",
                  "OEM_MISMATCH", "PRIVATE_LABEL_MISMATCH", "EXPORT_MISMATCH",
                  "MEETING_UNAVAILABLE"}
  /\ None \notin {"oem", "private_label", "export", "codes", "alcohol", "channels",
                  "regions", "business_types"}

\* catalog.v1.json: the codes the rules below name are of these types.
ASSUME NamedCodesAssumption ==
  \A c \in Concept :
    /\ c \in {"BIZ_GOAL.OEM", "BIZ_GOAL.PRIVATE_LABEL", "BIZ_GOAL.EXPORT"}
         => TypeOf[c] = "BUSINESS_GOAL"
    /\ c \in {"SERVICE.TASTING", "SERVICE.PURCHASE", "SERVICE.CONSULTATION"}
         => TypeOf[c] = "BOOTH_SERVICE"

OfType(codes, type) == {c \in codes : TypeOf[c] = type}

\* A profile's items are [code, level] pairs, goals included.
CodesAt(profile, level) == {i.code : i \in {j \in profile.items : j.level = level}}

-----------------------------------------------------------------------------
(* The hard filter: each list holds <<the filter rejects, its code>>.       *)

Approved(status) == status \in {None, "APPROVED"}
Known(v)         == v # None

CommonFilters(c, p) == <<
  << /\ c.type \in {"BOOTH", "PRODUCT", "EXHIBITOR"}
     /\ ~Approved(c.master) \/ (c.type = "PRODUCT" /\ ~Approved(c.approval)),
     "ADMIN_NOT_APPROVED" >>,
  << c.type # "PROGRAM" /\ c.participation = "CANCELLED", "PARTICIPATION_CANCELLED" >>,
  << c.type = "BOOTH" /\ c.operating = "CLOSED", "BOOTH_CLOSED" >>,
  << c.type = "PRODUCT" /\ c.inventory = "SOLD_OUT" /\ c.purchase = "ENDED",
     "PRODUCT_SOLD_OUT" >>,
  << c.type = "PRODUCT" /\ c.tasting = "ENDED" /\ c.purchase = "ENDED",
     "PRODUCT_UNAVAILABLE" >>,
  << c.type = "PROGRAM" /\ c.program = "CANCELLED", "PROGRAM_CANCELLED" >>,
  << \/ /\ c.type = "PRODUCT"
        /\ \A t \in {"PRODUCT_CATEGORY", "TASTE", "AROMA"} : OfType(c.codes, t) = {}
     \/ p.user_type = "BUYER" /\ c.type # "PROGRAM" /\ c.supply = None,
     "INSUFFICIENT_DATA" >> >>

Price(c) == IF Known(c.event_price) THEN c.event_price ELSE c.retail_price
Wait(c)  == IF Known(c.wait) THEN c.wait ELSE 0

VisitorFilters(c, p, x) == <<
  << /\ c.type = "PRODUCT" /\ p.price_limit_required
     /\ Known(p.price_max) /\ Known(Price(c)) /\ Price(c) > p.price_max,
     "PRICE_OVER_LIMIT" >>,
  << /\ c.type = "BOOTH" /\ Known(x.remaining_minutes)
     /\ Wait(c) + AssumedVisit > x.remaining_minutes,
     "TIME_INSUFFICIENT" >>,
  << c.type = "BOOTH" /\ x.exclude_visited /\ x.visited, "ALREADY_VISITED" >> >>

\* Mutant: an exhibitor that lists nothing is taken to offer nothing.
NothingInCommonStrict(p, type, offered) ==
  LET required == OfType(CodesAt(p, "REQUIRED"), type)
  IN required # {} /\ MaxMatchStrength(required, offered) = 0

NothingInCommon(p, type, offered) ==
  LET required == OfType(CodesAt(p, "REQUIRED"), type)
  IN required # {} /\ offered # {} /\ MaxMatchStrength(required, offered) = 0

Refuses(p, goal, status) == goal \in CodesAt(p, "REQUIRED") /\ status = "NO"

\* The filters that look at the trade conditions of a candidate that has them.
TradeFilters(c, p) ==
  LET s == c.supply IN <<
  << Known(p.units_max) /\ Known(s.moq) /\ p.units_max < s.moq, "MOQ_MISMATCH" >>,
  << Known(p.units_min) /\ Known(s.capacity) /\ p.units_min > s.capacity,
     "CAPACITY_INSUFFICIENT" >>,
  << NothingInCommon(p, "REGION", s.regions), "REGION_MISMATCH" >>,
  << NothingInCommon(p, "CHANNEL", s.channels), "CHANNEL_MISMATCH" >>,
  << Refuses(p, "BIZ_GOAL.OEM", s.oem), "OEM_MISMATCH" >>,
  << Refuses(p, "BIZ_GOAL.PRIVATE_LABEL", s.private_label), "PRIVATE_LABEL_MISMATCH" >>,
  << Refuses(p, "BIZ_GOAL.EXPORT", s.export), "EXPORT_MISMATCH" >> >>

BuyerFilters(c, p) ==
  (IF c.supply = None THEN << >> ELSE TradeFilters(c, p))
  \o << << /\ c.type \in {"EXHIBITOR", "BOOTH"} /\ p.meeting_required
           /\ c.consultation = FALSE, "MEETING_UNAVAILABLE" >> >>

\* evaluate_hard_filters for one candidate: the code of the first filter that
\* rejects it, None when it is eligible.
FilterCode(c, p, x) ==
  LET filters == CommonFilters(c, p)
        \o (IF p.user_type = "GENERAL_VISITOR" THEN VisitorFilters(c, p, x)
                                               ELSE BuyerFilters(c, p))
      hits == {i \in DOMAIN filters : filters[i][1]}
  IN IF x.excluded THEN "USER_EXCLUDED"
     ELSE IF hits = {} THEN None
     ELSE filters[CHOOSE i \in hits : \A j \in hits : i <= j][2]

-----------------------------------------------------------------------------
(* Intent: what the subject stated, normalised and projected into a plan.   *)

\* _profile_codes and normalize_canonical_profile_intent: the codes of each
\* requirement, or None (an error) for a code that is a must and excluded.
ProfileIntent(p) ==
  LET must == CodesAt(p, "REQUIRED")  exclude == CodesAt(p, "EXCLUDED")
  IN IF must \cap exclude # {} THEN None
     ELSE [must |-> must, exclude |-> exclude,
           prefer |-> CodesAt(p, "PREFERRED") \ (must \cup exclude)]

\* _resolved: all the unambiguous terms for a code state one requirement.
Settled(terms, code) ==
  \A s, t \in {u \in terms : u.codes = {code}} : s.requirement = t.requirement

\* normalize_natural_language_intent from the terms found in the text: each
\* [codes, requirement]; a term for several codes stays unresolved, and what a
\* model proposes never enters the buckets.
TextIntent(terms) ==
  LET stated(r) == {c \in Concept : /\ \E t \in terms : t.codes = {c} /\ t.requirement = r
                                    /\ Settled(terms, c)}
  IN [must |-> stated("MUST"), prefer |-> stated("PREFER"), exclude |-> stated("EXCLUDE")]

\* _TYPE_BINDINGS and _CODE_BINDINGS: the candidate field that can verify a
\* concept.
FieldOf(code) ==
  CASE code = "BIZ_GOAL.OEM"           -> "oem"
    [] code = "BIZ_GOAL.PRIVATE_LABEL" -> "private_label"
    [] code = "BIZ_GOAL.EXPORT"        -> "export"
    [] OTHER ->
       CASE TypeOf[code] \in {"PRODUCT_CATEGORY", "TASTE", "AROMA", "USE_CASE",
                              "PRODUCT_FEATURE", "BOOTH_SERVICE"} -> "codes"
         [] TypeOf[code] = "ALCOHOL_LEVEL" -> "alcohol"
         [] TypeOf[code] = "CHANNEL"       -> "channels"
         [] TypeOf[code] = "REGION"        -> "regions"
         [] TypeOf[code] = "TRADE_TYPE"    -> "business_types"
         [] OTHER -> None

PublicFields == {"codes", "alcohol"}
StatusFields == {"oem", "private_label", "export"}

\* project_intent: a must or an exclusion becomes a constraint when a field of
\* the subject's catalogue scope can verify it, and else asks for information.
Project(intent, scope) ==
  LET allowed(c) == FieldOf(c) \in PublicFields \/
                    (Known(FieldOf(c)) /\ scope = "VERIFIED_BUYER_CATALOG")
      hard == intent.must \cup intent.exclude
      buyer_only == {"BUSINESS_GOAL", "BUYER_TYPE", "CHANNEL", "MEETING_TOPIC",
                     "REGION", "SUPPLY_CAPACITY", "TRADE_TYPE"}
  IN [require   |-> {c \in intent.must : allowed(c)},
      forbid    |-> {c \in intent.exclude : allowed(c)},
      asks      |-> {c \in hard : ~allowed(c)},
      retrieval |-> {c \in intent.prefer :
                       scope = "VERIFIED_BUYER_CATALOG" \/ TypeOf[c] \notin buyer_only}]

Scope(p) == IF p.user_type = "BUYER" THEN "VERIFIED_BUYER_CATALOG" ELSE "PUBLIC_CATALOG"

-----------------------------------------------------------------------------
(* What the shadow may observe of a candidate, and its decision.  The       *)
(* payload keys observation_states and service_codes, which could override  *)
(* what is derived here, are written nowhere in the code, and a code that   *)
(* the catalogue does not have (an ADAPTER_ERROR of its candidate) is left  *)
(* out.                                                                     *)

PubliclyApproved(c) ==
  /\ c.participation # "CANCELLED"
  /\ c.type # "PROGRAM" /\ c.master = "APPROVED"
  /\ c.type = "PRODUCT" => c.approval = "APPROVED"

VerifiedSupply(c) ==
  PubliclyApproved(c) /\ c.supply # None /\ c.supply.approval = "APPROVED"

ServiceCodes(c) ==
  (IF c.tasting = "AVAILABLE" THEN {"SERVICE.TASTING"} ELSE {})
  \cup (IF c.purchase \in {"AVAILABLE", "LIMITED"} THEN {"SERVICE.PURCHASE"} ELSE {})
  \cup (IF c.consultation = TRUE THEN {"SERVICE.CONSULTATION"} ELSE {})

\* _field_value for the constraint on a code.
Offered(c, code) ==
  CASE FieldOf(code) = "codes" -> OfType((c.codes \cup ServiceCodes(c)) \cap Concept,
                                          TypeOf[code])
    [] FieldOf(code) = "alcohol" ->
         IF Known(c.alcohol) /\ Known(DeriveBand(Alcohol, c.alcohol))
         THEN {DeriveBand(Alcohol, c.alcohol)} ELSE {}
    [] OTHER -> c.supply[FieldOf(code)]

\* map_candidate_observations: an unapproved source is not observed at all.
Observable(c, code) ==
  IF FieldOf(code) \in PublicFields THEN PubliclyApproved(c) ELSE VerifiedSupply(c)

\* _match_state in three values: TRUE, FALSE, None for not known.
Matched(c, code) ==
  IF ~Observable(c, code) THEN None
  ELSE IF FieldOf(code) \in StatusFields
       THEN (CASE Offered(c, code) = "YES" -> TRUE [] Offered(c, code) = "NO" -> FALSE
               [] OTHER -> None)
       ELSE IF Offered(c, code) = {} THEN None
       ELSE \E o \in Offered(c, code) : MatchStrength(code, o) > 0

\* _constraint_decision.
Decision(c, plan, code) ==
  CASE Matched(c, code) = None -> "INFORMATION_REQUIRED"
    [] Matched(c, code) = FALSE /\ code \in plan.require -> "FILTERED_OUT"
    [] Matched(c, code) = TRUE  /\ code \in plan.forbid  -> "FILTERED_OUT"
    [] OTHER -> "ELIGIBLE"

\* evaluate_candidate_constraints.
Evaluate(c, plan) ==
  LET decisions == {Decision(c, plan, code) : code \in plan.require \cup plan.forbid}
  IN IF "FILTERED_OUT" \in decisions THEN "FILTERED_OUT"
     ELSE IF plan.asks # {} \/ "INFORMATION_REQUIRED" \in decisions
          THEN "INFORMATION_REQUIRED" ELSE "ELIGIBLE"

\* to_scoring_eligibility: who may enter the scorer of the engine library.
Admitted(c, plan) == Evaluate(c, plan) = "ELIGIBLE"

\* _LEGACY_CODE_BY_CONCEPT and _LEGACY_CODE_BY_TYPE.
LegacyCode(code) ==
  CASE code = "BIZ_GOAL.OEM" -> "OEM_MISMATCH"
    [] code = "BIZ_GOAL.PRIVATE_LABEL" -> "PRIVATE_LABEL_MISMATCH"
    [] code = "BIZ_GOAL.EXPORT" -> "EXPORT_MISMATCH"
    [] OTHER ->
       CASE TypeOf[code] = "CHANNEL" -> "CHANNEL_MISMATCH"
         [] TypeOf[code] = "REGION" -> "REGION_MISMATCH"
         [] OTHER -> None

\* _parity.
Parity(c, plan, legacy) ==
  LET comparable == {code \in plan.require \cup plan.forbid : LegacyCode(code) = legacy}
  IN IF legacy = None
     THEN IF Evaluate(c, plan) = "ELIGIBLE" THEN "PARITY" ELSE "SAFETY_GAP"
     ELSE IF comparable = {} THEN "NOT_COMPARABLE"
     ELSE IF \E code \in comparable : Decision(c, plan, code) = "FILTERED_OUT"
          THEN "PARITY" ELSE "DIVERGENCE"

\* evaluate_runtime_constraint_shadow for one candidate.
Shadow(c, p, legacy) ==
  LET intent == ProfileIntent(p)
      plan   == Project(intent, Scope(p))
  IN IF intent = None THEN "ADAPTER_ERROR"
     ELSE IF plan.require \cup plan.forbid \cup plan.asks = {} THEN "NOT_APPLICABLE"
     ELSE Parity(c, plan, legacy)

-----------------------------------------------------------------------------
(* The gate over a sample of shadows.                                       *)

\* Mutant: a shadow that is delivered again is counted again.
CountedAll(sample, state) ==
  Cardinality({i \in DOMAIN sample : sample[i].state = state})

\* build_runtime_constraint_shadow_gate_command: one count per fingerprint.
Counted(sample, state) ==
  Cardinality({s.fingerprint : s \in {sample[i] : i \in DOMAIN sample} \cap
                 [fingerprint : {sample[i].fingerprint : i \in DOMAIN sample},
                  state : {state}]})

\* evaluate_constraint_shadow_gate; evidence is the set of kinds supplied.
Gate(sample, evidence) ==
  LET n(state) == Counted(sample, state)
      comparable == n("PARITY") + n("SAFETY_GAP") + n("DIVERGENCE") + n("ADAPTER_ERROR")
      blocked == \/ comparable < MinimumSample
                 \/ ~({"REGRESSION", "ROLLBACK"} \subseteq evidence)
                 \/ n("SAFETY_GAP") > 0 /\ "SAFETY_GAP_REVIEW" \notin evidence
  IN IF n("DIVERGENCE") + n("ADAPTER_ERROR") > 0 THEN "FAIL"
     ELSE IF blocked THEN "INSUFFICIENT_EVIDENCE" ELSE "PASS"
=============================================================================
