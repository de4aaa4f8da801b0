------------------------------ MODULE Ontology ------------------------------
(***************************************************************************)
(* The published concept catalogue, src/meet_ai/ontology/catalog.py: typed  *)
(* concepts in trees, weighted relations between them, and the numeric      *)
(* bands a measured value is derived to.  Strengths are in thousandths.     *)
(***************************************************************************)
EXTENDS Integers, Sequences, FiniteSets

CONSTANTS
  None,        \* a JSON null, or a key that is absent
  Concept,     \* assignable codes
  TypeOf,      \* [Concept -> concept_type]
  Parent,      \* [Concept -> Concept \cup {None}]
  Relations,   \* set of [source, type, target, weight]
  Alcohol      \* the bands of alcohol_percentage, see ValidBands

ASSUME OntologyAssumption ==
  /\ None \notin Concept
  /\ DOMAIN TypeOf = Concept
  /\ Parent \in [Concept -> Concept \cup {None}]
  /\ \A r \in Relations : {r.source, r.target} \subseteq Concept /\ r.weight \in 0..1000

\* JSON null is not a number.
ASSUME NullAssumption == None \notin Int

\* _validate_concepts: the parents make no cycle, in any part of the catalogue.
ASSUME TreesAssumption ==
  \A S \in SUBSET Concept : S # {} => \E c \in S : Parent[c] \notin S

Larger(S)  == CHOOSE x \in S : \A y \in S : y <= x

\* Catalog.ancestors: from the parent to the root.
Ancestors[c \in Concept] ==
  IF Parent[c] = None THEN << >> ELSE <<Parent[c]>> \o Ancestors[Parent[c]]

\* ancestor_decay, 0.9 per step of distance.
Decay[n \in Nat] == IF n = 0 THEN 1000 ELSE (Decay[n - 1] * 9) \div 10

\* Catalog.match_strength: whatever its type, a relation counts as a match.
MatchStrength(requested, offered) ==
  LET up      == Ancestors[offered]
      at      == {i \in DOMAIN up : up[i] = requested}
      related == {r \in Relations : r.source = requested /\ r.target = offered}
  IN IF requested = offered THEN 1000
     ELSE IF at # {} THEN Decay[CHOOSE i \in at : \A j \in at : i <= j]
     ELSE Larger({0} \cup {r.weight : r \in related})

\* max_match_strength: pairs with an unknown code are skipped.
MaxMatchStrength(requested, offered) ==
  Larger({0} \cup {MatchStrength(p[1], p[2]) :
                     p \in (requested \cap Concept) \X (offered \cap Concept)})

\* relation_weight of one type between two sets of codes.
RelationWeight(sources, type, targets) ==
  Larger({0} \cup {r.weight : r \in {q \in Relations :
            q.type = type /\ q.source \in sources /\ q.target \in targets}})

-----------------------------------------------------------------------------
(* Derived bands: [code, min, max, min_inclusive, max_inclusive].           *)

InBand(band, v) ==
  /\ band.min # None => v > band.min \/ (v = band.min /\ band.min_inclusive)
  /\ band.max # None => v < band.max \/ (v = band.max /\ band.max_inclusive)

\* Catalog._validate_bands: each band starts where the one before it ends, and
\* the boundary belongs to one of the two.
ValidBands(bands) ==
  /\ \A i \in DOMAIN bands : bands[i].min # None /\ bands[i].max # None
                               => bands[i].min <= bands[i].max
  /\ \A i \in 2..Len(bands) :
       /\ bands[i].min # None /\ bands[i - 1].max # None
       /\ bands[i - 1].max = bands[i].min
       /\ bands[i - 1].max_inclusive # bands[i].min_inclusive

ASSUME BandsAssumption == ValidBands(Alcohol)

\* Catalog.derive_band: the first band that contains the value; None is the
\* ValueError for a value outside the range.
DeriveBand(bands, v) ==
  LET in == {i \in DOMAIN bands : InBand(bands[i], v)}
  IN IF in = {} THEN None ELSE bands[CHOOSE i \in in : \A j \in in : i <= j].code
=============================================================================
