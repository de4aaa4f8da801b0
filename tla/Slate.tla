------------------------------- MODULE Slate --------------------------------
(***************************************************************************)
(* The list that is shown (slate_policy.py, diversity_policy.py): from the  *)
(* scored candidates, a plan of slots filled by relevance, diversity and    *)
(* exposure, under caps per exhibitor, category and region.                 *)
(*                                                                          *)
(* Scores, similarities and adjustments are in thousandths.  A candidate    *)
(* has what the policy looks at; its index is the order of its identity.    *)
(* Fingerprints and metrics are left out.                                   *)
(***************************************************************************)
EXTENDS Ontology, Ranking, SequencesExt

Core        == 700
Conditional == 550
Floor       == 450      \* RELEVANCE_FLOOR
NewDays     == 30

Within(v, lo, hi) == Min({Max({v, lo}), hi})
CountOf(s, Test(_)) == Cardinality({i \in DOMAIN s : Test(s[i])})

Shared(a, b) ==
  IF a \cup b = {} THEN 0 ELSE (1000 * Cardinality(a \cap b)) \div Cardinality(a \cup b)

\* candidate_similarity.
Similarity(a, b) ==
  LET same(f, points) == IF a[f] # None /\ a[f] = b[f] THEN points ELSE 0
  IN same("exhibitor", 350) + same("category", 250) + Shared(a.regions, b.regions) \div 10
     + same("price_band", 100) + Shared(a.tastes, b.tastes) \div 10 + same("type", 100)

MaxSimilarity(c, selected) == Max({0} \cup {Similarity(c, selected[i]) : i \in DOMAIN selected})

\* _is_exploration: found by the exploration channel, or new.
IsExploration(c) == "EXPLORATION" \in c.channels \/ (c.age # None /\ c.age \in 0..NewDays)

RepeatPenalty(c) ==
  IF c.acted > 0 THEN 0
  ELSE IF c.seen >= 5 THEN 100 ELSE IF c.seen >= 3 THEN 70 ELSE IF c.seen >= 2 THEN 30 ELSE 0

\* What build_slate considers at all.
Eligible(c) == c.score >= Floor /\ ~c.sponsored /\ ~(c.seen >= 5 /\ c.acted = 0)

\* The share of an exhibitor in what was shown at the event.
ActualShare(exhibitor, shown) ==
  LET total == SumFunction(shown)
  IN IF total = 0 \/ exhibitor \notin DOMAIN shown THEN 0 ELSE (1000 * shown[exhibitor]) \div total

\* _fairness_adjustment: towards the share among those eligible.
Fairness(c, eligible, shown) ==
  LET owned == CountOf(eligible, LAMBDA d : d.exhibitor # None)
      own   == CountOf(eligible, LAMBDA d : d.exhibitor = c.exhibitor)
  IN IF c.exhibitor = None \/ \A e \in DOMAIN shown : shown[e] = 0 THEN 0
     ELSE Within((1000 * own) \div owned - ActualShare(c.exhibitor, shown), -50, 50)

\* _concentration_penalty.
Concentration(c, shown) ==
  LET share == ActualShare(c.exhibitor, shown)
  IN IF share <= 150 THEN 0 ELSE Within((50 * (share - 150)) \div 850, 0, 50)

\* round(limit * ratio), halves to even; the ratio is in thousandths.
Rounded(limit, ratio) ==
  LET down == (limit * ratio) \div 1000
      part == (limit * ratio) % 1000
  IN IF part > 500 \/ (part = 500 /\ down % 2 = 1) THEN down + 1 ELSE down

Slots(core, conditional, diversity, exploration) ==
  [i \in 1..core |-> "CORE"] \o [i \in 1..conditional |-> "CONDITIONAL"]
  \o [i \in 1..diversity |-> "DIVERSITY"] \o [i \in 1..exploration |-> "EXPLORATION"]

\* _slot_plan; ratio is None without a cold-start decision.
SlotPlan(limit, ratio) ==
  LET conditional == IF limit >= 4 THEN 1 ELSE 0
      diversity   == IF limit >= 6 THEN 1 ELSE 0
      asked       == IF ratio = None THEN IF limit >= 5 THEN 1 ELSE 0
                     ELSE IF limit >= 5 /\ ratio > 0 THEN Max({1, Min({3, Rounded(limit, ratio)})})
                     ELSE Min({3, Rounded(limit, ratio)})
  IN IF ratio = None /\ limit >= 10
     THEN Slots(6, 2, 1, 1) \o Slots(limit - 10, 0, 0, 0)
     ELSE IF ratio = None /\ limit <= 2 THEN Slots(limit, 0, 0, 0)
     ELSE Slots(Max({0, limit - asked - conditional - diversity}), conditional, diversity, asked)

\* _passes_slot.
PassesSlot(c, slot) ==
  CASE slot = "CORE"        -> c.score >= Core
    [] slot = "CONDITIONAL" -> c.score >= Conditional
    [] slot = "EXPLORATION" -> c.score >= Floor /\ IsExploration(c)
                               /\ (c.trust = None \/ ~(c.trust < 400))
    [] OTHER                -> c.score >= Floor

\* The caps that nothing relaxes.
HardCaps(c, selected, buyer, relax) ==
  LET position == Len(selected) + 1
      own      == CountOf(selected, LAMBDA d : d.exhibitor = c.exhibitor)
      cap      == IF buyer \/ position <= 5 THEN 1 ELSE IF position <= 10 THEN 2 ELSE 3
  IN /\ ~ /\ position <= 10 /\ "COLD_START_QUALITY" \in c.channels
          /\ \E i \in DOMAIN selected : "COLD_START_QUALITY" \in selected[i].channels
     /\ c.exhibitor # None => own < cap

\* _can_take.
CanTake(c, selected, p, relax) ==
  LET position == Len(selected) + 1 IN
  /\ HardCaps(c, selected, p.buyer, relax)
  /\ relax \/ position > 10
     \/ /\ c.category # None /\ c.category \notin p.categories
             => CountOf(selected, LAMBDA d : d.category = c.category)
                  < (IF position <= 5 THEN 3 ELSE 5)
        /\ \A r \in c.regions \ p.regions : CountOf(selected, LAMBDA d : r \in d.regions) < 4

\* _lambda_for, in hundredths.
Lambda(p, slot) ==
  LET base == IF slot = "EXPLORATION" THEN 65 ELSE IF p.buyer THEN 85 ELSE 80
  IN Within(CASE p.preference = "ACCURACY_FIRST" -> base + 10
              [] p.preference = "DIVERSE" -> base - 15
              [] p.preference = "NEW_DISCOVERY" /\ slot = "EXPLORATION" -> 70
              [] OTHER -> base, 55, 95)

ExplorationScore(c, fairness) ==
  (55 * c.score + 20 * (IF c.trust = None THEN 0 ELSE c.trust) + 15 * c.novelty
     + 10 * 20 * Max({fairness, 0})) \div 100

\* The utility of a candidate in a slot, less its likeness to what is there.
Mmr(c, selected, slot, p, eligible, shown) ==
  LET fair == Fairness(c, eligible, shown)
      raw  == IF slot = "EXPLORATION" THEN ExplorationScore(c, fair) ELSE c.score + fair
      near == IF p.preference # "NEARBY_FIRST" \/ c.metres = None THEN raw
              ELSE (80 * raw + 20 * (1000 - Min({1000, c.metres}))) \div 100
  IN Lambda(p, slot) * (near - RepeatPenalty(c) - Concentration(c, shown))
     - (100 - Lambda(p, slot)) * MaxSimilarity(c, selected)

\* Mutant: a new candidate that no exploration channel found does not count.
ExploredByChannel(selected) == CountOf(selected, LAMBDA c : "EXPLORATION" \in c.channels)

Explored(selected) == CountOf(selected, IsExploration)

\* How many slots of a plan explore.
ExplorationSlots(plan) == CountOf(plan, LAMBDA s : s = "EXPLORATION")

\* One slot of the plan: the fallbacks in their order, the exploration kept for
\* its slot and limited to its number, and the best of what remains.
FillSlot(state, i, plan, eligible, p, shown) ==
  LET selected  == state.selected
      available == {c \in ToSet(eligible) : c \notin ToSet(selected)}
      pool(slot, relax) == {c \in available : PassesSlot(c, slot) /\ CanTake(c, selected, p, relax)}
      own       == IF pool(plan[i], FALSE) # {} THEN pool(plan[i], FALSE) ELSE pool(plan[i], TRUE)
      slot      == IF own # {} THEN plan[i] ELSE "DIVERSITY"
      wide      == IF own # {} THEN own
                   ELSE IF pool("DIVERSITY", FALSE) # {} THEN pool("DIVERSITY", FALSE)
                   ELSE pool("DIVERSITY", TRUE)
      most      == ExplorationSlots(plan)
      reserved  == /\ plan[i] # "EXPLORATION"
                   /\ \E j \in (i + 1)..Len(plan) : plan[j] = "EXPLORATION"
      limited   == most > 0 /\ Len(selected) < 10 /\ Explored(selected) >= most
      left      == {c \in wide : (reserved \/ limited) => ~IsExploration(c)}
      value(c)  == Mmr(c, selected, slot, p, eligible, shown)
      best      == CHOOSE c \in left : \A d \in left \ {c} :
                     \/ value(c) > value(d)
                     \/ value(c) = value(d) /\ c.score > d.score
                     \/ value(c) = value(d) /\ c.score = d.score /\ c.id > d.id
  IN IF state.stopped THEN state
     ELSE IF left = {} THEN [state EXCEPT !.stopped = ~reserved]
     ELSE [state EXCEPT !.selected = Append(@, best)]

\* The slots of the plan, one after the other.
Filled(plan, eligible, p, shown) ==
  FoldLeft(LAMBDA s, i : FillSlot(s, i, plan, eligible, p, shown),
           [selected |-> << >>, stopped |-> FALSE], [i \in DOMAIN plan |-> i]).selected

\* _relevance_loss.
RelevanceLoss(baseline, selected, k) ==
  LET n == Min({k, Len(baseline), Len(selected)})
      total(s) == SumFunction([i \in 1..n |-> s[i].score])
  IN IF n = 0 THEN 0 ELSE Max({0, (total(baseline) - total(selected)) \div n})

Resolved(eligible, selected) ==
  RelevanceLoss(eligible, selected, 5) <= 30 /\ RelevanceLoss(eligible, selected, 10) <= 50

\* One candidate of the reconstruction.
Reconsider(s, c, limit, most, p, relax) ==
  IF \/ Len(s) >= limit \/ c \in ToSet(s)
     \/ Len(s) < 10 /\ IsExploration(c) /\ Explored(s) >= most
     \/ ~CanTake(c, s, p, relax)
  THEN s ELSE Append(s, c)

Pass(eligible, limit, most, p, relax, first) ==
  FoldLeft(LAMBDA s, c : Reconsider(s, c, limit, most, p, relax), first, eligible)

\* The reconstruction in the order of relevance, first under all caps and then
\* without the soft ones.
RelevanceFirst(eligible, limit, most, p) ==
  Pass(eligible, limit, most, p, TRUE, Pass(eligible, limit, most, p, FALSE, << >>))

\* The order of relevance, and of identity among equals.
ByRelevance(candidates) ==
  Arranged(candidates, LAMBDA c, d : c.score > d.score \/ (c.score = d.score /\ c.id < d.id))

\* build_slate: candidates is a set, p the profile with the asked preference.
BuildSlate(candidates, limit, p, shown, ratio) ==
  LET eligible == ByRelevance({c \in candidates : Eligible(c)})
      plan     == SlotPlan(Min({limit, Len(eligible)}), ratio)
      filled   == Filled(plan, eligible, p, shown)
      first    == RelevanceFirst(eligible, limit, ExplorationSlots(plan), p)
  IN IF Resolved(eligible, filled) THEN [items |-> filled, eligible |-> eligible, guard |-> FALSE]
     ELSE [items |-> first, eligible |-> eligible, guard |-> TRUE]

\* related_object_ids: the first three more products of the exhibitor.
Related(c, slate) ==
  LET at(i) == slate.eligible[i]
      more  == {i \in DOMAIN slate.eligible : /\ at(i) \notin ToSet(slate.items)
                                              /\ at(i).type = "PRODUCT" /\ at(i).exhibitor = c.exhibitor}
  IN IF c.type # "PRODUCT" \/ c.exhibitor = None THEN {}
     ELSE {at(i) : i \in {j \in more : Cardinality({k \in more : k < j}) < 3}}
=============================================================================
