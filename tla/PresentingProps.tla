-------------------------- MODULE PresentingProps ---------------------------
(***************************************************************************)
(* Cases and properties of modules Scoring and Presenting.                  *)
(***************************************************************************)
EXTENDS Presenting, Stage

Offer0 == [type |-> "PRODUCT", category |-> "TAKJU", business |-> {}, taste |-> ("DRY" :> 80),
           aroma |-> << >>, usage |-> {}, features |-> {}, services |-> {},
           tasting |-> "AVAILABLE", purchase |-> None, consultation |-> TRUE, event_price |-> None,
           retail_price |-> 3, alcohol |-> 5, trust |-> 80, channels |-> {"SHOP"},
           regions |-> {"SEOUL"}, moq |-> 2, capacity |-> 3, oem |-> "YES", export |-> "UNKNOWN",
           readiness |-> 90, preferred |-> ("preferred_channels" :> ("SHOP" :> 85)),
           units |-> 60, to_meeting |-> 24, wait |-> 5, congestion |-> "LOW", operating |-> "OPEN",
           inventory |-> "AVAILABLE", participation |-> "APPROVED", program |-> None,
           starts |-> None, ends |-> None]
Booth   == [Offer0 EXCEPT !.type = "BOOTH", !.inventory = None]
Program == [Offer0 EXCEPT !.type = "PROGRAM", !.category = None, !.taste = << >>,
            !.tasting = None, !.consultation = None, !.retail_price = None, !.alcohol = None,
            !.trust = None, !.channels = {}, !.regions = {}, !.moq = None, !.capacity = None,
            !.oem = "UNKNOWN", !.readiness = None, !.preferred = None, !.program = "OPEN",
            !.starts = 15, !.ends = 30, !.inventory = None]
OfferDom == [category |-> {None}, taste |-> {<< >>}, tasting |-> {None}, consultation |-> {None, FALSE},
             retail_price |-> {None, 4, 9}, trust |-> {None, 20}, channels |-> {{}, {"other"}},
             moq |-> {None, 4}, capacity |-> {None, 1}, oem |-> {"NO", "UNKNOWN"},
             readiness |-> {None}, preferred |-> {None}, units |-> {None, 130, 150}]
SubjectBase == [user_type |-> "GENERAL_VISITOR", goals |-> <<[code |-> "GOAL.TASTING", priority |-> 1]>>,
             categories |-> {"TAKJU"}, taste |-> {"DRY"}, aroma |-> {}, alcohol |-> {"LOW"},
             services |-> {"SERVICE.TASTING"}, use_cases |-> {}, product_features |-> {},
             price_max |-> 3, inferred |-> << >>, channels |-> {"SHOP"}, regions |-> {"KR"},
             buyer_type |-> {}, trade_type |-> {}, units_min |-> 1, units_max |-> 2,
             timeline |-> "SHORT_TERM", verification |-> 100, meeting_readiness |-> 60,
             completeness |-> 80]
Likes  == [score |-> 90, confidence |-> 50]
Turned == [score |-> -90, confidence |-> 50]
Subjects == Changed(SubjectBase, [categories |-> {{}}, price_max |-> {None}, services |-> {{}},
              inferred |-> {"DRY" :> Likes, "DRY" :> Turned, "SEOUL" :> Likes}])
            \cup Changed([SubjectBase EXCEPT !.user_type = "BUYER",
                           !.goals = <<[code |-> "BIZ_GOAL.EXPORT", priority |-> 2],
                                       [code |-> "BIZ_GOAL.OEM", priority |-> 1]>>],
                         [categories |-> {{}, {"TAKJU"}}, channels |-> {{}}, units_max |-> {None, 0, 6},
                          verification |-> {None}, completeness |-> {0}])
Situation0 == [remaining |-> 30, zone |-> TRUE, avoid_congestion |-> FALSE, meeting_here |-> FALSE,
               next |-> 40, viewed |-> FALSE, visited |-> FALSE]
Situations == {Situation0} \cup Changed(Situation0, [remaining |-> {None}, next |-> {None, 0},
                                                     viewed |-> {TRUE}])
PresentTasks ==
  [kind : {"present"}, offer : {Offer0, Booth, Program} \cup Changed2(Offer0, OfferDom),
   subject : Subjects, situation : {Situation0}, open : {TRUE, FALSE}, vector : {TRUE}]
  \cup [kind : {"present"}, offer : {Offer0, Booth}, subject : {SubjectBase},
        situation : Situations, open : {None}, vector : BOOLEAN]

Present ==
  /\ task.kind = "present"
  /\ result' = [shown |-> Presented(task.offer, task.subject, task.situation, task.open, task.vector)]

Shown == task.kind = "present" /\ result # None /\ result.shown # None
ShownCodes == {result.shown.reasons[i].code : i \in DOMAIN result.shown.reasons}

\* Every candidate comes with one to three reasons, none twice, and a meeting is
\* offered only to a buyer for whom a slot of its exhibitor is open: the engine
\* claims a meeting from readiness too, and that claim has no text.
ReasonsTruthful ==
  Shown =>
    /\ Len(result.shown.reasons) \in 1..3
    /\ Cardinality(ShownCodes) = Len(result.shown.reasons)
    /\ "MEETING_AVAILABLE" \in ShownCodes => task.open = TRUE /\ task.subject.user_type = "BUYER"

Final(offer, subject, situation) ==
  Presented(offer, subject, situation, task.open, task.vector).final

\* To have liked a taste more never lowers what a visitor is shown, and where it is
\* all that is known of the visitor, what has it gets a lower part from an aversion
\* than from a liking: the sign of an inferred preference counts, not its size.
AversionLowers ==
  Shown /\ task.subject.user_type = "GENERAL_VISITOR" =>
    \A k \in DOMAIN task.subject.inferred, s \in {-100, 0, 100} :
      LET felt  == task.subject.inferred[k]
          fonder == [task.subject EXCEPT !.inferred[k].score = s]
          part(p) == ScoreCandidate(task.offer, p).components.behavior
      IN felt.score + 1 < s =>
           /\ result.shown.final <= Final(task.offer, fonder, task.situation)
           /\ /\ DOMAIN task.subject.inferred = {k} /\ felt.confidence > 0
              /\ k \in DOMAIN task.offer.taste \cap Concept
              => result.shown.scored.components.behavior < part(fonder)

\* What is not known is not held against a candidate: to forget a thing that
\* counted for less than the score never lowers it ("누락된 구성요소는 0점으로
\* 처리하지 않고", docs/11-13-scoring-implementation.md:19; the services, whose
\* absence counts as 0, are left out).
SilenceNotPunished ==
  Shown /\ task.subject.user_type = "GENERAL_VISITOR" =>
    \A f \in {"retail_price", "alcohol", "trust"} :
      LET without == ScoreCandidate([task.offer EXCEPT ![f] = None], task.subject)
          part    == IF f = "retail_price" THEN "price" ELSE f
          value   == result.shown.scored.components[part]
      IN value # None /\ 100 * OrZero(value) <= result.shown.scored.score /\ without # None
           => without.score + 1 >= result.shown.scored.score

More == {1, 7, 60}

\* A visitor is never shown a candidate higher for a higher price, once it has one.
\* Of a buyer that is not so: the price is part of the buyer's side alone, and a
\* lower one may bring the two sides nearer to each other.
DearerNeverBetter ==
  Shown /\ task.subject.user_type = "GENERAL_VISITOR" /\ task.offer.retail_price # None =>
    \A n \in More :
      Final([task.offer EXCEPT !.retail_price = @ + n], task.subject, task.situation)
        <= result.shown.final

\* No subject is shown a booth higher for a longer wait, a farther way or less time
\* left, once they are known: they enter as four of the parts of the context, which
\* all fall together.
SlowerNeverBetter ==
  Shown /\ task.offer.type = "BOOTH" =>
    \A n \in More :
      /\ task.offer.wait # None =>
           Final([task.offer EXCEPT !.wait = @ + n], task.subject, task.situation)
             <= result.shown.final
      /\ task.offer.units # None =>
           Final([task.offer EXCEPT !.units = @ + n], task.subject, task.situation)
             <= result.shown.final
      /\ task.situation.remaining # None =>
           Final(task.offer, task.subject, [task.situation EXCEPT !.remaining = @ - n])
             <= result.shown.final

-----------------------------------------------------------------------------

Directions == {0, 100, 3999, 4000, 5400, 5500, 6900, 7000, 8000, 10000}
ReciprocalTasks == [kind : {"reciprocal"}, buyer : Directions, exhibitor : Directions,
                    confidence : {<<0, 50>>, <<80, 40>>, <<100, 100>>}, acceptance : {0, 50, 100},
                    caps : {{}, {8000}}]

Joined(t, b, e) == Reciprocal(b, e, t.confidence[1], t.confidence[2], t.acceptance, t.caps)

Join ==
  /\ task.kind = "reciprocal"
  /\ result' = Joined(task, task.buyer, task.exhibitor)

\* Raising the weaker direction never lowers the joint score, and the joint
\* score does not depend on which side is the weaker.
WeakerSideHelps ==
  task.kind = "reciprocal" /\ result # None =>
    LET t == task IN
    /\ \A d \in Directions : t.buyer <= d /\ d <= t.exhibitor
         => Joined(t, d, t.exhibitor).final >= result.final
    /\ result.final = Reciprocal(t.exhibitor, t.buyer, t.confidence[2], t.confidence[1],
                                 t.acceptance, t.caps).final

\* A match that both sides want always ranks above one that a side does not
\* want, whatever else is known of the two.
MutualAboveOneSided ==
  task.kind = "reciprocal" /\ result # None /\ result.status = "MUTUAL_MATCH" =>
    \A t \in [confidence : {<<100, 100>>}, acceptance : {100}, caps : {{}}], b, e \in Directions :
      Joined(t, b, e).status = "NOT_RECIPROCAL" => Joined(t, b, e).final < result.final

Entries == [recalled : BOOLEAN, passed : {TRUE}, score : 1..2]
           \cup {[recalled |-> TRUE, passed |-> FALSE, score |-> 2]}
CommandTasks == [kind : {"command"}, entries : [1..3 -> Entries],
                 ids : {<<1, 2, 3>>, <<3, 1, 2>>, <<2, 1, 3>>}]
CommandOf(ids, entries) ==
  [i \in DOMAIN ids |-> [id |-> ids[i], recalled |-> entries[ids[i]].recalled,
                         passed |-> entries[ids[i]].passed, score |-> entries[ids[i]].score]]

Execute ==
  /\ task.kind = "command"
  /\ result' = ExecuteMatching(CommandOf(task.ids, task.entries))

\* The ranking is the same in whatever order the candidates are given, and who
\* is left out does not move the others.
RankingDeterministic ==
  task.kind = "command" /\ result # None =>
    LET Executed(ids) == ExecuteMatching(CommandOf(ids, task.entries)) IN
    /\ result = Executed([i \in DOMAIN task.ids |-> i])
    /\ \A i \in DOMAIN task.ids : task.ids[i] \in result.excluded
         => Executed(RemoveAt(task.ids, i)).ranked = result.ranked

PresentingTasks   == PresentTasks \cup ReciprocalTasks \cup CommandTasks
PresentingCompute == Present \/ Join \/ Execute
=============================================================================
