----------------------------- MODULE MCMatching -----------------------------
(***************************************************************************)
(* The pure stages of matching, each on its own cases.                      *)
(***************************************************************************)
EXTENDS EligibilityProps, CandidatesProps, PresentingProps, SlateProps

Init == /\ result = None
        /\ task \in EligibilityTasks \cup CandidatesTasks \cup PresentingTasks
                \cup SlateTasks \cup SettleTasks

Compute ==
  /\ result = None
  /\ UNCHANGED task
  /\ EligibilityCompute \/ CandidatesCompute \/ PresentingCompute \/ SlateCompute

Spec == Init /\ [][Compute]_<<task, result>>

-----------------------------------------------------------------------------

\* A thing not known neither rejects a candidate (hard_filter.py), nor admits it
\* (constraint_evaluation.py), nor counts as the worst value (scoring/engine.py).
MissingDataNeutral == UnknownNeverRejects /\ ForgettingNeverAdmits /\ SilenceNotPunished

\* What a subject said binds every stage: what it rules out is not searched for,
\* and what it said twice or in several senses constrains nothing.
StatementsBind == ExcludedNeverSought /\ OnlySettledConstrains

\* The semantic channel adds to a pool and spoils none: a wrong, partial or failed
\* answer of the provider changes nothing of what the structured channels found,
\* and no exhibitor fills the channel.
RecallContained == VectorOfItsText /\ FailureKeepsStructured /\ VectorSpread

\* Rows and candidates that come in another order change nothing but the trade
\* statuses of an exhibitor, and these only within what its rows leave open: the
\* ranking of what was scored is the same.
OrderConfined == SupplyOfAllRows /\ RankingDeterministic

\* What is worse for the one it is shown to never scores higher for it: to a visitor
\* a dearer candidate or one of a taste it likes less, to anyone a booth that is
\* farther, busier or leaves less time, to a pair a weaker side when it is the weaker
\* of the two, and what a side does not want below what both want.  A buyer's price is
\* excepted: it belongs to one side of a pair, and the sides may come nearer.
WorseNeverScoresHigher ==
  /\ AversionLowers /\ DearerNeverBetter /\ SlowerNeverBetter
  /\ WeakerSideHelps /\ MutualAboveOneSided

\* Every slate keeps its caps, explores within its plan, loses little relevance,
\* vets its newcomers and repeats nothing, whichever fallback or reconstruction
\* built it.
SlateContained ==
  ListCapsHold /\ ExplorationContained /\ LossContained /\ QualityVerified /\ BuyerSeesOnce
=============================================================================
