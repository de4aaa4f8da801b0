------------------------------ MODULE MCVisitor ------------------------------
(* Three requests, a goal, a category and a code the ontology does not have,  *)
(* a price, and two events: a visit reported with the category once or twice, *)
(* a purchase that also names the goal, and the unlisted code.  Two of them   *)
(* pass the end of the scale.                                                 *)
EXTENDS Visitor, TLC

CONSTANTS r1, r2, r3, goal, category, unlisted, price, visit, purchase

MCRequests  == {r1, r2, r3}
MCCodes     == {goal, category, unlisted}
MCCatalogue == {goal, category}
MCGoals     == {goal}
MCPrices    == {price}
MCExtracted == {category, unlisted}
MCEvents    == {visit, purchase}
MCReports   ==
  LET of(c, s) == [code |-> c, signal |-> s] IN
  visit :> {<<of(category, 2)>>, <<of(category, 2), of(category, 1)>>}
  @@ purchase :> {<<of(goal, 4), of(unlisted, 1), of(category, 4)>>}
MCUpdateCap == [GENERAL_VISITOR |-> 2, BUYER |-> 1]

Symmetry == Permutations(MCRequests)

=============================================================================
