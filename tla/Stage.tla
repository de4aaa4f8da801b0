------------------------------- MODULE Stage --------------------------------
(***************************************************************************)
(* A pure stage checked by cases: a behaviour takes one task, computes its  *)
(* result in one step, and an invariant relates the two.                    *)
(***************************************************************************)
VARIABLES task, result

\* A base case with one, or up to two, of its parts changed; Dom gives the
\* values each part may take.
Changed(r, Dom)  == UNION {{[r EXCEPT ![f] = v] : v \in Dom[f]} : f \in DOMAIN Dom}
Changed2(r, Dom) == UNION {Changed(s, Dom) : s \in Changed(r, Dom)}
=============================================================================
