------------------------------- MODULE MCAuth -------------------------------
(* Two links, two sessions and two requests that may overlap.               *)
EXTENDS Auth, TLC

Same == Permutations(Links) \cup Permutations(Sessions) \cup Permutations(Challenges)
          \cup Permutations(Requests) \cup Permutations(Codes)
=============================================================================
