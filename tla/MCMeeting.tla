----------------------------- MODULE MCMeeting -----------------------------
(* Two exhibitors x and y; s1 and s2 are slots of x, s3 of y; all of them   *)
(* overlap in time, s2 seats two and s3 names no host.  Each .cfg picks    *)
(* the part it needs.                                                       *)
EXTENDS Meeting, TLC

CONSTANTS s1, s2, s3, x, y, p1, p2, p3

SeatsOf    == (s1 :> 1) @@ (s2 :> 2) @@ (s3 :> 1)
OwnerOf    == (s1 :> x) @@ (s2 :> x) @@ (s3 :> y)
EmployerOf == (p1 :> x) @@ (p2 :> y) @@ (p3 :> x)
HostOf     == (s1 :> p1) @@ (s2 :> None) @@ (s3 :> None)

MCCapacity  == [s \in Slots |-> SeatsOf[s]]
MCSlotPart  == [s \in Slots |-> OwnerOf[s]]
MCOverlaps  == Slots \X Slots
MCStaffPart == [p \in Staff |-> EmployerOf[p]]
MCSlotStaff == [s \in Slots |-> HostOf[s]]
MCOpenTo    == Buyers \X Parts
MCWishes    == {<<s>> : s \in Slots} \cup {<<s1, s>> : s \in Slots \ {s1}}
Symmetry    == Permutations(Meetings) \cup Permutations(Buyers)
=============================================================================
