------------------------------ MODULE MCInbox ------------------------------
(* e1 and e2 are the same event fired twice, e3 is another recommendation   *)
(* session of the same day, e4 a notice (no cap) for the other user.        *)
EXTENDS Inbox

CONSTANTS e1, e2, e3, e4, u1, u2, ready, notice, t1, t2, t3

MCRecipient == [e \in Events |-> IF e = e4 THEN u2 ELSE u1]
MCTypeOf    == [e \in Events |-> IF e = e4 THEN notice ELSE ready]
MCKeyOf     == [e \in Events |-> IF e = e2 THEN e1 ELSE e]
MCCap       == [t \in Types |-> IF t = notice THEN None ELSE 1]
MCOwner     == [t \in Tabs |-> IF t = t3 THEN u2 ELSE u1]
=============================================================================
