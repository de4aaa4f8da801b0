------------------------------ MODULE Delivery ------------------------------
(***************************************************************************)
(* What the notification outbox promises for every recommendation-ready     *)
(* message, without transactions, workers or channels: a queued message     *)
(* ends, for good, either sent or given up on; it is recorded as sent only  *)
(* if a provider has accepted it; and a message is accepted again only if   *)
(* the record of the earlier acceptance was lost.                           *)
(***************************************************************************)
EXTENDS Naturals

CONSTANT Messages

VARIABLES
  state,     \* [Messages -> {"absent", "queued", "sent", "parked"}]
  accepted,  \* [Messages -> Nat]: how often a provider accepted the message
  unrecorded    \* messages accepted in a pass that has not been recorded

dvars == <<state, accepted, unrecorded>>

DInit ==
  /\ state = [d \in Messages |-> "absent"]
  /\ accepted = [d \in Messages |-> 0]
  /\ unrecorded = {}

Queue(d) ==
  /\ state[d] = "absent"
  /\ state' = [state EXCEPT ![d] = "queued"]
  /\ UNCHANGED <<accepted, unrecorded>>

Accept(d) ==
  /\ state[d] = "queued"
  /\ d \notin unrecorded
  /\ accepted' = [accepted EXCEPT ![d] = @ + 1]
  /\ unrecorded' = unrecorded \cup {d}
  /\ UNCHANGED state

\* A pass is recorded: every message of sent had been accepted in it.
Record(sent, parked) ==
  /\ sent \subseteq unrecorded
  /\ parked \cap unrecorded = {}
  /\ \A d \in sent \cup parked : state[d] = "queued"
  /\ state' = [d \in Messages |->
       IF d \in sent THEN "sent" ELSE IF d \in parked THEN "parked" ELSE state[d]]
  /\ unrecorded' = unrecorded \ sent
  /\ UNCHANGED accepted

\* A pass is lost with everything it did except what providers have accepted.
Forget(D) ==
  /\ D \subseteq unrecorded
  /\ unrecorded' = unrecorded \ D
  /\ UNCHANGED <<state, accepted>>

DNext ==
  \/ \E d \in Messages : Queue(d) \/ Accept(d)
  \/ \E S, T \in SUBSET Messages : Record(S, T)
  \/ \E D \in SUBSET Messages : Forget(D)

DSpec == DInit /\ [][DNext]_dvars
=============================================================================
