------------------------------- MODULE Outbox -------------------------------
(***************************************************************************)
(* Outbound notifications: enqueue_recommendation_ready writes a delivery   *)
(* and an integration.outbox_event row, and every worker replica polls:     *)
(* one drain_notification_outbox pass claims the oldest due rows with       *)
(* FOR UPDATE SKIP LOCKED, offers each of them to the providers in channel  *)
(* order, marks it and commits, all in ONE transaction (runner.py).         *)
(*                                                                          *)
(* What a pass writes is invisible, and its rows stay locked, until the     *)
(* commit; an exception or a crash rolls the whole pass back, but not what  *)
(* the providers have accepted.  So the states PROCESSING, locked_until and *)
(* the lease exist inside a pass only, and a pass is the variables of its   *)
(* worker here.  A delivery and its outbox row are one member of Rows.      *)
(* Backoff delays are abstracted to "not yet due"; the ten years of         *)
(* GIVEN_UP_HORIZON are taken for ever.                                     *)
(*                                                                          *)
(* At this commit no caller hands over a release gate, and the default is   *)
(* closed: runner.py:77 drains without one, recommendations.py:412 enqueues *)
(* without one.  The gate is a variable of the environment here, so that    *)
(* the module says what the code does once somebody opens it; with a gate   *)
(* that stays closed no row is ever written.                                *)
(***************************************************************************)
EXTENDS Naturals, FiniteSets

CONSTANTS
  Rows,          \* deliveries, each with its outbox_event row
  Workers,       \* replicas of the worker process
  ChannelCount,  \* Len(CHANNEL_ORDER); channel i is the i-th of it
  Configured,    \* the channels that have a provider
  Reachable,     \* pairs <<row, channel>> for which a message can be rendered
  Unresolvable,  \* rows whose delivery, identity or event cannot be loaded
  Faulty,        \* rows whose dispatch may raise (a decryption that fails, an
                 \* adapter's own exception)
  Limit,         \* rows claimed per pass
  MAX_OUTBOX_ATTEMPTS,
  MaxSends,      \* bound: acceptances per row
  MaxCrashes     \* bound: crashes of a worker inside a pass

ASSUME OutboxAssumption ==
  /\ IsFiniteSet(Rows) /\ IsFiniteSet(Workers)
  /\ ChannelCount \in Nat \ {0}
  /\ Configured \subseteq 1..ChannelCount
  /\ Reachable \subseteq Rows \X (1..ChannelCount)
  /\ Unresolvable \subseteq Rows /\ Faulty \subseteq Rows
  /\ Limit \in Nat \ {0} /\ MAX_OUTBOX_ATTEMPTS \in Nat \ {0}
  /\ MaxSends \in Nat /\ MaxCrashes \in Nat

VARIABLES
  created_at,       \* rank in creation order; 0 while the row does not exist
  status,           \* outbox_event.status
  attempt_count,    \* outbox_event.attempt_count
  next_attempt_at,  \* "now" (NULL or past), "backoff" or "given_up"
  delivery_status,  \* notification_delivery.status
  attempts,         \* [Rows -> set of notification_attempt rows]
  gate,             \* NotificationReleaseGate: "closed", "persist" or "open"
  claimed,          \* [Workers -> rows locked by the worker's transaction]
  todo,             \* [Workers -> claimed rows not handled yet]
  may_send,         \* [Workers -> BOOLEAN]: the gate the pass was given
  channel,          \* [Workers -> 0..ChannelCount]: the channel tried; 0: none
  sequence_offset,  \* [Workers -> Nat]: read when the dispatch of a row starts
  new_attempts,     \* [Workers -> [Rows -> set of attempt rows]] of the pass
  verdict,          \* [Workers -> [Rows -> outcome in the pass]]
  accepted,         \* [Rows -> Nat]: messages a provider accepted (outside)
  undone,           \* [Rows -> Nat]: those whose pass was rolled back (outside)
  crashes

rowVars  == <<created_at, status, attempt_count, next_attempt_at,
              delivery_status, attempts>>
passVars == <<claimed, todo, may_send, channel, sequence_offset, new_attempts,
              verdict>>
vars     == <<rowVars, passVars, gate, accepted, undone, crashes>>

Attempt == [sequence : Nat, channel : 1..ChannelCount,
            status : {"SENT", "FAILED", "SKIPPED"}]

TypeOK ==
  /\ created_at \in [Rows -> Nat]
  /\ status \in [Rows -> {"none", "PENDING", "FAILED", "PUBLISHED"}]
  /\ attempt_count \in [Rows -> Nat]
  /\ next_attempt_at \in [Rows -> {"now", "backoff", "given_up"}]
  /\ delivery_status \in [Rows -> {"none", "QUEUED", "FAILED", "SENT"}]
  /\ attempts \in [Rows -> SUBSET Attempt]
  /\ gate \in {"closed", "persist", "open"}
  /\ claimed \in [Workers -> SUBSET Rows]
  /\ todo \in [Workers -> SUBSET Rows]
  /\ may_send \in [Workers -> BOOLEAN]
  /\ channel \in [Workers -> 0..ChannelCount]
  /\ sequence_offset \in [Workers -> Nat]
  /\ new_attempts \in [Workers -> [Rows -> SUBSET Attempt]]
  /\ verdict \in [Workers -> [Rows -> {"none", "sent", "failed", "untried"}]]
  /\ accepted \in [Rows -> Nat]
  /\ undone \in [Rows -> Nat]
  /\ crashes \in Nat

NoAttempts == [d \in Rows |-> {}]
NoVerdict  == [d \in Rows |-> "none"]

Init ==
  /\ created_at = [d \in Rows |-> 0]
  /\ status = [d \in Rows |-> "none"]
  /\ attempt_count = [d \in Rows |-> 0]
  /\ next_attempt_at = [d \in Rows |-> "now"]
  /\ delivery_status = [d \in Rows |-> "none"]
  /\ attempts = NoAttempts
  /\ gate = "closed"
  /\ claimed = [w \in Workers |-> {}]
  /\ todo = [w \in Workers |-> {}]
  /\ may_send = [w \in Workers |-> FALSE]
  /\ channel = [w \in Workers |-> 0]
  /\ sequence_offset = [w \in Workers |-> 0]
  /\ new_attempts = [w \in Workers |-> NoAttempts]
  /\ verdict = [w \in Workers |-> NoVerdict]
  /\ accepted = [d \in Rows |-> 0]
  /\ undone = [d \in Rows |-> 0]
  /\ crashes = 0

-----------------------------------------------------------------------------
(* The producer and the operators.                                          *)

\* The delivery and its outbox row, in the caller's transaction, which commits;
\* nothing is written while the gate is closed, nor for a dedupe_key that exists.
Enqueue(d) ==
  /\ gate # "closed"
  /\ status[d] = "none"
  /\ created_at' = [created_at EXCEPT
       ![d] = 1 + Cardinality({e \in Rows : status[e] # "none"})]
  /\ status' = [status EXCEPT ![d] = "PENDING"]
  /\ delivery_status' = [delivery_status EXCEPT ![d] = "QUEUED"]
  /\ UNCHANGED <<attempt_count, next_attempt_at, attempts, passVars, gate,
                 accepted, undone, crashes>>

\* The environment: the operators configure the gate that callers hand over.
SetGate(g) ==
  /\ gate # g
  /\ gate' = g
  /\ UNCHANGED <<rowVars, passVars, accepted, undone, crashes>>

\* The backoff of a failed row runs out.
BackoffEnds(d) ==
  /\ next_attempt_at[d] = "backoff"
  /\ next_attempt_at' = [next_attempt_at EXCEPT ![d] = "now"]
  /\ UNCHANGED <<created_at, status, attempt_count, delivery_status, attempts,
                 passVars, gate, accepted, undone, crashes>>

-----------------------------------------------------------------------------
(* One pass of a worker.                                                    *)

\* Mutant: only rows that were never tried are due.
DueOnce(d) == status[d] = "PENDING" /\ next_attempt_at[d] = "now"

\* Mutant: a published row is due again.
DueAgain(d) == status[d] # "none" /\ next_attempt_at[d] = "now"

Due(d) == status[d] \in {"PENDING", "FAILED"} /\ next_attempt_at[d] = "now"

\* Mutant: the claim does not see the locks of the other transactions.
LockedNever(d) == FALSE

Locked(d) == \E w \in Workers : d \in claimed[w]

\* claim_notification_outbox: the oldest due rows that nobody has locked; the
\* gate is the one that drain_notification_outbox is given for the pass.
Claim(w) ==
  LET free == {d \in Rows : Due(d) /\ ~Locked(d)}
      batch == {d \in free :
        Cardinality({e \in free : created_at[e] < created_at[d]}) < Limit}
  IN  /\ claimed[w] = {}
      /\ batch # {}
      /\ claimed' = [claimed EXCEPT ![w] = batch]
      /\ todo' = [todo EXCEPT ![w] = batch]
      /\ may_send' = [may_send EXCEPT ![w] = gate = "open"]
      /\ UNCHANGED <<rowVars, channel, sequence_offset, new_attempts, verdict,
                     gate, accepted, undone, crashes>>

\* The row the pass is at.
Current(w, d) ==
  d \in todo[w] /\ \A e \in todo[w] : created_at[d] <= created_at[e]

\* The pass is through with row d, with result r.
Handled(w, d, r) ==
  /\ todo' = [todo EXCEPT ![w] = @ \ {d}]
  /\ channel' = [channel EXCEPT ![w] = 0]
  /\ verdict' = [verdict EXCEPT ![w][d] = r]

\* A row that cannot be resolved, or a closed gate: no provider is asked.
LeaveUntried(w, d) ==
  /\ Current(w, d) /\ channel[w] = 0
  /\ d \in Unresolvable \/ ~may_send[w]
  /\ Handled(w, d, "untried")
  /\ UNCHANGED <<rowVars, claimed, may_send, sequence_offset, new_attempts,
                 gate, accepted, undone, crashes>>

LastSequence(d) ==
  IF attempts[d] = {} THEN 0
  ELSE CHOOSE n \in {a.sequence : a \in attempts[d]} :
         \A a \in attempts[d] : a.sequence <= n

\* dispatch_notification starts; it numbers its attempts after the stored ones.
BeginDispatch(w, d) ==
  /\ Current(w, d) /\ channel[w] = 0
  /\ d \notin Unresolvable /\ may_send[w]
  /\ channel' = [channel EXCEPT ![w] = 1]
  /\ sequence_offset' = [sequence_offset EXCEPT ![w] = LastSequence(d)]
  /\ UNCHANGED <<rowVars, claimed, todo, may_send, new_attempts, verdict, gate,
                 accepted, undone, crashes>>

\* The attempt row of the current channel.
Noted(w, d, st) ==
  new_attempts' = [new_attempts EXCEPT ![w][d] = @ \cup
    {[sequence |-> sequence_offset[w] + channel[w], channel |-> channel[w],
      status |-> st]}]

Usable(w, d) ==
  channel[w] \in Configured /\ <<d, channel[w]>> \in Reachable

\* The provider accepts: no further channel is tried.
ChannelSent(w, d) ==
  /\ Current(w, d) /\ channel[w] > 0
  /\ Usable(w, d)
  /\ accepted[d] < MaxSends
  /\ Noted(w, d, "SENT")
  /\ Handled(w, d, "sent")
  /\ accepted' = [accepted EXCEPT ![d] = @ + 1]
  /\ UNCHANGED <<rowVars, claimed, may_send, sequence_offset, gate, undone,
                 crashes>>

\* The provider refuses (or is unavailable), or the channel is skipped.
ChannelFails(w, d) ==
  /\ Current(w, d) /\ channel[w] > 0
  /\ Noted(w, d, IF Usable(w, d) THEN "FAILED" ELSE "SKIPPED")
  /\ IF channel[w] < ChannelCount
       THEN channel' = [channel EXCEPT ![w] = @ + 1] /\ UNCHANGED <<todo, verdict>>
       ELSE Handled(w, d, "failed")
  /\ UNCHANGED <<rowVars, claimed, may_send, sequence_offset, gate, accepted,
                 undone, crashes>>

\* Mutant: one attempt too many before the row is given up on.
IsGivenUpLate(n) == n > MAX_OUTBOX_ATTEMPTS

IsGivenUp(n) == n >= MAX_OUTBOX_ATTEMPTS

\* The transaction ends, one way or the other.
PassOver(w) ==
  /\ claimed' = [claimed EXCEPT ![w] = {}]
  /\ todo' = [todo EXCEPT ![w] = {}]
  /\ channel' = [channel EXCEPT ![w] = 0]
  /\ new_attempts' = [new_attempts EXCEPT ![w] = NoAttempts]
  /\ verdict' = [verdict EXCEPT ![w] = NoVerdict]
  /\ UNCHANGED <<may_send, sequence_offset>>

\* mark_outbox_published for the rows of done, _retry_or_give_up for those of
\* retried; the claim has counted an attempt of each of them.
Marked(done, retried) ==
  /\ status' = [d \in Rows |-> IF d \in done THEN "PUBLISHED"
                               ELSE IF d \in retried THEN "FAILED" ELSE status[d]]
  /\ attempt_count' = [d \in Rows |->
       IF d \in done \cup retried THEN attempt_count[d] + 1 ELSE attempt_count[d]]
  /\ next_attempt_at' = [d \in Rows |->
       IF d \in done THEN "now"
       ELSE IF d \notin retried THEN next_attempt_at[d]
       ELSE IF IsGivenUp(attempt_count[d] + 1) THEN "given_up" ELSE "backoff"]

\* The attempt rows of the pass, and what they make of the deliveries.
Stored(w) ==
  /\ delivery_status' = [d \in Rows |->
       CASE verdict[w][d] = "sent"   -> "SENT"
         [] verdict[w][d] = "failed" -> "FAILED"
         [] OTHER                    -> delivery_status[d]]
  /\ attempts' = [d \in Rows |-> attempts[d] \cup new_attempts[w][d]]

Sent(w) == {d \in Rows : verdict[w][d] = "sent"}

\* Mutant: the delivery is marked, its outbox row is not.
CommitUnpublished(w) ==
  /\ claimed[w] # {} /\ todo[w] = {}
  /\ Marked({}, claimed[w])
  /\ Stored(w)
  /\ PassOver(w)
  /\ UNCHANGED <<created_at, gate, accepted, undone, crashes>>

\* The commit of runner.py: a row that was sent is published, the others are
\* retried, whatever kept them from being sent.
Commit(w) ==
  /\ claimed[w] # {} /\ todo[w] = {}
  /\ Marked(Sent(w), claimed[w] \ Sent(w))
  /\ Stored(w)
  /\ PassOver(w)
  /\ UNCHANGED <<created_at, gate, accepted, undone, crashes>>

\* The pass is rolled back, attempt_count and all.
RollBack(w) ==
  /\ undone' = [d \in Rows |-> IF d \in Sent(w) THEN undone[d] + 1 ELSE undone[d]]
  /\ PassOver(w)
  /\ UNCHANGED <<rowVars, gate, accepted>>

\* An exception the dispatch does not catch: the runner logs it and goes on.
Raise(w, d) ==
  /\ Current(w, d) /\ channel[w] > 0
  /\ d \in Faulty
  /\ RollBack(w)
  /\ UNCHANGED crashes

Crash(w) ==
  /\ claimed[w] # {}
  /\ crashes < MaxCrashes
  /\ crashes' = crashes + 1
  /\ RollBack(w)

\* What a running worker does by itself.
Work(w) ==
  \/ Claim(w)
  \/ \E d \in Rows : \/ LeaveUntried(w, d) \/ BeginDispatch(w, d)
                     \/ ChannelSent(w, d) \/ ChannelFails(w, d)
                     \/ Raise(w, d)
  \/ Commit(w)

Next ==
  \/ \E d \in Rows : Enqueue(d) \/ BackoffEnds(d)
  \/ \E g \in {"closed", "persist", "open"} : SetGate(g)
  \/ \E w \in Workers : Work(w) \/ Crash(w)

Spec == Init /\ [][Next]_vars

\* run_forever polls for ever, every provider call returns, and time passes.
FairSpec ==
  /\ Spec
  /\ \A w \in Workers : WF_vars(Work(w))
  /\ \A d \in Rows : WF_vars(BackoffEnds(d))

-----------------------------------------------------------------------------
(* Properties.                                                              *)

\* The three records of a message agree.  Over all its passes, on whichever
\* replicas and however many were rolled back in between, the attempts of a
\* delivery carry the sequence numbers 1, 2, ..., each once (which is what
\* uq_notification_attempt_sequence, integration.py:491-495, demands of them:
\* a commit that broke it would be refused, with all its rows); the outbox row
\* is PUBLISHED, and the delivery SENT, exactly if an attempt was SENT, and
\* that attempt is the last one.
RecordsAgree ==
  \A d \in Rows :
    LET stored == attempts[d]
        last == LastSequence(d)
    IN  /\ {a.sequence : a \in stored} = 1..last
        /\ \A a, b \in stored : a.sequence = b.sequence => a = b
        /\ \A a \in stored : a.status = "SENT" => a.sequence = last
        /\ status[d] = "PUBLISHED" <=> \E a \in stored : a.status = "SENT"
        /\ status[d] = "PUBLISHED" <=> delivery_status[d] = "SENT"

\* The recipient gets a second message only if the pass of the first one was
\* rolled back: every acceptance is recorded, pending in a pass, or undone.
SendsAccounted ==
  \A d \in Rows :
    accepted[d] = undone[d] + (IF status[d] = "PUBLISHED" THEN 1 ELSE 0)
      + Cardinality({w \in Workers : verdict[w][d] = "sent"})

\* The recorded tries of a row stay within the cap, and exactly the rows whose
\* last recorded try was the last permitted one, and failed, are parked: such a
\* row is not claimed again.  A pass that is rolled back leaves no record, so
\* the cap does not bound how often a provider may be asked (the run
\* MCOutboxPoison shows a row that is tried for ever).
AttemptCap ==
  \A d \in Rows :
    /\ attempt_count[d] <= MAX_OUTBOX_ATTEMPTS
    /\ next_attempt_at[d] = "given_up" <=>
         status[d] = "FAILED" /\ attempt_count[d] = MAX_OUTBOX_ATTEMPTS

\* Every message that is queued is in the end published or given up on.  As
\* notification_outbox.py:64-66 says, a failing row is not retried for ever.
Settles ==
  \A d \in Rows : status[d] = "PENDING" ~>
    status[d] = "PUBLISHED" \/ next_attempt_at[d] = "given_up"

\* The outbox implements the promise: a row is queued until its pass commits.
PromisedState == [d \in Rows |->
  IF status[d] = "none" THEN "absent"
  ELSE IF status[d] = "PUBLISHED" THEN "sent"
  ELSE IF next_attempt_at[d] = "given_up" THEN "parked" ELSE "queued"]

Unrecorded == {d \in Rows : \E w \in Workers : d \in Sent(w)}

Promise == INSTANCE Delivery WITH
  Messages <- Rows, state <- PromisedState, unrecorded <- Unrecorded

DeliveryPromise == Promise!DSpec
=============================================================================
