------------------------------ MODULE Meeting ------------------------------
(***************************************************************************)
(* The consultation ("meeting") workflow of routers/meetings.py: a buyer    *)
(* asks an exhibitor for one of several time slots, the exhibitor accepts,  *)
(* rejects or proposes another slot, the buyer answers or cancels, and the  *)
(* exhibitor records the outcome and, behind three gates, sees the buyer's  *)
(* contact data.                                                            *)
(*                                                                          *)
(* One action is one database transaction.  The handlers that lock the      *)
(* meeting row (cancel, respond, decision) are atomic: the version, the     *)
(* status and the held slots they read cannot change before their commit,   *)
(* and a slot counter changes in one conditional UPDATE.  The two handlers  *)
(* that read the row without a lock (outcome, buyer-summary) are a read and *)
(* a later commit, and so is the creation, whose idempotency cache is read  *)
(* before and written after its transaction.                                *)
(***************************************************************************)
EXTENDS Naturals, Sequences, FiniteSets

CONSTANTS
  Meetings,     \* meeting ids: one per creation attempt (uuid4 in the handler)
  Slots,        \* rows of interaction.availability_slot
  Capacity,     \* [Slots -> positive]: availability_slot.capacity
  Parts,        \* exhibitor participations
  SlotPart,     \* [Slots -> Parts]: whose slot it is
  Overlaps,     \* pairs of slots whose time ranges intersect
  Staff,        \* exhibitor staff members
  StaffPart,    \* [Staff -> Parts]
  SlotStaff,    \* [Slots -> Staff or None]: availability_slot.staff_id
  Buyers,       \* verified BUYER profiles
  OpenTo,       \* pairs <<buyer, participation>> that may start a consultation
  Keys,         \* values of the Idempotency-Key header
  Wishes,       \* the lists of slots that clients send as requested_slot_ids
  Blockable,    \* bound: the slots an operator may block
  Expiring,     \* bound: the slots whose start time may come
  None          \* SQL NULL, and "no such row"

ASSUME ConstantsAssumption ==
  /\ IsFiniteSet(Meetings) /\ IsFiniteSet(Slots)
  /\ Capacity \in [Slots -> Nat \ {0}]
  /\ SlotPart \in [Slots -> Parts]
  /\ StaffPart \in [Staff -> Parts]
  /\ SlotStaff \in [Slots -> Staff \cup {None}]
  /\ Overlaps \subseteq Slots \X Slots
  /\ \A s \in Slots : <<s, s>> \in Overlaps
  /\ \A s, t \in Slots : <<s, t>> \in Overlaps => <<t, s>> \in Overlaps
  /\ OpenTo \subseteq Buyers \X Parts
  /\ Wishes \subseteq Seq(Slots)
  /\ \A w \in Wishes : w # <<>> /\ \A i, j \in DOMAIN w : w[i] = w[j] => i = j
  /\ Blockable \subseteq Slots /\ Expiring \subseteq Slots
  /\ None \notin Slots \cup Staff \cup Buyers \cup Keys \cup Parts \cup Meetings

VARIABLES
  reserved_count,  \* availability_slot.reserved_count
  slot_status,     \* availability_slot.status
  started,         \* slots whose start_at is no longer in the future
  status,          \* meeting.status; "none" while the row does not exist
  row_version,     \* meeting.row_version
  buyer,           \* meeting.buyer_profile_id
  part,            \* meeting.participation_id
  staff_id,        \* meeting.staff_id
  slot_request,    \* meeting_slot_request.status by meeting and slot
  confirmed_slot,  \* meeting.confirmed_slot_id
  contact_share,   \* the meeting_contact_share row, as the gates it has passed
  lead,            \* meetings with a meeting_outcome row (unique per meeting)
  history,         \* meeting_status_history, one sequence per meeting
  progress,        \* how far the creation request that owns the id has come
  req_key,         \* its Idempotency-Key
  cache,           \* _IDEMPOTENCY_CACHE: <<buyer, key>> to the created meeting
  task             \* the unlocked handler a staff member has in progress

slotVars == <<reserved_count, slot_status, started>>
rowVars  == <<status, row_version, buyer, part, staff_id, slot_request,
              confirmed_slot, contact_share, lead, history>>
reqVars  == <<progress, req_key, cache>>
vars     == <<slotVars, rowVars, reqVars, task>>

Live       == {"requested", "counter_proposed", "accepted"}
Statuses   == Live \cup {"rejected", "cancelled", "completed"}
ReqStatus  == {"none", "PENDING", "SELECTED", "DECLINED", "WITHDRAWN"}
SlotStatus == {"OPEN", "FULL", "BLOCKED"}
Gates      == {"consented", "enabled", "disclosed"}
Entry      == [from : Statuses \cup {"none"}, to : Statuses,
               saw : Statuses \cup {"none"}]
Progress   == {"idle", "checked", "committed", "done"}
Idle       == [kind |-> "idle"]
Task       == {Idle}
   \cup [kind : {"outcome"}, m : Meetings, st : {"accepted", "completed"},
         ver : Nat, had : BOOLEAN]
   \cup [kind : {"summary"}, m : Meetings, reveal : BOOLEAN]

TypeOK ==
  /\ reserved_count \in [Slots -> Nat]
  /\ slot_status \in [Slots -> SlotStatus]
  /\ started \in SUBSET Slots
  /\ status \in [Meetings -> Statuses \cup {"none"}]
  /\ row_version \in [Meetings -> Nat]
  /\ buyer \in [Meetings -> Buyers \cup {None}]
  /\ part \in [Meetings -> Parts \cup {None}]
  /\ staff_id \in [Meetings -> Staff \cup {None}]
  /\ slot_request \in [Meetings -> [Slots -> ReqStatus]]
  /\ confirmed_slot \in [Meetings -> Slots \cup {None}]
  /\ contact_share \in [Meetings -> SUBSET Gates]
  /\ lead \in SUBSET Meetings
  /\ history \in [Meetings -> Seq(Entry)]
  /\ progress \in [Meetings -> Progress]
  /\ req_key \in [Meetings -> Keys \cup {None}]
  /\ cache \in [Buyers \X Keys -> Meetings \cup {None}]
  /\ task \in [Staff -> Task]

Init ==
  /\ reserved_count = [s \in Slots |-> 0]
  /\ slot_status = [s \in Slots |-> "OPEN"]
  /\ started = {}
  /\ status = [m \in Meetings |-> "none"]
  /\ row_version = [m \in Meetings |-> 0]
  /\ buyer = [m \in Meetings |-> None]
  /\ part = [m \in Meetings |-> None]
  /\ staff_id = [m \in Meetings |-> None]
  /\ slot_request = [m \in Meetings |-> [s \in Slots |-> "none"]]
  /\ confirmed_slot = [m \in Meetings |-> None]
  /\ contact_share = [m \in Meetings |-> {}]
  /\ lead = {}
  /\ history = [m \in Meetings |-> <<>>]
  /\ progress = [m \in Meetings |-> "idle"]
  /\ req_key = [m \in Meetings |-> None]
  /\ cache = [k \in Buyers \X Keys |-> None]
  /\ task = [p \in Staff |-> Idle]

-----------------------------------------------------------------------------
(* Slots.                                                                   *)

Held(m) == {s \in Slots : slot_request[m][s] = "SELECTED"}

Holders(s) == {m \in Meetings : s \in Held(m)}

\* The WHERE clause of the conditional UPDATE in _reserve_slot.
Reservable(s, p) ==
  /\ SlotPart[s] = p
  /\ slot_status[s] = "OPEN"
  /\ reserved_count[s] < Capacity[s]
  /\ s \notin started

StatusAfterReserve(s) ==
  IF reserved_count[s] + 1 >= Capacity[s] THEN "FULL" ELSE slot_status[s]

StatusAfterRelease(s) ==
  IF slot_status[s] # "BLOCKED" /\ reserved_count[s] - 1 < Capacity[s]
    THEN "OPEN" ELSE slot_status[s]

\* _reserve_slot on every slot of take, _release_slot on every slot of free
\* (whose WHERE clause wants a positive count); the two sets are disjoint.
MoveSlots(take, free) ==
  LET freed == {s \in free : reserved_count[s] > 0}
  IN  /\ reserved_count' = [s \in Slots |->
           CASE s \in take  -> reserved_count[s] + 1
             [] s \in freed -> reserved_count[s] - 1
             [] OTHER       -> reserved_count[s]]
      /\ slot_status' = [s \in Slots |->
           CASE s \in take  -> StatusAfterReserve(s)
             [] s \in freed -> StatusAfterRelease(s)
             [] OTHER       -> slot_status[s]]
      /\ UNCHANGED started

\* Mutant: the candidate rows stay SELECTED.
ReleaseKeepsRows(m) ==
  /\ MoveSlots({}, Held(m) \cup ({confirmed_slot[m]} \ {None}))
  /\ UNCHANGED slot_request

\* _release_all_held_slots: the SELECTED candidates and the confirmed slot.
ReleaseAll(m) ==
  /\ MoveSlots({}, Held(m) \cup ({confirmed_slot[m]} \ {None}))
  /\ slot_request' = [slot_request EXCEPT ![m] =
       [s \in Slots |-> IF s \in Held(m) THEN "WITHDRAWN" ELSE @[s]]]

\* Mutants: one of the two EXCLUDE constraints is missing.
NoStaffOverlap(m, p, s) ==
  \A n \in Meetings \ {m} :
    status[n] = "accepted" /\ <<confirmed_slot[n], s>> \in Overlaps
      => p = None \/ staff_id[n] # p

\* The two EXCLUDE constraints of interaction.meeting: no other accepted
\* meeting of the same staff member, or of the same buyer, overlaps slot s.
NoOverlap(m, p, s) ==
  \A n \in Meetings \ {m} :
    status[n] = "accepted" /\ <<confirmed_slot[n], s>> \in Overlaps
      => buyer[n] # buyer[m] /\ (p = None \/ staff_id[n] # p)

\* The new status, its version and its row of meeting_status_history.  saw is
\* the status the caller had in view when it sent the request.
Transition(m, to, ver, from, saw) ==
  /\ status' = [status EXCEPT ![m] = to]
  /\ row_version' = [row_version EXCEPT ![m] = ver]
  /\ history' = [history EXCEPT ![m] =
                   Append(@, [from |-> from, to |-> to, saw |-> saw])]

-----------------------------------------------------------------------------
(* POST /meetings.                                                          *)

\* The Idempotency-Key lookup found nothing and the handler goes on.
BeginCreate(m, b, k) ==
  /\ progress[m] = "idle"
  /\ k # None => cache[<<b, k>>] = None
  /\ progress' = [progress EXCEPT ![m] = "checked"]
  /\ req_key' = [req_key EXCEPT ![m] = k]
  /\ buyer' = [buyer EXCEPT ![m] = b]
  /\ UNCHANGED <<slotVars, status, row_version, part, staff_id, slot_request,
                 confirmed_slot, contact_share, lead, history, cache,
                 task>>

\* The transaction: the first reservable slot of the list is taken, the others
\* stay PENDING candidates; consent is the accepted contact_share.
CommitCreate(m, p, want, i, consent) ==
  /\ progress[m] = "checked"
  /\ <<buyer[m], p>> \in OpenTo
  /\ Reservable(want[i], p)
  /\ \A j \in 1..(i - 1) : ~Reservable(want[j], p)
  /\ MoveSlots({want[i]}, {})
  /\ slot_request' = [slot_request EXCEPT ![m] = [s \in Slots |->
       IF s = want[i] THEN "SELECTED"
       ELSE IF \E j \in DOMAIN want : want[j] = s THEN "PENDING" ELSE "none"]]
  /\ part' = [part EXCEPT ![m] = p]
  /\ staff_id' = [staff_id EXCEPT ![m] = SlotStaff[want[i]]]
  /\ contact_share' = [contact_share EXCEPT ![m] =
                         IF consent THEN {"consented"} ELSE {}]
  /\ Transition(m, "requested", 0, "none", "none")
  /\ progress' = [progress EXCEPT ![m] =
                    IF req_key[m] = None THEN "done" ELSE "committed"]
  /\ UNCHANGED <<buyer, confirmed_slot, lead, req_key, cache, task>>

\* Not allowed to ask this exhibitor, or no slot of the list is left.
RefuseCreate(m, p, want) ==
  /\ progress[m] = "checked"
  /\ \/ <<buyer[m], p>> \notin OpenTo
     \/ \A j \in DOMAIN want : ~Reservable(want[j], p)
  /\ progress' = [progress EXCEPT ![m] = "done"]
  /\ UNCHANGED <<slotVars, rowVars, req_key, cache, task>>

\* _idempotency_store, after the response has been built; it does nothing
\* without a key.
StoreCreate(m) ==
  /\ progress[m] = "committed"
  /\ progress' = [progress EXCEPT ![m] = "done"]
  /\ cache' = [cache EXCEPT ![<<buyer[m], req_key[m]>>] = m]
  /\ UNCHANGED <<slotVars, rowVars, req_key, task>>

-----------------------------------------------------------------------------
(* The handlers that lock the meeting row and check the caller's version.   *)

\* A caller that last saw version v of the meeting had this status in view.
Saw(m, v) == history[m][v + 1].to

\* Mutants: one of the two checks is missing.
CurrentAnyVersion(m, v, from) == status[m] \in from

\* The version check, then the status check, under the row lock.
Current(m, v, from) ==
  /\ status[m] # "none"
  /\ v = row_version[m]
  /\ status[m] \in from

BuyerCancel(m, v) ==
  /\ Current(m, v, {"requested", "accepted", "counter_proposed"})
  /\ ReleaseAll(m)
  /\ Transition(m, "cancelled", row_version[m] + 1, status[m], Saw(m, v))
  /\ UNCHANGED <<buyer, part, staff_id, confirmed_slot, contact_share, lead,
                 reqVars, task>>

\* POST /meetings/{id}/respond with ACCEPT_COUNTER: the held slot is confirmed;
\* staff_id stays what it was.
RespondAccept(m, v, s) ==
  /\ Current(m, v, {"counter_proposed"})
  /\ s \in Held(m)
  /\ NoOverlap(m, staff_id[m], s)
  /\ confirmed_slot' = [confirmed_slot EXCEPT ![m] = s]
  /\ Transition(m, "accepted", row_version[m] + 1, status[m], Saw(m, v))
  /\ UNCHANGED <<slotVars, buyer, part, staff_id, slot_request, contact_share,
                 lead, reqVars, task>>

\* The other answer of respond: the proposal is declined and the meeting ends.
RespondDecline(m, v) ==
  /\ Current(m, v, {"counter_proposed"})
  /\ Held(m) # {}
  /\ ReleaseAll(m)
  /\ Transition(m, "cancelled", row_version[m] + 1, status[m], Saw(m, v))
  /\ UNCHANGED <<buyer, part, staff_id, confirmed_slot, contact_share, lead,
                 reqVars, task>>

\* Mutant: the slots held before are declined but not given back.
SwitchWithoutRelease(m, s) ==
  LET take == {s} \ Held(m)
      free == Held(m) \ {s}
  IN  /\ \A t \in take : Reservable(t, part[m])
      /\ MoveSlots(take, {})
      /\ slot_request' = [slot_request EXCEPT ![m] = [t \in Slots |->
           IF t = s THEN "SELECTED" ELSE IF t \in free THEN "DECLINED" ELSE @[t]]]

\* decision ACCEPT / COUNTER_PROPOSE on slot s: taken unless already held, the
\* other held slots given back and DECLINED.
SwitchTo(m, s) ==
  LET take == {s} \ Held(m)
      free == Held(m) \ {s}
  IN  /\ \A t \in take : Reservable(t, part[m])
      /\ MoveSlots(take, free)
      /\ slot_request' = [slot_request EXCEPT ![m] = [t \in Slots |->
           IF t = s THEN "SELECTED" ELSE IF t \in free THEN "DECLINED" ELSE @[t]]]

DecideAccept(m, v, p, s, enable) ==
  /\ Current(m, v, {"requested", "counter_proposed"})
  /\ StaffPart[p] = part[m]
  /\ SwitchTo(m, s)
  /\ NoOverlap(m, p, s)
  /\ staff_id' = [staff_id EXCEPT ![m] = p]
  /\ confirmed_slot' = [confirmed_slot EXCEPT ![m] = s]
  /\ contact_share' = IF enable /\ contact_share[m] # {}
       THEN [contact_share EXCEPT ![m] = @ \cup {"enabled"}] ELSE contact_share
  /\ Transition(m, "accepted", row_version[m] + 1, status[m], Saw(m, v))
  /\ UNCHANGED <<buyer, part, lead, reqVars, task>>

DecideCounter(m, v, p, s) ==
  /\ Current(m, v, {"requested"})
  /\ StaffPart[p] = part[m]
  /\ SwitchTo(m, s)
  /\ Transition(m, "counter_proposed", row_version[m] + 1, status[m], Saw(m, v))
  /\ UNCHANGED <<buyer, part, staff_id, confirmed_slot, contact_share, lead,
                 reqVars, task>>

DecideReject(m, v, p) ==
  /\ Current(m, v, {"requested", "counter_proposed"})
  /\ StaffPart[p] = part[m]
  /\ ReleaseAll(m)
  /\ Transition(m, "rejected", row_version[m] + 1, status[m], Saw(m, v))
  /\ UNCHANGED <<buyer, part, staff_id, confirmed_slot, contact_share, lead,
                 reqVars, task>>

-----------------------------------------------------------------------------
(* The handlers that read the meeting row without a lock.                   *)

OutcomeRead(p, m) ==
  /\ task[p] = Idle
  /\ StaffPart[p] = part[m]
  /\ status[m] \in {"accepted", "completed"}
  /\ task' = [task EXCEPT ![p] = [kind |-> "outcome", m |-> m, st |-> status[m],
                                  ver |-> row_version[m], had |-> m \in lead]]
  /\ UNCHANGED <<slotVars, rowVars, reqVars>>

\* Mutant: no row of meeting_status_history.
OutcomeUnlogged(p) ==
  LET t == task[p] IN
  /\ t.kind = "outcome"
  /\ t.had \/ t.m \notin lead
  /\ lead' = lead \cup {t.m}
  /\ status' = [status EXCEPT ![t.m] = "completed"]
  /\ task' = [task EXCEPT ![p] = Idle]
  /\ UNCHANGED <<slotVars, row_version, buyer, part, staff_id, slot_request,
                 confirmed_slot, contact_share, history, reqVars>>

\* The commit writes what the read implied, whatever the row holds by then; a
\* second meeting_outcome row is refused by its unique key.
OutcomeCommit(p) ==
  LET t == task[p] IN
  /\ t.kind = "outcome"
  /\ t.had \/ t.m \notin lead
  /\ lead' = lead \cup {t.m}
  /\ IF t.st = "accepted"
       THEN Transition(t.m, "completed", t.ver + 1, t.st, t.st)
       ELSE UNCHANGED <<status, row_version, history>>
  /\ task' = [task EXCEPT ![p] = Idle]
  /\ UNCHANGED <<slotVars, buyer, part, staff_id, slot_request, confirmed_slot,
                 contact_share, reqVars>>

OutcomeDuplicate(p) ==
  /\ task[p].kind = "outcome"
  /\ ~task[p].had /\ task[p].m \in lead
  /\ task' = [task EXCEPT ![p] = Idle]
  /\ UNCHANGED <<slotVars, rowVars, reqVars>>

\* Mutant: the exhibitor's opt-in is not asked for.
RevealOnConsent(m) == status[m] = "accepted" /\ "consented" \in contact_share[m]

\* contact_reveal_allowed: confirmed, buyer consent, exhibitor opt-in.
RevealAllowed(m) ==
  status[m] = "accepted" /\ {"consented", "enabled"} \subseteq contact_share[m]

SummaryRead(p, m) ==
  /\ task[p] = Idle
  /\ status[m] # "none"
  /\ StaffPart[p] = part[m]
  /\ task' = [task EXCEPT ![p] = [kind |-> "summary", m |-> m,
                                  reveal |-> RevealAllowed(m)]]
  /\ UNCHANGED <<slotVars, rowVars, reqVars>>

SummaryCommit(p) ==
  LET t == task[p] IN
  /\ t.kind = "summary"
  /\ contact_share' = IF t.reveal
       THEN [contact_share EXCEPT ![t.m] = @ \cup {"disclosed"}] ELSE contact_share
  /\ task' = [task EXCEPT ![p] = Idle]
  /\ UNCHANGED <<slotVars, status, row_version, buyer, part, staff_id,
                 slot_request, confirmed_slot, lead, history, reqVars>>

-----------------------------------------------------------------------------
(* The environment.                                                         *)

\* An operator takes a slot off the market (no handler of src/ does).
BlockSlot(s) ==
  /\ slot_status[s] # "BLOCKED"
  /\ slot_status' = [slot_status EXCEPT ![s] = "BLOCKED"]
  /\ UNCHANGED <<reserved_count, started, rowVars, reqVars, task>>

StartSlot(s) ==
  /\ s \notin started
  /\ started' = started \cup {s}
  /\ UNCHANGED <<reserved_count, slot_status, rowVars, reqVars, task>>

\* The API process restarts: requests in progress are lost with the cache.
Restart ==
  /\ cache' = [k \in Buyers \X Keys |-> None]
  /\ progress' = [m \in Meetings |->
                    IF progress[m] = "idle" THEN "idle" ELSE "done"]
  /\ task' = [p \in Staff |-> Idle]
  /\ UNCHANGED <<slotVars, rowVars, req_key>>

Create(m) ==
  \/ \E b \in Buyers, k \in Keys \cup {None} : BeginCreate(m, b, k)
  \/ \E p \in Parts, w \in Wishes :
       \/ \E i \in DOMAIN w, c \in BOOLEAN : CommitCreate(m, p, w, i, c)
       \/ RefuseCreate(m, p, w)
  \/ StoreCreate(m)

BuyerStep(m) == \E v \in 0..row_version[m] :
  \/ BuyerCancel(m, v)
  \/ \E s \in Slots : RespondAccept(m, v, s)
  \/ RespondDecline(m, v)

Decide(m) == \E v \in 0..row_version[m], p \in Staff :
  \/ \E s \in Slots, e \in BOOLEAN : DecideAccept(m, v, p, s, e)
  \/ \E s \in Slots : DecideCounter(m, v, p, s)
  \/ DecideReject(m, v, p)

Unlocked(p) ==
  \/ \E m \in Meetings : OutcomeRead(p, m) \/ SummaryRead(p, m)
  \/ OutcomeCommit(p) \/ OutcomeDuplicate(p) \/ SummaryCommit(p)

Environment ==
  \/ \E s \in Blockable : BlockSlot(s)
  \/ \E s \in Expiring : StartSlot(s)
  \/ Restart

Next ==
  \/ \E m \in Meetings : Create(m) \/ BuyerStep(m) \/ Decide(m)
  \/ \E p \in Staff : Unlocked(p)
  \/ Environment

Spec == Init /\ [][Next]_vars

-----------------------------------------------------------------------------
(* Properties.                                                              *)

\* Whatever mixture of creations, counter proposals, cancellations and
\* rejections happens, a slot's reserved_count is the number of meetings that
\* hold it, and never exceeds its capacity: no double booking, no leaked seat.
SlotAccounting ==
  \A s \in Slots :
    /\ reserved_count[s] = Cardinality(Holders(s))
    /\ reserved_count[s] <= Capacity[s]

\* The status column that the listing and _reserve_slot rely on agrees with
\* the count: FULL exactly at capacity, unless an operator blocked the slot.
StatusMatchesCount ==
  \A s \in Slots : slot_status[s] # "BLOCKED" =>
    (slot_status[s] = "FULL" <=> reserved_count[s] = Capacity[s])

\* An undecided meeting holds exactly one slot, an accepted one exactly its
\* confirmed slot, a rejected or cancelled one none.
HeldMatchesStatus ==
  \A m \in Meetings :
    /\ status[m] \in {"requested", "counter_proposed"} =>
         \E s \in Slots : Held(m) = {s}
    /\ status[m] = "accepted" => Held(m) = {confirmed_slot[m]}
    /\ status[m] \in {"none", "rejected", "cancelled"} => Held(m) = {}
    /\ status[m] = "completed" => Held(m) \subseteq {confirmed_slot[m]}

\* Neither a buyer nor a staff member has two accepted meetings at overlapping
\* times, whichever of the two handlers confirmed them.
NoDoubleBooking ==
  \A m, n \in Meetings :
    /\ m # n /\ status[m] = "accepted" /\ status[n] = "accepted"
    /\ <<confirmed_slot[m], confirmed_slot[n]>> \in Overlaps
    => /\ buyer[m] # buyer[n]
       /\ staff_id[m] # None => staff_id[m] # staff_id[n]

\* Every locked transition was requested by someone who had the status it
\* started from in view: an answer to a superseded proposal never applies.
DecidedOnCurrentView ==
  \A m \in Meetings : \A i \in DOMAIN history[m] :
    history[m][i].saw = history[m][i].from

\* Contact data has been disclosed only for a meeting that was accepted at some
\* time, with the buyer's consent and the exhibitor's opt-in on record.
DisclosureGated ==
  \A m \in Meetings : "disclosed" \in contact_share[m] =>
    /\ {"consented", "enabled"} \subseteq contact_share[m]
    /\ \E i \in DOMAIN history[m] : history[m][i].to = "accepted"

\* The audit trail ends in the status the row has.
HistoryEndsInStatus ==
  \A m \in Meetings : status[m] # "none" =>
    /\ history[m] # <<>>
    /\ history[m][Len(history[m])].to = status[m]

=============================================================================
