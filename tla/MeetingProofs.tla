--------------------------- MODULE MeetingProofs ---------------------------
(* Proofs about the consultation workflow of module Meeting, for any number *)
(* of meetings, slots, buyers, staff and capacities.                        *)
EXTENDS Meeting, FiniteSetTheorems, TLAPS

-----------------------------------------------------------------------------
(* The first invariant: types, and what the version and the audit trail say *)
(* about each other.                                                        *)

\* A meeting row that has not been inserted yet: its creation is under way.
Fresh == \A m \in Meetings : progress[m] \in {"idle", "checked"} => status[m] = "none"

\* The audit trail is at least one longer than the version and ends in the
\* status; while the meeting is live it is exactly one longer.
Logged == \A m \in Meetings :
  IF status[m] = "none" THEN history[m] = <<>> ELSE
  /\ row_version[m] < Len(history[m])
  /\ history[m][Len(history[m])].to = status[m]
  /\ status[m] \in Live => Len(history[m]) = row_version[m] + 1

\* A pending outcome was read from an accepted or completed meeting; since
\* then the meeting can only have been cancelled or completed.
OutcomePending == \A p \in Staff : task[p].kind = "outcome" =>
  /\ status[task[p].m] \in {"accepted", "cancelled", "completed"}
  /\ task[p].ver < Len(history[task[p].m])
  /\ task[p].st = "completed" => status[task[p].m] = "completed"

CoreInv == TypeOK /\ Fresh /\ Logged /\ OutcomePending

\* What a transition of m to a status leaves behind: the three columns are well
\* typed, the trail of m has one more row, other meetings are untouched.
Written(m, to, ver, from, saw) ==
  /\ status' \in [Meetings -> Statuses \cup {"none"}]
  /\ row_version' \in [Meetings -> Nat]
  /\ history' \in [Meetings -> Seq(Entry)]
  /\ status'[m] = to
  /\ row_version'[m] = ver
  /\ Len(history'[m]) = Len(history[m]) + 1
  /\ history'[m][Len(history'[m])] = [from |-> from, to |-> to, saw |-> saw]
  /\ \A i \in DOMAIN history[m] : history'[m][i] = history[m][i]
  /\ \A n \in Meetings \ {m} : /\ status'[n] = status[n]
                               /\ row_version'[n] = row_version[n]
                               /\ history'[n] = history[n]

\* Transition has that effect.
LEMMA TransitionEffect ==
  ASSUME TypeOK, NEW m \in Meetings, NEW to \in Statuses, NEW ver \in Nat,
         NEW from \in Statuses \cup {"none"}, NEW saw \in Statuses \cup {"none"},
         Transition(m, to, ver, from, saw)
  PROVE  Written(m, to, ver, from, saw)
PROOF
<1> DEFINE e == [from |-> from, to |-> to, saw |-> saw]
<1>1. e \in Entry
  BY DEF Entry
<1>2. history[m] \in Seq(Entry)
  BY DEF TypeOK
<1>3. history' = [history EXCEPT ![m] = Append(history[m], e)]
  BY DEF Transition, TypeOK
<1>4. Append(history[m], e) \in Seq(Entry)
  BY <1>1, <1>2
<1>5. history' \in [Meetings -> Seq(Entry)] /\ history'[m] = Append(history[m], e)
      /\ \A n \in Meetings \ {m} : history'[n] = history[n]
  BY <1>3, <1>4 DEF TypeOK
<1>6. /\ Len(history'[m]) = Len(history[m]) + 1
      /\ history'[m][Len(history'[m])] = e
      /\ \A i \in DOMAIN history[m] : history'[m][i] = history[m][i]
  BY <1>1, <1>2, <1>5
<1>7. /\ status' \in [Meetings -> Statuses \cup {"none"}] /\ status'[m] = to
      /\ row_version' \in [Meetings -> Nat] /\ row_version'[m] = ver
      /\ \A n \in Meetings \ {m} : status'[n] = status[n] /\ row_version'[n] = row_version[n]
  BY DEF Transition, TypeOK
<1> QED
  BY <1>5, <1>6, <1>7 DEF Written

\* Moving slots keeps the slot columns well typed.
LEMMA MoveSlotsType ==
  ASSUME TypeOK, NEW take, NEW free, MoveSlots(take, free)
  PROVE  /\ reserved_count' \in [Slots -> Nat]
         /\ slot_status' \in [Slots -> SlotStatus]
         /\ started' \in SUBSET Slots
PROOF
<1>1. \A s \in Slots : reserved_count[s] > 0 => reserved_count[s] - 1 \in Nat
  BY DEF TypeOK
<1>2. \A s \in Slots : StatusAfterReserve(s) \in SlotStatus /\ StatusAfterRelease(s) \in SlotStatus
  BY DEF TypeOK, StatusAfterReserve, StatusAfterRelease, SlotStatus
<1> QED
  BY <1>1, <1>2 DEF MoveSlots, TypeOK

\* In a well-typed state of a logged meeting the caller's view is a status.
LEMMA SawType ==
  ASSUME TypeOK, Logged, NEW m \in Meetings, NEW v, NEW from \in SUBSET Live,
         Current(m, v, from)
  PROVE  /\ Saw(m, v) = status[m] /\ v = row_version[m]
         /\ status[m] \in from /\ status[m] \in Live
         /\ row_version[m] + 1 \in Nat
PROOF
<1>1. v = row_version[m] /\ status[m] # "none" /\ status[m] \in from /\ status[m] \in Live
  BY DEF Current
<1>2. row_version[m] \in Nat
  BY DEF TypeOK
<1>3. Len(history[m]) = row_version[m] + 1 /\ history[m][Len(history[m])].to = status[m]
  BY <1>1 DEF Logged
<1> QED
  BY <1>1, <1>2, <1>3 DEF Saw

\* What a staff member who is recording an outcome has read.
OutcomeRecords == [kind : {"outcome"}, m : Meetings, st : {"accepted", "completed"},
                   ver : Nat, had : BOOLEAN]

\* The pending task of such a staff member is one of those records.
LEMMA OutcomeTask ==
  ASSUME TypeOK, NEW p \in Staff, task[p].kind = "outcome"
  PROVE  /\ task[p] \in OutcomeRecords
         /\ task[p].m \in Meetings
         /\ task[p].st \in {"accepted", "completed"}
         /\ task[p].ver \in Nat
PROOF
<1>1. task[p] \in OutcomeRecords
  BY DEF TypeOK, Task, Idle, OutcomeRecords
<1> QED
  BY <1>1 DEF OutcomeRecords

\* The same for a member who is reading a summary.
LEMMA SummaryTask ==
  ASSUME NEW t \in Task, t.kind = "summary"
  PROVE  t.m \in Meetings /\ t.reveal \in BOOLEAN
<1>1. t \in [kind : {"summary"}, m : Meetings, reveal : BOOLEAN]
  BY DEF Task, Idle
<1> QED
  BY <1>1

\* A locked transition keeps the invariant's parts about status, version and
\* trail; an accepted meeting can only be cancelled by one.
LEMMA LockedTransition ==
  ASSUME CoreInv, NEW m \in Meetings, NEW v, NEW from \in SUBSET Live, Current(m, v, from),
         NEW to \in Statuses, status[m] = "accepted" => to = "cancelled",
         Transition(m, to, row_version[m] + 1, status[m], Saw(m, v)),
         UNCHANGED <<progress, task>>
  PROVE  /\ Fresh' /\ Logged' /\ OutcomePending'
         /\ status' \in [Meetings -> Statuses \cup {"none"}]
         /\ row_version' \in [Meetings -> Nat]
         /\ history' \in [Meetings -> Seq(Entry)]
PROOF
<1> USE DEF CoreInv
<1>1. /\ Saw(m, v) = status[m] /\ status[m] \in Live /\ row_version[m] + 1 \in Nat
  BY SawType
<1>2. status[m] \in Statuses \cup {"none"}
  BY DEF TypeOK
<1>3. Written(m, to, row_version[m] + 1, status[m], Saw(m, v))
  <2>1. Saw(m, v) \in Statuses \cup {"none"}
    BY <1>1, <1>2
  <2> QED
    BY <1>1, <1>2, <2>1, TransitionEffect
<1>4. Fresh'
  BY <1>1, <1>3 DEF Fresh, Live, Written
<1>5. Logged'
  <2>1. row_version[m] \in Nat /\ Len(history[m]) = row_version[m] + 1
    BY <1>1 DEF Logged, TypeOK, Live
  <2>2. ASSUME NEW n \in Meetings
        PROVE  IF status'[n] = "none" THEN history'[n] = <<>> ELSE
               /\ row_version'[n] < Len(history'[n])
               /\ history'[n][Len(history'[n])].to = status'[n]
               /\ status'[n] \in Live => Len(history'[n]) = row_version'[n] + 1
    <3>1. CASE n = m
      BY <1>3, <2>1, <3>1 DEF Written, Statuses, Live
    <3>2. CASE n # m
      BY <1>3, <3>2 DEF Logged, Written
    <3> QED
      BY <3>1, <3>2
  <2> QED
    BY <2>2 DEF Logged
<1>6. OutcomePending'
  <2>1. Len(history[m]) \in Nat
    BY DEF TypeOK
  <2>2. ASSUME NEW p \in Staff, task[p].kind = "outcome"
        PROVE  /\ status'[task[p].m] \in {"accepted", "cancelled", "completed"}
               /\ task[p].ver < Len(history'[task[p].m])
               /\ task[p].st = "completed" => status'[task[p].m] = "completed"
    <3>1. /\ task[p].m \in Meetings /\ task[p].ver \in Nat
          /\ status[task[p].m] \in {"accepted", "cancelled", "completed"}
          /\ task[p].ver < Len(history[task[p].m])
          /\ task[p].st = "completed" => status[task[p].m] = "completed"
      BY <2>2, OutcomeTask DEF OutcomePending
    <3>2. CASE task[p].m = m
      <4>1. status[m] = "accepted" /\ status'[m] = "cancelled"
        BY <1>1, <1>3, <3>1, <3>2 DEF Live, Written
      <4>2. task[p].ver < Len(history'[m])
        BY <1>3, <2>1, <3>1, <3>2 DEF Written
      <4> QED
        BY <3>1, <3>2, <4>1, <4>2
    <3>3. CASE task[p].m # m
      BY <1>3, <3>1, <3>3 DEF Written
    <3> QED
      BY <3>2, <3>3
  <2> QED
    BY <2>2 DEF OutcomePending
<1> QED
  BY <1>3, <1>4, <1>5, <1>6 DEF Written

\* Creation.
LEMMA CreateCore ==
  ASSUME CoreInv, NEW m \in Meetings, Create(m)
  PROVE  CoreInv'
PROOF
<1> USE DEF CoreInv
<1>1. ASSUME NEW b \in Buyers, NEW k \in Keys \cup {None}, BeginCreate(m, b, k)
      PROVE  CoreInv'
  <2>1. TypeOK'
    BY <1>1 DEF BeginCreate, TypeOK, slotVars, Progress
  <2>2. Fresh' /\ Logged' /\ OutcomePending'
    BY <1>1 DEF BeginCreate, Fresh, Logged, OutcomePending, TypeOK
  <2> QED
    BY <2>1, <2>2
<1>2. ASSUME NEW p \in Parts, NEW w \in Wishes, NEW i \in DOMAIN w, NEW c \in BOOLEAN,
             CommitCreate(m, p, w, i, c)
      PROVE  CoreInv'
  <2>1. Transition(m, "requested", 0, "none", "none") /\ status[m] = "none"
        /\ progress'[m] \in {"done", "committed"}
    BY <1>2 DEF CommitCreate, Fresh, TypeOK
  <2>2. Written(m, "requested", 0, "none", "none")
    BY <2>1, TransitionEffect DEF Statuses, Live
  <2>3. /\ reserved_count' \in [Slots -> Nat]
        /\ slot_status' \in [Slots -> SlotStatus]
        /\ started' \in SUBSET Slots
    BY <1>2, MoveSlotsType DEF CommitCreate
  <2>4. w[i] \in Slots
    BY ConstantsAssumption
  <2>5. TypeOK'
    <3>1. slot_request' \in [Meetings -> [Slots -> ReqStatus]]
      BY <1>2 DEF CommitCreate, TypeOK, ReqStatus
    <3>2. /\ part' \in [Meetings -> Parts \cup {None}]
          /\ staff_id' \in [Meetings -> Staff \cup {None}]
          /\ contact_share' \in [Meetings -> SUBSET Gates]
      BY <1>2, <2>4, ConstantsAssumption DEF CommitCreate, TypeOK, Gates
    <3>3. progress' \in [Meetings -> Progress]
      BY <1>2 DEF CommitCreate, TypeOK, Progress
    <3>4. /\ status' \in [Meetings -> Statuses \cup {"none"}]
          /\ row_version' \in [Meetings -> Nat]
          /\ history' \in [Meetings -> Seq(Entry)]
      BY <2>2 DEF Written
    <3> QED
      BY <1>2, <2>3, <3>1, <3>2, <3>3, <3>4 DEF CommitCreate, TypeOK
  <2>6. Fresh'
    BY <1>2, <2>1, <2>2 DEF CommitCreate, Fresh, TypeOK, Written
  <2>7. Logged'
    <3>1. /\ status'[m] = "requested" /\ row_version'[m] = 0
          /\ Len(history'[m]) = Len(history[m]) + 1
          /\ history'[m][Len(history'[m])].to = "requested"
      BY <2>2 DEF Written
    <3>2. Len(history'[m]) = 1 /\ row_version'[m] < 1 /\ 1 = row_version'[m] + 1
      BY <2>1, <3>1 DEF Logged
    <3>3. ASSUME NEW n \in Meetings
          PROVE  IF status'[n] = "none" THEN history'[n] = <<>> ELSE
                 /\ row_version'[n] < Len(history'[n])
                 /\ history'[n][Len(history'[n])].to = status'[n]
                 /\ status'[n] \in Live => Len(history'[n]) = row_version'[n] + 1
      <4>1. CASE n = m
        <5>1. /\ row_version'[m] < Len(history'[m])
              /\ Len(history'[m]) = row_version'[m] + 1
          BY <3>2
        <5> QED
          BY <3>1, <4>1, <5>1, Zenon
      <4>2. CASE n # m
        BY <2>2, <4>2 DEF Logged, Written
      <4> QED
        BY <4>1, <4>2
    <3> QED
      BY <3>3 DEF Logged
  <2>8. OutcomePending'
    <3>1. ASSUME NEW q \in Staff, task[q].kind = "outcome"
          PROVE  task[q].m \in Meetings /\ task[q].m # m
      BY <2>1, <3>1, OutcomeTask DEF OutcomePending
    <3>2. task' = task
      BY <1>2 DEF CommitCreate
    <3> QED
      BY <2>2, <3>1, <3>2 DEF OutcomePending, Written
  <2> QED
    BY <2>5, <2>6, <2>7, <2>8
<1>3. ASSUME NEW p \in Parts, NEW w \in Wishes, RefuseCreate(m, p, w)
      PROVE  CoreInv'
  <2>1. TypeOK'
    BY <1>3 DEF RefuseCreate, TypeOK, slotVars, rowVars, Progress
  <2>2. Fresh' /\ Logged' /\ OutcomePending'
    BY <1>3 DEF RefuseCreate, Fresh, Logged, OutcomePending, TypeOK, rowVars
  <2> QED
    BY <2>1, <2>2
<1>4. ASSUME StoreCreate(m)
      PROVE  CoreInv'
  <2>1. cache' \in [Buyers \X Keys -> Meetings \cup {None}]
    <3> DEFINE k == <<buyer[m], req_key[m]>>
    <3>1. cache' = [cache EXCEPT ![k] = m]
      BY <1>4 DEF StoreCreate
    <3> HIDE DEF k
    <3> QED
      BY <3>1 DEF TypeOK
  <2>3. progress' \in [Meetings -> Progress]
    BY <1>4 DEF StoreCreate, TypeOK, Progress
  <2>4. TypeOK'
    BY <1>4, <2>1, <2>3 DEF StoreCreate, TypeOK, slotVars, rowVars
  <2>2. Fresh' /\ Logged' /\ OutcomePending'
    BY <1>4 DEF StoreCreate, Fresh, Logged, OutcomePending, TypeOK, rowVars
  <2> QED
    BY <2>4, <2>2
<1> QED
  BY <1>1, <1>2, <1>3, <1>4 DEF Create

\* Giving back the slots of a meeting keeps the slot columns well typed.
LEMMA ReleaseAllType ==
  ASSUME TypeOK, NEW m \in Meetings, ReleaseAll(m)
  PROVE  /\ reserved_count' \in [Slots -> Nat]
         /\ slot_status' \in [Slots -> SlotStatus]
         /\ started' \in SUBSET Slots
         /\ slot_request' \in [Meetings -> [Slots -> ReqStatus]]
PROOF
<1>1. slot_request' \in [Meetings -> [Slots -> ReqStatus]]
  BY DEF ReleaseAll, TypeOK, ReqStatus
<1> QED
  BY <1>1, MoveSlotsType DEF ReleaseAll

\* So does settling a meeting on one slot.
LEMMA SwitchToType ==
  ASSUME TypeOK, NEW m \in Meetings, NEW s \in Slots, SwitchTo(m, s)
  PROVE  /\ reserved_count' \in [Slots -> Nat]
         /\ slot_status' \in [Slots -> SlotStatus]
         /\ started' \in SUBSET Slots
         /\ slot_request' \in [Meetings -> [Slots -> ReqStatus]]
PROOF
<1>1. slot_request' \in [Meetings -> [Slots -> ReqStatus]]
  BY DEF SwitchTo, TypeOK, ReqStatus
<1>2. MoveSlots({s} \ Held(m), Held(m) \ {s})
  BY DEF SwitchTo
<1> QED
  BY <1>1, <1>2, MoveSlotsType

\* The buyer's cancellation and answers.
LEMMA BuyerCore ==
  ASSUME CoreInv, NEW m \in Meetings, BuyerStep(m)
  PROVE  CoreInv'
PROOF
<1> USE DEF CoreInv
<1>1. {"requested", "accepted", "counter_proposed"} \in SUBSET Live
      /\ {"counter_proposed"} \in SUBSET Live
      /\ "cancelled" \in Statuses /\ "accepted" \in Statuses
  BY DEF Live, Statuses
<1>2. ASSUME NEW v \in 0..row_version[m], BuyerCancel(m, v)
      PROVE  CoreInv'
  <2>1. /\ Fresh' /\ Logged' /\ OutcomePending'
        /\ status' \in [Meetings -> Statuses \cup {"none"}]
        /\ row_version' \in [Meetings -> Nat]
        /\ history' \in [Meetings -> Seq(Entry)]
    BY <1>1, <1>2, LockedTransition DEF BuyerCancel, reqVars
  <2>2. TypeOK'
    BY <1>2, <2>1, ReleaseAllType DEF BuyerCancel, TypeOK, reqVars
  <2> QED
    BY <2>1, <2>2
<1>3. ASSUME NEW v \in 0..row_version[m], NEW s \in Slots, RespondAccept(m, v, s)
      PROVE  CoreInv'
  <2>1. /\ Fresh' /\ Logged' /\ OutcomePending'
        /\ status' \in [Meetings -> Statuses \cup {"none"}]
        /\ row_version' \in [Meetings -> Nat]
        /\ history' \in [Meetings -> Seq(Entry)]
    <3>1. Current(m, v, {"counter_proposed"}) /\ status[m] # "accepted"
      BY <1>3 DEF RespondAccept, Current
    <3> QED
      BY <1>1, <1>3, <3>1, LockedTransition DEF RespondAccept, reqVars
  <2>2. TypeOK'
    BY <1>3, <2>1 DEF RespondAccept, TypeOK, reqVars, slotVars
  <2> QED
    BY <2>1, <2>2
<1>4. ASSUME NEW v \in 0..row_version[m], RespondDecline(m, v)
      PROVE  CoreInv'
  <2>1. /\ Fresh' /\ Logged' /\ OutcomePending'
        /\ status' \in [Meetings -> Statuses \cup {"none"}]
        /\ row_version' \in [Meetings -> Nat]
        /\ history' \in [Meetings -> Seq(Entry)]
    BY <1>1, <1>4, LockedTransition DEF RespondDecline, reqVars
  <2>2. TypeOK'
    BY <1>4, <2>1, ReleaseAllType DEF RespondDecline, TypeOK, reqVars
  <2> QED
    BY <2>1, <2>2
<1> QED
  BY <1>2, <1>3, <1>4 DEF BuyerStep

\* The exhibitor's decisions.
LEMMA DecideCore ==
  ASSUME CoreInv, NEW m \in Meetings, Decide(m)
  PROVE  CoreInv'
PROOF
<1> USE DEF CoreInv
<1>1. {"requested", "counter_proposed"} \in SUBSET Live /\ {"requested"} \in SUBSET Live
      /\ {"accepted", "counter_proposed", "rejected"} \subseteq Statuses
  BY DEF Live, Statuses
<1>2. ASSUME NEW v \in 0..row_version[m], NEW p \in Staff, NEW s \in Slots,
             NEW e \in BOOLEAN, DecideAccept(m, v, p, s, e)
      PROVE  CoreInv'
  <2>1. /\ Fresh' /\ Logged' /\ OutcomePending'
        /\ status' \in [Meetings -> Statuses \cup {"none"}]
        /\ row_version' \in [Meetings -> Nat]
        /\ history' \in [Meetings -> Seq(Entry)]
    <3>1. Current(m, v, {"requested", "counter_proposed"}) /\ status[m] # "accepted"
      BY <1>2 DEF DecideAccept, Current
    <3> QED
      BY <1>1, <1>2, <3>1, LockedTransition DEF DecideAccept, reqVars
  <2>2. /\ staff_id' \in [Meetings -> Staff \cup {None}]
        /\ confirmed_slot' \in [Meetings -> Slots \cup {None}]
        /\ contact_share' \in [Meetings -> SUBSET Gates]
    BY <1>2 DEF DecideAccept, TypeOK, Gates
  <2>3. TypeOK'
    BY <1>2, <2>1, <2>2, SwitchToType DEF DecideAccept, TypeOK, reqVars
  <2> QED
    BY <2>1, <2>3
<1>3. ASSUME NEW v \in 0..row_version[m], NEW p \in Staff, NEW s \in Slots,
             DecideCounter(m, v, p, s)
      PROVE  CoreInv'
  <2>1. /\ Fresh' /\ Logged' /\ OutcomePending'
        /\ status' \in [Meetings -> Statuses \cup {"none"}]
        /\ row_version' \in [Meetings -> Nat]
        /\ history' \in [Meetings -> Seq(Entry)]
    <3>1. Current(m, v, {"requested"}) /\ status[m] # "accepted"
      BY <1>3 DEF DecideCounter, Current
    <3> QED
      BY <1>1, <1>3, <3>1, LockedTransition DEF DecideCounter, reqVars
  <2>2. TypeOK'
    BY <1>3, <2>1, SwitchToType DEF DecideCounter, TypeOK, reqVars
  <2> QED
    BY <2>1, <2>2
<1>4. ASSUME NEW v \in 0..row_version[m], NEW p \in Staff, DecideReject(m, v, p)
      PROVE  CoreInv'
  <2>1. /\ Fresh' /\ Logged' /\ OutcomePending'
        /\ status' \in [Meetings -> Statuses \cup {"none"}]
        /\ row_version' \in [Meetings -> Nat]
        /\ history' \in [Meetings -> Seq(Entry)]
    <3>1. Current(m, v, {"requested", "counter_proposed"}) /\ status[m] # "accepted"
      BY <1>4 DEF DecideReject, Current
    <3> QED
      BY <1>1, <1>4, <3>1, LockedTransition DEF DecideReject, reqVars
  <2>2. TypeOK'
    BY <1>4, <2>1, ReleaseAllType DEF DecideReject, TypeOK, reqVars
  <2> QED
    BY <2>1, <2>2
<1> QED
  BY <1>2, <1>3, <1>4 DEF Decide

\* The handlers without a row lock.
LEMMA UnlockedCore ==
  ASSUME CoreInv, NEW p \in Staff, Unlocked(p)
  PROVE  CoreInv'
PROOF
<1> USE DEF CoreInv
<1>1. ASSUME NEW m \in Meetings, OutcomeRead(p, m)
      PROVE  CoreInv'
  <2> DEFINE t == [kind |-> "outcome", m |-> m, st |-> status[m],
                   ver |-> row_version[m], had |-> m \in lead]
  <2>1. t \in OutcomeRecords /\ task' = [task EXCEPT ![p] = t]
    BY <1>1 DEF OutcomeRead, TypeOK, OutcomeRecords
  <2>2. OutcomeRecords \subseteq Task
    BY DEF OutcomeRecords, Task
  <2>3. TypeOK'
    <3> HIDE DEF t
    <3>1. task' \in [Staff -> Task]
      BY <2>1, <2>2 DEF TypeOK
    <3> QED
      BY <1>1, <3>1 DEF OutcomeRead, TypeOK, slotVars, rowVars, reqVars
  <2>4. Fresh' /\ Logged'
    BY <1>1 DEF OutcomeRead, Fresh, Logged, rowVars, reqVars
  <2>5. OutcomePending'
    <3>1. status' = status /\ history' = history
      BY <1>1 DEF OutcomeRead, rowVars
    <3>2. task'[p] = t /\ \A q \in Staff \ {p} : task'[q] = task[q]
      BY <2>1 DEF TypeOK
    <3>3. status[m] \in {"accepted", "completed"} /\ row_version[m] < Len(history[m])
      BY <1>1 DEF OutcomeRead, Logged
    <3>4. ASSUME NEW q \in Staff, task'[q].kind = "outcome"
          PROVE  /\ status[task'[q].m] \in {"accepted", "cancelled", "completed"}
                 /\ task'[q].ver < Len(history[task'[q].m])
                 /\ task'[q].st = "completed" => status[task'[q].m] = "completed"
      <4>1. CASE q = p
        BY <3>2, <3>3, <4>1
      <4>2. CASE q # p
        BY <3>2, <3>4, <4>2 DEF OutcomePending
      <4> QED
        BY <4>1, <4>2
    <3> QED
      BY <3>1, <3>4 DEF OutcomePending
  <2> QED
    BY <2>3, <2>4, <2>5
<1>2. ASSUME NEW m \in Meetings, SummaryRead(p, m)
      PROVE  CoreInv'
  <2> DEFINE t == [kind |-> "summary", m |-> m, reveal |-> RevealAllowed(m)]
  <2>1. t \in Task /\ task' = [task EXCEPT ![p] = t] /\ t.kind = "summary"
    BY <1>2 DEF SummaryRead, Task, RevealAllowed
  <2> HIDE DEF t
  <2>2. TypeOK'
    <3>1. task' \in [Staff -> Task]
      BY <2>1 DEF TypeOK
    <3> QED
      BY <1>2, <3>1 DEF SummaryRead, TypeOK, slotVars, rowVars, reqVars
  <2>3. Fresh' /\ Logged'
    BY <1>2 DEF SummaryRead, Fresh, Logged, rowVars, reqVars
  <2>4. OutcomePending'
    <3>1. status' = status /\ history' = history
      BY <1>2 DEF SummaryRead, rowVars
    <3>2. task'[p].kind # "outcome" /\ \A q \in Staff \ {p} : task'[q] = task[q]
      BY <2>1 DEF TypeOK
    <3> QED
      BY <3>1, <3>2 DEF OutcomePending
  <2> QED
    BY <2>2, <2>3, <2>4
<1>3. ASSUME OutcomeCommit(p)
      PROVE  CoreInv'
  <2> DEFINE t == task[p]
  <2>1. /\ t.m \in Meetings /\ t.st \in {"accepted", "completed"} /\ t.ver \in Nat
        /\ status[t.m] \in {"accepted", "cancelled", "completed"}
        /\ t.ver < Len(history[t.m])
        /\ t.kind = "outcome"
    BY <1>3, OutcomeTask DEF OutcomeCommit, OutcomePending
  <2>2. /\ task' = [task EXCEPT ![p] = Idle]
        /\ task' \in [Staff -> Task]
        /\ task'[p].kind = "idle"
        /\ \A q \in Staff \ {p} : task'[q] = task[q]
    BY <1>3 DEF OutcomeCommit, TypeOK, Task, Idle
  <2> HIDE DEF t
  <2>3. CASE t.st # "accepted"
    <3>1. UNCHANGED <<status, row_version, history, progress>>
      BY <1>3, <2>3 DEF OutcomeCommit, t, reqVars
    <3>2. TypeOK'
      BY <1>3, <2>1, <2>2, <3>1 DEF OutcomeCommit, TypeOK, slotVars, reqVars, t
    <3>3. Fresh' /\ Logged'
      BY <3>1 DEF Fresh, Logged
    <3>4. OutcomePending'
      BY <2>2, <3>1 DEF OutcomePending
    <3> QED
      BY <3>2, <3>3, <3>4
  <2>4. CASE t.st = "accepted"
    <3>1. Transition(t.m, "completed", t.ver + 1, t.st, t.st)
      BY <1>3, <2>4 DEF OutcomeCommit, t
    <3>2. Written(t.m, "completed", t.ver + 1, t.st, t.st)
      <4>1. t.st \in Statuses \cup {"none"} /\ "completed" \in Statuses /\ t.ver + 1 \in Nat
        BY <2>1 DEF Statuses, Live
      <4> QED
        BY <2>1, <3>1, <4>1, TransitionEffect
    <3>3. TypeOK'
      BY <1>3, <2>1, <2>2, <3>2 DEF OutcomeCommit, TypeOK, slotVars, reqVars, t, Written
    <3>4. progress' = progress
      BY <1>3 DEF OutcomeCommit, reqVars
    <3>5. Fresh'
      BY <2>1, <3>2, <3>4 DEF Fresh, Written
    <3>6. Len(history[t.m]) \in Nat
      BY <2>1 DEF TypeOK
    <3>7. Logged'
      <4>1. ASSUME NEW n \in Meetings
            PROVE  IF status'[n] = "none" THEN history'[n] = <<>> ELSE
                   /\ row_version'[n] < Len(history'[n])
                   /\ history'[n][Len(history'[n])].to = status'[n]
                   /\ status'[n] \in Live => Len(history'[n]) = row_version'[n] + 1
        <5>1. CASE n = t.m
          <6>1. row_version'[n] < Len(history'[n])
            BY <2>1, <3>2, <3>6, <5>1 DEF Written
          <6>2. status'[n] = "completed" /\ history'[n][Len(history'[n])].to = "completed"
            BY <3>2, <5>1 DEF Written
          <6>3. "completed" # "none" /\ "completed" \notin Live
            BY DEF Live
          <6> QED
            BY <6>1, <6>2, <6>3
        <5>2. CASE n # t.m
          BY <3>2, <5>2 DEF Written, Logged
        <5> QED
          BY <5>1, <5>2
      <4> QED
        BY <4>1 DEF Logged
    <3>8. OutcomePending'
      <4>1. ASSUME NEW q \in Staff, task'[q].kind = "outcome"
            PROVE  /\ status'[task'[q].m] \in {"accepted", "cancelled", "completed"}
                   /\ task'[q].ver < Len(history'[task'[q].m])
                   /\ task'[q].st = "completed" => status'[task'[q].m] = "completed"
        <5>1. q # p /\ task'[q] = task[q]
          BY <2>2, <4>1
        <5>2. /\ task[q].m \in Meetings /\ task[q].ver \in Nat
              /\ status[task[q].m] \in {"accepted", "cancelled", "completed"}
              /\ task[q].ver < Len(history[task[q].m])
              /\ task[q].st = "completed" => status[task[q].m] = "completed"
          BY <4>1, <5>1, OutcomeTask DEF OutcomePending
        <5>3. CASE task[q].m = t.m
          <6>1. status'[t.m] = "completed" /\ Len(history'[t.m]) = Len(history[t.m]) + 1
            BY <3>2 DEF Written
          <6>2. task[q].ver < Len(history'[t.m])
            BY <3>6, <5>2, <5>3, <6>1
          <6> QED
            BY <5>1, <5>3, <6>1, <6>2
        <5>4. CASE task[q].m # t.m
          BY <3>2, <5>1, <5>2, <5>4 DEF Written
        <5> QED
          BY <5>3, <5>4
      <4> QED
        BY <4>1 DEF OutcomePending
    <3> QED
      BY <3>3, <3>5, <3>7, <3>8
  <2> QED
    BY <2>3, <2>4
<1>4. ASSUME OutcomeDuplicate(p)
      PROVE  CoreInv'
  <2>1. /\ task' \in [Staff -> Task]
        /\ task'[p].kind = "idle"
        /\ \A q \in Staff \ {p} : task'[q] = task[q]
    BY <1>4 DEF OutcomeDuplicate, TypeOK, Task, Idle
  <2>2. TypeOK'
    BY <1>4, <2>1 DEF OutcomeDuplicate, TypeOK, slotVars, rowVars, reqVars
  <2>3. Fresh' /\ Logged'
    BY <1>4 DEF OutcomeDuplicate, Fresh, Logged, rowVars, reqVars
  <2>4. OutcomePending'
    BY <1>4, <2>1 DEF OutcomeDuplicate, OutcomePending, rowVars
  <2> QED
    BY <2>2, <2>3, <2>4
<1>5. ASSUME SummaryCommit(p)
      PROVE  CoreInv'
  <2>1. /\ task' \in [Staff -> Task]
        /\ task'[p].kind = "idle"
        /\ \A q \in Staff \ {p} : task'[q] = task[q]
    BY <1>5 DEF SummaryCommit, TypeOK, Task, Idle
  <2>2. contact_share' \in [Meetings -> SUBSET Gates]
    BY <1>5 DEF SummaryCommit, TypeOK, Gates
  <2>3. TypeOK'
    BY <1>5, <2>1, <2>2 DEF SummaryCommit, TypeOK, slotVars, reqVars
  <2>4. Fresh' /\ Logged'
    BY <1>5 DEF SummaryCommit, Fresh, Logged, reqVars
  <2>5. OutcomePending'
    BY <1>5, <2>1 DEF SummaryCommit, OutcomePending
  <2> QED
    BY <2>3, <2>4, <2>5
<1> QED
  BY <1>1, <1>2, <1>3, <1>4, <1>5 DEF Unlocked

\* Operators, the clock and restarts.
LEMMA EnvironmentCore ==
  ASSUME CoreInv, Environment
  PROVE  CoreInv'
PROOF
<1> USE DEF CoreInv
<1>1. ASSUME NEW s \in Blockable, BlockSlot(s)
      PROVE  CoreInv'
  <2>1. TypeOK'
    BY <1>1 DEF BlockSlot, TypeOK, rowVars, reqVars, SlotStatus
  <2>2. Fresh' /\ Logged' /\ OutcomePending'
    BY <1>1 DEF BlockSlot, Fresh, Logged, OutcomePending, rowVars, reqVars
  <2> QED
    BY <2>1, <2>2
<1>2. ASSUME NEW s \in Expiring, StartSlot(s)
      PROVE  CoreInv'
  <2>1. TypeOK'
    BY <1>2, ConstantsAssumption DEF StartSlot, TypeOK, rowVars, reqVars
  <2>2. Fresh' /\ Logged' /\ OutcomePending'
    BY <1>2 DEF StartSlot, Fresh, Logged, OutcomePending, rowVars, reqVars
  <2> QED
    BY <2>1, <2>2
<1>3. ASSUME Restart
      PROVE  CoreInv'
  <2>1. TypeOK'
    BY <1>3 DEF Restart, TypeOK, slotVars, rowVars, Progress, Task, Idle
  <2>2. Fresh' /\ Logged' /\ OutcomePending'
    BY <1>3 DEF Restart, Fresh, Logged, OutcomePending, rowVars, Idle, TypeOK
  <2> QED
    BY <2>1, <2>2
<1> QED
  BY <1>1, <1>2, <1>3 DEF Environment

-----------------------------------------------------------------------------
LEMMA CoreStep == CoreInv /\ [Next]_vars => CoreInv'
<1> SUFFICES ASSUME CoreInv, [Next]_vars PROVE CoreInv'
  OBVIOUS
<1>1. CASE UNCHANGED vars
  BY <1>1 DEF vars, slotVars, rowVars, reqVars, CoreInv, TypeOK, Fresh, Logged, OutcomePending
<1>2. ASSUME NEW m \in Meetings, Create(m) \/ BuyerStep(m) \/ Decide(m)
      PROVE  CoreInv'
  BY <1>2, CreateCore, BuyerCore, DecideCore
<1>3. ASSUME NEW p \in Staff, Unlocked(p)
      PROVE  CoreInv'
  BY <1>3, UnlockedCore
<1> QED
  BY <1>1, <1>2, <1>3, EnvironmentCore DEF Next

\* Every reachable state is well typed, every live meeting's audit trail counts
\* its versions, and a pending outcome belongs to a meeting that was accepted.
THEOREM CoreInvariant == Spec => []CoreInv
PROOF
<1>1. Init => CoreInv
  <2> SUFFICES ASSUME Init PROVE CoreInv
    OBVIOUS
  <2>1. TypeOK
    BY DEF Init, TypeOK, SlotStatus, ReqStatus, Progress, Task, Idle
  <2>2. Fresh /\ Logged /\ OutcomePending
    BY DEF Init, Fresh, Logged, OutcomePending, Idle
  <2> QED
    BY <2>1, <2>2 DEF CoreInv
<1> QED
  BY <1>1, CoreStep, PTL DEF Spec

\* Type correctness of the consultation workflow.
THEOREM TypeCorrect == Spec => []TypeOK
PROOF
<1>1. CoreInv => TypeOK
  BY DEF CoreInv
<1> QED
  BY <1>1, CoreInvariant, PTL

\* The audit trail of a meeting ends in the status of its row, whatever
\* handlers, locked or not, have written it.
THEOREM AuditTrailCorrect == Spec => []HistoryEndsInStatus
PROOF
<1>1. CoreInv => HistoryEndsInStatus
  <2> SUFFICES ASSUME CoreInv, NEW m \in Meetings, status[m] # "none"
               PROVE  history[m] # <<>> /\ history[m][Len(history[m])].to = status[m]
    BY DEF HistoryEndsInStatus
  <2>1. history[m] \in Seq(Entry) /\ row_version[m] \in Nat
    BY DEF CoreInv, TypeOK
  <2>2. row_version[m] < Len(history[m]) /\ history[m][Len(history[m])].to = status[m]
    BY DEF CoreInv, Logged
  <2> QED
    BY <2>1, <2>2
<1> QED
  BY <1>1, CoreInvariant, PTL

-----------------------------------------------------------------------------
(* The second invariant: who holds which slot, and what the slot row says.  *)

\* confirmed_slot_id is written by an acceptance only.
ConfirmedUnset == \A m \in Meetings :
  status[m] \in {"none", "requested", "counter_proposed"} => confirmed_slot[m] = None

SlotInv == HeldMatchesStatus /\ ConfirmedUnset /\ SlotAccounting /\ StatusMatchesCount

\* Taking slots a meeting does not hold, while they are open, and giving back
\* slots it holds keeps the counts equal to the number of holders.
LEMMA MoveSlotsAccounting ==
  ASSUME TypeOK, SlotAccounting, StatusMatchesCount,
         NEW m \in Meetings, NEW take \in SUBSET Slots, NEW free \in SUBSET Slots,
         take \cap Held(m) = {}, free \subseteq Held(m),
         \A s \in take : slot_status[s] = "OPEN" /\ reserved_count[s] < Capacity[s],
         MoveSlots(take, free),
         Held(m)' = (Held(m) \ free) \cup take,
         \A n \in Meetings \ {m} : Held(n)' = Held(n)
  PROVE  SlotAccounting' /\ StatusMatchesCount'
PROOF
<1>1. SUFFICES ASSUME NEW s \in Slots
               PROVE  /\ reserved_count'[s] = Cardinality(Holders(s)')
                      /\ reserved_count'[s] <= Capacity[s]
                      /\ slot_status'[s] # "BLOCKED" =>
                           (slot_status'[s] = "FULL" <=> reserved_count'[s] = Capacity[s])
  BY DEF SlotAccounting, StatusMatchesCount
<1>2. IsFiniteSet(Holders(s))
  BY ConstantsAssumption, FS_Subset DEF Holders
<1>3. /\ reserved_count[s] = Cardinality(Holders(s)) /\ reserved_count[s] <= Capacity[s]
      /\ slot_status[s] # "BLOCKED" =>
           (slot_status[s] = "FULL" <=> reserved_count[s] = Capacity[s])
      /\ reserved_count[s] \in Nat /\ Capacity[s] \in Nat \ {0}
      /\ slot_status[s] \in {"OPEN", "FULL", "BLOCKED"}
  BY ConstantsAssumption DEF SlotAccounting, StatusMatchesCount, TypeOK, SlotStatus
<1>4. CASE s \in take
  <2>1. Holders(s)' = Holders(s) \cup {m} /\ m \notin Holders(s)
    BY <1>4 DEF Holders
  <2>2. Cardinality(Holders(s)') = Cardinality(Holders(s)) + 1
    BY <1>2, <2>1, FS_AddElement
  <2>3. reserved_count'[s] = reserved_count[s] + 1 /\ slot_status'[s] = StatusAfterReserve(s)
    BY <1>4 DEF MoveSlots
  <2>4. slot_status[s] = "OPEN" /\ reserved_count[s] < Capacity[s]
    BY <1>4
  <2> QED
    BY <1>3, <2>2, <2>3, <2>4 DEF StatusAfterReserve
<1>5. CASE s \in free
  <2>1. Holders(s)' = Holders(s) \ {m} /\ m \in Holders(s) /\ s \notin take
    BY <1>5 DEF Holders
  <2>2. Cardinality(Holders(s)') = Cardinality(Holders(s)) - 1
    BY <1>2, <2>1, FS_RemoveElement
  <2>3. reserved_count[s] > 0
    BY <1>2, <1>3, <2>1, FS_EmptySet
  <2>4. reserved_count'[s] = reserved_count[s] - 1 /\ slot_status'[s] = StatusAfterRelease(s)
    BY <1>5, <2>1, <2>3 DEF MoveSlots
  <2> QED
    BY <1>3, <2>2, <2>3, <2>4 DEF StatusAfterRelease
<1>6. CASE s \notin take \cup free
  <2>1. Holders(s)' = Holders(s)
    BY <1>6 DEF Holders
  <2>2. reserved_count'[s] = reserved_count[s] /\ slot_status'[s] = slot_status[s]
    BY <1>6 DEF MoveSlots
  <2> QED
    BY <1>3, <2>1, <2>2
<1> QED
  BY <1>4, <1>5, <1>6

\* A live meeting gives back exactly the slots it holds.
LEMMA ReleaseAllEffect ==
  ASSUME CoreInv, SlotInv, NEW m \in Meetings, status[m] \in Live, ReleaseAll(m)
  PROVE  /\ Held(m)' = {}
         /\ \A n \in Meetings \ {m} : Held(n)' = Held(n)
         /\ SlotAccounting' /\ StatusMatchesCount'
PROOF
<1>1. Held(m) \cup ({confirmed_slot[m]} \ {None}) = Held(m)
  BY DEF SlotInv, HeldMatchesStatus, ConfirmedUnset, Live
<1>2. MoveSlots({}, Held(m)) /\ Held(m) \in SUBSET Slots
  BY <1>1 DEF ReleaseAll, Held
<1>3. Held(m)' = {} /\ \A n \in Meetings \ {m} : Held(n)' = Held(n)
  BY DEF ReleaseAll, Held, CoreInv, TypeOK
<1> QED
  BY <1>2, <1>3, MoveSlotsAccounting DEF CoreInv, SlotInv

\* Settling on one slot leaves the meeting with that slot only.
LEMMA SwitchToEffect ==
  ASSUME CoreInv, SlotInv, NEW m \in Meetings, NEW s \in Slots, SwitchTo(m, s)
  PROVE  /\ Held(m)' = {s}
         /\ \A n \in Meetings \ {m} : Held(n)' = Held(n)
         /\ SlotAccounting' /\ StatusMatchesCount'
PROOF
<1> DEFINE take == {s} \ Held(m)
           free == Held(m) \ {s}
<1>1. /\ take \in SUBSET Slots /\ free \in SUBSET Slots
      /\ take \cap Held(m) = {} /\ free \subseteq Held(m)
  BY DEF Held
<1>2. /\ MoveSlots(take, free)
      /\ \A t \in take : slot_status[t] = "OPEN" /\ reserved_count[t] < Capacity[t]
  BY DEF SwitchTo, Reservable
<1>3. Held(m)' = {s} /\ \A n \in Meetings \ {m} : Held(n)' = Held(n)
  BY DEF SwitchTo, Held, CoreInv, TypeOK
<1>4. Held(m)' = (Held(m) \ free) \cup take
  BY <1>3
<1> HIDE DEF take, free
<1> QED
  BY <1>1, <1>2, <1>3, <1>4, MoveSlotsAccounting DEF CoreInv, SlotInv

\* What SlotInv says of one meeting.
Settled(m) ==
  /\ status[m] \in {"requested", "counter_proposed"} => \E s \in Slots : Held(m) = {s}
  /\ status[m] = "accepted" => Held(m) = {confirmed_slot[m]}
  /\ status[m] \in {"none", "rejected", "cancelled"} => Held(m) = {}
  /\ status[m] = "completed" => Held(m) \subseteq {confirmed_slot[m]}
  /\ status[m] \in {"none", "requested", "counter_proposed"} => confirmed_slot[m] = None

\* A step that settles m and leaves the other meetings' rows alone settles all.
LEMMA SettleOne ==
  ASSUME SlotInv, NEW m \in Meetings, Settled(m)',
         \A n \in Meetings \ {m} : /\ Held(n)' = Held(n)
                                   /\ status'[n] = status[n]
                                   /\ confirmed_slot'[n] = confirmed_slot[n]
  PROVE  HeldMatchesStatus' /\ ConfirmedUnset'
PROOF
<1>1. \A n \in Meetings : Settled(n)
  BY DEF SlotInv, HeldMatchesStatus, ConfirmedUnset, Settled
<1>2. ASSUME NEW n \in Meetings
      PROVE  Settled(n)'
  <2>1. CASE n = m
    BY <2>1
  <2>2. CASE n # m
    BY <1>1, <2>2 DEF Settled
  <2> QED
    BY <2>1, <2>2
<1> QED
  BY <1>2 DEF HeldMatchesStatus, ConfirmedUnset, Settled

\* Slots, statuses and confirmations that do not change keep the invariant.
LEMMA SlotInvStutter ==
  ASSUME SlotInv,
         UNCHANGED <<reserved_count, slot_status, slot_request, status, confirmed_slot>>
  PROVE  SlotInv'
PROOF
<1>1. \A m \in Meetings : Held(m)' = Held(m)
  BY DEF Held
<1>2. \A s \in Slots : Holders(s)' = Holders(s)
  BY DEF Held, Holders
<1> QED
  BY <1>1, <1>2
     DEF SlotInv, HeldMatchesStatus, ConfirmedUnset, SlotAccounting, StatusMatchesCount

\* Creation takes one slot for a meeting that held none.
LEMMA CreateSlots ==
  ASSUME CoreInv, SlotInv, NEW m \in Meetings, Create(m)
  PROVE  SlotInv'
PROOF
<1>1. ASSUME NEW b \in Buyers, NEW k \in Keys \cup {None}, BeginCreate(m, b, k)
      PROVE  SlotInv'
  BY <1>1, SlotInvStutter DEF BeginCreate, slotVars
<1>2. ASSUME NEW p \in Parts, NEW w \in Wishes, NEW i \in DOMAIN w, NEW c \in BOOLEAN,
             CommitCreate(m, p, w, i, c)
      PROVE  SlotInv'
  <2> DEFINE s == w[i]
  <2>1. s \in Slots
    BY ConstantsAssumption
  <2>2. status[m] = "none" /\ Held(m) = {} /\ confirmed_slot[m] = None
    BY <1>2 DEF CommitCreate, CoreInv, Fresh, SlotInv, HeldMatchesStatus, ConfirmedUnset
  <2>3. /\ MoveSlots({s}, {})
        /\ slot_status[s] = "OPEN" /\ reserved_count[s] < Capacity[s]
    BY <1>2 DEF CommitCreate, Reservable
  <2>4. Held(m)' = {s} /\ \A n \in Meetings \ {m} : Held(n)' = Held(n)
    BY <1>2, <2>1 DEF CommitCreate, Held, CoreInv, TypeOK
  <2>5. /\ status'[m] = "requested" /\ confirmed_slot' = confirmed_slot
        /\ \A n \in Meetings \ {m} : status'[n] = status[n]
    BY <1>2 DEF CommitCreate, Transition, CoreInv, TypeOK
  <2> HIDE DEF s
  <2>6. SlotAccounting' /\ StatusMatchesCount'
    <3>1. /\ {s} \in SUBSET Slots /\ {} \in SUBSET Slots
          /\ {s} \cap Held(m) = {} /\ {} \subseteq Held(m)
          /\ \A t \in {s} : slot_status[t] = "OPEN" /\ reserved_count[t] < Capacity[t]
          /\ Held(m)' = (Held(m) \ {}) \cup {s}
      BY <2>1, <2>2, <2>3, <2>4
    <3> QED
      BY <2>3, <2>4, <3>1, MoveSlotsAccounting DEF CoreInv, SlotInv
  <2>7. Settled(m)'
    BY <2>1, <2>2, <2>4, <2>5 DEF Settled
  <2> QED
    BY <2>4, <2>5, <2>6, <2>7, SettleOne DEF SlotInv
<1>3. ASSUME NEW p \in Parts, NEW w \in Wishes, RefuseCreate(m, p, w)
      PROVE  SlotInv'
  BY <1>3, SlotInvStutter DEF RefuseCreate, slotVars, rowVars
<1>4. ASSUME StoreCreate(m)
      PROVE  SlotInv'
  BY <1>4, SlotInvStutter DEF StoreCreate, slotVars, rowVars
<1> QED
  BY <1>1, <1>2, <1>3, <1>4 DEF Create

\* A handler that ends a live meeting gives its slots back.
LEMMA EndSlots ==
  ASSUME CoreInv, SlotInv, NEW m \in Meetings, status[m] \in Live, ReleaseAll(m),
         NEW to \in {"rejected", "cancelled"}, NEW ver, NEW from, NEW saw,
         Transition(m, to, ver, from, saw), UNCHANGED confirmed_slot
  PROVE  SlotInv'
PROOF
<1>1. Held(m)' = {} /\ \A n \in Meetings \ {m} : Held(n)' = Held(n)
  BY ReleaseAllEffect
<1>2. SlotAccounting' /\ StatusMatchesCount'
  BY ReleaseAllEffect
<1>3. status'[m] = to /\ \A n \in Meetings \ {m} : status'[n] = status[n]
  BY DEF Transition, CoreInv, TypeOK
<1>4. Settled(m)'
  BY <1>1, <1>3 DEF Settled
<1> QED
  BY <1>1, <1>2, <1>3, <1>4, SettleOne DEF SlotInv

\* The buyer's cancellation and answers.
LEMMA BuyerSlots ==
  ASSUME CoreInv, SlotInv, NEW m \in Meetings, BuyerStep(m)
  PROVE  SlotInv'
PROOF
<1>1. ASSUME NEW v \in 0..row_version[m], BuyerCancel(m, v)
      PROVE  SlotInv'
  <2>1. status[m] \in Live
    BY <1>1 DEF BuyerCancel, Current, Live
  <2> QED
    BY <1>1, <2>1, EndSlots DEF BuyerCancel
<1>2. ASSUME NEW v \in 0..row_version[m], NEW s \in Slots, RespondAccept(m, v, s)
      PROVE  SlotInv'
  <2>1. Held(m) = {s}
    BY <1>2 DEF RespondAccept, Current, SlotInv, HeldMatchesStatus
  <2>2. \A n \in Meetings : Held(n)' = Held(n)
    BY <1>2 DEF RespondAccept, Held
  <2>3. /\ status'[m] = "accepted" /\ confirmed_slot'[m] = s
        /\ \A n \in Meetings \ {m} : /\ status'[n] = status[n]
                                     /\ confirmed_slot'[n] = confirmed_slot[n]
    BY <1>2 DEF RespondAccept, Transition, CoreInv, TypeOK
  <2>4. SlotAccounting' /\ StatusMatchesCount'
    <3>1. UNCHANGED <<reserved_count, slot_status>> /\ \A t \in Slots : Holders(t)' = Holders(t)
      BY <1>2, <2>2 DEF RespondAccept, slotVars, Holders
    <3> QED
      BY <3>1 DEF SlotInv, SlotAccounting, StatusMatchesCount
  <2>5. Settled(m)'
    BY <2>1, <2>2, <2>3 DEF Settled
  <2> QED
    BY <2>2, <2>3, <2>4, <2>5, SettleOne DEF SlotInv
<1>3. ASSUME NEW v \in 0..row_version[m], RespondDecline(m, v)
      PROVE  SlotInv'
  <2>1. status[m] \in Live
    BY <1>3 DEF RespondDecline, Current, Live
  <2> QED
    BY <1>3, <2>1, EndSlots DEF RespondDecline
<1> QED
  BY <1>1, <1>2, <1>3 DEF BuyerStep

\* The exhibitor's decisions.
LEMMA DecideSlots ==
  ASSUME CoreInv, SlotInv, NEW m \in Meetings, Decide(m)
  PROVE  SlotInv'
PROOF
<1>1. ASSUME NEW v \in 0..row_version[m], NEW p \in Staff, NEW s \in Slots,
             NEW e \in BOOLEAN, DecideAccept(m, v, p, s, e)
      PROVE  SlotInv'
  <2>1. /\ Held(m)' = {s} /\ \A n \in Meetings \ {m} : Held(n)' = Held(n)
        /\ SlotAccounting' /\ StatusMatchesCount'
    BY <1>1, SwitchToEffect DEF DecideAccept
  <2>2. /\ status'[m] = "accepted" /\ confirmed_slot'[m] = s
        /\ \A n \in Meetings \ {m} : /\ status'[n] = status[n]
                                     /\ confirmed_slot'[n] = confirmed_slot[n]
    BY <1>1 DEF DecideAccept, Transition, CoreInv, TypeOK
  <2>3. Settled(m)'
    BY <2>1, <2>2 DEF Settled
  <2> QED
    BY <2>1, <2>2, <2>3, SettleOne DEF SlotInv
<1>2. ASSUME NEW v \in 0..row_version[m], NEW p \in Staff, NEW s \in Slots,
             DecideCounter(m, v, p, s)
      PROVE  SlotInv'
  <2>1. /\ Held(m)' = {s} /\ \A n \in Meetings \ {m} : Held(n)' = Held(n)
        /\ SlotAccounting' /\ StatusMatchesCount'
    BY <1>2, SwitchToEffect DEF DecideCounter
  <2>2. /\ status'[m] = "counter_proposed" /\ confirmed_slot' = confirmed_slot
        /\ \A n \in Meetings \ {m} : status'[n] = status[n]
    BY <1>2 DEF DecideCounter, Transition, CoreInv, TypeOK
  <2>3. confirmed_slot[m] = None
    BY <1>2 DEF DecideCounter, Current, SlotInv, ConfirmedUnset
  <2>4. Settled(m)'
    BY <2>1, <2>2, <2>3 DEF Settled
  <2> QED
    BY <2>1, <2>2, <2>4, SettleOne DEF SlotInv
<1>3. ASSUME NEW v \in 0..row_version[m], NEW p \in Staff, DecideReject(m, v, p)
      PROVE  SlotInv'
  <2>1. status[m] \in Live
    BY <1>3 DEF DecideReject, Current, Live
  <2> QED
    BY <1>3, <2>1, EndSlots DEF DecideReject
<1> QED
  BY <1>1, <1>2, <1>3 DEF Decide

\* An outcome moves no slot; it completes a meeting that was accepted or, when
\* it overwrites a cancellation, holds nothing.
LEMMA UnlockedSlots ==
  ASSUME CoreInv, SlotInv, NEW p \in Staff, Unlocked(p)
  PROVE  SlotInv'
PROOF
<1>1. ASSUME NEW m \in Meetings, OutcomeRead(p, m) \/ SummaryRead(p, m)
      PROVE  SlotInv'
  BY <1>1, SlotInvStutter DEF OutcomeRead, SummaryRead, slotVars, rowVars
<1>2. ASSUME OutcomeDuplicate(p) \/ SummaryCommit(p)
      PROVE  SlotInv'
  BY <1>2, SlotInvStutter DEF OutcomeDuplicate, SummaryCommit, slotVars, rowVars
<1>3. ASSUME OutcomeCommit(p)
      PROVE  SlotInv'
  <2> DEFINE t == task[p]
  <2>1. UNCHANGED <<reserved_count, slot_status, slot_request, confirmed_slot>>
    BY <1>3 DEF OutcomeCommit, slotVars
  <2>2. CASE t.st # "accepted"
    BY <1>3, <2>1, <2>2, SlotInvStutter DEF OutcomeCommit
  <2>3. CASE t.st = "accepted"
    <3>1. PICK m \in Meetings :
            m = t.m /\ status[m] \in {"accepted", "cancelled", "completed"}
      BY <1>3, OutcomeTask DEF OutcomeCommit, CoreInv, OutcomePending
    <3>2. /\ status'[m] = "completed"
          /\ \A n \in Meetings \ {m} : status'[n] = status[n]
      BY <1>3, <2>3, <3>1 DEF OutcomeCommit, Transition, CoreInv, TypeOK
    <3>3. \A n \in Meetings : Held(n)' = Held(n)
      BY <2>1 DEF Held
    <3>4. SlotAccounting' /\ StatusMatchesCount'
      <4>1. \A s \in Slots : Holders(s)' = Holders(s)
        BY <3>3 DEF Holders
      <4> QED
        BY <2>1, <4>1 DEF SlotInv, SlotAccounting, StatusMatchesCount
    <3>5. Settled(m)'
      BY <2>1, <3>1, <3>2, <3>3 DEF Settled, SlotInv, HeldMatchesStatus
    <3> QED
      BY <2>1, <3>1, <3>2, <3>3, <3>4, <3>5, SettleOne DEF SlotInv
  <2> QED
    BY <2>2, <2>3
<1> QED
  BY <1>1, <1>2, <1>3 DEF Unlocked

\* Blocking a slot, its start and a restart keep the counts.
LEMMA EnvironmentSlots ==
  ASSUME CoreInv, SlotInv, Environment
  PROVE  SlotInv'
PROOF
<1>1. ASSUME NEW s \in Blockable, BlockSlot(s)
      PROVE  SlotInv'
  <2>1. UNCHANGED <<reserved_count, slot_request, status, confirmed_slot>>
    BY <1>1 DEF BlockSlot, rowVars
  <2>2. \A t \in Slots : slot_status'[t] # "BLOCKED" => slot_status'[t] = slot_status[t]
    BY <1>1 DEF BlockSlot, CoreInv, TypeOK
  <2>3. (\A m \in Meetings : Held(m)' = Held(m)) /\ \A t \in Slots : Holders(t)' = Holders(t)
    BY <2>1 DEF Held, Holders
  <2> QED
    BY <2>1, <2>2, <2>3
       DEF SlotInv, HeldMatchesStatus, ConfirmedUnset, SlotAccounting, StatusMatchesCount
<1>2. ASSUME NEW s \in Expiring, StartSlot(s)
      PROVE  SlotInv'
  BY <1>2, SlotInvStutter DEF StartSlot, rowVars
<1>3. ASSUME Restart
      PROVE  SlotInv'
  BY <1>3, SlotInvStutter DEF Restart, slotVars, rowVars
<1> QED
  BY <1>1, <1>2, <1>3 DEF Environment

\* SlotInv holds in every reachable state.
THEOREM SlotInvariant == Spec => []SlotInv
PROOF
<1>1. Init => SlotInv
  <2> SUFFICES ASSUME Init PROVE SlotInv
    OBVIOUS
  <2>1. \A m \in Meetings : Held(m) = {}
    BY DEF Init, Held
  <2>2. \A s \in Slots : Holders(s) = {}
    BY <2>1 DEF Holders
  <2>3. HeldMatchesStatus /\ ConfirmedUnset
    BY <2>1 DEF Init, HeldMatchesStatus, ConfirmedUnset
  <2>4. \A s \in Slots : /\ reserved_count[s] = Cardinality(Holders(s))
                         /\ reserved_count[s] = 0 /\ slot_status[s] = "OPEN"
                         /\ Capacity[s] \in Nat /\ Capacity[s] # 0
    BY <2>2, FS_EmptySet, ConstantsAssumption DEF Init
  <2> QED
    BY <2>3, <2>4 DEF SlotInv, SlotAccounting, StatusMatchesCount
<1>2. CoreInv /\ SlotInv /\ [Next]_vars => SlotInv'
  <2> SUFFICES ASSUME CoreInv, SlotInv, [Next]_vars PROVE SlotInv'
    OBVIOUS
  <2>1. CASE UNCHANGED vars
    BY <2>1, SlotInvStutter DEF vars, slotVars, rowVars
  <2>2. ASSUME NEW m \in Meetings, Create(m) \/ BuyerStep(m) \/ Decide(m)
        PROVE  SlotInv'
    BY <2>2, CreateSlots, BuyerSlots, DecideSlots
  <2>3. ASSUME NEW p \in Staff, Unlocked(p)
        PROVE  SlotInv'
    BY <2>3, UnlockedSlots
  <2> QED
    BY <2>1, <2>2, <2>3, EnvironmentSlots DEF Next
<1> QED
  BY <1>1, <1>2, CoreInvariant, PTL DEF Spec

\* No slot is ever overbooked and no seat leaks: reserved_count is the number of
\* meetings that hold the slot and at most its capacity.
THEOREM SeatsCorrect == Spec => []SlotAccounting
PROOF
<1>1. SlotInv => SlotAccounting
  BY DEF SlotInv
<1> QED
  BY <1>1, SlotInvariant, PTL

\* Open and full slots say so: the status column agrees with the count.
THEOREM SlotStatusCorrect == Spec => []StatusMatchesCount
PROOF
<1>1. SlotInv => StatusMatchesCount
  BY DEF SlotInv
<1> QED
  BY <1>1, SlotInvariant, PTL

\* What a meeting holds follows from its status.
THEOREM HoldingCorrect == Spec => []HeldMatchesStatus
PROOF
<1>1. SlotInv => HeldMatchesStatus
  BY DEF SlotInv
<1> QED
  BY <1>1, SlotInvariant, PTL

-----------------------------------------------------------------------------
(* The third invariant: what the trail and the gates of the contact data    *)
(* say, whatever the two handlers without a lock do meanwhile.              *)

\* One more row, written by a handler that had the status it started from in
\* view.
Appended(m) ==
  /\ Len(history'[m]) = Len(history[m]) + 1
  /\ \A i \in DOMAIN history[m] : history'[m][i] = history[m][i]
  /\ history'[m][Len(history'[m])].saw = history'[m][Len(history'[m])].from

\* Both parties have agreed, and the meeting has been accepted at some time.
Gated(m) ==
  /\ {"consented", "enabled"} \subseteq contact_share[m]
  /\ \E i \in DOMAIN history[m] : history[m][i].to = "accepted"

\* A summary that is about to disclose was read from a meeting past the gates.
SummaryPending == \A p \in Staff :
  task[p].kind = "summary" /\ task[p].reveal => Gated(task[p].m)

GateInv == DecidedOnCurrentView /\ DisclosureGated /\ SummaryPending

\* A transition appends one such row to one meeting.
LEMMA WrittenTrail ==
  ASSUME NEW n \in Meetings, NEW to, NEW ver, NEW f, Written(n, to, ver, f, f), NEW m \in Meetings
  PROVE  history'[m] = history[m] \/ Appended(m)
BY DEF Written, Appended

\* A handler that holds the lock has the current status in view.
LEMMA LockedTrail ==
  ASSUME CoreInv, NEW n \in Meetings, NEW v, NEW from \in SUBSET Live, Current(n, v, from),
         NEW to \in Statuses, Transition(n, to, row_version[n] + 1, status[n], Saw(n, v)),
         NEW m \in Meetings
  PROVE  history'[m] = history[m] \/ Appended(m)
<1>1. /\ Saw(n, v) = status[n] /\ row_version[n] + 1 \in Nat /\ status[n] \in Statuses \cup {"none"}
  BY SawType DEF CoreInv, TypeOK
<1>2. Written(n, to, row_version[n] + 1, status[n], status[n])
  BY <1>1, TransitionEffect DEF CoreInv
<1> QED
  BY <1>2, WrittenTrail

LEMMA TrailStep ==
  ASSUME CoreInv, [Next]_vars, NEW m \in Meetings
  PROVE  history'[m] = history[m] \/ Appended(m)
<1>0. /\ {"requested", "accepted", "counter_proposed"} \in SUBSET Live
      /\ {"requested", "counter_proposed"} \in SUBSET Live
      /\ {"requested"} \in SUBSET Live /\ {"counter_proposed"} \in SUBSET Live
      /\ {"accepted", "cancelled", "counter_proposed", "rejected", "requested", "completed"}
           \subseteq Statuses
  BY DEF Live, Statuses
<1>1. CASE UNCHANGED history
  BY <1>1
<1>2. ASSUME NEW n \in Meetings, Create(n) PROVE history'[m] = history[m] \/ Appended(m)
  <2>1. CASE \E p \in Parts, w \in Wishes : \E i \in DOMAIN w, c \in BOOLEAN : CommitCreate(n, p, w, i, c)
    <3>1. Transition(n, "requested", 0, "none", "none")
      BY <2>1 DEF CommitCreate
    <3>2. Written(n, "requested", 0, "none", "none")
      BY <1>0, <3>1, TransitionEffect DEF CoreInv
    <3> QED
      BY <3>2, WrittenTrail
  <2>2. UNCHANGED history \/ \E p \in Parts, w \in Wishes :
          \E i \in DOMAIN w, c \in BOOLEAN : CommitCreate(n, p, w, i, c)
    BY <1>2 DEF Create, BeginCreate, RefuseCreate, StoreCreate, rowVars
  <2> QED
    BY <2>1, <2>2
<1>3. ASSUME NEW n \in Meetings, BuyerStep(n) PROVE history'[m] = history[m] \/ Appended(m)
  <2>1. ASSUME NEW v, BuyerCancel(n, v) PROVE history'[m] = history[m] \/ Appended(m)
    BY <1>0, <2>1, LockedTrail DEF BuyerCancel
  <2>2. ASSUME NEW v, NEW s, RespondAccept(n, v, s) PROVE history'[m] = history[m] \/ Appended(m)
    BY <1>0, <2>2, LockedTrail DEF RespondAccept
  <2>3. ASSUME NEW v, RespondDecline(n, v) PROVE history'[m] = history[m] \/ Appended(m)
    BY <1>0, <2>3, LockedTrail DEF RespondDecline
  <2> QED
    BY <1>3, <2>1, <2>2, <2>3 DEF BuyerStep
<1>4. ASSUME NEW n \in Meetings, Decide(n) PROVE history'[m] = history[m] \/ Appended(m)
  <2>1. ASSUME NEW v, NEW p, NEW s, NEW e, DecideAccept(n, v, p, s, e)
        PROVE  history'[m] = history[m] \/ Appended(m)
    BY <1>0, <2>1, LockedTrail DEF DecideAccept
  <2>2. ASSUME NEW v, NEW p, NEW s, DecideCounter(n, v, p, s)
        PROVE  history'[m] = history[m] \/ Appended(m)
    BY <1>0, <2>2, LockedTrail DEF DecideCounter
  <2>3. ASSUME NEW v, NEW p, DecideReject(n, v, p) PROVE history'[m] = history[m] \/ Appended(m)
    BY <1>0, <2>3, LockedTrail DEF DecideReject
  <2> QED
    BY <1>4, <2>1, <2>2, <2>3 DEF Decide
<1>5. ASSUME NEW p \in Staff, OutcomeCommit(p) PROVE history'[m] = history[m] \/ Appended(m)
  <2>. DEFINE t == task[p]
  <2>1. CASE t.st = "accepted"
    <3>1. t.m \in Meetings /\ t.ver + 1 \in Nat
      BY <1>5, OutcomeTask DEF OutcomeCommit, CoreInv
    <3>2. Transition(t.m, "completed", t.ver + 1, t.st, t.st)
      BY <1>5, <2>1 DEF OutcomeCommit
    <3> HIDE DEF t
    <3>3. Written(t.m, "completed", t.ver + 1, t.st, t.st)
      BY <1>0, <2>1, <3>1, <3>2, TransitionEffect DEF CoreInv
    <3> QED
      BY <3>1, <3>3, WrittenTrail
  <2>2. CASE t.st # "accepted"
    BY <1>5, <2>2 DEF OutcomeCommit
  <2> QED
    BY <2>1, <2>2
<1>6. ASSUME NEW p \in Staff, Unlocked(p) PROVE history'[m] = history[m] \/ Appended(m)
  BY <1>5, <1>6 DEF Unlocked, OutcomeRead, SummaryRead, OutcomeDuplicate, SummaryCommit, rowVars
<1>7. CASE Environment
  BY <1>7 DEF Environment, BlockSlot, StartSlot, Restart, rowVars
<1>8. CASE UNCHANGED vars
  BY <1>8 DEF vars, rowVars
<1> QED
  BY <1>2, <1>3, <1>4, <1>6, <1>7, <1>8 DEF Next

\* Agreements are never withdrawn, except that a creation sets them, which
\* finds no meeting yet.
LEMMA AgreementsKept ==
  ASSUME CoreInv, [Next]_vars, NEW m \in Meetings, history[m] # <<>>
  PROVE  contact_share[m] \subseteq contact_share'[m]
<1>0. TypeOK /\ Fresh /\ Logged
  BY DEF CoreInv
<1>1. status[m] # "none" /\ progress[m] \notin {"idle", "checked"}
  BY <1>0 DEF Fresh, Logged
<1>2. ASSUME NEW n \in Meetings, Create(n) PROVE contact_share[m] \subseteq contact_share'[m]
  <2>1. CASE \E p \in Parts, w \in Wishes : \E i \in DOMAIN w, c \in BOOLEAN : CommitCreate(n, p, w, i, c)
    BY <1>0, <1>1, <2>1 DEF CommitCreate, TypeOK
  <2>2. UNCHANGED contact_share \/ \E p \in Parts, w \in Wishes :
          \E i \in DOMAIN w, c \in BOOLEAN : CommitCreate(n, p, w, i, c)
    BY <1>2 DEF Create, BeginCreate, RefuseCreate, StoreCreate, rowVars
  <2> QED
    BY <2>1, <2>2
<1>3. ASSUME NEW n \in Meetings, BuyerStep(n) PROVE contact_share[m] \subseteq contact_share'[m]
  BY <1>3 DEF BuyerStep, BuyerCancel, RespondAccept, RespondDecline
<1>4. ASSUME NEW n \in Meetings, Decide(n) PROVE contact_share[m] \subseteq contact_share'[m]
  <2>1. ASSUME NEW v, NEW p, NEW s, NEW e, DecideAccept(n, v, p, s, e)
        PROVE  contact_share[m] \subseteq contact_share'[m]
    BY <1>0, <2>1 DEF DecideAccept, TypeOK
  <2> QED
    BY <1>4, <2>1 DEF Decide, DecideCounter, DecideReject
<1>5. ASSUME NEW p \in Staff, Unlocked(p) PROVE contact_share[m] \subseteq contact_share'[m]
  <2>1. CASE SummaryCommit(p)
    BY <1>0, <2>1 DEF SummaryCommit, TypeOK
  <2> QED
    BY <1>5, <2>1 DEF Unlocked, OutcomeRead, SummaryRead, OutcomeCommit, OutcomeDuplicate, rowVars
<1>6. CASE Environment
  BY <1>6 DEF Environment, BlockSlot, StartSlot, Restart, rowVars
<1>7. CASE UNCHANGED vars
  BY <1>7 DEF vars, rowVars
<1> QED
  BY <1>2, <1>3, <1>4, <1>5, <1>6, <1>7 DEF Next

\* A meeting that has passed the gates stays past them.
LEMMA GatedKept ==
  ASSUME CoreInv, [Next]_vars, NEW m \in Meetings, Gated(m)
  PROVE  Gated(m)'
<1>1. history[m] \in Seq(Entry) /\ history[m] # <<>>
  BY DEF CoreInv, TypeOK, Gated
<1>2. contact_share[m] \subseteq contact_share'[m]
  BY <1>1, AgreementsKept
<1>3. PICK i \in DOMAIN history[m] : history[m][i].to = "accepted"
  BY DEF Gated
<1>4. history'[m] \in Seq(Entry)
  BY CoreStep DEF CoreInv, TypeOK
<1>5. i \in DOMAIN history'[m] /\ history'[m][i] = history[m][i]
  <2>1. CASE history'[m] = history[m]
    BY <2>1
  <2>2. CASE Appended(m)
    BY <1>1, <1>4, <2>2 DEF Appended
  <2> QED
    BY <2>1, <2>2, TrailStep
<1> QED
  BY <1>2, <1>3, <1>5 DEF Gated

LEMMA GateInvStep ==
  ASSUME CoreInv, GateInv, [Next]_vars
  PROVE  GateInv'
<1>0. TypeOK /\ CoreInv' /\ DecidedOnCurrentView /\ DisclosureGated /\ SummaryPending
  BY CoreStep DEF CoreInv, GateInv
<1>1. DecidedOnCurrentView'
  <2> SUFFICES ASSUME NEW m \in Meetings, NEW i \in DOMAIN history'[m]
               PROVE  history'[m][i].saw = history'[m][i].from
    BY DEF DecidedOnCurrentView
  <2>1. CASE history'[m] = history[m]
    BY <1>0, <2>1 DEF DecidedOnCurrentView
  <2>2. CASE Appended(m)
    <3>1. history[m] \in Seq(Entry) /\ history'[m] \in Seq(Entry)
      BY <1>0 DEF CoreInv, TypeOK
    <3>2. i \in DOMAIN history[m] \/ i = Len(history'[m])
      BY <2>2, <3>1 DEF Appended
    <3> QED
      BY <1>0, <2>2, <3>2 DEF Appended, DecidedOnCurrentView
  <2> QED
    BY <2>1, <2>2, TrailStep
<1>2. \A p \in Staff : task'[p].kind = "summary" /\ task'[p].reveal =>
        \/ task'[p] = task[p]
        \/ task'[p].m \in Meetings /\ RevealAllowed(task'[p].m)
  <2> SUFFICES ASSUME NEW p \in Staff, task'[p].kind = "summary", task'[p].reveal, task'[p] # task[p]
               PROVE  task'[p].m \in Meetings /\ RevealAllowed(task'[p].m)
    OBVIOUS
  <2>1. ~(\E q \in Staff : task'[q] = Idle /\ p = q)
    BY DEF Idle
  <2>2. ASSUME NEW q \in Staff, Unlocked(q) PROVE \E m \in Meetings : SummaryRead(q, m) /\ p = q
    <3>1. CASE OutcomeCommit(q) \/ OutcomeDuplicate(q) \/ SummaryCommit(q)
      BY <1>0, <2>1, <3>1 DEF OutcomeCommit, OutcomeDuplicate, SummaryCommit, TypeOK
    <3>2. ASSUME NEW m \in Meetings, OutcomeRead(q, m) PROVE FALSE
      BY <1>0, <3>2 DEF OutcomeRead, TypeOK
    <3>3. ASSUME NEW m \in Meetings, SummaryRead(q, m) PROVE p = q
      BY <1>0, <3>3 DEF SummaryRead, TypeOK
    <3> QED
      BY <2>2, <3>1, <3>2, <3>3 DEF Unlocked
  <2>3. ~ UNCHANGED task
    OBVIOUS
  <2>4. ASSUME NEW m \in Meetings, Create(m) \/ BuyerStep(m) \/ Decide(m) PROVE FALSE
    <3>1. CASE Create(m)
      BY <2>3, <3>1 DEF Create, BeginCreate, CommitCreate, RefuseCreate, StoreCreate
    <3>2. CASE BuyerStep(m)
      BY <2>3, <3>2 DEF BuyerStep, BuyerCancel, RespondAccept, RespondDecline
    <3>3. CASE Decide(m)
      BY <2>3, <3>3 DEF Decide, DecideAccept, DecideCounter, DecideReject
    <3> QED
      BY <2>4, <3>1, <3>2, <3>3
  <2>5. ~ Environment
    BY <1>0, <2>1, <2>3 DEF Environment, BlockSlot, StartSlot, Restart
  <2>6. PICK m \in Meetings : SummaryRead(p, m)
    BY <2>2, <2>3, <2>4, <2>5 DEF Next, vars
  <2>7. task'[p] = [kind |-> "summary", m |-> m, reveal |-> RevealAllowed(m)]
    BY <1>0, <2>6 DEF SummaryRead, TypeOK
  <2> QED
    BY <2>7
<1>3. \A m \in Meetings : RevealAllowed(m) => Gated(m)
  <2> SUFFICES ASSUME NEW m \in Meetings, RevealAllowed(m) PROVE Gated(m)
    OBVIOUS
  <2>1. /\ status[m] = "accepted" /\ {"consented", "enabled"} \subseteq contact_share[m]
        /\ history[m] \in Seq(Entry)
    BY <1>0 DEF RevealAllowed, TypeOK
  <2>2. row_version[m] < Len(history[m]) /\ row_version[m] \in Nat
        /\ history[m][Len(history[m])].to = "accepted"
    BY <1>0, <2>1 DEF CoreInv, Logged, TypeOK
  <2>3. Len(history[m]) \in DOMAIN history[m]
    BY <2>1, <2>2
  <2> QED
    BY <2>1, <2>2, <2>3 DEF Gated
<1>4. SummaryPending'
  <2>1. ASSUME NEW p \in Staff, (task[p].kind = "summary" /\ task[p].reveal)'
        PROVE  Gated(task[p].m)'
    <3>1. PICK n \in Meetings : n = task'[p].m
      <4>1. task'[p] \in Task
        BY <1>0 DEF CoreInv, TypeOK
      <4> QED
        BY <2>1, <4>1, SummaryTask
    <3>2. Gated(n)
      BY <1>0, <1>2, <1>3, <2>1, <3>1 DEF SummaryPending
    <3>3. Gated(n)'
      BY <3>2, GatedKept
    <3> QED
      BY <3>1, <3>3 DEF Gated
  <2> QED
    BY <2>1 DEF SummaryPending
<1>5. DisclosureGated'
  <2> SUFFICES ASSUME NEW m \in Meetings, "disclosed" \in contact_share'[m]
               PROVE  Gated(m)'
    BY DEF DisclosureGated, Gated
  <2>1. CASE "disclosed" \in contact_share[m]
    BY <1>0, <2>1, GatedKept DEF DisclosureGated, Gated
  <2>2. CASE "disclosed" \notin contact_share[m]
    <3>1. ~ UNCHANGED contact_share
      BY <2>2
    <3>2. ASSUME NEW n \in Meetings, Create(n) PROVE FALSE
      <4>1. PICK p \in Parts, w \in Wishes, k \in BOOLEAN : \E i \in DOMAIN w : CommitCreate(n, p, w, i, k)
        BY <3>1, <3>2 DEF Create, BeginCreate, RefuseCreate, StoreCreate, rowVars
      <4>2. contact_share' = [contact_share EXCEPT ![n] = IF k THEN {"consented"} ELSE {}]
        BY <4>1 DEF CommitCreate
      <4> QED
        BY <1>0, <2>2, <4>2 DEF TypeOK
    <3>3. ASSUME NEW n \in Meetings, BuyerStep(n) \/ Decide(n) PROVE FALSE
      <4>1. PICK v, p, s, e : DecideAccept(n, v, p, s, e)
        BY <3>1, <3>3 DEF BuyerStep, BuyerCancel, RespondAccept, RespondDecline, Decide, DecideCounter,
           DecideReject
      <4>2. \/ contact_share' = [contact_share EXCEPT ![n] = contact_share[n] \cup {"enabled"}]
            \/ contact_share' = contact_share
        BY <1>0, <4>1 DEF DecideAccept, TypeOK
      <4>3. contact_share'[m] \in {contact_share[m], contact_share[m] \cup {"enabled"}}
        BY <1>0, <4>2 DEF TypeOK
      <4> QED
        BY <2>2, <4>3
    <3>4. ~ Environment
      BY <3>1 DEF Environment, BlockSlot, StartSlot, Restart, rowVars
    <3>5. PICK p \in Staff : SummaryCommit(p)
      BY <3>1, <3>2, <3>3, <3>4 DEF Next, vars, rowVars, Unlocked, OutcomeRead, SummaryRead, OutcomeCommit,
         OutcomeDuplicate
    <3>6. task[p].kind = "summary" /\ task[p].reveal /\ task[p].m = m
      BY <1>0, <2>2, <3>5 DEF SummaryCommit, TypeOK
    <3>7. Gated(m)
      BY <1>0, <3>6 DEF SummaryPending
    <3> QED
      BY <3>7, GatedKept
  <2> QED
    BY <2>1, <2>2
<1> QED
  BY <1>1, <1>4, <1>5 DEF GateInv

\* GateInv holds in every reachable state.
THEOREM GateInvariant == Spec => []GateInv
<1>1. Init => GateInv
  BY DEF Init, GateInv, DecidedOnCurrentView, DisclosureGated, SummaryPending, Idle
<1>2. CoreInv /\ GateInv /\ [Next]_vars => GateInv'
  BY GateInvStep
<1> QED
  BY <1>1, <1>2, CoreInvariant, PTL DEF Spec

\* Nobody's answer applies to a status that he had not in view.
THEOREM ViewCurrent == Spec => []DecidedOnCurrentView
<1>1. GateInv => DecidedOnCurrentView
  BY DEF GateInv
<1> QED
  BY <1>1, GateInvariant, PTL

\* Contact data is disclosed only past all three gates, although the summary
\* is read and written without a lock.
THEOREM ContactGated == Spec => []DisclosureGated
<1>1. GateInv => DisclosureGated
  BY DEF GateInv
<1> QED
  BY <1>1, GateInvariant, PTL

-----------------------------------------------------------------------------
(* The calendar: an accepted meeting keeps its buyer, its staff member and  *)
(* its slot, and only a handler that found no overlap accepts one.          *)

\* Meeting m is being accepted on slot s with staff member p.
Accepting(m, p, s) ==
  /\ NoOverlap(m, p, s)
  /\ s \in Slots
  /\ confirmed_slot'[m] = s /\ buyer'[m] = buyer[m] /\ staff_id'[m] = p
  /\ \A n \in Meetings \ {m} : /\ status'[n] = status[n] /\ buyer'[n] = buyer[n]
                               /\ staff_id'[n] = staff_id[n]
                               /\ confirmed_slot'[n] = confirmed_slot[n]

\* What is accepted was before, with the same columns.
NoneAccepted == \A n \in Meetings : status'[n] = "accepted" =>
  /\ status[n] = "accepted"
  /\ buyer'[n] = buyer[n] /\ staff_id'[n] = staff_id[n] /\ confirmed_slot'[n] = confirmed_slot[n]

LEMMA CalendarStep ==
  ASSUME CoreInv, [Next]_vars
  PROVE  NoneAccepted \/ \E m \in Meetings : \E p, s : Accepting(m, p, s)
<1>0. TypeOK /\ Fresh /\ OutcomePending
  BY DEF CoreInv
<1>1. ASSUME NEW m \in Meetings, Create(m) PROVE NoneAccepted
  <2>1. CASE \E b \in Buyers, k \in Keys \cup {None} : BeginCreate(m, b, k)
    BY <1>0, <2>1 DEF BeginCreate, Fresh, NoneAccepted, TypeOK
  <2>2. ASSUME NEW p \in Parts, NEW w \in Wishes, NEW i \in DOMAIN w, NEW c \in BOOLEAN,
               CommitCreate(m, p, w, i, c)
        PROVE  NoneAccepted
    BY <1>0, <2>2 DEF CommitCreate, Transition, NoneAccepted, TypeOK
  <2>3. CASE (\E p \in Parts, w \in Wishes : RefuseCreate(m, p, w)) \/ StoreCreate(m)
    BY <2>3 DEF RefuseCreate, StoreCreate, rowVars, NoneAccepted
  <2> QED
    BY <1>1, <2>1, <2>2, <2>3 DEF Create
<1>2. ASSUME NEW m \in Meetings, BuyerStep(m)
      PROVE  NoneAccepted \/ \E p, s : Accepting(m, p, s)
  <2>1. ASSUME NEW v, NEW s \in Slots, RespondAccept(m, v, s) PROVE Accepting(m, staff_id[m], s)
    BY <1>0, <2>1 DEF RespondAccept, Transition, Accepting, TypeOK
  <2>2. ASSUME NEW v, BuyerCancel(m, v) PROVE NoneAccepted
    BY <1>0, <2>2 DEF BuyerCancel, Transition, NoneAccepted, TypeOK
  <2>3. ASSUME NEW v, RespondDecline(m, v) PROVE NoneAccepted
    BY <1>0, <2>3 DEF RespondDecline, Transition, NoneAccepted, TypeOK
  <2> QED
    BY <1>2, <2>1, <2>2, <2>3 DEF BuyerStep
<1>3. ASSUME NEW m \in Meetings, Decide(m)
      PROVE  NoneAccepted \/ \E p, s : Accepting(m, p, s)
  <2>1. ASSUME NEW v, NEW p \in Staff, NEW s \in Slots, NEW e, DecideAccept(m, v, p, s, e)
        PROVE  Accepting(m, p, s)
    BY <1>0, <2>1 DEF DecideAccept, Transition, Accepting, TypeOK
  <2>2. ASSUME NEW v, NEW p, NEW s, DecideCounter(m, v, p, s) PROVE NoneAccepted
    BY <1>0, <2>2 DEF DecideCounter, Transition, NoneAccepted, TypeOK
  <2>3. ASSUME NEW v, NEW p, DecideReject(m, v, p) PROVE NoneAccepted
    BY <1>0, <2>3 DEF DecideReject, Transition, NoneAccepted, TypeOK
  <2> QED
    BY <1>3, <2>1, <2>2, <2>3 DEF Decide
<1>4. ASSUME NEW p \in Staff, Unlocked(p) PROVE NoneAccepted
  <2>1. CASE OutcomeCommit(p)
    BY <1>0, <2>1 DEF OutcomeCommit, Transition, NoneAccepted, TypeOK
  <2> QED
    BY <1>4, <2>1 DEF Unlocked, OutcomeRead, SummaryRead, OutcomeDuplicate, SummaryCommit, rowVars,
       NoneAccepted
<1>5. CASE Environment
  BY <1>5 DEF Environment, BlockSlot, StartSlot, Restart, rowVars, NoneAccepted
<1>6. CASE UNCHANGED vars
  BY <1>6 DEF vars, rowVars, NoneAccepted
<1> QED
  BY <1>1, <1>2, <1>3, <1>4, <1>5, <1>6 DEF Next

\* The two EXCLUDE constraints, asked by the two handlers that accept, are
\* enough: no buyer and no staff member has two meetings at overlapping times.
THEOREM CalendarCorrect == Spec => []NoDoubleBooking
<1>1. Init => NoDoubleBooking
  BY DEF Init, NoDoubleBooking
<1>2. ASSUME CoreInv, NoDoubleBooking, [Next]_vars PROVE NoDoubleBooking'
  <2>1. CASE NoneAccepted
    BY <1>2, <2>1 DEF NoneAccepted, NoDoubleBooking
  <2>2. ASSUME NEW m \in Meetings, NEW p, NEW s, Accepting(m, p, s) PROVE NoDoubleBooking'
    <3>1. ASSUME NEW n \in Meetings \ {m}, status'[n] = "accepted",
                 <<confirmed_slot'[n], s>> \in Overlaps
          PROVE  buyer'[n] # buyer'[m] /\ (p = None \/ staff_id'[n] # p)
      BY <2>2, <3>1 DEF Accepting, NoOverlap
    <3>2. \A n \in Meetings \ {m} :
            <<s, confirmed_slot'[n]>> \in Overlaps => <<confirmed_slot'[n], s>> \in Overlaps
      BY ConstantsAssumption
    <3>3. ASSUME NEW i \in Meetings, NEW j \in Meetings, i # j,
                 status'[i] = "accepted", status'[j] = "accepted",
                 <<confirmed_slot'[i], confirmed_slot'[j]>> \in Overlaps
          PROVE  buyer'[i] # buyer'[j] /\ (staff_id'[i] # None => staff_id'[i] # staff_id'[j])
      <4>1. CASE i = m
        BY <2>2, <3>1, <3>2, <3>3, <4>1 DEF Accepting
      <4>2. CASE j = m
        BY <2>2, <3>1, <3>3, <4>2 DEF Accepting
      <4>3. CASE i # m /\ j # m
        BY <1>2, <2>2, <3>3, <4>3 DEF Accepting, NoDoubleBooking
      <4> QED
        BY <4>1, <4>2, <4>3
    <3> QED
      BY <3>3 DEF NoDoubleBooking
  <2> QED
    BY <1>2, <2>1, <2>2, CalendarStep
<1>3. CoreInv /\ NoDoubleBooking /\ [Next]_vars => NoDoubleBooking'
  BY <1>2
<1> QED
  BY <1>1, <1>3, CoreInvariant, PTL DEF Spec
=============================================================================
