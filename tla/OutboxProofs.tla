---------------------------- MODULE OutboxProofs ----------------------------
(***************************************************************************)
(* Proofs about Outbox, for any number of rows, workers, channels and       *)
(* crashes: type correctness, the attempt cap, the account of accepted      *)
(* messages, the agreement of the records, and the refinement of Delivery.  *)
(*                                                                          *)
(* The argument rests on what a pass may rely on between its claim and its  *)
(* commit: the rows it has claimed are locked, so they stay due, and what   *)
(* it has found out about them (verdict) concerns claimed rows only.        *)
(***************************************************************************)
EXTENDS Outbox, FiniteSetTheorems, TLAPS

\* A set of attempts is empty or has a last one.
HasLast(S) == S = {} \/ \E a \in S : \A b \in S : b.sequence <= a.sequence

Lasts ==
  \A d \in Rows :
    /\ HasLast(attempts[d])
    /\ \A w \in Workers : HasLast(new_attempts[w][d])

\* No two workers hold the same row.
NoSharedRow ==
  \A v, w \in Workers : v # w => claimed[v] \cap claimed[w] = {}

\* What a pass relies on.
PassInv ==
  \A w \in Workers :
    /\ todo[w] \subseteq claimed[w]
    /\ \A d \in claimed[w] : Due(d)
    /\ \A d \in Rows : verdict[w][d] # "none" => d \in claimed[w] \ todo[w]

\* What is known of a row that was never committed, or just once.
FreshRows ==
  \A d \in Rows :
    /\ status[d] \in {"none", "PENDING"} =>
         attempt_count[d] = 0 /\ next_attempt_at[d] = "now"
    /\ status[d] = "PUBLISHED" => next_attempt_at[d] = "now"

IInv == TypeOK /\ Lasts /\ NoSharedRow /\ PassInv /\ FreshRows /\ AttemptCap

-----------------------------------------------------------------------------
(* Lemmas.                                                                  *)

\* The stored attempts have a greatest sequence number, or none.
LEMMA LastSequenceType ==
  ASSUME TypeOK, Lasts, NEW d \in Rows
  PROVE  LastSequence(d) \in Nat
<1>1. CASE attempts[d] = {}
  BY <1>1 DEF LastSequence
<1>2. CASE attempts[d] # {}
  <2>. DEFINE S == {a.sequence : a \in attempts[d]}
  <2>1. PICK a \in attempts[d] : \A b \in attempts[d] : b.sequence <= a.sequence
    BY <1>2 DEF Lasts, HasLast
  <2>2. a.sequence \in S /\ S \subseteq Nat
    BY <2>1 DEF TypeOK, Attempt
  <2>3. \E n \in S : \A b \in attempts[d] : b.sequence <= n
    BY <2>1, <2>2
  <2>4. (CHOOSE n \in S : \A b \in attempts[d] : b.sequence <= n) \in S
    BY <2>3
  <2> QED
    BY <1>2, <2>2, <2>4 DEF LastSequence
<1> QED
  BY <1>1, <1>2

\* Adding an attempt to a set that has a last one.
LEMMA HasLastAdd ==
  ASSUME NEW S \in SUBSET Attempt, HasLast(S), NEW a \in Attempt
  PROVE  HasLast(S \cup {a})
<1>1. CASE S = {}
  BY <1>1 DEF HasLast, Attempt
<1>2. CASE S # {}
  <2>1. PICK l \in S : \A b \in S : b.sequence <= l.sequence
    BY <1>2 DEF HasLast
  <2>2. l \in Attempt /\ \A b \in S : b \in Attempt
    BY <2>1
  <2>3. CASE a.sequence <= l.sequence
    <3>1. \A b \in S \cup {a} : b.sequence <= l.sequence
      BY <2>1, <2>3
    <3> QED
      BY <2>1, <3>1 DEF HasLast
  <2>4. CASE l.sequence <= a.sequence
    <3>1. \A b \in S \cup {a} : b.sequence <= a.sequence
      BY <2>1, <2>2, <2>4 DEF Attempt
    <3> QED
      BY <3>1 DEF HasLast
  <2> QED
    BY <2>2, <2>3, <2>4 DEF Attempt
<1> QED
  BY <1>1, <1>2

LEMMA HasLastUnion ==
  ASSUME NEW S \in SUBSET Attempt, NEW T \in SUBSET Attempt, HasLast(S), HasLast(T)
  PROVE  HasLast(S \cup T)
<1>1. CASE S = {} \/ T = {}
  <2>1. S \cup T = S \/ S \cup T = T
    BY <1>1
  <2> QED
    BY <2>1
<1>2. CASE S # {} /\ T # {}
  <2>1. PICK s \in S : \A b \in S : b.sequence <= s.sequence
    BY <1>2 DEF HasLast
  <2>2. PICK t \in T : \A b \in T : b.sequence <= t.sequence
    BY <1>2 DEF HasLast
  <2>3. s.sequence \in Nat /\ t.sequence \in Nat
    BY <2>1, <2>2 DEF Attempt
  <2>4. \A b \in S \cup T : b.sequence \in Nat
    BY DEF Attempt
  <2>5. CASE s.sequence <= t.sequence
    <3>1. \A b \in S \cup T : b.sequence <= t.sequence
      BY <2>1, <2>2, <2>3, <2>4, <2>5
    <3> QED
      BY <3>1, <2>2 DEF HasLast
  <2>6. CASE t.sequence <= s.sequence
    <3>1. \A b \in S \cup T : b.sequence <= s.sequence
      BY <2>1, <2>2, <2>3, <2>4, <2>6
    <3> QED
      BY <3>1, <2>1 DEF HasLast
  <2> QED
    BY <2>3, <2>5, <2>6
<1> QED
  BY <1>1, <1>2

\* The end of a pass, committed or not.
LEMMA PassOverEffect ==
  ASSUME TypeOK, NEW w \in Workers, PassOver(w)
  PROVE  /\ claimed' \in [Workers -> SUBSET Rows]
         /\ todo' \in [Workers -> SUBSET Rows]
         /\ may_send' \in [Workers -> BOOLEAN]
         /\ channel' \in [Workers -> 0..ChannelCount]
         /\ sequence_offset' \in [Workers -> Nat]
         /\ new_attempts' \in [Workers -> [Rows -> SUBSET Attempt]]
         /\ verdict' \in [Workers -> [Rows -> {"none", "sent", "failed", "untried"}]]
         /\ claimed'[w] = {} /\ todo'[w] = {}
         /\ \A d \in Rows : new_attempts'[w][d] = {} /\ verdict'[w][d] = "none"
         /\ \A v \in Workers \ {w} :
              /\ claimed'[v] = claimed[v] /\ todo'[v] = todo[v]
              /\ new_attempts'[v] = new_attempts[v] /\ verdict'[v] = verdict[v]
<1>1. NoAttempts \in [Rows -> SUBSET Attempt] /\ \A d \in Rows : NoAttempts[d] = {}
  BY DEF NoAttempts
<1>2. /\ NoVerdict \in [Rows -> {"none", "sent", "failed", "untried"}]
      /\ \A d \in Rows : NoVerdict[d] = "none"
  BY DEF NoVerdict
<1>3. ChannelCount \in Nat
  BY OutboxAssumption
<1>4. /\ claimed' \in [Workers -> SUBSET Rows]
      /\ todo' \in [Workers -> SUBSET Rows]
      /\ channel' \in [Workers -> 0..ChannelCount]
      /\ may_send' = may_send /\ sequence_offset' = sequence_offset
  BY <1>3 DEF PassOver, TypeOK
<1>5. /\ new_attempts' \in [Workers -> [Rows -> SUBSET Attempt]]
      /\ verdict' \in [Workers -> [Rows -> {"none", "sent", "failed", "untried"}]]
  BY <1>1, <1>2 DEF PassOver, TypeOK
<1>6. /\ new_attempts'[w] = NoAttempts /\ verdict'[w] = NoVerdict
      /\ claimed'[w] = {} /\ todo'[w] = {}
  BY DEF PassOver, TypeOK
<1>7. \A v \in Workers \ {w} :
        /\ claimed'[v] = claimed[v] /\ todo'[v] = todo[v]
        /\ new_attempts'[v] = new_attempts[v] /\ verdict'[v] = verdict[v]
  BY DEF PassOver, TypeOK
<1> QED
  BY <1>1, <1>2, <1>4, <1>5, <1>6, <1>7 DEF TypeOK

\* A row is through: its worker's todo and verdict change, nothing else.
LEMMA HandledEffect ==
  ASSUME TypeOK, NEW w \in Workers, NEW d \in Rows,
         NEW r \in {"sent", "failed", "untried"}, Handled(w, d, r)
  PROVE  /\ todo' \in [Workers -> SUBSET Rows]
         /\ channel' \in [Workers -> 0..ChannelCount]
         /\ verdict' \in [Workers -> [Rows -> {"none", "sent", "failed", "untried"}]]
         /\ todo'[w] = todo[w] \ {d}
         /\ verdict'[w][d] = r
         /\ \A e \in Rows \ {d} : verdict'[w][e] = verdict[w][e]
         /\ \A v \in Workers \ {w} : todo'[v] = todo[v] /\ verdict'[v] = verdict[v]
<1>1. ChannelCount \in Nat
  BY OutboxAssumption
<1>2. /\ todo' \in [Workers -> SUBSET Rows]
      /\ channel' \in [Workers -> 0..ChannelCount]
      /\ todo'[w] = todo[w] \ {d}
      /\ \A v \in Workers \ {w} : todo'[v] = todo[v]
  BY <1>1 DEF Handled, TypeOK
<1>3. verdict' = [verdict EXCEPT ![w] = [verdict[w] EXCEPT ![d] = r]]
  BY DEF Handled
<1>4. [verdict[w] EXCEPT ![d] = r] \in [Rows -> {"none", "sent", "failed", "untried"}]
  BY DEF TypeOK
<1>5. verdict'[w] = [verdict[w] EXCEPT ![d] = r]
  BY <1>3 DEF TypeOK
<1>6. verdict[w] \in [Rows -> {"none", "sent", "failed", "untried"}]
  BY DEF TypeOK
<1>7. verdict'[w][d] = r /\ \A e \in Rows \ {d} : verdict'[w][e] = verdict[w][e]
  BY <1>5, <1>6
<1>8. verdict' \in [Workers -> [Rows -> {"none", "sent", "failed", "untried"}]]
  BY <1>3, <1>4 DEF TypeOK
<1>9. \A v \in Workers \ {w} : verdict'[v] = verdict[v]
  BY <1>3 DEF TypeOK
<1> QED
  BY <1>2, <1>7, <1>8, <1>9

\* The attempt row of the current channel.
LEMMA NotedEffect ==
  ASSUME TypeOK, Lasts, NEW w \in Workers, NEW d \in Rows,
         NEW st \in {"SENT", "FAILED", "SKIPPED"}, Noted(w, d, st), channel[w] > 0
  PROVE  /\ new_attempts' \in [Workers -> [Rows -> SUBSET Attempt]]
         /\ \A v \in Workers, e \in Rows : HasLast(new_attempts'[v][e])
<1>. DEFINE a == [sequence |-> sequence_offset[w] + channel[w],
                  channel |-> channel[w], status |-> st]
            row == [new_attempts[w] EXCEPT ![d] = @ \cup {a}]
<1>1. ChannelCount \in Nat
  BY OutboxAssumption
<1>2. a \in Attempt
  <2>1. sequence_offset[w] \in Nat /\ channel[w] \in 1..ChannelCount
    BY <1>1 DEF TypeOK
  <2>2. sequence_offset[w] + channel[w] \in Nat
    BY <2>1, <1>1
  <2> QED
    BY <2>1, <2>2 DEF Attempt
<1>3. new_attempts' = [new_attempts EXCEPT ![w] = row]
  BY DEF Noted
<1>4. new_attempts[w] \in [Rows -> SUBSET Attempt]
  BY DEF TypeOK
<1>. HIDE DEF a
<1>5. row \in [Rows -> SUBSET Attempt]
  BY <1>2, <1>4
<1>6. \A e \in Rows : HasLast(row[e])
  <2>1. row[d] = new_attempts[w][d] \cup {a}
    BY <1>4
  <2>2. HasLast(row[d])
    BY <2>1, <1>2, <1>4, HasLastAdd DEF Lasts
  <2>3. \A e \in Rows \ {d} : row[e] = new_attempts[w][e]
    BY <1>4
  <2> QED
    BY <2>2, <2>3 DEF Lasts
<1>. HIDE DEF row
<1>7. new_attempts' \in [Workers -> [Rows -> SUBSET Attempt]]
  BY <1>3, <1>5 DEF TypeOK
<1>8. \A v \in Workers : new_attempts'[v] = IF v = w THEN row ELSE new_attempts[v]
  BY <1>3 DEF TypeOK
<1> QED
  BY <1>6, <1>7, <1>8 DEF Lasts

-----------------------------------------------------------------------------
(* IInv is inductive: one lemma for each action.                            *)

LEMMA InitIInv == Init => IInv
<1>. SUFFICES ASSUME Init PROVE IInv
  OBVIOUS
<1>. USE OutboxAssumption
<1>1. \A w \in Workers, d \in Rows : new_attempts[w][d] = {} /\ verdict[w][d] = "none"
  BY DEF Init, NoAttempts, NoVerdict
<1>2. TypeOK
  BY DEF Init, TypeOK, NoAttempts, NoVerdict
<1>3. Lasts
  BY <1>1 DEF Init, Lasts, HasLast, NoAttempts
<1>4. NoSharedRow /\ PassInv
  BY <1>1 DEF Init, NoSharedRow, PassInv
<1>5. FreshRows /\ AttemptCap
  BY DEF Init, FreshRows, AttemptCap
<1> QED
  BY <1>2, <1>3, <1>4, <1>5 DEF IInv

LEMMA EnqueueIInv ==
  ASSUME IInv, NEW d \in Rows, Enqueue(d)
  PROVE  IInv'
<1>. USE DEF IInv
<1>1. 1 + Cardinality({e \in Rows : status[e] # "none"}) \in Nat
  <2>1. IsFiniteSet({e \in Rows : status[e] # "none"})
    BY OutboxAssumption, FS_Subset
  <2> QED
    BY <2>1, FS_CardinalityType
<1>2. TypeOK'
  BY <1>1 DEF Enqueue, TypeOK, passVars
<1>3. Lasts' /\ NoSharedRow'
  BY DEF Enqueue, passVars, Lasts, NoSharedRow
<1>4. PassInv'
  <2>1. \A w \in Workers : d \notin claimed[w]
    BY DEF Enqueue, PassInv, Due
  <2>2. \A e \in Rows : e # d => (Due(e) <=> Due(e)')
    BY DEF Enqueue, Due, TypeOK
  <2> QED
    BY <2>1, <2>2 DEF Enqueue, passVars, PassInv, TypeOK
<1>5. FreshRows' /\ AttemptCap'
  BY DEF Enqueue, FreshRows, AttemptCap, TypeOK
<1> QED
  BY <1>2, <1>3, <1>4, <1>5

LEMMA BackoffEndsIInv ==
  ASSUME IInv, NEW d \in Rows, BackoffEnds(d)
  PROVE  IInv'
<1>. USE DEF IInv
<1>1. TypeOK'
  BY DEF BackoffEnds, TypeOK, passVars
<1>2. Lasts' /\ NoSharedRow'
  BY DEF BackoffEnds, passVars, Lasts, NoSharedRow
<1>3. PassInv'
  <2>1. \A e \in Rows : Due(e) => Due(e)'
    BY DEF BackoffEnds, Due, TypeOK
  <2> QED
    BY <2>1 DEF BackoffEnds, passVars, PassInv, TypeOK
<1>4. FreshRows' /\ AttemptCap'
  BY DEF BackoffEnds, FreshRows, AttemptCap, TypeOK
<1> QED
  BY <1>1, <1>2, <1>3, <1>4

LEMMA SetGateIInv ==
  ASSUME IInv, NEW g \in {"closed", "persist", "open"}, SetGate(g)
  PROVE  IInv'
BY DEF IInv, SetGate, rowVars, passVars, TypeOK, Lasts, NoSharedRow, PassInv,
       Due, FreshRows, AttemptCap

LEMMA ClaimIInv ==
  ASSUME IInv, NEW w \in Workers, Claim(w)
  PROVE  IInv'
<1>. USE DEF IInv
<1>1. PICK batch \in SUBSET {d \in Rows : Due(d) /\ ~Locked(d)} :
        /\ claimed' = [claimed EXCEPT ![w] = batch]
        /\ todo' = [todo EXCEPT ![w] = batch]
  BY DEF Claim
<1>2. /\ batch \subseteq Rows
      /\ \A d \in batch : Due(d) /\ \A v \in Workers : d \notin claimed[v]
  BY <1>1 DEF Locked
<1>3. TypeOK'
  BY <1>1, <1>2 DEF Claim, TypeOK, rowVars
<1>4. Lasts' /\ FreshRows' /\ AttemptCap'
  BY DEF Claim, rowVars, Lasts, FreshRows, AttemptCap
<1>5. NoSharedRow'
  BY <1>1, <1>2 DEF NoSharedRow, TypeOK
<1>6. PassInv'
  <2>1. \A d \in Rows : Due(d) <=> Due(d)'
    BY DEF Claim, rowVars, Due
  <2>2. claimed[w] = {} /\ verdict' = verdict
    BY DEF Claim
  <2>3. \A v \in Workers : v # w => claimed'[v] = claimed[v] /\ todo'[v] = todo[v]
    BY <1>1 DEF TypeOK
  <2>4. claimed'[w] = batch /\ todo'[w] = batch
    BY <1>1 DEF TypeOK
  <2>5. \A v \in Workers : \A d \in claimed'[v] : d \in Rows /\ Due(d)
    BY <1>2, <2>3, <2>4 DEF PassInv, TypeOK
  <2>6. \A d \in Rows : verdict[w][d] = "none"
    BY <2>2 DEF PassInv
  <2> QED
    BY <2>1, <2>2, <2>3, <2>4, <2>5, <2>6 DEF PassInv
<1> QED
  BY <1>3, <1>4, <1>5, <1>6

\* A row in todo is locked by its worker, and by nobody else.
LEMMA HandledPassInv ==
  ASSUME IInv, NEW w \in Workers, NEW d \in todo[w],
         NEW r \in {"sent", "failed", "untried"}, Handled(w, d, r),
         UNCHANGED <<rowVars, claimed>>
  PROVE  PassInv'
<1>. USE DEF IInv
<1>1. d \in Rows /\ d \in claimed[w]
  BY DEF TypeOK, PassInv
<1>2. /\ todo'[w] = todo[w] \ {d}
      /\ verdict'[w][d] = r
      /\ \A e \in Rows \ {d} : verdict'[w][e] = verdict[w][e]
      /\ \A v \in Workers \ {w} : todo'[v] = todo[v] /\ verdict'[v] = verdict[v]
  BY <1>1, HandledEffect
<1>3. claimed' = claimed /\ \A e \in Rows : Due(e) <=> Due(e)'
  BY DEF rowVars, Due
<1>4. \A v \in Workers : \A e \in claimed[v] : e \in Rows /\ Due(e)
  BY DEF PassInv, TypeOK
<1>5. \A v \in Workers : todo'[v] \subseteq claimed[v]
  BY <1>2 DEF PassInv
<1>6. ASSUME NEW v \in Workers, NEW e \in Rows, verdict'[v][e] # "none"
      PROVE  e \in claimed[v] \ todo'[v]
  <2>1. CASE v # w
    BY <1>2, <1>6, <2>1 DEF PassInv
  <2>2. CASE v = w /\ e = d
    BY <1>1, <1>2, <2>2
  <2>3. CASE v = w /\ e # d
    BY <1>2, <1>6, <2>3 DEF PassInv
  <2> QED
    BY <2>1, <2>2, <2>3
<1> QED
  BY <1>3, <1>4, <1>5, <1>6 DEF PassInv

LEMMA LeaveUntriedIInv ==
  ASSUME IInv, NEW w \in Workers, NEW d \in Rows, LeaveUntried(w, d)
  PROVE  IInv'
<1>. USE DEF IInv
<1>1. d \in todo[w] /\ Handled(w, d, "untried")
  BY DEF LeaveUntried, Current
<1>2. TypeOK'
  BY <1>1, HandledEffect DEF LeaveUntried, TypeOK, rowVars
<1>3. Lasts' /\ NoSharedRow' /\ FreshRows' /\ AttemptCap'
  BY DEF LeaveUntried, rowVars, Lasts, NoSharedRow, FreshRows, AttemptCap
<1>4. PassInv'
  BY <1>1, HandledPassInv DEF LeaveUntried
<1> QED
  BY <1>2, <1>3, <1>4

LEMMA BeginDispatchIInv ==
  ASSUME IInv, NEW w \in Workers, NEW d \in Rows, BeginDispatch(w, d)
  PROVE  IInv'
<1>. USE DEF IInv
<1>1. LastSequence(d) \in Nat
  BY LastSequenceType
<1>2. 1 \in 0..ChannelCount
  BY OutboxAssumption
<1>3. TypeOK'
  BY <1>1, <1>2 DEF BeginDispatch, TypeOK, rowVars
<1>4. Lasts' /\ NoSharedRow' /\ FreshRows' /\ AttemptCap'
  BY DEF BeginDispatch, rowVars, Lasts, NoSharedRow, FreshRows, AttemptCap
<1>5. PassInv'
  BY DEF BeginDispatch, rowVars, PassInv, Due
<1> QED
  BY <1>3, <1>4, <1>5

LEMMA ChannelSentIInv ==
  ASSUME IInv, NEW w \in Workers, NEW d \in Rows, ChannelSent(w, d)
  PROVE  IInv'
<1>. USE DEF IInv
<1>1. /\ d \in todo[w] /\ Handled(w, d, "sent")
      /\ Noted(w, d, "SENT") /\ channel[w] > 0
  BY DEF ChannelSent, Current
<1>2. /\ new_attempts' \in [Workers -> [Rows -> SUBSET Attempt]]
      /\ \A v \in Workers, e \in Rows : HasLast(new_attempts'[v][e])
  BY <1>1, NotedEffect
<1>3. accepted' \in [Rows -> Nat]
  BY DEF ChannelSent, TypeOK
<1>4. TypeOK'
  BY <1>1, <1>2, <1>3, HandledEffect DEF ChannelSent, TypeOK, rowVars
<1>5. Lasts' /\ NoSharedRow' /\ FreshRows' /\ AttemptCap'
  BY <1>2 DEF ChannelSent, rowVars, Lasts, NoSharedRow, FreshRows, AttemptCap
<1>6. PassInv'
  BY <1>1, HandledPassInv DEF ChannelSent
<1> QED
  BY <1>4, <1>5, <1>6

LEMMA ChannelFailsIInv ==
  ASSUME IInv, NEW w \in Workers, NEW d \in Rows, ChannelFails(w, d)
  PROVE  IInv'
<1>. USE DEF IInv
<1>1. /\ d \in todo[w] /\ channel[w] > 0
      /\ \E st \in {"SENT", "FAILED", "SKIPPED"} : Noted(w, d, st)
      /\ UNCHANGED <<rowVars, claimed, may_send, sequence_offset, gate,
                     accepted, undone, crashes>>
  BY DEF ChannelFails, Current
<1>2. /\ new_attempts' \in [Workers -> [Rows -> SUBSET Attempt]]
      /\ \A v \in Workers, e \in Rows : HasLast(new_attempts'[v][e])
  BY <1>1, NotedEffect
<1>3. Lasts' /\ NoSharedRow' /\ FreshRows' /\ AttemptCap'
  BY <1>1, <1>2 DEF rowVars, Lasts, NoSharedRow, FreshRows, AttemptCap
<1>4. CASE channel[w] < ChannelCount
  <2>1. /\ channel' = [channel EXCEPT ![w] = channel[w] + 1]
        /\ UNCHANGED <<todo, verdict>>
    BY <1>4 DEF ChannelFails
  <2>2. channel[w] + 1 \in 0..ChannelCount
    BY <1>4, OutboxAssumption DEF TypeOK
  <2>3. TypeOK'
    BY <1>1, <1>2, <2>1, <2>2 DEF TypeOK, rowVars
  <2>4. PassInv'
    BY <1>1, <2>1 DEF rowVars, PassInv, Due
  <2> QED
    BY <1>3, <2>3, <2>4
<1>5. CASE ~(channel[w] < ChannelCount)
  <2>1. Handled(w, d, "failed")
    BY <1>5 DEF ChannelFails
  <2>2. TypeOK'
    BY <1>1, <1>2, <2>1, HandledEffect DEF TypeOK, rowVars
  <2>3. PassInv'
    BY <1>1, <2>1, HandledPassInv
  <2> QED
    BY <1>3, <2>2, <2>3
<1> QED
  BY <1>4, <1>5

LEMMA PassOverLasts ==
  ASSUME IInv, NEW w \in Workers, PassOver(w), NEW v \in Workers, NEW d \in Rows
  PROVE  HasLast(new_attempts'[v][d])
<1>1. new_attempts'[v][d] = {} \/ new_attempts'[v] = new_attempts[v]
  <2>1. CASE v = w
    BY <2>1, PassOverEffect DEF IInv
  <2>2. CASE v # w
    BY <2>2, PassOverEffect DEF IInv
  <2> QED
    BY <2>1, <2>2
<1>2. HasLast(new_attempts[v][d])
  BY DEF IInv, Lasts
<1>3. HasLast({})
  BY DEF HasLast
<1> QED
  BY <1>1, <1>2, <1>3

\* When a pass ends, the other passes keep what they rely on, provided that the
\* rows they have claimed stay due.
LEMMA PassOverInv ==
  ASSUME IInv, NEW w \in Workers, PassOver(w),
         \A v \in Workers \ {w} : \A d \in claimed[v] : Due(d)'
  PROVE  NoSharedRow' /\ PassInv'
<1>. USE DEF IInv
<1>1. /\ claimed'[w] = {} /\ todo'[w] = {}
      /\ \A d \in Rows : verdict'[w][d] = "none"
      /\ \A v \in Workers \ {w} : /\ claimed'[v] = claimed[v]
                                  /\ todo'[v] = todo[v]
                                  /\ verdict'[v] = verdict[v]
  BY PassOverEffect
<1>2. NoSharedRow'
  BY <1>1 DEF NoSharedRow
<1>3. ASSUME NEW v \in Workers
      PROVE  /\ todo'[v] \subseteq claimed'[v]
             /\ \A d \in claimed'[v] : Due(d)'
             /\ \A d \in Rows : verdict'[v][d] # "none" => d \in claimed'[v] \ todo'[v]
  <2>1. CASE v = w
    BY <1>1, <2>1
  <2>2. CASE v # w
    BY <1>1, <2>2 DEF PassInv
  <2> QED
    BY <2>1, <2>2
<1>4. PassInv'
  BY <1>3 DEF PassInv
<1> QED
  BY <1>2, <1>4

\* What a commit writes into the outbox row of d.
LEMMA MarkedEffect ==
  ASSUME TypeOK, NEW done \in SUBSET Rows, NEW retried \in SUBSET Rows,
         Marked(done, retried)
  PROVE  /\ status' \in [Rows -> {"none", "PENDING", "FAILED", "PUBLISHED"}]
         /\ attempt_count' \in [Rows -> Nat]
         /\ next_attempt_at' \in [Rows -> {"now", "backoff", "given_up"}]
         /\ \A d \in done :
              /\ status'[d] = "PUBLISHED" /\ next_attempt_at'[d] = "now"
              /\ attempt_count'[d] = attempt_count[d] + 1
         /\ \A d \in retried \ done :
              /\ status'[d] = "FAILED"
              /\ attempt_count'[d] = attempt_count[d] + 1
              /\ next_attempt_at'[d] = IF IsGivenUp(attempt_count[d] + 1)
                                         THEN "given_up" ELSE "backoff"
         /\ \A d \in Rows \ (done \cup retried) :
              /\ status'[d] = status[d] /\ attempt_count'[d] = attempt_count[d]
              /\ next_attempt_at'[d] = next_attempt_at[d]
<1>1. /\ status' \in [Rows -> {"none", "PENDING", "FAILED", "PUBLISHED"}]
      /\ attempt_count' \in [Rows -> Nat]
      /\ next_attempt_at' \in [Rows -> {"now", "backoff", "given_up"}]
  BY DEF Marked, TypeOK
<1>2. \A d \in done :
        /\ status'[d] = "PUBLISHED" /\ next_attempt_at'[d] = "now"
        /\ attempt_count'[d] = attempt_count[d] + 1
  BY DEF Marked
<1>3. \A d \in retried \ done :
        /\ status'[d] = "FAILED"
        /\ attempt_count'[d] = attempt_count[d] + 1
        /\ next_attempt_at'[d] = IF IsGivenUp(attempt_count[d] + 1)
                                   THEN "given_up" ELSE "backoff"
  BY DEF Marked
<1>4. \A d \in Rows \ (done \cup retried) :
        /\ status'[d] = status[d] /\ attempt_count'[d] = attempt_count[d]
        /\ next_attempt_at'[d] = next_attempt_at[d]
  BY DEF Marked
<1> QED
  BY <1>1, <1>2, <1>3, <1>4

\* A claimed row may be tried at least once more.
LEMMA ClaimedRows ==
  ASSUME IInv, NEW w \in Workers, NEW d \in claimed[w]
  PROVE  /\ d \in Rows
         /\ status[d] \in {"PENDING", "FAILED"} /\ next_attempt_at[d] = "now"
         /\ attempt_count[d] \in Nat /\ attempt_count[d] + 1 <= MAX_OUTBOX_ATTEMPTS
<1>. USE DEF IInv
<1>1. d \in Rows /\ Due(d)
  BY DEF PassInv, TypeOK
<1>2. status[d] \in {"PENDING", "FAILED"} /\ next_attempt_at[d] = "now"
  BY <1>1 DEF Due
<1>3. attempt_count[d] \in Nat /\ attempt_count[d] <= MAX_OUTBOX_ATTEMPTS
  BY <1>1 DEF TypeOK, AttemptCap
<1>4. MAX_OUTBOX_ATTEMPTS \in Nat \ {0}
  BY OutboxAssumption
<1>5. attempt_count[d] # MAX_OUTBOX_ATTEMPTS
  BY <1>1, <1>2, <1>4 DEF AttemptCap, FreshRows
<1> QED
  BY <1>1, <1>2, <1>3, <1>4, <1>5

LEMMA CommitIInv ==
  ASSUME IInv, NEW w \in Workers, Commit(w)
  PROVE  IInv'
<1>. USE DEF IInv
<1>. DEFINE done == Sent(w)
            retried == claimed[w] \ Sent(w)
<1>1. PassOver(w) /\ Stored(w) /\ UNCHANGED <<created_at, gate, accepted, undone, crashes>>
  BY DEF Commit
<1>2. /\ done \subseteq claimed[w] /\ done \in SUBSET Rows /\ retried \in SUBSET Rows
      /\ done \cup retried = claimed[w] /\ retried \ done = retried
  BY DEF Sent, PassInv, TypeOK
<1>3. Marked(done, retried)
  BY DEF Commit
<1>. HIDE DEF done, retried
<1>4. /\ status' \in [Rows -> {"none", "PENDING", "FAILED", "PUBLISHED"}]
      /\ attempt_count' \in [Rows -> Nat]
      /\ next_attempt_at' \in [Rows -> {"now", "backoff", "given_up"}]
      /\ \A d \in Rows \ claimed[w] :
           /\ status'[d] = status[d] /\ attempt_count'[d] = attempt_count[d]
           /\ next_attempt_at'[d] = next_attempt_at[d]
  <2>1. \A d \in Rows \ (done \cup retried) :
          /\ status'[d] = status[d] /\ attempt_count'[d] = attempt_count[d]
          /\ next_attempt_at'[d] = next_attempt_at[d]
    BY <1>2, <1>3, MarkedEffect
  <2>2. /\ status' \in [Rows -> {"none", "PENDING", "FAILED", "PUBLISHED"}]
        /\ attempt_count' \in [Rows -> Nat]
        /\ next_attempt_at' \in [Rows -> {"now", "backoff", "given_up"}]
    BY <1>2, <1>3, MarkedEffect
  <2> QED
    BY <1>2, <2>1, <2>2
<1>5. \A d \in done :
        /\ status'[d] = "PUBLISHED" /\ next_attempt_at'[d] = "now"
        /\ attempt_count'[d] = attempt_count[d] + 1
  BY <1>2, <1>3, MarkedEffect
<1>6. \A d \in retried :
        /\ status'[d] = "FAILED"
        /\ attempt_count'[d] = attempt_count[d] + 1
        /\ next_attempt_at'[d] = IF IsGivenUp(attempt_count[d] + 1)
                                   THEN "given_up" ELSE "backoff"
  <2>1. \A d \in retried \ done :
          /\ status'[d] = "FAILED"
          /\ attempt_count'[d] = attempt_count[d] + 1
          /\ next_attempt_at'[d] = IF IsGivenUp(attempt_count[d] + 1)
                                     THEN "given_up" ELSE "backoff"
    BY <1>2, <1>3, MarkedEffect
  <2> QED
    BY <1>2, <2>1
<1>7. /\ delivery_status' \in [Rows -> {"none", "QUEUED", "FAILED", "SENT"}]
      /\ attempts' \in [Rows -> SUBSET Attempt]
  BY <1>1 DEF Stored, TypeOK
<1>8. TypeOK'
  BY <1>1, <1>4, <1>7, PassOverEffect DEF TypeOK
<1>9. Lasts'
  <2>1. ASSUME NEW d \in Rows
        PROVE  HasLast(attempts'[d])
    <3>1. attempts'[d] = attempts[d] \cup new_attempts[w][d]
      BY <1>1 DEF Stored
    <3>2. attempts[d] \in SUBSET Attempt /\ new_attempts[w][d] \in SUBSET Attempt
      BY DEF TypeOK
    <3>3. HasLast(attempts[d]) /\ HasLast(new_attempts[w][d])
      BY DEF Lasts
    <3> QED
      BY <3>1, <3>2, <3>3, HasLastUnion
  <2>2. \A v \in Workers, d \in Rows : HasLast(new_attempts'[v][d])
    BY <1>1, PassOverLasts
  <2> QED
    BY <2>1, <2>2 DEF Lasts
<1>10. NoSharedRow' /\ PassInv'
  <2>1. ASSUME NEW v \in Workers \ {w}, NEW d \in claimed[v]
        PROVE  Due(d)'
    <3>1. d \in Rows \ claimed[w] /\ Due(d)
      BY DEF NoSharedRow, PassInv, TypeOK
    <3> QED
      BY <3>1, <1>4 DEF Due
  <2> QED
    BY <1>1, <2>1, PassOverInv
<1>11. FreshRows' /\ AttemptCap'
  <2>1. ASSUME NEW d \in claimed[w]
        PROVE  /\ status'[d] \in {"PUBLISHED", "FAILED"}
               /\ status'[d] = "PUBLISHED" => next_attempt_at'[d] = "now"
               /\ attempt_count'[d] <= MAX_OUTBOX_ATTEMPTS
               /\ next_attempt_at'[d] = "given_up" <=>
                    status'[d] = "FAILED" /\ attempt_count'[d] = MAX_OUTBOX_ATTEMPTS
    <3>1. attempt_count[d] \in Nat /\ attempt_count[d] + 1 <= MAX_OUTBOX_ATTEMPTS
      BY ClaimedRows
    <3>2. MAX_OUTBOX_ATTEMPTS \in Nat
      BY OutboxAssumption
    <3>3. CASE d \in done
      BY <1>5, <3>1, <3>3
    <3>4. CASE d \in retried
      BY <1>6, <3>1, <3>2, <3>4 DEF IsGivenUp
    <3> QED
      BY <1>2, <3>3, <3>4
  <2>2. FreshRows'
    BY <1>4, <2>1 DEF FreshRows
  <2>3. AttemptCap'
    BY <1>4, <2>1 DEF AttemptCap
  <2> QED
    BY <2>2, <2>3
<1> QED
  BY <1>8, <1>9, <1>10, <1>11

LEMMA RollBackIInv ==
  ASSUME IInv, NEW w \in Workers, RollBack(w), crashes' \in Nat
  PROVE  IInv'
<1>. USE DEF IInv
<1>1. PassOver(w) /\ UNCHANGED <<rowVars, gate, accepted>>
  BY DEF RollBack
<1>2. undone' \in [Rows -> Nat]
  BY DEF RollBack, TypeOK
<1>3. TypeOK'
  BY <1>1, <1>2, PassOverEffect DEF TypeOK, rowVars
<1>4. Lasts'
  <2>1. \A v \in Workers, d \in Rows : HasLast(new_attempts'[v][d])
    BY <1>1, PassOverLasts
  <2> QED
    BY <1>1, <2>1 DEF Lasts, rowVars
<1>5. NoSharedRow' /\ PassInv'
  BY <1>1, PassOverInv DEF PassInv, Due, rowVars
<1>6. FreshRows' /\ AttemptCap'
  BY <1>1 DEF FreshRows, AttemptCap, rowVars
<1> QED
  BY <1>3, <1>4, <1>5, <1>6

LEMMA StepIInv ==
  ASSUME IInv, [Next]_vars
  PROVE  IInv'
<1>1. ASSUME NEW d \in Rows, Enqueue(d) \/ BackoffEnds(d)
      PROVE  IInv'
  BY <1>1, EnqueueIInv, BackoffEndsIInv
<1>2. ASSUME NEW g \in {"closed", "persist", "open"}, SetGate(g)
      PROVE  IInv'
  BY <1>2, SetGateIInv
<1>3. ASSUME NEW w \in Workers, Work(w)
      PROVE  IInv'
  <2>1. CASE Claim(w)
    BY <2>1, ClaimIInv
  <2>2. ASSUME NEW d \in Rows, LeaveUntried(w, d) \/ BeginDispatch(w, d)
        PROVE  IInv'
    BY <2>2, LeaveUntriedIInv, BeginDispatchIInv
  <2>3. ASSUME NEW d \in Rows, ChannelSent(w, d) \/ ChannelFails(w, d)
        PROVE  IInv'
    BY <2>3, ChannelSentIInv, ChannelFailsIInv
  <2>4. ASSUME NEW d \in Rows, Raise(w, d)
        PROVE  IInv'
    BY <2>4, RollBackIInv DEF Raise, IInv, TypeOK
  <2>5. CASE Commit(w)
    BY <2>5, CommitIInv
  <2> QED
    BY <1>3, <2>1, <2>2, <2>3, <2>4, <2>5 DEF Work
<1>4. ASSUME NEW w \in Workers, Crash(w)
      PROVE  IInv'
  BY <1>4, RollBackIInv DEF Crash, IInv, TypeOK
<1>5. CASE UNCHANGED vars
  BY <1>5 DEF vars, rowVars, passVars, IInv, TypeOK, Lasts, NoSharedRow, PassInv,
              Due, FreshRows, AttemptCap
<1> QED
  BY <1>1, <1>2, <1>3, <1>4, <1>5 DEF Next

\* The inductive invariant holds in every reachable state.
THEOREM InductiveInvariant == Spec => []IInv
BY InitIInv, StepIInv, PTL DEF Spec

\* Every reachable state is well typed.
THEOREM OutboxTypeCorrect == Spec => []TypeOK
<1>1. IInv => TypeOK
  BY DEF IInv
<1> QED
  BY <1>1, InductiveInvariant, PTL

\* The recorded tries of a row stay within MAX_OUTBOX_ATTEMPTS, and it is parked
\* exactly when as many are recorded and the last one failed.
THEOREM AttemptsCapped == Spec => []AttemptCap
<1>1. IInv => AttemptCap
  BY DEF IInv
<1> QED
  BY <1>1, InductiveInvariant, PTL

-----------------------------------------------------------------------------
(* The account of accepted messages.                                        *)

Senders(d) == {w \in Workers : verdict[w][d] = "sent"}

\* A row that a pass has sent was sent by no other pass that is still open ...
LEMMA OneSender ==
  ASSUME IInv, NEW w \in Workers, NEW d \in Sent(w)
  PROVE  d \in claimed[w] /\ Senders(d) = {w} /\ Cardinality(Senders(d)) = 1
<1>1. d \in Rows /\ verdict[w][d] = "sent"
  BY DEF Sent
<1>2. \A v \in Workers : verdict[v][d] = "sent" => d \in claimed[v]
  BY <1>1 DEF IInv, PassInv
<1>3. Senders(d) = {w}
  BY <1>1, <1>2 DEF Senders, IInv, NoSharedRow
<1> QED
  BY <1>1, <1>2, <1>3, FS_Singleton

\* ... and a row that a pass has yet to handle, by none at all.
LEMMA NoSender ==
  ASSUME IInv, NEW w \in Workers, NEW d \in todo[w]
  PROVE  d \in Rows /\ Senders(d) = {} /\ Cardinality(Senders(d)) = 0
<1>1. d \in Rows /\ d \in claimed[w]
  BY DEF IInv, TypeOK, PassInv
<1>2. \A v \in Workers : verdict[v][d] = "sent" => d \in claimed[v] \ todo[v]
  BY <1>1 DEF IInv, PassInv
<1>3. Senders(d) = {}
  BY <1>1, <1>2 DEF Senders, IInv, NoSharedRow
<1> QED
  BY <1>1, <1>3, FS_EmptySet

LEMMA SendersType ==
  ASSUME NEW d \in Rows
  PROVE  Cardinality(Senders(d)) \in Nat
BY OutboxAssumption, FS_Subset, FS_CardinalityType DEF Senders

\* The account of one row.
Balanced(d) ==
  accepted[d] = undone[d] + (IF status[d] = "PUBLISHED" THEN 1 ELSE 0)
    + Cardinality(Senders(d))

LEMMA Balances == SendsAccounted <=> \A d \in Rows : Balanced(d)
BY DEF SendsAccounted, Balanced, Senders

\* A row whose figures a step leaves alone.
LEMMA StillBalanced ==
  ASSUME NEW d \in Rows, Balanced(d),
         accepted'[d] = accepted[d], undone'[d] = undone[d],
         status'[d] = "PUBLISHED" <=> status[d] = "PUBLISHED",
         Senders(d)' = Senders(d)
  PROVE  Balanced(d)'
BY DEF Balanced

\* The steps of a pass that accept nothing.
LEMMA QuietBalanced ==
  ASSUME IInv, NEW w \in Workers, NEW d \in todo[w],
         NEW r \in {"failed", "untried"},
         Handled(w, d, r), UNCHANGED <<status, accepted, undone>>,
         NEW e \in Rows, Balanced(e)
  PROVE  Balanced(e)'
<1>1. d \in Rows /\ verdict[w][d] = "none"
  BY DEF IInv, TypeOK, PassInv
<1>2. /\ verdict'[w][d] = r
      /\ \A x \in Rows \ {d} : verdict'[w][x] = verdict[w][x]
      /\ \A v \in Workers \ {w} : verdict'[v] = verdict[v]
  BY <1>1, HandledEffect DEF IInv
<1>3. \A v \in Workers : verdict'[v][e] = "sent" <=> verdict[v][e] = "sent"
  BY <1>1, <1>2
<1>4. Senders(e)' = Senders(e)
  BY <1>3 DEF Senders
<1> QED
  BY <1>4, StillBalanced

LEMMA ChannelSentBalanced ==
  ASSUME IInv, NEW w \in Workers, NEW d \in Rows, ChannelSent(w, d),
         NEW e \in Rows, Balanced(e)
  PROVE  Balanced(e)'
<1>1. /\ d \in todo[w] /\ Handled(w, d, "sent")
      /\ accepted' = [accepted EXCEPT ![d] = accepted[d] + 1]
      /\ UNCHANGED <<status, undone>>
  BY DEF ChannelSent, Current, rowVars
<1>2. /\ verdict'[w][d] = "sent"
      /\ \A x \in Rows \ {d} : verdict'[w][x] = verdict[w][x]
      /\ \A v \in Workers \ {w} : verdict'[v] = verdict[v]
  BY <1>1, HandledEffect DEF IInv
<1>3. CASE e = d
  <2>1. Senders(d) = {} /\ Cardinality(Senders(d)) = 0
    BY <1>1, NoSender
  <2>2. Senders(d)' = {w}
    BY <1>2, <2>1 DEF Senders
  <2>3. Cardinality(Senders(d))' = 1
    BY <2>2, FS_Singleton
  <2>4. accepted'[d] = accepted[d] + 1 /\ accepted[d] \in Nat /\ undone[d] \in Nat
    BY <1>1 DEF IInv, TypeOK
  <2> QED
    BY <1>1, <1>3, <2>1, <2>3, <2>4 DEF Balanced
<1>4. CASE e # d
  <2>1. Senders(e)' = Senders(e)
    BY <1>2, <1>4 DEF Senders
  <2>2. accepted'[e] = accepted[e]
    BY <1>1, <1>4 DEF IInv, TypeOK
  <2> QED
    BY <1>1, <2>1, <2>2, StillBalanced
<1> QED
  BY <1>3, <1>4

\* The end of a pass takes its worker out of the senders of every row.
LEMMA PassOverSenders ==
  ASSUME IInv, NEW w \in Workers, PassOver(w), NEW d \in Rows
  PROVE  Senders(d)' = Senders(d) \ {w}
<1>1. /\ \A x \in Rows : verdict'[w][x] = "none"
      /\ \A v \in Workers \ {w} : verdict'[v] = verdict[v]
  BY PassOverEffect DEF IInv
<1> QED
  BY <1>1 DEF Senders

LEMMA CommitBalanced ==
  ASSUME IInv, NEW w \in Workers, Commit(w), NEW d \in Rows, Balanced(d)
  PROVE  Balanced(d)'
<1>1. /\ PassOver(w) /\ Marked(Sent(w), claimed[w] \ Sent(w))
      /\ UNCHANGED <<accepted, undone>>
  BY DEF Commit
<1>2. Senders(d)' = Senders(d) \ {w}
  BY <1>1, PassOverSenders
<1>3. accepted[d] \in Nat /\ undone[d] \in Nat
  BY DEF IInv, TypeOK
<1>4. CASE d \in Sent(w)
  <2>1. d \in claimed[w] /\ Senders(d) = {w} /\ Cardinality(Senders(d)) = 1
    BY <1>4, OneSender
  <2>2. Senders(d)' = {} /\ Cardinality(Senders(d))' = 0
    BY <1>2, <2>1, FS_EmptySet
  <2>3. status[d] # "PUBLISHED" /\ status'[d] = "PUBLISHED"
    BY <1>1, <1>4, <2>1, ClaimedRows DEF Marked
  <2> QED
    BY <1>1, <1>3, <2>1, <2>2, <2>3 DEF Balanced
<1>5. CASE d \notin Sent(w)
  <2>1. Senders(d)' = Senders(d)
    BY <1>2, <1>5 DEF Senders, Sent
  <2>2. status'[d] = "PUBLISHED" <=> status[d] = "PUBLISHED"
    <3>1. CASE d \in claimed[w]
      BY <1>1, <1>5, <3>1, ClaimedRows DEF Marked
    <3>2. CASE d \notin claimed[w]
      BY <1>1, <1>5, <3>2 DEF Marked
    <3> QED
      BY <3>1, <3>2
  <2> QED
    BY <1>1, <2>1, <2>2, StillBalanced
<1> QED
  BY <1>4, <1>5

LEMMA RollBackBalanced ==
  ASSUME IInv, NEW w \in Workers, RollBack(w), NEW d \in Rows, Balanced(d)
  PROVE  Balanced(d)'
<1>1. /\ PassOver(w) /\ UNCHANGED <<accepted, status>>
      /\ undone'[d] = IF d \in Sent(w) THEN undone[d] + 1 ELSE undone[d]
  BY DEF RollBack, rowVars
<1>2. Senders(d)' = Senders(d) \ {w}
  BY <1>1, PassOverSenders
<1>3. accepted[d] \in Nat /\ undone[d] \in Nat
  BY DEF IInv, TypeOK
<1>4. CASE d \in Sent(w)
  <2>1. d \in claimed[w] /\ Senders(d) = {w} /\ Cardinality(Senders(d)) = 1
    BY <1>4, OneSender
  <2>2. Senders(d)' = {} /\ Cardinality(Senders(d))' = 0
    BY <1>2, <2>1, FS_EmptySet
  <2>3. status[d] # "PUBLISHED" /\ undone'[d] = undone[d] + 1
    BY <1>1, <1>4, <2>1, ClaimedRows
  <2> QED
    BY <1>1, <1>3, <2>1, <2>2, <2>3 DEF Balanced
<1>5. CASE d \notin Sent(w)
  <2>1. Senders(d)' = Senders(d)
    BY <1>2, <1>5 DEF Senders, Sent
  <2> QED
    BY <1>1, <1>5, <2>1, StillBalanced
<1> QED
  BY <1>4, <1>5

LEMMA StepBalanced ==
  ASSUME IInv, [Next]_vars, NEW d \in Rows, Balanced(d)
  PROVE  Balanced(d)'
<1>1. ASSUME status' = status \/ \E e \in Rows : Enqueue(e),
             UNCHANGED <<verdict, accepted, undone>>
      PROVE  Balanced(d)'
  <2>1. status'[d] = "PUBLISHED" <=> status[d] = "PUBLISHED"
    <3>1. status \in [Rows -> {"none", "PENDING", "PUBLISHED", "FAILED"}]
      BY DEF IInv, TypeOK
    <3>2. \A e \in Rows : Enqueue(e) => status[e] # "PUBLISHED" /\ status' = [status EXCEPT ![e] = "PENDING"]
      BY DEF Enqueue
    <3> QED
      BY <1>1, <3>1, <3>2
  <2>2. Senders(d)' = Senders(d)
    BY <1>1 DEF Senders
  <2> QED
    BY <1>1, <2>1, <2>2, StillBalanced
<1>2. ASSUME NEW e \in Rows, Enqueue(e) \/ BackoffEnds(e)
      PROVE  Balanced(d)'
  BY <1>1, <1>2 DEF Enqueue, BackoffEnds, passVars
<1>3. ASSUME NEW g \in {"closed", "persist", "open"}, SetGate(g)
      PROVE  Balanced(d)'
  BY <1>1, <1>3 DEF SetGate, rowVars, passVars
<1>4. ASSUME NEW w \in Workers, Work(w)
      PROVE  Balanced(d)'
  <2>1. CASE Claim(w)
    BY <1>1, <2>1 DEF Claim, rowVars
  <2>2. ASSUME NEW e \in Rows, LeaveUntried(w, e)
        PROVE  Balanced(d)'
    BY <2>2, QuietBalanced DEF LeaveUntried, Current, rowVars
  <2>3. ASSUME NEW e \in Rows, BeginDispatch(w, e)
        PROVE  Balanced(d)'
    BY <1>1, <2>3 DEF BeginDispatch, rowVars
  <2>4. ASSUME NEW e \in Rows, ChannelSent(w, e)
        PROVE  Balanced(d)'
    BY <2>4, ChannelSentBalanced
  <2>5. ASSUME NEW e \in Rows, ChannelFails(w, e)
        PROVE  Balanced(d)'
    <3>1. e \in todo[w] /\ UNCHANGED <<status, accepted, undone>>
      BY <2>5 DEF ChannelFails, Current, rowVars
    <3>2. UNCHANGED verdict \/ Handled(w, e, "failed")
      BY <2>5 DEF ChannelFails
    <3> QED
      BY <1>1, <3>1, <3>2, QuietBalanced
  <2>6. ASSUME NEW e \in Rows, Raise(w, e)
        PROVE  Balanced(d)'
    BY <2>6, RollBackBalanced DEF Raise
  <2>7. CASE Commit(w)
    BY <2>7, CommitBalanced
  <2> QED
    BY <1>4, <2>1, <2>2, <2>3, <2>4, <2>5, <2>6, <2>7 DEF Work
<1>5. ASSUME NEW w \in Workers, Crash(w)
      PROVE  Balanced(d)'
  BY <1>5, RollBackBalanced DEF Crash
<1>6. CASE UNCHANGED vars
  BY <1>1, <1>6 DEF vars, rowVars, passVars
<1> QED
  BY <1>2, <1>3, <1>4, <1>5, <1>6 DEF Next

\* However often passes are rolled back, every message a provider accepted is
\* recorded, pending in exactly one open pass, or was undone.
THEOREM SendsAccountedFor == Spec => []SendsAccounted
<1>1. Init => SendsAccounted
  <2>. SUFFICES ASSUME Init, NEW d \in Rows PROVE Balanced(d)
    BY Balances
  <2>1. Senders(d) = {}
    BY DEF Init, Senders, NoVerdict
  <2>2. Cardinality(Senders(d)) = 0
    BY <2>1, FS_EmptySet
  <2> QED
    BY <2>2 DEF Init, Balanced
<1>2. IInv /\ SendsAccounted /\ [Next]_vars => SendsAccounted'
  <2>. SUFFICES ASSUME IInv, [Next]_vars, \A d \in Rows : Balanced(d)
                PROVE  SendsAccounted'
    BY Balances
  <2>1. \A d \in Rows : Balanced(d)'
    BY StepBalanced
  <2> QED
    BY <2>1 DEF SendsAccounted, Balanced, Senders
<1> QED
  BY <1>1, <1>2, InductiveInvariant, PTL DEF Spec

-----------------------------------------------------------------------------
(* The three records of a message.                                          *)

\* The attempts of S carry the numbers from m + 1 to n, each once.
Numbered(S, m, n) ==
  /\ {a.sequence : a \in S} = (m + 1)..n
  /\ \A a, b \in S : a.sequence = b.sequence => a = b

\* None of them was SENT; or the last one was, and no other.
Unsent(S, m, n)   == Numbered(S, m, n) /\ \A a \in S : a.status # "SENT"
SentLast(S, m, n) ==
  n > m /\ Numbered(S, m, n) /\ \A a \in S : a.status = "SENT" <=> a.sequence = n

Existing == {d \in Rows : status[d] # "none"}

\* Rows are taken one after the other: no two have the same rank.
Ordered ==
  /\ \A d \in Existing : created_at[d] \in 1..Cardinality(Existing)
  /\ \A d, e \in Existing : created_at[d] = created_at[e] => d = e

Idle == \A w \in Workers : todo[w] = {} => channel[w] = 0

Dispatching(w, d) == channel[w] > 0 /\ Current(w, d)

\* What the stored records say of a row ...
StoredLog(d) ==
  /\ status[d] = "PUBLISHED" <=> delivery_status[d] = "SENT"
  /\ status[d] # "PUBLISHED" => \E n \in Nat : Unsent(attempts[d], 0, n)
  /\ status[d] = "PUBLISHED" => \E n \in Nat : SentLast(attempts[d], 0, n)

\* ... and what a pass adds to them.
PassLog(w, d) ==
  /\ verdict[w][d] = "sent" =>
       \E n \in Nat : SentLast(new_attempts[w][d], LastSequence(d), n)
  /\ verdict[w][d] = "failed" =>
       \E n \in Nat : n >= LastSequence(d)
                      /\ Unsent(new_attempts[w][d], LastSequence(d), n)
  /\ verdict[w][d] \notin {"sent", "failed"} /\ ~Dispatching(w, d) =>
       new_attempts[w][d] = {}
  /\ Dispatching(w, d) =>
       /\ sequence_offset[w] = LastSequence(d)
       /\ Unsent(new_attempts[w][d], LastSequence(d),
                 LastSequence(d) + channel[w] - 1)

LogInv ==
  /\ Ordered /\ Idle
  /\ \A d \in Rows : StoredLog(d) /\ \A w \in Workers : PassLog(w, d)

LEMMA NumberedAdd ==
  ASSUME NEW S \in SUBSET Attempt, NEW a \in Attempt, NEW m \in Nat, NEW k \in Nat,
         Numbered(S, m, m + k), a.sequence = m + k + 1
  PROVE  Numbered(S \cup {a}, m, m + k + 1)
<1>1. {b.sequence : b \in S \cup {a}} = {b.sequence : b \in S} \cup {m + k + 1}
  OBVIOUS
<1>2. ((m + 1)..(m + k)) \cup {m + k + 1} = (m + 1)..(m + k + 1)
  OBVIOUS
<1>3. {b.sequence : b \in S \cup {a}} = (m + 1)..(m + k + 1)
  BY <1>1, <1>2 DEF Numbered
<1>4. \A b \in S : b.sequence \in (m + 1)..(m + k)
  BY DEF Numbered
<1>5. \A b \in S : b.sequence # a.sequence
  BY <1>4
<1>6. \A b, c \in S \cup {a} : b.sequence = c.sequence => b = c
  BY <1>5 DEF Numbered
<1> QED
  BY <1>3, <1>6 DEF Numbered

LEMMA NumberedUnion ==
  ASSUME NEW S \in SUBSET Attempt, NEW T \in SUBSET Attempt, NEW m \in Nat,
         NEW n \in Nat, m <= n, Numbered(S, 0, m), Numbered(T, m, n)
  PROVE  Numbered(S \cup T, 0, n)
<1>1. {b.sequence : b \in S \cup T}
        = {b.sequence : b \in S} \cup {b.sequence : b \in T}
  OBVIOUS
<1>2. (1..m) \cup ((m + 1)..n) = 1..n
  OBVIOUS
<1>3. {b.sequence : b \in S \cup T} = 1..n
  BY <1>1, <1>2 DEF Numbered
<1>4. (\A b \in S : b.sequence \in 1..m) /\ (\A b \in T : b.sequence \in (m + 1)..n)
  BY DEF Numbered
<1>5. \A b \in S, c \in T : b.sequence # c.sequence
  BY <1>4
<1>6. \A b, c \in S \cup T : b.sequence = c.sequence => b = c
  BY <1>5 DEF Numbered
<1> QED
  BY <1>3, <1>6 DEF Numbered

\* The last of the attempts that carry the numbers from 1 to n is n.
LEMMA LastIs ==
  ASSUME NEW d \in Rows, NEW n \in Nat, Numbered(attempts[d], 0, n)
  PROVE  LastSequence(d) = n
<1>. DEFINE S == {a.sequence : a \in attempts[d]}
<1>1. S = 1..n /\ \A a \in attempts[d] : a.sequence \in 1..n
  BY DEF Numbered
<1>2. CASE n = 0
  BY <1>1, <1>2 DEF LastSequence
<1>3. CASE n # 0
  <2>1. n \in S /\ \A a \in attempts[d] : a.sequence <= n
    BY <1>1, <1>3
  <2>2. ASSUME NEW x \in S, \A a \in attempts[d] : a.sequence <= x
        PROVE  x = n
    BY <1>1, <2>1, <2>2
  <2>3. attempts[d] # {}
    BY <2>1
  <2>4. LastSequence(d) = CHOOSE x \in S : \A a \in attempts[d] : a.sequence <= x
    BY <2>3 DEF LastSequence
  <2> QED
    BY <2>1, <2>2, <2>4
<1> QED
  BY <1>2, <1>3

LEMMA LogAgrees ==
  ASSUME IInv, LogInv
  PROVE  RecordsAgree
<1>. SUFFICES ASSUME NEW d \in Rows
              PROVE  /\ {a.sequence : a \in attempts[d]} = 1..LastSequence(d)
                     /\ \A a, b \in attempts[d] : a.sequence = b.sequence => a = b
                     /\ \A a \in attempts[d] :
                          a.status = "SENT" => a.sequence = LastSequence(d)
                     /\ status[d] = "PUBLISHED" <=>
                          \E a \in attempts[d] : a.status = "SENT"
                     /\ status[d] = "PUBLISHED" <=> delivery_status[d] = "SENT"
  BY DEF RecordsAgree
<1>1. StoredLog(d)
  BY DEF LogInv
<1>2. CASE status[d] = "PUBLISHED"
  <2>1. PICK n \in Nat : SentLast(attempts[d], 0, n)
    BY <1>1, <1>2 DEF StoredLog
  <2>2. LastSequence(d) = n
    BY <2>1, LastIs DEF SentLast
  <2>3. n \in {a.sequence : a \in attempts[d]}
    BY <2>1 DEF SentLast, Numbered
  <2>4. \E a \in attempts[d] : a.status = "SENT"
    BY <2>1, <2>3 DEF SentLast
  <2> QED
    BY <1>1, <1>2, <2>1, <2>2, <2>4 DEF SentLast, Numbered, StoredLog
<1>3. CASE status[d] # "PUBLISHED"
  <2>1. PICK n \in Nat : Unsent(attempts[d], 0, n)
    BY <1>1, <1>3 DEF StoredLog
  <2>2. LastSequence(d) = n
    BY <2>1, LastIs DEF Unsent
  <2> QED
    BY <1>1, <1>3, <2>1, <2>2 DEF Unsent, Numbered, StoredLog
<1> QED
  BY <1>2, <1>3

\* A pass is at one row at a time.
LEMMA OneCurrent ==
  ASSUME IInv, LogInv, NEW w \in Workers, NEW d \in Rows, Current(w, d),
         NEW e \in Rows, Current(w, e)
  PROVE  d = e
<1>1. d \in Existing /\ e \in Existing
  BY DEF Current, IInv, PassInv, Due, Existing
<1>2. created_at[d] <= created_at[e] /\ created_at[e] <= created_at[d]
  BY DEF Current
<1>3. created_at[d] \in Nat /\ created_at[e] \in Nat
  BY DEF IInv, TypeOK
<1> QED
  BY <1>1, <1>2, <1>3 DEF LogInv, Ordered

\* What a step does not touch keeps its log.
LEMMA SameStored ==
  ASSUME NEW d \in Rows, StoredLog(d), attempts'[d] = attempts[d],
         status'[d] = "PUBLISHED" <=> status[d] = "PUBLISHED",
         delivery_status'[d] = "SENT" <=> delivery_status[d] = "SENT"
  PROVE  StoredLog(d)'
BY DEF StoredLog

LEMMA SamePass ==
  ASSUME NEW w \in Workers, NEW d \in Rows, PassLog(w, d),
         attempts'[d] = attempts[d], verdict'[w][d] = verdict[w][d],
         new_attempts'[w][d] = new_attempts[w][d],
         Dispatching(w, d)' <=> Dispatching(w, d),
         Dispatching(w, d) =>
           channel'[w] = channel[w] /\ sequence_offset'[w] = sequence_offset[w]
  PROVE  PassLog(w, d)'
<1>1. LastSequence(d)' = LastSequence(d)
  BY DEF LastSequence
<1> QED
  BY <1>1 DEF PassLog

LEMMA SameOrder ==
  ASSUME Ordered, UNCHANGED created_at, Existing' = Existing
  PROVE  Ordered'
BY DEF Ordered

\* A pass that holds nothing of a row, and is not at it.
LEMMA NothingPassed ==
  ASSUME NEW w \in Workers, NEW d \in Rows, new_attempts[w][d] = {},
         verdict[w][d] \notin {"sent", "failed"}, ~Dispatching(w, d)
  PROVE  PassLog(w, d)
BY DEF PassLog

LEMMA LogUnchanged ==
  ASSUME LogInv,
         UNCHANGED <<created_at, status, delivery_status, attempts, todo, channel,
                     sequence_offset, new_attempts, verdict>>
  PROVE  LogInv'
<1>1. Existing' = Existing /\ Idle'
  BY DEF Existing, Idle, LogInv
<1>2. Ordered'
  BY <1>1, SameOrder DEF LogInv
<1>3. ASSUME NEW d \in Rows
      PROVE  StoredLog(d)' /\ \A w \in Workers : PassLog(w, d)'
  <2>1. StoredLog(d)'
    BY SameStored DEF LogInv
  <2>2. ASSUME NEW w \in Workers
        PROVE  PassLog(w, d)'
    <3>1. Dispatching(w, d)' <=> Dispatching(w, d)
      BY DEF Dispatching, Current
    <3> QED
      BY <3>1, SamePass DEF LogInv
  <2> QED
    BY <2>1, <2>2
<1> QED
  BY <1>1, <1>2, <1>3 DEF LogInv

LEMMA InitLog == Init => LogInv
<1>. SUFFICES ASSUME Init PROVE LogInv
  OBVIOUS
<1>1. Existing = {}
  BY DEF Init, Existing
<1>2. Ordered /\ Idle
  BY <1>1 DEF Init, Ordered, Idle
<1>3. ASSUME NEW d \in Rows
      PROVE  StoredLog(d) /\ \A w \in Workers : PassLog(w, d)
  <2>1. attempts[d] = {} /\ status[d] = "none" /\ delivery_status[d] = "none"
    BY DEF Init, NoAttempts
  <2>2. Unsent(attempts[d], 0, 0)
    BY <2>1 DEF Unsent, Numbered
  <2>3. StoredLog(d)
    BY <2>1, <2>2 DEF StoredLog
  <2>4. ASSUME NEW w \in Workers
        PROVE  PassLog(w, d)
    <3>1. new_attempts[w][d] = {} /\ verdict[w][d] = "none" /\ channel[w] = 0
      BY DEF Init, NoAttempts, NoVerdict
    <3> QED
      BY <3>1, NothingPassed DEF Dispatching
  <2> QED
    BY <2>3, <2>4
<1> QED
  BY <1>2, <1>3 DEF LogInv

LEMMA EnqueueLog ==
  ASSUME IInv, LogInv, NEW d \in Rows, Enqueue(d)
  PROVE  LogInv'
<1>1. /\ status[d] = "none" /\ status'[d] = "PENDING"
      /\ delivery_status'[d] = "QUEUED"
      /\ created_at'[d] = 1 + Cardinality(Existing)
      /\ \A e \in Rows \ {d} : /\ status'[e] = status[e]
                               /\ delivery_status'[e] = delivery_status[e]
                               /\ created_at'[e] = created_at[e]
      /\ UNCHANGED <<attempts, passVars>>
  BY DEF Enqueue, Existing, IInv, TypeOK
<1>2. Existing' = Existing \cup {d} /\ d \notin Existing
  BY <1>1 DEF Existing
<1>3. IsFiniteSet(Existing)
  BY OutboxAssumption, FS_Subset DEF Existing
<1>4. Cardinality(Existing) \in Nat /\ Cardinality(Existing)' = Cardinality(Existing) + 1
  <2>1. Cardinality(Existing \cup {d}) = Cardinality(Existing) + 1
    BY <1>2, <1>3, FS_AddElement
  <2> QED
    BY <1>2, <1>3, <2>1, FS_CardinalityType
<1>5. Ordered'
  <2>1. \A e \in Existing : created_at'[e] = created_at[e]
                            /\ created_at[e] \in 1..Cardinality(Existing)
    BY <1>1, <1>2 DEF LogInv, Ordered, Existing
  <2>2. \A e \in Existing' : created_at'[e] \in 1..Cardinality(Existing)'
    BY <1>1, <1>2, <1>4, <2>1
  <2>3. ASSUME NEW x \in Existing', NEW y \in Existing',
               created_at'[x] = created_at'[y]
        PROVE  x = y
    <3>1. CASE x = d \/ y = d
      BY <1>1, <1>2, <1>4, <2>1, <2>3, <3>1
    <3>2. CASE x # d /\ y # d
      BY <1>2, <2>1, <2>3, <3>2 DEF LogInv, Ordered
    <3> QED
      BY <3>1, <3>2
  <2> QED
    BY <2>2, <2>3 DEF Ordered
<1>6. Idle'
  BY <1>1 DEF LogInv, Idle, passVars
<1>7. ASSUME NEW e \in Rows
      PROVE  StoredLog(e)' /\ \A w \in Workers : PassLog(w, e)'
  <2>1. StoredLog(e) /\ attempts' = attempts
    BY <1>1 DEF LogInv
  <2>2. delivery_status[d] # "SENT"
    BY <1>1 DEF LogInv, StoredLog
  <2>3. StoredLog(e)'
    BY <1>1, <2>1, <2>2, SameStored
  <2>4. ASSUME NEW w \in Workers
        PROVE  PassLog(w, e)'
    <3>1. d \notin todo[w] /\ todo[w] \subseteq Rows
      BY <1>1 DEF IInv, PassInv, Due, TypeOK
    <3>2. Current(w, e)' <=> Current(w, e)
      BY <1>1, <3>1 DEF Current, passVars
    <3>3. PassLog(w, e)
      BY DEF LogInv
    <3> QED
      BY <1>1, <3>2, <3>3, SamePass DEF Dispatching, passVars
  <2> QED
    BY <2>3, <2>4
<1> QED
  BY <1>5, <1>6, <1>7 DEF LogInv

LEMMA ClaimLog ==
  ASSUME IInv, LogInv, NEW w \in Workers, Claim(w)
  PROVE  LogInv'
<1>1. /\ claimed[w] = {}
      /\ \A v \in Workers \ {w} : todo'[v] = todo[v]
      /\ UNCHANGED <<rowVars, channel, sequence_offset, new_attempts, verdict>>
  BY DEF Claim, IInv, TypeOK
<1>2. channel[w] = 0
  BY <1>1 DEF IInv, PassInv, LogInv, Idle
<1>3. Ordered'
  BY <1>1, SameOrder DEF LogInv, rowVars, Existing
<1>4. Idle'
  BY <1>1, <1>2 DEF LogInv, Idle
<1>5. ASSUME NEW d \in Rows
      PROVE  StoredLog(d)' /\ \A v \in Workers : PassLog(v, d)'
  <2>1. StoredLog(d)'
    BY <1>1, SameStored DEF LogInv, rowVars
  <2>2. ASSUME NEW v \in Workers
        PROVE  PassLog(v, d)'
    <3>1. Dispatching(v, d)' <=> Dispatching(v, d)
      BY <1>1, <1>2 DEF Dispatching, Current, rowVars
    <3>2. PassLog(v, d)
      BY DEF LogInv
    <3> QED
      BY <1>1, <3>1, <3>2, SamePass DEF rowVars
  <2> QED
    BY <2>1, <2>2
<1> QED
  BY <1>3, <1>4, <1>5 DEF LogInv

\* A step of w at row d leaves the stored records, the other passes, and what
\* the pass holds of other rows.
LEMMA DispatchLog ==
  ASSUME IInv, LogInv, NEW w \in Workers, NEW d \in Rows, Current(w, d),
         UNCHANGED rowVars,
         \A v \in Workers \ {w} :
           /\ todo'[v] = todo[v] /\ channel'[v] = channel[v]
           /\ sequence_offset'[v] = sequence_offset[v]
           /\ new_attempts'[v] = new_attempts[v] /\ verdict'[v] = verdict[v],
         \A e \in Rows \ {d} : /\ new_attempts'[w][e] = new_attempts[w][e]
                               /\ verdict'[w][e] = verdict[w][e],
         todo'[w] = todo[w] \/ channel'[w] = 0,
         PassLog(w, d)'
  PROVE  LogInv'
<1>1. Ordered'
  BY SameOrder DEF LogInv, rowVars, Existing
<1>2. Idle'
  BY DEF LogInv, Idle, Current
<1>3. ASSUME NEW e \in Rows
      PROVE  StoredLog(e)' /\ \A v \in Workers : PassLog(v, e)'
  <2>1. StoredLog(e)'
    BY SameStored DEF LogInv, rowVars
  <2>2. ASSUME NEW v \in Workers
        PROVE  PassLog(v, e)'
    <3>1. PassLog(v, e) /\ attempts' = attempts /\ created_at' = created_at
      BY DEF LogInv, rowVars
    <3>2. CASE v # w
      <4>1. Dispatching(v, e)' <=> Dispatching(v, e)
        BY <3>1, <3>2 DEF Dispatching, Current
      <4> QED
        BY <3>1, <3>2, <4>1, SamePass
    <3>3. CASE v = w /\ e # d
      <4>1. ~Current(w, e)
        BY <3>3, OneCurrent
      <4>2. ~Dispatching(w, e)
        BY <4>1 DEF Dispatching
      <4>3. ~Dispatching(w, e)'
        BY <3>1, <4>1 DEF Dispatching, Current
      <4> QED
        BY <3>1, <3>3, <4>2, <4>3, SamePass
    <3> QED
      BY <3>2, <3>3
  <2> QED
    BY <2>1, <2>2
<1> QED
  BY <1>1, <1>2, <1>3 DEF LogInv
LEMMA LeaveUntriedLog ==
  ASSUME IInv, LogInv, NEW w \in Workers, NEW d \in Rows, LeaveUntried(w, d)
  PROVE  LogInv'
<1>1. /\ Current(w, d) /\ channel[w] = 0 /\ d \in todo[w]
      /\ Handled(w, d, "untried")
      /\ UNCHANGED <<rowVars, sequence_offset, new_attempts>>
  BY DEF LeaveUntried, Current
<1>2. /\ verdict'[w][d] = "untried" /\ todo'[w] = todo[w] \ {d}
      /\ \A e \in Rows \ {d} : verdict'[w][e] = verdict[w][e]
      /\ \A v \in Workers \ {w} : todo'[v] = todo[v] /\ verdict'[v] = verdict[v]
  BY <1>1, HandledEffect DEF IInv
<1>3. channel'[w] = 0 /\ \A v \in Workers \ {w} : channel'[v] = channel[v]
  BY <1>1 DEF Handled, IInv, TypeOK
<1>4. verdict[w][d] = "none" /\ PassLog(w, d)
  BY <1>1 DEF IInv, PassInv, LogInv
<1>5. new_attempts'[w][d] = {}
  BY <1>1, <1>4 DEF PassLog, Dispatching
<1>6. PassLog(w, d)'
  BY <1>2, <1>3, <1>5 DEF PassLog, Dispatching
<1> QED
  BY <1>1, <1>2, <1>3, <1>6, DispatchLog

LEMMA BeginDispatchLog ==
  ASSUME IInv, LogInv, NEW w \in Workers, NEW d \in Rows, BeginDispatch(w, d)
  PROVE  LogInv'
<1>1. /\ Current(w, d) /\ channel[w] = 0 /\ d \in todo[w]
      /\ UNCHANGED <<rowVars, todo, new_attempts, verdict>>
      /\ channel'[w] = 1 /\ sequence_offset'[w] = LastSequence(d)
      /\ \A v \in Workers \ {w} : /\ channel'[v] = channel[v]
                                  /\ sequence_offset'[v] = sequence_offset[v]
  BY DEF BeginDispatch, Current, IInv, TypeOK
<1>2. verdict[w][d] = "none" /\ PassLog(w, d)
  BY <1>1 DEF IInv, PassInv, LogInv
<1>3. new_attempts'[w][d] = {}
  BY <1>1, <1>2 DEF PassLog, Dispatching
<1>4. LastSequence(d)' = LastSequence(d) /\ LastSequence(d) \in Nat
  BY <1>1, LastSequenceType DEF IInv, LastSequence, rowVars
<1>5. \A m \in Nat : Unsent({}, m, m + 1 - 1)
  BY DEF Unsent, Numbered
<1>6. PassLog(w, d)'
  BY <1>1, <1>2, <1>3, <1>4, <1>5 DEF PassLog, Dispatching
<1> QED
  BY <1>1, <1>6, DispatchLog

\* The attempt of the current channel carries the next number.
LEMMA NotedLog ==
  ASSUME IInv, LogInv, NEW w \in Workers, NEW d \in Rows, Current(w, d),
         channel[w] > 0, NEW st \in {"SENT", "FAILED", "SKIPPED"}, Noted(w, d, st),
         UNCHANGED <<rowVars, sequence_offset>>
  PROVE  /\ LastSequence(d)' = LastSequence(d) /\ LastSequence(d) \in Nat
         /\ channel[w] \in Nat
         /\ sequence_offset[w] = LastSequence(d)
         /\ Numbered(new_attempts'[w][d], LastSequence(d), LastSequence(d) + channel[w])
         /\ st # "SENT" => \A a \in new_attempts'[w][d] : a.status # "SENT"
         /\ st = "SENT" => \A a \in new_attempts'[w][d] :
              a.status = "SENT" <=> a.sequence = LastSequence(d) + channel[w]
         /\ \A e \in Rows \ {d} : new_attempts'[w][e] = new_attempts[w][e]
         /\ \A v \in Workers \ {w} : new_attempts'[v] = new_attempts[v]
<1>. DEFINE m == LastSequence(d)
            c == channel[w]
            S == new_attempts[w][d]
            a == [sequence |-> sequence_offset[w] + channel[w],
                  channel |-> channel[w], status |-> st]
<1>1. LastSequence(d)' = LastSequence(d) /\ LastSequence(d) \in Nat
  <2>1. attempts' = attempts
    BY DEF rowVars
  <2>2. LastSequence(d)' = LastSequence(d)
    BY <2>1 DEF LastSequence
  <2> QED
    BY <2>2, LastSequenceType DEF IInv
<1>2. /\ channel[w] \in Nat \ {0} /\ channel[w] \in 1..ChannelCount
      /\ new_attempts[w][d] \in SUBSET Attempt
  BY OutboxAssumption DEF IInv, TypeOK
<1>3. PassLog(w, d) /\ Dispatching(w, d)
  BY DEF LogInv, Dispatching
<1>4. sequence_offset[w] = m /\ Unsent(S, m, m + c - 1)
  BY <1>3 DEF PassLog
<1>5. a \in Attempt /\ a.sequence = m + c /\ a.status = st
  BY <1>1, <1>2, <1>4 DEF Attempt
<1>. HIDE DEF a, m, S
<1>6. PICK k \in Nat : c = k + 1
  BY <1>2
<1>7. Unsent(S, m, m + k)
  BY <1>1, <1>4, <1>6 DEF m
<1>8. Numbered(S \cup {a}, m, m + k + 1)
  BY <1>1, <1>2, <1>5, <1>6, <1>7, NumberedAdd DEF Unsent, m, S
<1>9. m + k + 1 = m + c
  BY <1>1, <1>6 DEF m
<1>10. new_attempts' = [new_attempts EXCEPT ![w] = [new_attempts[w] EXCEPT ![d] = S \cup {a}]]
  BY DEF Noted, S, a
<1>11. new_attempts \in [Workers -> [Rows -> SUBSET Attempt]]
  BY DEF IInv, TypeOK
<1>12. /\ new_attempts'[w][d] = S \cup {a}
       /\ \A e \in Rows \ {d} : new_attempts'[w][e] = new_attempts[w][e]
       /\ \A v \in Workers \ {w} : new_attempts'[v] = new_attempts[v]
  BY <1>10, <1>11
<1>13. Numbered(new_attempts'[w][d], m, m + c)
  BY <1>8, <1>9, <1>12
<1>14. \A b \in S : b.status # "SENT" /\ b.sequence # m + c
  <2>1. \A b \in S : b.sequence \in (m + 1)..(m + k)
    BY <1>7 DEF Unsent, Numbered
  <2>2. m \in Nat
    BY <1>1 DEF m
  <2> QED
    BY <1>6, <1>7, <2>1, <2>2 DEF Unsent
<1>15. /\ st # "SENT" => \A b \in S \cup {a} : b.status # "SENT"
       /\ st = "SENT" => \A b \in S \cup {a} : b.status = "SENT" <=> b.sequence = m + c
  BY <1>5, <1>14
<1> QED
  BY <1>1, <1>2, <1>4, <1>12, <1>13, <1>15 DEF m

LEMMA ChannelSentLog ==
  ASSUME IInv, LogInv, NEW w \in Workers, NEW d \in Rows, ChannelSent(w, d)
  PROVE  LogInv'
<1>1. /\ Current(w, d) /\ channel[w] > 0 /\ d \in todo[w]
      /\ Noted(w, d, "SENT") /\ Handled(w, d, "sent")
      /\ UNCHANGED <<rowVars, sequence_offset>>
  BY DEF ChannelSent, Current
<1>2. /\ verdict'[w][d] = "sent"
      /\ \A e \in Rows \ {d} : verdict'[w][e] = verdict[w][e]
      /\ \A v \in Workers \ {w} : todo'[v] = todo[v] /\ verdict'[v] = verdict[v]
  BY <1>1, HandledEffect DEF IInv
<1>3. channel'[w] = 0 /\ \A v \in Workers \ {w} : channel'[v] = channel[v]
  BY <1>1 DEF Handled, IInv, TypeOK
<1>4. /\ LastSequence(d)' = LastSequence(d) /\ LastSequence(d) \in Nat
      /\ channel[w] \in Nat
      /\ Numbered(new_attempts'[w][d], LastSequence(d), LastSequence(d) + channel[w])
      /\ \A a \in new_attempts'[w][d] :
           a.status = "SENT" <=> a.sequence = LastSequence(d) + channel[w]
      /\ \A e \in Rows \ {d} : new_attempts'[w][e] = new_attempts[w][e]
      /\ \A v \in Workers \ {w} : new_attempts'[v] = new_attempts[v]
  BY <1>1, NotedLog
<1>5. /\ LastSequence(d) + channel[w] \in Nat
      /\ LastSequence(d) + channel[w] > LastSequence(d)
  BY <1>1, <1>4
<1>6. SentLast(new_attempts'[w][d], LastSequence(d), LastSequence(d) + channel[w])
  BY <1>4, <1>5 DEF SentLast
<1>7. PassLog(w, d)'
  BY <1>2, <1>3, <1>4, <1>5, <1>6 DEF PassLog, Dispatching
<1> QED
  BY <1>1, <1>2, <1>3, <1>4, <1>7, DispatchLog

LEMMA ChannelFailsLog ==
  ASSUME IInv, LogInv, NEW w \in Workers, NEW d \in Rows, ChannelFails(w, d)
  PROVE  LogInv'
<1>1. PICK st \in {"FAILED", "SKIPPED"} : Noted(w, d, st)
  BY DEF ChannelFails
<1>2. /\ Current(w, d) /\ channel[w] > 0 /\ d \in todo[w]
      /\ UNCHANGED <<rowVars, sequence_offset>>
  BY DEF ChannelFails, Current
<1>3. /\ LastSequence(d)' = LastSequence(d) /\ LastSequence(d) \in Nat
      /\ channel[w] \in Nat
      /\ sequence_offset[w] = LastSequence(d)
      /\ Numbered(new_attempts'[w][d], LastSequence(d), LastSequence(d) + channel[w])
      /\ \A a \in new_attempts'[w][d] : a.status # "SENT"
      /\ \A e \in Rows \ {d} : new_attempts'[w][e] = new_attempts[w][e]
      /\ \A v \in Workers \ {w} : new_attempts'[v] = new_attempts[v]
  BY <1>1, <1>2, NotedLog
<1>4. Unsent(new_attempts'[w][d], LastSequence(d), LastSequence(d) + channel[w])
  BY <1>3 DEF Unsent
<1>5. CASE channel[w] < ChannelCount
  <2>1. /\ UNCHANGED <<todo, verdict>> /\ channel'[w] = channel[w] + 1
        /\ \A v \in Workers \ {w} : channel'[v] = channel[v]
    BY <1>5 DEF ChannelFails, IInv, TypeOK
  <2>2. verdict'[w][d] = "none"
    BY <1>2, <2>1 DEF IInv, PassInv
  <2>3. LastSequence(d) + channel[w] = LastSequence(d) + channel'[w] - 1
    BY <1>3, <2>1
  <2>4. Current(w, d)'
    BY <1>2, <2>1 DEF Current, rowVars
  <2>5. PassLog(w, d)'
    BY <1>2, <1>3, <1>4, <2>1, <2>2, <2>3, <2>4 DEF PassLog, Dispatching
  <2> QED
    BY <1>2, <1>3, <2>1, <2>5, DispatchLog
<1>6. CASE ~(channel[w] < ChannelCount)
  <2>1. Handled(w, d, "failed")
    BY <1>6 DEF ChannelFails
  <2>2. /\ verdict'[w][d] = "failed"
        /\ \A e \in Rows \ {d} : verdict'[w][e] = verdict[w][e]
        /\ \A v \in Workers \ {w} : todo'[v] = todo[v] /\ verdict'[v] = verdict[v]
    BY <1>2, <2>1, HandledEffect DEF IInv
  <2>3. channel'[w] = 0 /\ \A v \in Workers \ {w} : channel'[v] = channel[v]
    BY <2>1 DEF Handled, IInv, TypeOK
  <2>4. LastSequence(d) + channel[w] \in Nat /\ LastSequence(d) + channel[w] >= LastSequence(d)
    BY <1>3
  <2>5. PassLog(w, d)'
    BY <1>3, <1>4, <2>2, <2>3, <2>4 DEF PassLog, Dispatching
  <2> QED
    BY <1>2, <1>3, <2>2, <2>3, <2>5, DispatchLog
<1> QED
  BY <1>5, <1>6
\* What the end of a pass leaves of it, and of the others.
LEMMA PassOverLog ==
  ASSUME IInv, LogInv, NEW w \in Workers, PassOver(w)
  PROVE  /\ channel'[w] = 0 /\ todo'[w] = {}
         /\ \A d \in Rows : new_attempts'[w][d] = {} /\ verdict'[w][d] = "none"
         /\ \A v \in Workers \ {w} :
              /\ todo'[v] = todo[v] /\ channel'[v] = channel[v]
              /\ sequence_offset'[v] = sequence_offset[v]
              /\ new_attempts'[v] = new_attempts[v] /\ verdict'[v] = verdict[v]
<1>1. /\ todo'[w] = {}
      /\ \A d \in Rows : new_attempts'[w][d] = {} /\ verdict'[w][d] = "none"
      /\ \A v \in Workers \ {w} :
           /\ todo'[v] = todo[v]
           /\ new_attempts'[v] = new_attempts[v] /\ verdict'[v] = verdict[v]
  BY PassOverEffect DEF IInv
<1>2. /\ channel'[w] = 0 /\ sequence_offset' = sequence_offset
      /\ \A v \in Workers \ {w} : channel'[v] = channel[v]
  BY DEF PassOver, IInv, TypeOK
<1> QED
  BY <1>1, <1>2

\* A row that a pass holds nothing of, and is not at.
LEMMA OthersHold ==
  ASSUME IInv, LogInv, NEW v \in Workers, NEW d \in Rows, d \notin claimed[v]
  PROVE  /\ new_attempts[v][d] = {} /\ verdict[v][d] = "none"
         /\ d \notin todo[v]
<1>1. verdict[v][d] = "none" /\ d \notin todo[v]
  BY DEF IInv, PassInv
<1>2. ~Dispatching(v, d) /\ PassLog(v, d)
  BY <1>1 DEF Dispatching, Current, LogInv
<1> QED
  BY <1>1, <1>2 DEF PassLog

\* What is left to show of a pass that ends: the records of each row, and the
\* other passes that may count on them.
LEMMA PassOverKeepsLog ==
  ASSUME IInv, LogInv, NEW w \in Workers, PassOver(w), UNCHANGED created_at,
         Existing' = Existing,
         \A d \in Rows : StoredLog(d)' /\ (d \notin claimed[w] => attempts'[d] = attempts[d]),
         \A d \in Rows : \A v \in Workers \ {w} :
           attempts'[d] = attempts[d] \/ d \notin claimed[v]
  PROVE  LogInv'
<1>1. /\ channel'[w] = 0 /\ todo'[w] = {}
      /\ \A d \in Rows : new_attempts'[w][d] = {} /\ verdict'[w][d] = "none"
      /\ \A v \in Workers \ {w} :
           /\ todo'[v] = todo[v] /\ channel'[v] = channel[v]
           /\ sequence_offset'[v] = sequence_offset[v]
           /\ new_attempts'[v] = new_attempts[v] /\ verdict'[v] = verdict[v]
  BY PassOverLog
<1>2. Ordered'
  BY SameOrder DEF LogInv
<1>3. Idle'
  BY <1>1 DEF LogInv, Idle
<1>4. ASSUME NEW d \in Rows, NEW v \in Workers
      PROVE  PassLog(v, d)'
  <2>1. CASE v = w
    BY <1>1, <2>1 DEF PassLog, Dispatching
  <2>2. CASE v # w /\ attempts'[d] = attempts[d]
    <3>1. Dispatching(v, d)' <=> Dispatching(v, d)
      BY <1>1, <2>2 DEF Dispatching, Current
    <3>2. PassLog(v, d)
      BY DEF LogInv
    <3> QED
      BY <1>1, <2>2, <3>1, <3>2, SamePass
  <2>3. CASE v # w /\ d \notin claimed[v]
    <3>1. /\ new_attempts'[v][d] = {} /\ verdict'[v][d] = "none"
          /\ d \notin todo'[v]
      BY <1>1, <2>3, OthersHold
    <3> QED
      BY <3>1 DEF PassLog, Dispatching, Current
  <2> QED
    BY <2>1, <2>2, <2>3
<1> QED
  BY <1>2, <1>3, <1>4 DEF LogInv

LEMMA RollBackLog ==
  ASSUME IInv, LogInv, NEW w \in Workers, RollBack(w)
  PROVE  LogInv'
<1>1. PassOver(w) /\ UNCHANGED <<created_at, status, delivery_status, attempts>>
  BY DEF RollBack, rowVars
<1>2. Existing' = Existing
  BY <1>1 DEF Existing
<1>3. \A d \in Rows : StoredLog(d)'
  BY <1>1, SameStored DEF LogInv
<1> QED
  BY <1>1, <1>2, <1>3, PassOverKeepsLog

\* The commit stores the log of the pass after the stored one.
LEMMA CommitStored ==
  ASSUME IInv, LogInv, NEW w \in Workers, Commit(w), NEW d \in claimed[w]
  PROVE  StoredLog(d)'
<1>. DEFINE S == attempts[d]
            T == new_attempts[w][d]
            m == LastSequence(d)
<1>1. /\ d \in Rows /\ status[d] # "PUBLISHED" /\ todo[w] = {}
      /\ Marked(Sent(w), claimed[w] \ Sent(w)) /\ Stored(w)
  BY ClaimedRows DEF Commit
<1>2. /\ attempts'[d] = S \cup T
      /\ delivery_status'[d] = CASE verdict[w][d] = "sent"   -> "SENT"
                                 [] verdict[w][d] = "failed" -> "FAILED"
                                 [] OTHER                    -> delivery_status[d]
      /\ status'[d] = IF verdict[w][d] = "sent" THEN "PUBLISHED" ELSE "FAILED"
  BY <1>1 DEF Stored, Marked, Sent
<1>3. StoredLog(d) /\ PassLog(w, d) /\ ~Dispatching(w, d)
  BY <1>1 DEF LogInv, Dispatching, Current
<1>4. PICK n \in Nat : Unsent(S, 0, n)
  BY <1>1, <1>3 DEF StoredLog
<1>5. m = n
  BY <1>1, <1>4, LastIs DEF Unsent
<1>6. S \in SUBSET Attempt /\ T \in SUBSET Attempt
  BY <1>1 DEF IInv, TypeOK
<1>7. \A a \in S : a.sequence <= n
  BY <1>4 DEF Unsent, Numbered
<1>. HIDE DEF S, T, m
<1>8. CASE verdict[w][d] = "sent"
  <2>1. PICK k \in Nat : SentLast(T, n, k)
    BY <1>3, <1>5, <1>8 DEF PassLog, T, m
  <2>2. Numbered(S \cup T, 0, k)
    BY <1>4, <1>6, <2>1, NumberedUnion DEF Unsent, SentLast
  <2>3. \A a \in S : a.sequence # k
    BY <1>4, <2>1 DEF Unsent, Numbered, SentLast
  <2>4. SentLast(S \cup T, 0, k)
    BY <1>4, <2>1, <2>2, <2>3 DEF SentLast, Unsent
  <2> QED
    BY <1>2, <1>8, <2>4 DEF StoredLog
<1>9. CASE verdict[w][d] = "failed"
  <2>1. PICK k \in Nat : k >= n /\ Unsent(T, n, k)
    BY <1>3, <1>5, <1>9 DEF PassLog, T, m
  <2>2. Unsent(S \cup T, 0, k)
    BY <1>4, <1>6, <2>1, NumberedUnion DEF Unsent
  <2> QED
    BY <1>2, <1>9, <2>2 DEF StoredLog
<1>10. CASE verdict[w][d] \notin {"sent", "failed"}
  <2>1. S \cup T = S
    BY <1>3, <1>10 DEF PassLog, T
  <2>2. delivery_status'[d] = delivery_status[d] /\ delivery_status[d] # "SENT"
    BY <1>1, <1>2, <1>3, <1>10 DEF StoredLog
  <2> QED
    BY <1>2, <1>4, <1>10, <2>1, <2>2 DEF StoredLog
<1> QED
  BY <1>8, <1>9, <1>10

LEMMA CommitLog ==
  ASSUME IInv, LogInv, NEW w \in Workers, Commit(w)
  PROVE  LogInv'
<1>1. /\ PassOver(w) /\ UNCHANGED created_at
      /\ Marked(Sent(w), claimed[w] \ Sent(w)) /\ Stored(w)
  BY DEF Commit
<1>2. ASSUME NEW d \in Rows \ claimed[w]
      PROVE  /\ attempts'[d] = attempts[d] /\ status'[d] = status[d]
             /\ delivery_status'[d] = delivery_status[d]
  <2>1. new_attempts[w][d] = {} /\ verdict[w][d] = "none"
    BY OthersHold
  <2>2. d \notin Sent(w)
    BY <2>1 DEF Sent
  <2> QED
    BY <1>1, <2>1, <2>2 DEF Marked, Stored
<1>3. \A d \in claimed[w] : status'[d] # "none" /\ status[d] # "none" /\ d \in Rows
  BY <1>1, ClaimedRows DEF Marked
<1>4. Existing' = Existing
  BY <1>2, <1>3 DEF Existing
<1>5. ASSUME NEW d \in Rows
      PROVE  StoredLog(d)'
  <2>1. CASE d \in claimed[w]
    BY <2>1, CommitStored
  <2>2. CASE d \notin claimed[w]
    BY <1>2, <2>2, SameStored DEF LogInv
  <2> QED
    BY <2>1, <2>2
<1>6. \A d \in Rows : \A v \in Workers \ {w} :
        attempts'[d] = attempts[d] \/ d \notin claimed[v]
  BY <1>2 DEF IInv, NoSharedRow
<1> QED
  BY <1>1, <1>2, <1>4, <1>5, <1>6, PassOverKeepsLog

LEMMA StepLog ==
  ASSUME IInv, LogInv, [Next]_vars
  PROVE  LogInv'
<1>1. ASSUME NEW d \in Rows, Enqueue(d)
      PROVE  LogInv'
  BY <1>1, EnqueueLog
<1>2. ASSUME NEW d \in Rows, BackoffEnds(d)
      PROVE  LogInv'
  BY <1>2, LogUnchanged DEF BackoffEnds, passVars
<1>3. ASSUME NEW g \in {"closed", "persist", "open"}, SetGate(g)
      PROVE  LogInv'
  BY <1>3, LogUnchanged DEF SetGate, rowVars, passVars
<1>4. ASSUME NEW w \in Workers, Work(w)
      PROVE  LogInv'
  <2>1. CASE Claim(w)
    BY <2>1, ClaimLog
  <2>2. ASSUME NEW d \in Rows, LeaveUntried(w, d) \/ BeginDispatch(w, d)
        PROVE  LogInv'
    BY <2>2, LeaveUntriedLog, BeginDispatchLog
  <2>3. ASSUME NEW d \in Rows, ChannelSent(w, d) \/ ChannelFails(w, d)
        PROVE  LogInv'
    BY <2>3, ChannelSentLog, ChannelFailsLog
  <2>4. ASSUME NEW d \in Rows, Raise(w, d)
        PROVE  LogInv'
    BY <2>4, RollBackLog DEF Raise
  <2>5. CASE Commit(w)
    BY <2>5, CommitLog
  <2> QED
    BY <1>4, <2>1, <2>2, <2>3, <2>4, <2>5 DEF Work
<1>5. ASSUME NEW w \in Workers, Crash(w)
      PROVE  LogInv'
  BY <1>5, RollBackLog DEF Crash
<1>6. CASE UNCHANGED vars
  BY <1>6, LogUnchanged DEF vars, rowVars, passVars
<1> QED
  BY <1>1, <1>2, <1>3, <1>4, <1>5, <1>6 DEF Next

\* Whichever replicas have handled a message, and however many of their passes
\* were rolled back, its delivery, its outbox row and its attempts agree, and
\* the attempts are numbered without a gap or a repetition.
THEOREM AllRecordsAgree == Spec => []RecordsAgree
<1>1. IInv /\ LogInv /\ [Next]_vars => LogInv'
  BY StepLog
<1>2. IInv /\ LogInv => RecordsAgree
  BY LogAgrees
<1> QED
  BY <1>1, <1>2, InitLog, InductiveInvariant, PTL DEF Spec

-----------------------------------------------------------------------------
(* The refinement of Delivery: one lemma for each kind of step.             *)

\* A row that is claimed counts as queued.
LEMMA ClaimedIsQueued ==
  ASSUME IInv, NEW w \in Workers, NEW d \in claimed[w]
  PROVE  d \in Rows /\ PromisedState[d] = "queued"
BY ClaimedRows DEF PromisedState

\* The rows whose acceptance is not recorded are those of the open passes.
LEMMA UnrecordedAfterPass ==
  ASSUME IInv, NEW w \in Workers, PassOver(w)
  PROVE  Sent(w) \subseteq Unrecorded /\ Unrecorded' = Unrecorded \ Sent(w)
<1>1. /\ \A x \in Rows : verdict'[w][x] = "none"
      /\ \A v \in Workers \ {w} : verdict'[v] = verdict[v]
  BY PassOverEffect DEF IInv
<1>2. Sent(w)' = {} /\ \A v \in Workers \ {w} : Sent(v)' = Sent(v)
  BY <1>1 DEF Sent
<1>3. \A v \in Workers \ {w}, d \in Rows : ~(d \in Sent(v) /\ d \in Sent(w))
  BY DEF Sent, IInv, PassInv, NoSharedRow
<1>4. Sent(w) \subseteq Unrecorded
  BY DEF Unrecorded, Sent
<1>5. ASSUME NEW d \in Rows
      PROVE  (\E v \in Workers : d \in Sent(v)') <=>
               (\E v \in Workers : d \in Sent(v)) /\ d \notin Sent(w)
  BY <1>2, <1>3
<1>6. Unrecorded' = Unrecorded \ Sent(w)
  BY <1>5 DEF Unrecorded
<1> QED
  BY <1>4, <1>6

LEMMA EnqueueRefines ==
  ASSUME IInv, NEW d \in Rows, Enqueue(d)
  PROVE  Promise!Queue(d)
<1>1. PromisedState[d] = "absent"
  BY DEF Enqueue, PromisedState
<1>2. /\ status'[d] = "PENDING" /\ next_attempt_at[d] = "now"
      /\ next_attempt_at' = next_attempt_at /\ UNCHANGED <<verdict, accepted>>
      /\ \A e \in Rows \ {d} : status'[e] = status[e]
  BY DEF Enqueue, IInv, TypeOK, FreshRows, passVars
<1>3. PromisedState' = [PromisedState EXCEPT ![d] = "queued"]
  BY <1>2 DEF PromisedState
<1>4. Unrecorded' = Unrecorded
  BY <1>2 DEF Unrecorded, Sent
<1> QED
  BY <1>1, <1>2, <1>3, <1>4 DEF Promise!Queue

\* Steps that the promise does not see.
LEMMA QuietStep ==
  ASSUME UNCHANGED <<PromisedState, accepted>>,
         \A w \in Workers : Sent(w)' = Sent(w)
  PROVE  UNCHANGED Promise!dvars
<1>1. Unrecorded' = Unrecorded
  BY DEF Unrecorded
<1> QED
  BY <1>1 DEF Promise!dvars

LEMMA SameRows ==
  ASSUME UNCHANGED <<status, next_attempt_at>>
  PROVE  UNCHANGED PromisedState
BY DEF PromisedState

LEMMA HandledQuiet ==
  ASSUME IInv, NEW w \in Workers, NEW d \in todo[w],
         NEW r \in {"failed", "untried"}, Handled(w, d, r), NEW v \in Workers
  PROVE  Sent(v)' = Sent(v)
<1>1. d \in Rows /\ verdict[w][d] = "none"
  BY DEF IInv, TypeOK, PassInv
<1>2. /\ verdict'[w][d] = r
      /\ \A x \in Rows \ {d} : verdict'[w][x] = verdict[w][x]
      /\ \A u \in Workers \ {w} : verdict'[u] = verdict[u]
  BY <1>1, HandledEffect DEF IInv
<1>3. \A x \in Rows : verdict'[v][x] = "sent" <=> verdict[v][x] = "sent"
  BY <1>1, <1>2
<1> QED
  BY <1>3 DEF Sent

LEMMA ChannelSentRefines ==
  ASSUME IInv, NEW w \in Workers, NEW d \in Rows, ChannelSent(w, d)
  PROVE  Promise!Accept(d)
<1>1. /\ d \in todo[w] /\ Handled(w, d, "sent")
      /\ accepted' = [accepted EXCEPT ![d] = accepted[d] + 1]
      /\ UNCHANGED <<status, next_attempt_at>>
  BY DEF ChannelSent, Current, rowVars
<1>2. PromisedState[d] = "queued"
  BY <1>1, ClaimedIsQueued DEF IInv, PassInv
<1>3. d \notin Unrecorded
  BY <1>1, NoSender DEF Unrecorded, Sent, Senders
<1>4. /\ verdict'[w][d] = "sent"
      /\ \A x \in Rows \ {d} : verdict'[w][x] = verdict[w][x]
      /\ \A v \in Workers \ {w} : verdict'[v] = verdict[v]
  BY <1>1, HandledEffect DEF IInv
<1>5. Sent(w)' = Sent(w) \cup {d} /\ \A v \in Workers \ {w} : Sent(v)' = Sent(v)
  BY <1>4 DEF Sent
<1>6. Unrecorded' = Unrecorded \cup {d}
  BY <1>5 DEF Unrecorded
<1>7. UNCHANGED PromisedState
  BY <1>1, SameRows
<1> QED
  BY <1>1, <1>2, <1>3, <1>6, <1>7 DEF Promise!Accept

LEMMA CommitRefines ==
  ASSUME IInv, NEW w \in Workers, Commit(w)
  PROVE  \E S, T \in SUBSET Rows : Promise!Record(S, T)
<1>. DEFINE parked == {d \in claimed[w] \ Sent(w) : IsGivenUp(attempt_count[d] + 1)}
<1>1. /\ PassOver(w) /\ Marked(Sent(w), claimed[w] \ Sent(w))
      /\ UNCHANGED accepted
  BY DEF Commit
<1>2. /\ Sent(w) \in SUBSET Rows /\ Sent(w) \subseteq claimed[w]
      /\ claimed[w] \in SUBSET Rows /\ parked \in SUBSET Rows
  BY DEF Sent, IInv, PassInv, TypeOK
<1>3. Sent(w) \subseteq Unrecorded /\ Unrecorded' = Unrecorded \ Sent(w)
  BY <1>1, UnrecordedAfterPass
<1>4. parked \cap Unrecorded = {}
  BY DEF Unrecorded, Sent, IInv, PassInv, NoSharedRow
<1>5. \A d \in Sent(w) \cup parked : PromisedState[d] = "queued"
  BY <1>2, ClaimedIsQueued
<1>6. ASSUME NEW d \in Rows
      PROVE  PromisedState'[d] = IF d \in Sent(w) THEN "sent"
                                 ELSE IF d \in parked THEN "parked"
                                 ELSE PromisedState[d]
  <2>1. CASE d \in Sent(w)
    BY <1>1, <1>2, <2>1 DEF Marked, PromisedState
  <2>2. CASE d \in claimed[w] \ Sent(w)
    <3>1. PromisedState[d] = "queued"
      BY <2>2, ClaimedIsQueued
    <3>2. /\ status'[d] = "FAILED"
          /\ next_attempt_at'[d] =
               IF IsGivenUp(attempt_count[d] + 1) THEN "given_up" ELSE "backoff"
      BY <1>1, <2>2 DEF Marked
    <3> QED
      BY <2>2, <3>1, <3>2 DEF PromisedState
  <2>3. CASE d \notin claimed[w]
    BY <1>1, <1>2, <2>3 DEF Marked, PromisedState
  <2> QED
    BY <2>1, <2>2, <2>3
<1>7. PromisedState' = [d \in Rows |->
        IF d \in Sent(w) THEN "sent" ELSE IF d \in parked THEN "parked"
        ELSE PromisedState[d]]
  BY <1>6 DEF PromisedState
<1>. HIDE DEF parked
<1>8. Promise!Record(Sent(w), parked)
  BY <1>1, <1>3, <1>4, <1>5, <1>7 DEF Promise!Record
<1> QED
  BY <1>2, <1>8

LEMMA RollBackRefines ==
  ASSUME IInv, NEW w \in Workers, RollBack(w)
  PROVE  \E D \in SUBSET Rows : Promise!Forget(D)
<1>1. PassOver(w) /\ UNCHANGED <<status, next_attempt_at, accepted>>
  BY DEF RollBack, rowVars
<1>2. Sent(w) \subseteq Unrecorded /\ Unrecorded' = Unrecorded \ Sent(w)
  BY <1>1, UnrecordedAfterPass
<1>3. UNCHANGED PromisedState
  BY <1>1, SameRows
<1>4. Promise!Forget(Sent(w)) /\ Sent(w) \in SUBSET Rows
  BY <1>1, <1>2, <1>3 DEF Promise!Forget, Sent
<1> QED
  BY <1>4

LEMMA StepRefines ==
  ASSUME IInv, [Next]_vars
  PROVE  [Promise!DNext]_(Promise!dvars)
<1>1. ASSUME UNCHANGED <<status, next_attempt_at, verdict, accepted>>
      PROVE  UNCHANGED Promise!dvars
  BY <1>1, SameRows, QuietStep DEF Sent
<1>2. ASSUME NEW d \in Rows, Enqueue(d)
      PROVE  Promise!DNext
  BY <1>2, EnqueueRefines DEF Promise!DNext
<1>3. ASSUME NEW d \in Rows, BackoffEnds(d)
      PROVE  UNCHANGED Promise!dvars
  <2>1. UNCHANGED <<status, verdict, accepted>>
    BY <1>3 DEF BackoffEnds, passVars
  <2>2. next_attempt_at[d] = "backoff" /\ next_attempt_at'[d] = "now"
    BY <1>3 DEF BackoffEnds, IInv, TypeOK
  <2>3. \A e \in Rows \ {d} : next_attempt_at'[e] = next_attempt_at[e]
    BY <1>3 DEF BackoffEnds, IInv, TypeOK
  <2>4. UNCHANGED PromisedState
    BY <2>1, <2>2, <2>3 DEF PromisedState
  <2> QED
    BY <2>1, <2>4, QuietStep DEF Sent
<1>4. ASSUME NEW g \in {"closed", "persist", "open"}, SetGate(g)
      PROVE  UNCHANGED Promise!dvars
  BY <1>1, <1>4 DEF SetGate, rowVars, passVars
<1>5. ASSUME NEW w \in Workers, Work(w)
      PROVE  Promise!DNext \/ UNCHANGED Promise!dvars
  <2>1. CASE Claim(w)
    BY <1>1, <2>1 DEF Claim, rowVars
  <2>2. ASSUME NEW d \in Rows, LeaveUntried(w, d)
        PROVE  UNCHANGED Promise!dvars
    <3>1. /\ d \in todo[w] /\ Handled(w, d, "untried")
          /\ UNCHANGED <<status, next_attempt_at, accepted>>
      BY <2>2 DEF LeaveUntried, Current, rowVars
    <3> QED
      BY <3>1, HandledQuiet, SameRows, QuietStep
  <2>3. ASSUME NEW d \in Rows, BeginDispatch(w, d)
        PROVE  UNCHANGED Promise!dvars
    BY <1>1, <2>3 DEF BeginDispatch, rowVars
  <2>4. ASSUME NEW d \in Rows, ChannelSent(w, d)
        PROVE  Promise!DNext
    BY <2>4, ChannelSentRefines DEF Promise!DNext
  <2>5. ASSUME NEW d \in Rows, ChannelFails(w, d)
        PROVE  UNCHANGED Promise!dvars
    <3>1. d \in todo[w] /\ UNCHANGED <<status, next_attempt_at, accepted>>
      BY <2>5 DEF ChannelFails, Current, rowVars
    <3>2. UNCHANGED verdict \/ Handled(w, d, "failed")
      BY <2>5 DEF ChannelFails
    <3> QED
      BY <1>1, <3>1, <3>2, HandledQuiet, SameRows, QuietStep
  <2>6. ASSUME NEW d \in Rows, Raise(w, d)
        PROVE  Promise!DNext
    BY <2>6, RollBackRefines DEF Raise, Promise!DNext
  <2>7. CASE Commit(w)
    BY <2>7, CommitRefines DEF Promise!DNext
  <2> QED
    BY <1>5, <2>1, <2>2, <2>3, <2>4, <2>5, <2>6, <2>7 DEF Work
<1>6. ASSUME NEW w \in Workers, Crash(w)
      PROVE  Promise!DNext
  BY <1>6, RollBackRefines DEF Crash, Promise!DNext
<1>7. CASE UNCHANGED vars
  BY <1>1, <1>7 DEF vars, rowVars, passVars
<1> QED
  BY <1>2, <1>3, <1>4, <1>5, <1>6, <1>7 DEF Next

\* The outbox, with its workers, transactions, channels and crashes, keeps the
\* promise of Delivery: it records a message as sent only if it was accepted,
\* never reopens one that is sent or parked, and accepts no message twice
\* unless the record of the first time was rolled back.
THEOREM OutboxImplementsDelivery == Spec => DeliveryPromise
<1>1. Init => Promise!DInit
  <2>. SUFFICES ASSUME Init PROVE Promise!DInit
    OBVIOUS
  <2>1. PromisedState = [d \in Rows |-> "absent"]
    BY DEF Init, PromisedState
  <2>2. Unrecorded = {}
    BY DEF Init, Unrecorded, Sent, NoVerdict
  <2>3. accepted = [d \in Rows |-> 0]
    BY DEF Init
  <2> QED
    BY <2>1, <2>2, <2>3 DEF Promise!DInit
<1>2. IInv /\ [Next]_vars => [Promise!DNext]_(Promise!dvars)
  BY StepRefines
<1> QED
  BY <1>1, <1>2, InductiveInvariant, PTL DEF Spec, DeliveryPromise, Promise!DSpec
=============================================================================
