----------------------------- MODULE InboxProofs -----------------------------
(***************************************************************************)
(* Proofs about Inbox, for any number of firings, users, types and tabs:    *)
(* one notification and at most one e-mail per business event, records that *)
(* never say more than happened, and no e-mail past a closed gate.          *)
(*                                                                          *)
(* Every repository call is a transaction of its own, so each of them must  *)
(* leave behind what the next one relies on.  The invariant says for every  *)
(* call a handler may be about to make what it has committed so far         *)
(* (Progressed), and that a gate which is open is on record (GatesSeen).    *)
(***************************************************************************)
EXTENDS Inbox, TLAPS

\* The unique key of notifications.
KeysUnique == \A e, f \in inbox : KeyOf[e] = KeyOf[f] => e = f

\* A gate that is open now was open at some time since the insert.
GatesSeen == \A e \in inbox : OpenGates(e) \subseteq opened[e]

Both == {"preference", "consent"}

\* What a handler has committed when it is about to make its next call.
Progressed(e) ==
  /\ pc[e] \in {"idle", "count", "insert"} =>
       e \notin inbox /\ email[e] = "none" /\ attempt[e] = "none" /\ sends[e] = 0
  /\ pc[e] \in {"preference", "consent", "skip", "pending"} =>
       e \in inbox /\ email[e] = "none" /\ attempt[e] = "none" /\ sends[e] = 0
  /\ pc[e] = "consent" => "preference" \in opened[e]
  /\ pc[e] \in {"pending", "send", "attempt", "update"} => opened[e] = Both
  /\ pc[e] = "send" =>
       e \in inbox /\ email[e] = "PENDING" /\ attempt[e] = "none" /\ sends[e] = 0
  /\ pc[e] \in {"attempt", "update"} =>
       e \in inbox /\ email[e] = "PENDING" /\ sends[e] = 1 /\ result[e] # "none"
  /\ pc[e] = "attempt" => attempt[e] = "none"
  /\ pc[e] = "update" => attempt[e] = result[e]

\* The three properties, event by event.
Truthful(e) ==
  /\ sends[e] <= 1
  /\ sends[e] = 1 => e \in inbox
  /\ sends[e] > 0 => opened[e] = Both
  /\ email[e] = "SENT" => attempt[e] = "SUCCESS"
  /\ email[e] = "FAILED" => attempt[e] = "FAILED"
  /\ email[e] = "SKIPPED" => sends[e] = 0
  /\ attempt[e] # "none" => sends[e] = 1

IInv ==
  /\ TypeOK /\ KeysUnique /\ GatesSeen
  /\ \A e \in Events : Progressed(e) /\ Truthful(e)

-----------------------------------------------------------------------------
(* Lemmas.                                                                  *)

\* An event whose row, gates, records and next call stay the same keeps what
\* the invariant says of it.
LEMMA SameEvent ==
  ASSUME NEW e \in Events, Progressed(e), Truthful(e),
         pc'[e] = pc[e], e \in inbox' <=> e \in inbox, email'[e] = email[e],
         attempt'[e] = attempt[e], result'[e] = result[e], sends'[e] = sends[e],
         opened'[e] = opened[e]
  PROVE  Progressed(e)' /\ Truthful(e)'
BY DEF Progressed, Truthful

\* The settings, the calendar and the tabs touch no work of a handler.  A gate
\* that opens is put on record for every notification that exists.
LEMMA SettingsIInv ==
  ASSUME IInv, UNCHANGED <<workVars, today>>,
         \A e \in Events : opened[e] \subseteq opened'[e],
         \A e \in inbox : OpenGates(e)' \subseteq opened'[e],
         TypeOK'
  PROVE  IInv'
<1>1. KeysUnique' /\ GatesSeen'
  BY DEF IInv, KeysUnique, GatesSeen, workVars
<1>2. ASSUME NEW e \in Events PROVE Progressed(e)' /\ Truthful(e)'
  <2>1. Progressed(e) /\ Truthful(e)
    BY DEF IInv
  <2>2. opened'[e] \subseteq Both /\ opened[e] \subseteq opened'[e]
    BY DEF TypeOK, Both
  <2> QED
    BY <2>1, <2>2 DEF Progressed, Truthful, workVars, Both
<1> QED
  BY <1>1, <1>2 DEF IInv

\* A call of the handler of e that inserts no notification and opens no gate.
LEMMA CallIInv ==
  ASSUME IInv, NEW e \in Events,
         TypeOK', UNCHANGED <<inbox, opened, preference, consent>>,
         Progressed(e)', Truthful(e)',
         \A f \in Events \ {e} :
           /\ pc'[f] = pc[f] /\ email'[f] = email[f] /\ attempt'[f] = attempt[f]
           /\ result'[f] = result[f] /\ sends'[f] = sends[f]
  PROVE  IInv'
<1>1. KeysUnique' /\ GatesSeen'
  BY DEF IInv, KeysUnique, GatesSeen, OpenGates
<1>2. ASSUME NEW f \in Events \ {e} PROVE Progressed(f)' /\ Truthful(f)'
  BY SameEvent DEF IInv
<1> QED
  BY <1>1, <1>2 DEF IInv

\* The two gates of a recipient that lets both pass.
LEMMA GatesOpen ==
  ASSUME IInv, NEW e \in inbox
  PROVE  /\ preference[<<Recipient[e], TypeOf[e]>>] => "preference" \in opened[e]
         /\ consent[Recipient[e]] => "consent" \in opened[e]
BY DEF IInv, GatesSeen, OpenGates

-----------------------------------------------------------------------------
(* The invariant.                                                           *)

LEMMA InitIInv == Init => IInv
<1>. SUFFICES ASSUME Init PROVE IInv
  OBVIOUS
<1>1. TypeOK
  BY InboxAssumption DEF Init, TypeOK, Steps
<1>2. KeysUnique /\ GatesSeen
  BY DEF Init, KeysUnique, GatesSeen
<1>3. \A e \in Events : Progressed(e) /\ Truthful(e)
  BY DEF Init, Progressed, Truthful
<1> QED
  BY <1>1, <1>2, <1>3 DEF IInv

\* One call of a handler.
LEMMA HandleIInv ==
  ASSUME IInv, NEW e \in Events, Handle(e)
  PROVE  IInv'
<1>0. TypeOK /\ Progressed(e) /\ Truthful(e)
  BY DEF IInv
<1>. USE DEF Goto
<1>1. CASE FindDuplicate(e)
  <2>1. TypeOK' /\ Progressed(e)' /\ Truthful(e)'
    BY <1>0, <1>1 DEF FindDuplicate, TypeOK, Steps, Progressed, Truthful
  <2> QED
    BY <1>0, <1>1, <2>1, CallIInv DEF FindDuplicate, TypeOK
<1>2. CASE CountForDay(e)
  <2>1. TypeOK' /\ Progressed(e)' /\ Truthful(e)'
    BY <1>0, <1>2 DEF CountForDay, TypeOK, Steps, Progressed, Truthful
  <2> QED
    BY <1>0, <1>2, <2>1, CallIInv DEF CountForDay, TypeOK
<1>3. CASE InsertNotification(e)
  <2>1. CASE \E f \in inbox : KeyOf[f] = KeyOf[e]
    <3>1. TypeOK' /\ Progressed(e)' /\ Truthful(e)'
      BY <1>0, <1>3, <2>1 DEF InsertNotification, TypeOK, Steps, Progressed, Truthful
    <3> QED
      BY <1>0, <1>3, <2>1, <3>1, CallIInv DEF InsertNotification, TypeOK
  <2>2. CASE ~\E f \in inbox : KeyOf[f] = KeyOf[e]
    <3>1. /\ inbox' = inbox \cup {e}
          /\ opened' = [opened EXCEPT ![e] = OpenGates(e)]
          /\ pc' = [pc EXCEPT ![e] = "preference"]
          /\ pc[e] = "insert"
          /\ UNCHANGED <<today, created_at, email, attempt, result, sends, preference,
                         consent, read_at, view>>
      BY <1>3, <2>2 DEF InsertNotification
    <3>2. OpenGates(e) \subseteq {"preference", "consent"}
      BY DEF OpenGates
    <3>3. TypeOK'
      BY <1>0, <3>1, <3>2 DEF TypeOK, Steps
    <3>4. KeysUnique'
      BY <2>2, <3>1 DEF IInv, KeysUnique
    <3>5. GatesSeen'
      <4>1. \A f \in Events : OpenGates(f)' = OpenGates(f)
        BY <3>1 DEF OpenGates
      <4>2. opened'[e] = OpenGates(e) /\ \A f \in Events \ {e} : opened'[f] = opened[f]
        BY <1>0, <3>1 DEF TypeOK
      <4>3. \A f \in inbox : f \in Events /\ OpenGates(f) \subseteq opened[f]
        BY <1>0 DEF IInv, GatesSeen, TypeOK
      <4> QED
        BY <3>1, <4>1, <4>2, <4>3 DEF GatesSeen
    <3>6. Progressed(e)' /\ Truthful(e)'
      BY <1>0, <3>1 DEF TypeOK, Progressed, Truthful
    <3>7. ASSUME NEW f \in Events \ {e} PROVE Progressed(f)' /\ Truthful(f)'
      BY <1>0, <3>1, SameEvent DEF IInv, TypeOK
    <3> QED
      BY <3>3, <3>4, <3>5, <3>6, <3>7 DEF IInv
  <2> QED
    BY <2>1, <2>2
<1>4. CASE CheckPreference(e)
  <2>1. TypeOK'
    BY <1>0, <1>4 DEF CheckPreference, TypeOK, Steps
  <2>2. Progressed(e)' /\ Truthful(e)'
    BY <1>0, <1>4, GatesOpen DEF CheckPreference, TypeOK, Progressed, Truthful
  <2> QED
    BY <1>0, <1>4, <2>1, <2>2, CallIInv DEF CheckPreference, TypeOK
<1>5. CASE CheckConsent(e)
  <2>1. TypeOK'
    BY <1>0, <1>5 DEF CheckConsent, TypeOK, Steps
  <2>2. consent[Recipient[e]] => opened[e] = Both
    <3>1. e \in inbox /\ "preference" \in opened[e]
      BY <1>0, <1>5 DEF CheckConsent, Progressed
    <3>2. opened[e] \subseteq Both
      BY <1>0 DEF TypeOK, Both
    <3> QED
      BY <3>1, <3>2, GatesOpen DEF Both
  <2>3. Progressed(e)' /\ Truthful(e)'
    BY <1>0, <1>5, <2>2 DEF CheckConsent, TypeOK, Progressed, Truthful
  <2> QED
    BY <1>0, <1>5, <2>1, <2>3, CallIInv DEF CheckConsent, TypeOK
<1>6. CASE InsertDelivery(e)
  <2>1. TypeOK' /\ Progressed(e)' /\ Truthful(e)'
    BY <1>0, <1>6 DEF InsertDelivery, TypeOK, Steps, Progressed, Truthful
  <2> QED
    BY <1>0, <1>6, <2>1, CallIInv DEF InsertDelivery, TypeOK
<1>7. CASE \E r \in {"SUCCESS", "FAILED"} : SendEmail(e, r)
  <2>1. TypeOK' /\ Progressed(e)' /\ Truthful(e)'
    BY <1>0, <1>7 DEF SendEmail, TypeOK, Steps, Progressed, Truthful
  <2> QED
    BY <1>0, <1>7, <2>1, CallIInv DEF SendEmail, TypeOK
<1>8. CASE InsertAttempt(e)
  <2>1. TypeOK' /\ Progressed(e)' /\ Truthful(e)'
    BY <1>0, <1>8 DEF InsertAttempt, TypeOK, Steps, Progressed, Truthful
  <2> QED
    BY <1>0, <1>8, <2>1, CallIInv DEF InsertAttempt, TypeOK
<1>9. CASE UpdateDelivery(e)
  <2>1. TypeOK' /\ Progressed(e)' /\ Truthful(e)'
    BY <1>0, <1>9 DEF UpdateDelivery, TypeOK, Steps, Progressed, Truthful
  <2> QED
    BY <1>0, <1>9, <2>1, CallIInv DEF UpdateDelivery, TypeOK
<1> QED
  BY <1>1, <1>2, <1>3, <1>4, <1>5, <1>6, <1>7, <1>8, <1>9 DEF Handle

\* A handler that ends half way keeps what it has committed.
LEMMA AbandonIInv ==
  ASSUME IInv, NEW e \in Events, Abandon(e)
  PROVE  IInv'
<1>0. TypeOK /\ Progressed(e) /\ Truthful(e)
  BY DEF IInv
<1>1. TypeOK' /\ Progressed(e)' /\ Truthful(e)'
  BY <1>0 DEF Abandon, Goto, TypeOK, Steps, Progressed, Truthful
<1> QED
  BY <1>0, <1>1, CallIInv DEF Abandon, Goto, TypeOK

\* A preference is changed.
LEMMA SetPreferenceIInv ==
  ASSUME IInv, NEW u \in Users, NEW t \in Types, SetPreference(u, t)
  PROVE  IInv'
<1>1. TypeOK'
  BY DEF IInv, TypeOK, SetPreference, workVars
<1>2. \A e \in Events : opened[e] \subseteq opened'[e]
  BY DEF SetPreference
<1>3. ASSUME NEW e \in inbox PROVE OpenGates(e)' \subseteq opened'[e]
  <2>1. OpenGates(e) \subseteq opened[e] /\ e \in Events /\ opened[e] \subseteq opened'[e]
    BY <1>2 DEF IInv, GatesSeen, TypeOK
  <2>2. <<Recipient[e], TypeOf[e]>> \in Users \X Types
    BY <2>1, InboxAssumption
  <2>3. CASE <<Recipient[e], TypeOf[e]>> = <<u, t>>
    <3>1. ~preference[<<u, t>>] => "preference" \in opened'[e]
      BY <2>1, <2>3 DEF SetPreference
    <3> QED
      BY <2>1, <2>2, <2>3, <3>1 DEF IInv, TypeOK, SetPreference, OpenGates
  <2>4. CASE <<Recipient[e], TypeOf[e]>> # <<u, t>>
    <3>1. preference'[<<Recipient[e], TypeOf[e]>>] = preference[<<Recipient[e], TypeOf[e]>>]
      BY <2>2, <2>4 DEF IInv, TypeOK, SetPreference
    <3> QED
      BY <2>1, <3>1 DEF SetPreference, OpenGates
  <2> QED
    BY <2>3, <2>4
<1> QED
  BY <1>1, <1>2, <1>3, SettingsIInv DEF SetPreference

\* A consent is given or withdrawn.
LEMMA SetConsentIInv ==
  ASSUME IInv, NEW u \in Users, SetConsent(u)
  PROVE  IInv'
<1>1. TypeOK'
  BY DEF IInv, TypeOK, SetConsent, workVars
<1>2. \A e \in Events : opened[e] \subseteq opened'[e]
  BY DEF SetConsent
<1>3. ASSUME NEW e \in inbox PROVE OpenGates(e)' \subseteq opened'[e]
  <2>1. OpenGates(e) \subseteq opened[e] /\ e \in Events /\ opened[e] \subseteq opened'[e]
    BY <1>2 DEF IInv, GatesSeen, TypeOK
  <2>2. Recipient[e] \in Users
    BY <2>1, InboxAssumption
  <2>3. CASE Recipient[e] = u
    <3>1. ~consent[u] => "consent" \in opened'[e]
      BY <2>1, <2>3 DEF SetConsent
    <3> QED
      BY <2>1, <2>2, <2>3, <3>1 DEF IInv, TypeOK, SetConsent, OpenGates
  <2>4. CASE Recipient[e] # u
    <3>1. consent'[Recipient[e]] = consent[Recipient[e]]
      BY <2>2, <2>4 DEF IInv, TypeOK, SetConsent
    <3> QED
      BY <2>1, <3>1 DEF SetConsent, OpenGates
  <2> QED
    BY <2>3, <2>4
<1> QED
  BY <1>1, <1>2, <1>3, SettingsIInv DEF SetConsent

\* The day ends, or a tab reads or marks its rows.
LEMMA QuietIInv ==
  ASSUME IInv, NextDay \/ \E t \in Tabs : (\E S \in SUBSET Events : ReadUnread(t, S)) \/ WriteRead(t)
  PROVE  IInv'
<1>1. TypeOK' /\ UNCHANGED <<workVars, preference, consent, opened>>
  <2>1. CASE NextDay
    BY <2>1, InboxAssumption DEF IInv, TypeOK, NextDay, workVars
  <2>2. CASE \E t \in Tabs : \E S \in SUBSET Events : ReadUnread(t, S)
    BY <2>2 DEF IInv, TypeOK, ReadUnread, workVars
  <2>3. CASE \E t \in Tabs : WriteRead(t)
    BY <2>3 DEF IInv, TypeOK, WriteRead, workVars
  <2> QED
    BY <2>1, <2>2, <2>3
<1>2. KeysUnique' /\ GatesSeen'
  BY <1>1 DEF IInv, KeysUnique, GatesSeen, OpenGates, workVars
<1>3. ASSUME NEW e \in Events PROVE Progressed(e)' /\ Truthful(e)'
  BY <1>1, SameEvent DEF IInv, workVars
<1> QED
  BY <1>1, <1>2, <1>3 DEF IInv

LEMMA NextIInv == IInv /\ [Next]_vars => IInv'
<1>. SUFFICES ASSUME IInv, [Next]_vars PROVE IInv'
  OBVIOUS
<1>1. CASE \E e \in Events : Handle(e) \/ Abandon(e)
  BY <1>1, HandleIInv, AbandonIInv
<1>2. CASE \E e \in Events : SetPreference(Recipient[e], TypeOf[e]) \/ SetConsent(Recipient[e])
  <2>1. \A e \in Events : Recipient[e] \in Users /\ TypeOf[e] \in Types
    BY InboxAssumption
  <2> QED
    BY <1>2, <2>1, SetPreferenceIInv, SetConsentIInv
<1>3. CASE NextDay \/ \E t \in Tabs : (\E S \in SUBSET Events : ReadUnread(t, S)) \/ WriteRead(t)
  BY <1>3, QuietIInv
<1>4. CASE UNCHANGED vars
  <2>1. TypeOK' /\ KeysUnique' /\ GatesSeen'
    BY <1>4 DEF vars, workVars, IInv, TypeOK, KeysUnique, GatesSeen, OpenGates
  <2>2. ASSUME NEW e \in Events PROVE Progressed(e)' /\ Truthful(e)'
    BY <1>4, SameEvent DEF vars, workVars, IInv
  <2> QED
    BY <2>1, <2>2 DEF IInv
<1> QED
  BY <1>1, <1>2, <1>3, <1>4 DEF Next

LEMMA Invariant == Spec => []IInv
BY InitIInv, NextIInv, PTL DEF Spec

-----------------------------------------------------------------------------
(* Theorems.                                                                *)

\* Every state is well typed, for every set of firings, users and tabs.
THEOREM InboxTypeCorrect == Spec => []TypeOK
<1>1. IInv => TypeOK
  BY DEF IInv
<1> QED
  BY Invariant, <1>1, PTL

\* However many handlers of one business event overlap and wherever each of
\* them dies, there is one inbox row, at most one e-mail, and none without the
\* row.
THEOREM OneNotification == Spec => []OncePerEvent
<1>1. IInv => OncePerEvent
  BY DEF IInv, KeysUnique, Truthful, OncePerEvent
<1> QED
  BY Invariant, <1>1, PTL

\* The delivery and attempt records never claim what the adapter did not do.
THEOREM TruthfulRecords == Spec => []RecordsTruthful
<1>1. IInv => RecordsTruthful
  BY DEF IInv, Truthful, RecordsTruthful
<1> QED
  BY Invariant, <1>1, PTL

\* Preference and consent, read in two transactions before the e-mail is sent,
\* were each open at some time after the notification was created.
THEOREM GatedEmail == Spec => []EmailGated
<1>1. IInv => EmailGated
  BY DEF IInv, Truthful, EmailGated, Both
<1> QED
  BY Invariant, <1>1, PTL
=============================================================================
