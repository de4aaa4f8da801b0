------------------------------- MODULE Inbox -------------------------------
(***************************************************************************)
(* The in-app inbox, services/notification/service.py.  A business event is *)
(* deduplicated, held against a daily frequency cap, inserted together with *)
(* its IN_APP delivery, and then offered to the e-mail channel behind the   *)
(* recipient's preference and consent.  The repository opens a transaction  *)
(* of its own for every call, so each call is an action here, and calls of  *)
(* different requests, of browser tabs, the recipient's and others', and of *)
(* the settings page interleave between them.                               *)
(***************************************************************************)
EXTENDS Naturals, FiniteSets

CONSTANTS
  Events,             \* firings of handle_business_event
  Users, Types, Keys, \* Keys: the dedup keys (NULLs are not distinct)
  Recipient,          \* [Events -> Users]
  TypeOf,             \* [Events -> Types]: notification_type
  KeyOf,              \* [Events -> Keys]
  Cap,                \* [Types -> Nat or None]: the resolved rule's daily cap
  Tabs,               \* browser tabs, each owned by a user
  Owner,              \* [Tabs -> Users]
  MaxDay,             \* bound: UTC days
  None

ASSUME InboxAssumption ==
  /\ IsFiniteSet(Events)
  /\ Recipient \in [Events -> Users] /\ TypeOf \in [Events -> Types]
  /\ KeyOf \in [Events -> Keys] /\ Cap \in [Types -> Nat \cup {None}]
  /\ Owner \in [Tabs -> Users]
  /\ \A e, f \in Events : KeyOf[e] = KeyOf[f] =>
       Recipient[e] = Recipient[f] /\ TypeOf[e] = TypeOf[f]
  /\ MaxDay \in Nat /\ None \notin Nat \cup Tabs

VARIABLES
  today,       \* the UTC date
  pc,          \* [Events -> the next repository call of the handler]
  created_at,  \* [Events -> day]: `now`, taken when the handler starts
  inbox,       \* events whose notification row and IN_APP delivery exist
  email,       \* [Events -> status of the EMAIL delivery row]
  attempt,     \* [Events -> status of its notification_delivery_attempts row]
  result,      \* [Events -> what the adapter answered]
  sends,       \* [Events -> Nat]: calls of the adapter (outside)
  preference,  \* [Users \X Types -> BOOLEAN]: notification_preference
  consent,     \* [Users -> BOOLEAN]: an effective NOTIFICATION_EMAIL consent
  opened,      \* [Events -> gates that were open at some time since the insert]
  read_at,     \* [Events -> Tabs or None]: the call whose time it holds
  view         \* [Tabs -> unread rows the tab's transaction has read]

workVars == <<pc, created_at, inbox, email, attempt, result, sends>>
vars == <<today, workVars, preference, consent, opened, read_at, view>>

Steps == {"idle", "count", "insert", "preference", "consent", "skip", "pending",
          "send", "attempt", "update", "done"}

TypeOK ==
  /\ today \in 0..MaxDay
  /\ pc \in [Events -> Steps]
  /\ created_at \in [Events -> 0..MaxDay]
  /\ inbox \in SUBSET Events
  /\ email \in [Events -> {"none", "PENDING", "SENT", "FAILED", "SKIPPED"}]
  /\ attempt \in [Events -> {"none", "SUCCESS", "FAILED"}]
  /\ result \in [Events -> {"none", "SUCCESS", "FAILED"}]
  /\ sends \in [Events -> Nat]
  /\ preference \in [Users \X Types -> BOOLEAN]
  /\ consent \in [Users -> BOOLEAN]
  /\ opened \in [Events -> SUBSET {"preference", "consent"}]
  /\ read_at \in [Events -> Tabs \cup {None}]
  /\ view \in [Tabs -> SUBSET Events]

Init ==
  /\ today = 0
  /\ pc = [e \in Events |-> "idle"]
  /\ created_at = [e \in Events |-> 0]
  /\ inbox = {}
  /\ email = [e \in Events |-> "none"]
  /\ attempt = [e \in Events |-> "none"]
  /\ result = [e \in Events |-> "none"]
  /\ sends = [e \in Events |-> 0]
  /\ preference = [k \in Users \X Types |-> FALSE]
  /\ consent = [u \in Users |-> FALSE]
  /\ opened = [e \in Events |-> {}]
  /\ read_at = [e \in Events |-> None]
  /\ view = [t \in Tabs |-> {}]

Goto(e, step) == pc' = [pc EXCEPT ![e] = step]

-----------------------------------------------------------------------------
(* The settings of the recipient, the calendar.                             *)

SetPreference(u, t) ==
  /\ preference' = [preference EXCEPT ![<<u, t>>] = ~@]
  /\ opened' = [e \in Events |->
       IF e \in inbox /\ ~preference[<<u, t>>] /\ <<Recipient[e], TypeOf[e]>> = <<u, t>>
         THEN opened[e] \cup {"preference"} ELSE opened[e]]
  /\ UNCHANGED <<today, workVars, consent, read_at, view>>

\* A decision on NOTIFICATION_EMAIL, a row of its own in the code; the latest
\* one holds.
SetConsent(u) ==
  /\ consent' = [consent EXCEPT ![u] = ~@]
  /\ opened' = [e \in Events |->
       IF e \in inbox /\ ~consent[u] /\ Recipient[e] = u
         THEN opened[e] \cup {"consent"} ELSE opened[e]]
  /\ UNCHANGED <<today, workVars, preference, read_at, view>>

NextDay ==
  /\ today < MaxDay
  /\ today' = today + 1
  /\ UNCHANGED <<workVars, preference, consent, opened, read_at, view>>

-----------------------------------------------------------------------------
(* handle_business_event, one repository call at a time.                    *)

\* find_by_dedup_key.
FindDuplicate(e) ==
  /\ pc[e] = "idle"
  /\ created_at' = [created_at EXCEPT ![e] = today]
  /\ Goto(e, IF \E f \in inbox : KeyOf[f] = KeyOf[e] THEN "done"
             ELSE IF Cap[TypeOf[e]] = None THEN "insert" ELSE "count")
  /\ UNCHANGED <<today, inbox, email, attempt, result, sends, preference,
                 consent, opened, read_at, view>>

SameDay(e) == {f \in inbox : /\ Recipient[f] = Recipient[e]
                             /\ TypeOf[f] = TypeOf[e]
                             /\ created_at[f] = created_at[e]}

\* count_for_day against the cap; a type without a cap never comes here.
CountForDay(e) ==
  /\ pc[e] = "count"
  /\ Goto(e, IF Cardinality(SameDay(e)) >= Cap[TypeOf[e]] THEN "done" ELSE "insert")
  /\ UNCHANGED <<today, created_at, inbox, email, attempt, result, sends,
                 preference, consent, opened, read_at, view>>

OpenGates(e) ==
  (IF preference[<<Recipient[e], TypeOf[e]>>] THEN {"preference"} ELSE {})
    \cup (IF consent[Recipient[e]] THEN {"consent"} ELSE {})

\* Mutant: a refused insert goes on to the e-mail phase.
InsertOrGoOn(e) ==
  /\ pc[e] = "insert"
  /\ inbox' = IF \E f \in inbox : KeyOf[f] = KeyOf[e] THEN inbox ELSE inbox \cup {e}
  /\ opened' = [opened EXCEPT ![e] = OpenGates(e)]
  /\ Goto(e, "preference")
  /\ UNCHANGED <<today, created_at, email, attempt, result, sends, preference,
                 consent, read_at, view>>

\* insert_notification_with_in_app; uq_notifications_dedup_key refuses a key
\* that has been inserted since the lookup, and the outcome is DUPLICATE.
InsertNotification(e) ==
  /\ pc[e] = "insert"
  /\ IF \E f \in inbox : KeyOf[f] = KeyOf[e]
       THEN Goto(e, "done") /\ UNCHANGED <<inbox, opened>>
       ELSE /\ inbox' = inbox \cup {e}
            /\ opened' = [opened EXCEPT ![e] = OpenGates(e)]
            /\ Goto(e, "preference")
  /\ UNCHANGED <<today, created_at, email, attempt, result, sends, preference,
                 consent, read_at, view>>

CheckPreference(e) ==
  /\ pc[e] = "preference"
  /\ Goto(e, IF preference[<<Recipient[e], TypeOf[e]>>] THEN "consent" ELSE "skip")
  /\ UNCHANGED <<today, created_at, inbox, email, attempt, result, sends,
                 preference, consent, opened, read_at, view>>

\* Mutant: the preference alone is taken for the processing basis.
CheckConsentAssumed(e) ==
  /\ pc[e] = "consent"
  /\ Goto(e, "pending")
  /\ UNCHANGED <<today, created_at, inbox, email, attempt, result, sends,
                 preference, consent, opened, read_at, view>>

CheckConsent(e) ==
  /\ pc[e] = "consent"
  /\ Goto(e, IF consent[Recipient[e]] THEN "pending" ELSE "skip")
  /\ UNCHANGED <<today, created_at, inbox, email, attempt, result, sends,
                 preference, consent, opened, read_at, view>>

\* insert_delivery, SKIPPED or PENDING.
InsertDelivery(e) ==
  /\ pc[e] \in {"skip", "pending"}
  /\ email' = [email EXCEPT ![e] = IF pc[e] = "skip" THEN "SKIPPED" ELSE "PENDING"]
  /\ Goto(e, IF pc[e] = "skip" THEN "done" ELSE "send")
  /\ UNCHANGED <<today, created_at, inbox, attempt, result, sends, preference,
                 consent, opened, read_at, view>>

\* The adapter answers, or raises, which counts as a failure.
SendEmail(e, r) ==
  /\ pc[e] = "send"
  /\ result' = [result EXCEPT ![e] = r]
  /\ sends' = [sends EXCEPT ![e] = @ + 1]
  /\ Goto(e, "attempt")
  /\ UNCHANGED <<today, created_at, inbox, email, attempt, preference, consent,
                 opened, read_at, view>>

\* Mutant: the delivery is updated before its attempt is stored.
UpdateBeforeAttempt(e) ==
  /\ pc[e] = "attempt"
  /\ email' = [email EXCEPT ![e] = IF result[e] = "SUCCESS" THEN "SENT" ELSE "FAILED"]
  /\ Goto(e, "update")
  /\ UNCHANGED <<today, created_at, inbox, attempt, result, sends, preference,
                 consent, opened, read_at, view>>

InsertAttempt(e) ==
  /\ pc[e] = "attempt"
  /\ attempt' = [attempt EXCEPT ![e] = result[e]]
  /\ Goto(e, "update")
  /\ UNCHANGED <<today, created_at, inbox, email, result, sends, preference,
                 consent, opened, read_at, view>>

UpdateDelivery(e) ==
  /\ pc[e] = "update"
  /\ email' = [email EXCEPT ![e] = IF result[e] = "SUCCESS" THEN "SENT" ELSE "FAILED"]
  /\ Goto(e, "done")
  /\ UNCHANGED <<today, created_at, inbox, attempt, result, sends, preference,
                 consent, opened, read_at, view>>

\* A repository call fails, or the process dies: the handler is over, and what
\* it has committed stays.
Abandon(e) ==
  /\ pc[e] \notin {"idle", "done"}
  /\ Goto(e, "done")
  /\ UNCHANGED <<today, created_at, inbox, email, attempt, result, sends,
                 preference, consent, opened, read_at, view>>

Handle(e) ==
  \/ FindDuplicate(e) \/ CountForDay(e) \/ InsertNotification(e)
  \/ CheckPreference(e) \/ CheckConsent(e) \/ InsertDelivery(e)
  \/ \E r \in {"SUCCESS", "FAILED"} : SendEmail(e, r)
  \/ InsertAttempt(e) \/ UpdateDelivery(e)

-----------------------------------------------------------------------------
(* The recipient's tabs: mark_read and mark_all_read read the unread rows   *)
(* and then write their read_at.                                            *)

Own(t) == {e \in inbox : Recipient[e] = Owner[t]}

\* One unread row of the caller (mark_read), or all of them (mark_all_read).
ReadUnread(t, S) ==
  LET unread == {e \in Own(t) : read_at[e] = None}
  IN  /\ view[t] = {} /\ S # {}
      /\ S = unread \/ \E e \in unread : S = {e}
      /\ view' = [view EXCEPT ![t] = S]
      /\ UNCHANGED <<today, workVars, preference, consent, opened, read_at>>

WriteRead(t) ==
  /\ view[t] # {}
  /\ read_at' = [e \in Events |-> IF e \in view[t] THEN t ELSE read_at[e]]
  /\ view' = [view EXCEPT ![t] = {}]
  /\ UNCHANGED <<today, workVars, preference, consent, opened>>

Next ==
  \/ \E e \in Events : Handle(e) \/ Abandon(e)
  \/ \E e \in Events : SetPreference(Recipient[e], TypeOf[e])
                      \/ SetConsent(Recipient[e])
  \/ NextDay
  \/ \E t \in Tabs : (\E S \in SUBSET Events : ReadUnread(t, S)) \/ WriteRead(t)

Spec == Init /\ [][Next]_vars

-----------------------------------------------------------------------------
(* Properties.                                                              *)

\* However often and however concurrently one business event is fired, it
\* gives at most one inbox row and at most one e-mail, and no e-mail without
\* the inbox row.
OncePerEvent ==
  \A e \in Events :
    /\ \A f \in inbox : e \in inbox /\ KeyOf[e] = KeyOf[f] => e = f
    /\ sends[e] <= 1
    /\ sends[e] = 1 => e \in inbox

\* The e-mail records can be trusted at every moment of a handler that may die
\* between any two of them: what they say the adapter did, it did.
RecordsTruthful ==
  \A e \in Events :
    /\ email[e] = "SENT" => attempt[e] = "SUCCESS"
    /\ email[e] = "FAILED" => attempt[e] = "FAILED"
    /\ email[e] = "SKIPPED" => sends[e] = 0
    /\ attempt[e] # "none" => sends[e] = 1

\* An e-mail is sent only if both gates, preference and consent, were open at
\* some time after the notification was created: a choice made before counts.
EmailGated ==
  \A e \in Events : sends[e] > 0 => opened[e] = {"preference", "consent"}

=============================================================================
