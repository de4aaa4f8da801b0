------------------------------- MODULE Visitor -------------------------------
(***************************************************************************)
(* One visitor's profile and everything that writes it at the same time:    *)
(* the forms of the visitor (api/v1/routers/profile.py), the confirmation   *)
(* of what a dialogue extracted (conversation.py), the learning from        *)
(* behaviour events (services/behavior_learning.py) and the recommendation  *)
(* runs that read it (services/matching/profile_resolver.py).               *)
(*                                                                          *)
(* The database runs READ COMMITTED: a handler reads row by row what is     *)
(* committed at the time and writes in one transaction at its end.  The     *)
(* forms take no lock when they read; their UPDATE of the profile row waits *)
(* for the transaction that holds it, and the unique number of the version  *)
(* row then refuses the change if another one was made since the read.      *)
(* Learning selects the profile row FOR UPDATE, so that from the lock to    *)
(* the commit it is one step here, as is a form from its UPDATE on.         *)
(***************************************************************************)
EXTENDS Integers, Sequences, FiniteSets

CONSTANTS
  None,       \* a JSON null, or a key that is absent
  Requests,   \* HTTP requests, each handled once
  Codes,      \* attribute codes
  Catalogue,  \* those of the published ontology: what the forms accept
  Goals,      \* the codes of VISIT_GOAL and BUSINESS_GOAL; the others are product
              \* categories, which the forms of visitors and of buyers share
  Prices,     \* what a visitor may state as a price limit
  Extracted,  \* the codes a dialogue may propose
  Events,     \* interaction events
  Reports,    \* [Events -> the attribute_targets it may be reported with]: lists, in
              \* which a code may come twice, of a code and the strength after decay
              \* and propagation; of the targets at a level that nothing reaches, none
  Full,       \* the end of the scale of an inferred score, 1.0 in the code
  UpdateCap   \* [user types -> Nat]: single_update_cap

ASSUME VisitorAssumption ==
  /\ None \notin Requests \cup Codes \cup Prices \cup Int \cup Seq([code : Codes, signal : Int])
  /\ Goals \subseteq Catalogue /\ Catalogue \subseteq Codes /\ Extracted \subseteq Codes
  /\ \A e \in Events : Reports[e] \subseteq Seq([code : Codes, signal : Int])
  /\ Full \in Nat /\ UpdateCap \in [{"GENERAL_VISITOR", "BUYER"} -> Nat]

UserTypes == {"GENERAL_VISITOR", "BUYER"}

\* Where an active attribute comes from: a form, a correction, a dialogue.
Sources == {"USER_SELECTED", "USER_EDITED", "USER_TYPED"}

VARIABLES
  profile,      \* [user_type, current_version, row_version] of profile.user_profile
  active,       \* [Codes -> Sources \cup {None}]: the active profile_attribute rows
  versions,     \* the rows of profile.profile_version
  extraction,   \* [code, status, applied]: the proposed entity_extraction, and how
                \* often an attribute row was made from it
  signals,      \* [Events -> None, or its behavior_signal row: the targets, its
                \* attribute_evidence rows, that it was processed with]
  inferred,     \* [Codes -> None, or -Full..Full: inferred_preference.inferred_score]
  adjustments,  \* the rows of profile_adjustment, in their order
  runs,         \* [Requests -> None or a matching.recommendation_session row]
  task,         \* [Requests -> what the handler has read]
  declared      \* history: the price limit the visitor last stated

vars == <<profile, active, versions, extraction, signals, inferred, adjustments,
          runs, task, declared>>

learned == <<signals, inferred, adjustments>>

Idle == [kind |-> "idle"]
Done == [kind |-> "done"]

\* A profile as it begins, and the version row get_or_create makes of it, its
\* snapshot empty.
Created == [number |-> 1, reason |-> "PROFILE_CREATED", if_match |-> None,
            user_type |-> "GENERAL_VISITOR", attributes |-> [c \in Codes |-> None],
            price |-> None]

\* get_or_create writes the profile with its first version row; a guest session
\* (POST /sessions) writes the profile alone.
Init ==
  /\ profile = [user_type |-> "GENERAL_VISITOR", current_version |-> 1, row_version |-> 1]
  /\ active = [c \in Codes |-> None]
  /\ versions \in {{}, {Created}}
  /\ extraction \in [code : Extracted, status : {"PROPOSED"}, applied : {0}]
  /\ signals = [e \in Events |-> None]
  /\ inferred = [c \in Codes |-> None] /\ adjustments = << >>
  /\ runs = [r \in Requests |-> None]
  /\ task = [r \in Requests |-> Idle]
  /\ declared = None

Forms == {"user-type", "goals", "consumer-preferences", "buyer-needs", "plan",
          "patch", "attributes", "decision"}

\* What a request holds between two statements.
Tasks == {Idle, Done}
         \cup [kind : Forms, seen : Nat, row_version : Nat, if_match : Nat \cup {None}]
         \cup [kind : {"learning"}, event : Events]
         \cup [kind : {"run"}, reported : Nat, user_type : UserTypes]
         \cup [kind : {"attributes-read"}, reported : Nat, user_type : UserTypes,
               attributes : [Codes -> Sources \cup {None}]]
         \cup [kind : {"resolved"}, reported : Nat, user_type : UserTypes,
               attributes : [Codes -> Sources \cup {None}], snapshot : Nat \cup {None}]

TypeOK ==
  /\ profile \in [user_type : UserTypes, current_version : Nat, row_version : Nat]
  /\ active \in [Codes -> Sources \cup {None}]
  /\ \A v \in versions : v.number \in Nat
  /\ extraction \in [code : Codes, status : {"PROPOSED", "CONFIRMED", "REJECTED"}, applied : Nat]
  /\ DOMAIN signals = Events /\ \A e \in Events : signals[e] \in Reports[e] \cup {<< >>, None}
  /\ inferred \in [Codes -> -Full..Full \cup {None}]
  /\ task \in [Requests -> Tasks]

Finish(r) == task' = [task EXCEPT ![r] = Done]

\* A client that goes away, an error, a restart: nothing was committed.
Abandon(r) ==
  /\ task[r] \notin {Idle, Done}
  /\ Finish(r)
  /\ UNCHANGED <<profile, active, versions, extraction, learned, runs, declared>>

-----------------------------------------------------------------------------
(* Versions.                                                                *)

Latest == CHOOSE v \in versions : \A w \in versions : w.number <= v.number

\* Mutant: the number of a version is not unique.
UnclaimedAlways(number) == TRUE

\* uq_profile_version_number.
Unclaimed(number) == \A v \in versions : v.number # number

\* Mutant: the snapshot is read before the rows of the change are flushed.
SnapshotUnflushed(after) == active

\* What the SELECT of _bump_version sees of the attributes the handler wrote: the
\* session does not flush by itself, each helper does.
Snapshot(after) == after

\* The scalars of the latest snapshot, if there is one (_latest_snapshot).
LatestPrice == IF versions = {} THEN None ELSE Latest.price

\* _bump_version, on the profile as the handler read it: the scalars are those
\* of the latest snapshot, patched.
BumpVersion(r, type, after, patch, reason) ==
  LET number == task[r].seen + 1 IN
  /\ Unclaimed(number)
  /\ profile' = [user_type |-> type, current_version |-> number,
                 row_version |-> task[r].row_version + 1]
  /\ active' = after
  /\ versions' = versions \cup
       {[number |-> number, reason |-> reason, if_match |-> task[r].if_match,
         user_type |-> type, attributes |-> Snapshot(after),
         price |-> IF patch.sets THEN patch.price ELSE LatestPrice]}
  /\ declared' = IF patch.sets THEN patch.price ELSE declared
  /\ Finish(r)

Keep     == [sets |-> FALSE, price |-> None]
Set(p)   == [sets |-> TRUE, price |-> p]

\* _invalidate_active_recommendations.
InvalidateActiveRecommendations ==
  runs' = [r \in Requests |-> IF runs[r] # None /\ runs[r].status = "ACTIVE"
                              THEN [runs[r] EXCEPT !.status = "INVALIDATED"] ELSE runs[r]]

\* _replace_attribute_group.
Replaced(group, codes, source) ==
  [c \in Codes |-> IF c \in codes THEN source ELSE IF c \in group THEN None ELSE active[c]]

\* _apply_add_remove: what is removed still counts as active when the codes to
\* add are looked up.
AddedRemoved(add, remove) ==
  [c \in Codes |-> IF active[c] # None THEN (IF c \in remove THEN None ELSE active[c])
                   ELSE IF c \in add THEN "USER_EDITED" ELSE None]

-----------------------------------------------------------------------------
(* The forms.                                                               *)

\* The profile row is read and If-Match compared; the plan takes none, and the
\* decision requires the version its client has seen.
BeginForm(r, form, tag) ==
  /\ task[r] = Idle
  /\ form = "plan" => tag = None
  /\ form = "decision" => tag # None
  /\ task' = [task EXCEPT ![r] =
       IF tag \in {None, profile.row_version} /\ (form = "decision" => extraction.status = "PROPOSED")
       THEN [kind |-> form, seen |-> profile.current_version,
             row_version |-> profile.row_version, if_match |-> tag]
       ELSE Done]
  /\ UNCHANGED <<profile, active, versions, extraction, learned, runs, declared>>

UpdateUserType(r) ==
  /\ task[r].kind = "user-type"
  /\ \E type \in UserTypes :
       /\ BumpVersion(r, type, active, Keep, "USER_TYPE")
       /\ IF type # profile.user_type THEN InvalidateActiveRecommendations
                                      ELSE UNCHANGED runs
  /\ UNCHANGED <<extraction, learned>>

UpdateGoals(r) ==
  /\ task[r].kind = "goals"
  /\ \E codes \in SUBSET Goals :
       BumpVersion(r, profile.user_type, Replaced(Goals, codes, "USER_SELECTED"), Keep,
                   "GOALS_UPDATED")
  /\ UNCHANGED <<extraction, learned, runs>>

UpdateConsumerPreferences(r) ==
  /\ task[r].kind = "consumer-preferences"
  /\ \E codes \in SUBSET (Catalogue \ Goals), price \in Prices \cup {None} :
       BumpVersion(r, profile.user_type, Replaced(Codes \ Goals, codes, "USER_SELECTED"),
                   Set(price), "CONSUMER_PREFERENCES_UPDATED")
  /\ UNCHANGED <<extraction, learned, runs>>

UpdateBuyerNeeds(r) ==
  /\ task[r].kind = "buyer-needs"
  /\ \E codes \in SUBSET (Catalogue \ Goals) :
       BumpVersion(r, profile.user_type, Replaced(Codes \ Goals, codes, "USER_SELECTED"),
                   Keep, "BUYER_NEEDS_UPDATED")
  /\ UNCHANGED <<extraction, learned, runs>>

UpdateVisitPlan(r) ==
  /\ task[r].kind = "plan"
  /\ BumpVersion(r, profile.user_type, active, Keep, "VISIT_PLAN_UPDATED")
  /\ UNCHANGED <<extraction, learned, runs>>

PatchProfile(r) ==
  /\ task[r].kind = "patch"
  /\ \E add, remove \in SUBSET (Catalogue \ Goals), patch \in {Keep} \cup {Set(p) : p \in Prices} :
       BumpVersion(r, profile.user_type, AddedRemoved(add, remove), patch, "USER_UPDATE")
  /\ InvalidateActiveRecommendations
  /\ UNCHANGED <<extraction, learned>>

PatchAttributes(r) ==
  /\ task[r].kind = "attributes"
  /\ \E put, remove \in SUBSET Catalogue :
       /\ put \cap remove = {}
       /\ BumpVersion(r, profile.user_type, Replaced(remove, put, "USER_EDITED"),
                      Keep, "ATTRIBUTES_PATCHED")
  /\ UNCHANGED <<extraction, learned, runs>>

\* decide_extraction, action CONFIRM, of a code the ontology has.
ConfirmExtraction(r) ==
  /\ task[r].kind = "decision" /\ extraction.code \in Catalogue
  /\ BumpVersion(r, profile.user_type, [active EXCEPT ![extraction.code] = "USER_TYPED"], Keep,
                 "AI_CONFIRMATION")
  /\ extraction' = [extraction EXCEPT !.status = "CONFIRMED", !.applied = @ + 1]
  /\ InvalidateActiveRecommendations
  /\ UNCHANGED learned

\* The answer STRUCTURED_FIELD_REQUIRED: confirmed, and nothing made of it.
ConfirmUnlisted(r) ==
  /\ task[r].kind = "decision" /\ extraction.code \notin Catalogue
  /\ extraction' = [extraction EXCEPT !.status = "CONFIRMED"]
  /\ Finish(r)
  /\ UNCHANGED <<profile, active, versions, learned, runs, declared>>

\* decide_extraction, action REJECT: no version, and so nothing that refuses it.
RejectExtraction(r) ==
  /\ task[r].kind = "decision"
  /\ extraction' = [extraction EXCEPT !.status = "REJECTED"]
  /\ Finish(r)
  /\ UNCHANGED <<profile, active, versions, learned, runs, declared>>

CommitForm(r) ==
  \/ UpdateUserType(r) \/ UpdateGoals(r) \/ UpdateConsumerPreferences(r)
  \/ UpdateBuyerNeeds(r) \/ UpdateVisitPlan(r) \/ PatchProfile(r)
  \/ PatchAttributes(r) \/ ConfirmExtraction(r) \/ ConfirmUnlisted(r) \/ RejectExtraction(r)

-----------------------------------------------------------------------------
(* Learning from behaviour events.                                          *)

Clamp(x, limit) == IF x > limit THEN limit ELSE IF x < -limit THEN -limit ELSE x

\* Mutant: what a dialogue extracted and the visitor confirmed is not listed.
StatedUntyped(c) == active[c] \in {"USER_SELECTED", "USER_EDITED", "REGISTRATION"}

\* explicit_attribute_codes.
Stated(c) == active[c] \in {"USER_SELECTED", "USER_TYPED", "USER_EDITED", "REGISTRATION"}

\* Mutant: no unique key on the event of a signal.
UnprocessedAlways(e) == TRUE

\* uq_behavior_signal_event.
Unprocessed(e) == signals[e] = None

\* An inferred_preference row that is not there counts as 0.
Score(x) == IF x = None THEN 0 ELSE x

\* APPLY_CANDIDATE, and a code of the ontology.
Applies(c) == c \in Catalogue /\ ~Stated(c)

\* What a target moves a score to: the cap bounds each target, the scale the sum.
Moved(score, signal) == Clamp(score + Clamp(signal, UpdateCap[profile.user_type]), Full)

\* The preferences after a target, from those before it.
AfterTarget(known, t) ==
  IF Applies(t.code) THEN [known EXCEPT ![t.code] = Moved(Score(@), t.signal)] ELSE known

\* The row process_behavior_event makes of the target at a place of the list.
Adjustment(e, place, t, known) ==
  [event |-> e, place |-> place, code |-> t.code, previous |-> Score(known[t.code]),
   new |-> Moved(Score(known[t.code]), t.signal), applied |-> Applies(t.code)]

\* The preferences before each target of a list and after the last, in its order.
Preferences(targets) ==
  LET known[i \in 0..Len(targets)] ==
        IF i = 0 THEN inferred ELSE AfterTarget(known[i - 1], targets[i])
  IN known

Adjusted(e, targets) ==
  [i \in 1..Len(targets) |-> Adjustment(e, i, targets[i], Preferences(targets)[i - 1])]

\* uq_inferred_preference_concept: the SELECT of a target does not see the row
\* an earlier one inserted (autoflush is off), so a code that comes twice is
\* inserted twice unless it has a row.
InsertedOnce(targets) ==
  \A i, j \in DOMAIN targets :
    /\ targets[i].code = targets[j].code
    /\ Applies(targets[i].code) /\ inferred[targets[i].code] = None
    => i = j

\* The look-up that answers a replay before anything is locked.
BeginLearn(r, e) ==
  /\ task[r] = Idle
  /\ task' = [task EXCEPT ![r] = IF signals[e] # None THEN Done
                                 ELSE [kind |-> "learning", event |-> e]]
  /\ UNCHANGED <<profile, active, versions, extraction, learned, runs, declared>>

\* process_behavior_event from the lock of the profile to the commit, target by
\* target.  An event without consent, of a bot, of a cause that says nothing of
\* taste, leaves a signal and no adjustment.
CommitLearn(r) ==
  /\ task[r].kind = "learning"
  /\ \E e \in {task[r].event} : \E targets \in Reports[e] \cup {<< >>} :
       LET number == profile.current_version + 1
       IN /\ Unprocessed(e) /\ InsertedOnce(targets)
          /\ signals' = [signals EXCEPT ![e] = targets]
          /\ inferred' = Preferences(targets)[Len(targets)]
          /\ adjustments' = adjustments \o Adjusted(e, targets)
          /\ IF \A i \in DOMAIN targets : ~Applies(targets[i].code)
             THEN UNCHANGED <<profile, versions>>
             ELSE /\ profile' = [profile EXCEPT !.current_version = number, !.row_version = @ + 1]
                  /\ versions' = versions \cup
                       {[number |-> number, reason |-> "BEHAVIOR_LEARNING", if_match |-> None,
                         user_type |-> None, attributes |-> None, price |-> None]}
  /\ Finish(r)
  /\ UNCHANGED <<active, extraction, runs, declared>>

-----------------------------------------------------------------------------
(* A recommendation run: resolve_profile reads the profile, its attributes    *)
(* and its latest version by three statements; the result is stored when the *)
(* whole pipeline has run.                                                    *)

BeginRun(r) ==
  /\ task[r] = Idle
  /\ task' = [task EXCEPT ![r] = [kind |-> "run", reported |-> profile.current_version,
                                 user_type |-> profile.user_type]]
  /\ UNCHANGED <<profile, active, versions, extraction, learned, runs, declared>>

ReadAttributes(r) ==
  /\ task[r].kind = "run"
  /\ task' = [task EXCEPT ![r] = [kind |-> "attributes-read", reported |-> @.reported,
                                 user_type |-> @.user_type, attributes |-> active]]
  /\ UNCHANGED <<profile, active, versions, extraction, learned, runs, declared>>

\* Mutant: the snapshot is the version the profile reported.
SnapshotOfReported(t) == t.reported

\* latest_version; None if the profile has no version row.
SnapshotOf(t) == IF versions = {} THEN None ELSE Latest.number

ReadVersion(r) ==
  /\ task[r].kind = "attributes-read"
  /\ task' = [task EXCEPT ![r] = [kind |-> "resolved", reported |-> @.reported,
                user_type |-> @.user_type, attributes |-> @.attributes, snapshot |-> SnapshotOf(@)]]
  /\ UNCHANGED <<profile, active, versions, extraction, learned, runs, declared>>

\* store_recommendation: one commit for the session and its results.
StoreRecommendation(r) ==
  /\ task[r].kind = "resolved" /\ task[r].snapshot # None
  /\ runs' = [runs EXCEPT ![r] =
       [reported |-> task[r].reported, user_type |-> task[r].user_type,
        attributes |-> task[r].attributes, snapshot |-> task[r].snapshot, status |-> "ACTIVE"]]
  /\ Finish(r)
  /\ UNCHANGED <<profile, active, versions, extraction, learned, declared>>

\* profile_incomplete: a profile without a version row has nothing to tie a run to.
RefuseStore(r) ==
  /\ task[r].kind = "resolved" /\ task[r].snapshot = None
  /\ Finish(r)
  /\ UNCHANGED <<profile, active, versions, extraction, learned, runs, declared>>

-----------------------------------------------------------------------------

Next ==
  \E r \in Requests :
    \/ \E form \in Forms, tag \in {None} \cup 1..profile.row_version : BeginForm(r, form, tag)
    \/ CommitForm(r)
    \/ \E e \in Events : BeginLearn(r, e)
    \/ CommitLearn(r)
    \/ BeginRun(r) \/ ReadAttributes(r) \/ ReadVersion(r) \/ StoreRecommendation(r)
    \/ RefuseStore(r) \/ Abandon(r)

Spec == Init /\ [][Next]_vars

-----------------------------------------------------------------------------
(* Properties.                                                              *)

\* The versions are the history of the profile without gap or fork, although
\* forms and learning make them at the same time: from the first row, which is
\* that of version 1 or, of a guest, of version 2, as many rows as numbers; a
\* change made under an If-Match tag directly follows the version of its tag,
\* and a proposal becomes an attribute at most once.
VersionsSerial ==
  /\ \E first \in {1, 2} :
       /\ {v.number : v \in versions} = first..profile.current_version
       /\ Cardinality(versions) = profile.current_version + 1 - first
  /\ profile.row_version = profile.current_version
  /\ \A v \in versions : v.if_match # None => v.number = v.if_match + 1
  /\ extraction.applied <= 1

\* The versions, with that of a guest who has no row for it.
Known == versions \cup {Created}

\* The version a form made that was in force at version n.
FormAt(n) ==
  CHOOSE v \in Known :
    /\ v.number <= n /\ v.reason # "BEHAVIOR_LEARNING"
    /\ \A w \in Known : w.number <= n /\ w.reason # "BEHAVIOR_LEARNING" => w.number <= v.number

\* The latest snapshot of a form is the profile as it is, whatever was learned
\* or refused since.
SnapshotFaithful ==
  LET v == FormAt(profile.current_version)
  IN v.attributes = active /\ v.user_type = profile.user_type

\* Where the first n adjustments leave the score of a code: at what its last one
\* says, and one that was not applied leaves it where it was.
ScoreAfter(c, n) ==
  LET made == {i \in 1..n : adjustments[i].code = c}
      last == adjustments[CHOOSE i \in made : \A j \in made : j <= i]
  IN IF made = {} THEN 0 ELSE IF last.applied THEN last.new ELSE last.previous

\* An event moves preferences once, however often and from wherever it is
\* reported: there is one adjustment for each place of the one target list it
\* was processed with, and none for the list of another report.  The
\* adjustments of a code lead one to the next, also those of one event that
\* names it twice, from nothing to the score that holds now.
LearnedOnce ==
  /\ \A i, j \in DOMAIN adjustments :
       /\ adjustments[i].event = adjustments[j].event
       /\ adjustments[i].place = adjustments[j].place
       => i = j
  /\ \A e \in Events : signals[e] # None =>
       \A place \in DOMAIN signals[e] : \E i \in DOMAIN adjustments :
         adjustments[i].event = e /\ adjustments[i].place = place
  /\ \A i \in DOMAIN adjustments :
       LET a == adjustments[i] IN
       /\ a.place \in DOMAIN signals[a.event] /\ a.code = signals[a.event][a.place].code
       /\ a.previous = ScoreAfter(a.code, i - 1)
  /\ \A c \in Codes : Score(inferred[c]) = ScoreAfter(c, Len(adjustments))

\* Behaviour never moves the score of a code the visitor states at the moment,
\* by whichever form or dialogue it came into the profile.
ExplicitWins ==
  [][\A c \in Codes : inferred'[c] # inferred[c] => active[c] = None /\ active'[c] = None]_vars

\* A stored run is tied to a version row that is there, and was made of the user
\* type of the version it reports and of the attributes of one version between
\* the two: it may mix two versions next to each other in time, never others.
RunBracketed ==
  \A r \in Requests : runs[r] # None =>
    /\ \E v \in versions : v.number = runs[r].snapshot
    /\ runs[r].reported <= runs[r].snapshot
    /\ runs[r].user_type = FormAt(runs[r].reported).user_type
    /\ \E n \in runs[r].reported..runs[r].snapshot : runs[r].attributes = FormAt(n).attributes

\* A scalar the visitor stated is carried from snapshot to snapshot
\* (_bump_version): the latest snapshot of a form holds the price last stated.
ScalarsSurvive == FormAt(profile.current_version).price = declared

=============================================================================
