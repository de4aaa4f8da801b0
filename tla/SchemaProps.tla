---------------------------- MODULE SchemaProps ----------------------------
(***************************************************************************)
(* What the chain of migrations promises, whatever was done to the         *)
(* database between two commands.                                          *)
(***************************************************************************)
EXTENDS Schema

Seeds(rows) == {r \in rows : r[2][2] = "seed"}

Shape(d) ==
    [keys |-> d.keys, refs |-> d.refs, parts |-> d.parts, muted |-> d.muted, types |-> d.types,
     seeds |-> Seeds(d.rows), published |-> {p \in d.published : p[2] = "seed"}]

(* The shape of a new database brought to each revision. *)
Fresh == SubSeq([n \in 1..LATEST |-> Shape(Upgraded(EmptyDatabase, 0, n))], 1, LATEST)

(* The revision that seeds each policy and model. *)
SeededAt ==
    [x \in {<<Policy, type>> : type \in LearningTypes}
           \cup {<<<<"ai", "model_version">>, kind>> : kind \in {"RANKING", "EMBEDDING"}} |->
        CASE x[2] = "CONTEXT_RERANK" -> 10
          [] x[2] = "SLATE_POLICY" -> 11
          [] x[2] = "COLD_START" -> 12
          [] x[2] = "BEHAVIOR_LEARNING" -> 13
          [] x[2] = "EMBEDDING" -> 17
          [] OTHER -> 7]

-----------------------------------------------------------------------------

(* The catalogue stays a catalogue: names, keys and foreign keys of tables *)
(* that are there, in schemas that are there.                              *)
TypeOK ==
    /\ revision \in 0..LATEST /\ db.ok
    /\ db.schemas \subseteq {ALL_SCHEMAS[i] : i \in DOMAIN ALL_SCHEMAS}
    /\ DOMAIN db.refs = Tables(db)
    /\ \A t \in Tables(db) : t[1] \in db.schemas /\ "id" \in db.keys[t]
    /\ \A x \in db.parts \cup db.rows \cup db.cited : x[1] \in Tables(db)

(* However a database got to a revision, by which upgrades, downgrades and *)
(* upgrades again, it has the tables, keys, foreign keys, later columns,   *)
(* checks and triggers, the disabled triggers (none), the admitted policy  *)
(* types and the seeded policies and models, published or not, of a        *)
(* database made new at that revision: no downgrade leaves something       *)
(* behind, none takes too much, and none leaves a published policy         *)
(* writable.  Not compared are the namespaces, which depend on when the    *)
(* first revision ran, and what operators wrote.                           *)
RoundTrip == revision > 0 => Shape(db) = Fresh[revision]

(* The upgrade to the head is refused in one case only: below 0005, for a  *)
(* role that names an exhibitor.  The roles are 0003's and outlive the     *)
(* downgrade of 0005, which drops the exhibitors; the foreign key that     *)
(* 0005 adds again (0002_exhibition.sql:448-451) then finds a role whose   *)
(* exhibitor is gone.  Nothing else that is in the database stands in the  *)
(* way, whichever schemas its first revision knew: a later revision        *)
(* creates the schema it needs, and no seed, CHECK or trigger refuses.     *)
UpgradeBlockedOnlyByStaff ==
    Upgraded(db, revision, LATEST).ok <=>
        (revision < 5 => \A c \in db.cited : c[2] # "exhibitor_id")

(* The downgrade of a revision is refused exactly when an operator uses    *)
(* what it would take away: a policy it seeded is bound to an event, a     *)
(* policy version of a type it admitted exists, or the model it seeded has *)
(* an audited run.  Recommendations that were served never block it.       *)
Uses(x) ==
    \/ \E c \in db.cited : c[3] = <<x[2], "seed">> /\ c[1][2] \in {"event_policy_binding", "ai_run"}
    \/ x[1] = Policy /\ <<Policy, <<x[2], "own">>>> \in db.rows

DowngradeBlockedOnlyByUse ==
    revision > 7 =>
        (Downgraded(db, revision, revision - 1).ok <=>
            \A x \in DOMAIN SeededAt : SeededAt[x] = revision => ~Uses(x))

(* At the head the database is the one the classes of app/models declare:  *)
(* every class has its table, with the keys (by name) and the foreign keys *)
(* it states, and only the ontology's tables have no class.  Left out are  *)
(* the foreign keys of SupplyProfileAttribute: the one that is to tie its   *)
(* attribute_code to its concept (exhibitor.py:1764) is in no migration.    *)
DatabaseServesClasses ==
    revision = LATEST =>
        /\ Tables(db) \ {c.table : c \in MODELS} = {t \in Tables(db) : t[1] = "ontology"}
        /\ \A c \in MODELS :
             /\ c.table \in Tables(db) /\ db.keys[c.table] = c.keys
             /\ c # SupplyProfileAttribute => db.refs[c.table] = c.refs

=============================================================================
