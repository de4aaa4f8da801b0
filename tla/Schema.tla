------------------------------ MODULE Schema ------------------------------
(***************************************************************************)
(* The database over its life: alembic commands move it along the chain of *)
(* 31 revisions, each command in one transaction, while the application    *)
(* serves from the head and operators write policies of their own.         *)
(***************************************************************************)
EXTENDS MigPlatform, Classes, FiniteSets

CONSTANT OwnTypes        \* policy types operators write versions of

ASSUME OwnTypesAssumption == OwnTypes \subseteq LearningTypes

VARIABLES
    revision,            \* how many revisions of the chain are applied
    db                   \* the database, see SchemaOps

vars == <<revision, db>>

(* The chain: revision n is Upgrades[n], undone by Downgrades[n]. *)
Upgrades ==
    <<Up0001, Up0002, Up0003, Up0004, Up0005, Up0006, Up0007, Up0008, Up0009, Up0010, Up0011,
      Up0012, Up0013, Up0014, Up0015, Up0016, Up0017, Up0018, Up0019, Up0020, Up0021, Up0022,
      Up0023, Up0024, Up0025, Up0026, Up0027, Up0028, Up0029, Up0030, Up0031>>

Downgrades ==
    <<Down0001, Down0002, Down0003, Down0004, Down0005, Down0006, Down0007, Down0008, Down0009,
      Down0010, Down0011, Down0012, Down0013, Down0014, Down0015, Down0016, Down0017, Down0018,
      Down0019, Down0020, Down0021, Down0022, Down0023, Down0024, Down0025, Down0026, Down0027,
      Down0028, Down0029, Down0030, Down0031>>

LATEST == Len(Upgrades)

Upgraded(d, from, to) == FoldLeft(Migrate, d, SubSeq(Upgrades, from + 1, to))
Downgraded(d, from, to) == FoldLeft(Migrate, d, Reverse(SubSeq(Downgrades, to + 1, from)))

(* An empty database, or one whose first revision ran while ALL_SCHEMAS    *)
(* still named the thirteen schemas of the database document only.         *)
Init ==
    \/ revision = 0 /\ db = EmptyDatabase
    \/ /\ revision = 1
       /\ db = [EmptyDatabase EXCEPT !.schemas = {ALL_SCHEMAS[i] : i \in 1..13}]

-----------------------------------------------------------------------------
(* alembic upgrade +1, or head; alembic downgrade -1, or base.  A refused  *)
(* statement rolls the command back.                                       *)

Upgrade(to) ==
    /\ revision < to /\ to <= LATEST
    /\ \E after \in {Upgraded(db, revision, to)} :
         after.ok /\ db' = after
    /\ revision' = to

Downgrade(to) ==
    /\ 0 <= to /\ to < revision
    /\ \E after \in {Downgraded(db, revision, to)} :
         after.ok /\ db' = after
    /\ revision' = to

-----------------------------------------------------------------------------
(* The application, at the head it was written for. *)

(* The columns a run, its results, its slate and its cold start, and a     *)
(* learned behaviour write a policy or the ranking model in.               *)
Citations ==
    {<<<<"matching", "recommendation_session">>, "policy_version_id", "CONSUMER_SCORE">>,
     <<<<"matching", "recommendation_session">>, "policy_version_id", "BUYER_SCORE">>,
     <<<<"matching", "recommendation_session">>, "ranking_model_version_id", "RANKING">>,
     <<<<"matching", "recommendation_session">>, "cold_start_policy_version_id", "COLD_START">>,
     <<<<"matching", "match_result">>, "directional_policy_version_id", "CONSUMER_SCORE">>,
     <<<<"matching", "match_result">>, "directional_policy_version_id", "BUYER_SCORE">>,
     <<<<"matching", "match_result">>, "exhibitor_policy_version_id", "EXHIBITOR_SCORE">>,
     <<<<"matching", "match_result">>, "reciprocal_policy_version_id", "RECIPROCAL_SCORE">>,
     <<<<"matching", "match_result">>, "context_policy_version_id", "CONTEXT_RERANK">>,
     <<<<"matching", "match_result">>, "cold_start_policy_version_id", "COLD_START">>,
     <<<<"matching", "slate_result">>, "slate_policy_version_id", "SLATE_POLICY">>,
     <<<<"matching", "cold_start_status">>, "match_policy_version_id", "COLD_START">>,
     <<<<"learning", "behavior_signal">>, "match_policy_version_id", "BEHAVIOR_LEARNING">>,
     <<<<"ai", "object_embedding">>, "model_version_id", "EMBEDDING">>}

Serve ==
    /\ revision = LATEST
    /\ db' = [db EXCEPT !.cited = @ \cup {<<c[1], c[2], <<c[3], "seed">>>> : c \in Citations}]
    /\ UNCHANGED revision

-----------------------------------------------------------------------------
(* Operators and tools outside the repository's code: a policy version of  *)
(* their own, its publication, the binding of a published policy to an     *)
(* event (its trigger refuses a draft), an audited run of the embedding    *)
(* model, an exhibitor, and the role of one of its staff, whose            *)
(* exhibitor_id is checked where its foreign key is in force.              *)

Write(t, row) ==
    /\ t \in Tables(db) /\ <<t, row>> \notin db.rows
    /\ db' = [db EXCEPT !.rows = @ \cup {<<t, row>>}]
    /\ UNCHANGED revision

Cite(t, column, row) ==
    /\ t \in Tables(db) /\ row \in db.published
    /\ db' = [db EXCEPT !.cited = @ \cup {<<t, column, row>>}]
    /\ UNCHANGED revision

DraftOwn(type) == type \in db.types /\ Write(Policy, <<type, "own">>)

PublishOwn(type) ==
    /\ <<Policy, <<type, "own">>>> \in db.rows /\ <<type, "own">> \notin db.published
    /\ db' = [db EXCEPT !.published = @ \cup {<<type, "own">>}]
    /\ UNCHANGED revision

Bind(type, by) == Cite(<<"matching", "event_policy_binding">>, "policy_type", <<type, by>>)

RunModel == Cite(<<"ai", "ai_run">>, "model_version_id", <<"EMBEDDING", "seed">>)

Exhibitors == <<"exhibition", "exhibitor">>
Partner == <<"PARTNER", "own">>

Register == Write(Exhibitors, Partner)

Appoint ==
    /\ UserRoles \in Tables(db) /\ <<UserRoles, <<"EXHIBITOR", "own">>>> \notin db.rows
    /\ \A r \in db.refs[UserRoles] : r[1] = "exhibitor_id" => <<r[2], Partner>> \in db.rows
    /\ db' = [db EXCEPT !.rows = @ \cup {<<UserRoles, <<"EXHIBITOR", "own">>>>},
                        !.cited = @ \cup {<<UserRoles, "exhibitor_id", Partner>>}]
    /\ UNCHANGED revision

Next ==
    \/ Upgrade(revision + 1) \/ Upgrade(LATEST)
    \/ Downgrade(revision - 1) \/ Downgrade(0)
    \/ Serve \/ RunModel \/ Register \/ Appoint
    \/ \E type \in OwnTypes :
         DraftOwn(type) \/ PublishOwn(type) \/ \E by \in {"seed", "own"} : Bind(type, by)

Spec == Init /\ [][Next]_vars

=============================================================================
