----------------------------- MODULE SchemaOps -----------------------------
(***************************************************************************)
(* The statements the alembic migrations are written in, and what one of   *)
(* them does to the database: whether PostgreSQL accepts it, and the       *)
(* catalogue and the few rows it leaves.                                   *)
(*                                                                         *)
(* A database is a record:                                                 *)
(*   schemas  the namespaces;                                              *)
(*   keys     table -> the names of its keys ("id" is the primary key,     *)
(*            "boundary" the key that adds tenant_id and event_id to it,   *)
(*            any other name the unique constraint or index);              *)
(*   refs     table -> foreign keys <<column, table, key>>;                *)
(*   parts    <<table, name>>: later columns, checks and the triggers;     *)
(*   muted    the triggers a migration has disabled;                       *)
(*   types    the policy types the CHECK of match_policy_version admits;   *)
(*   rows     <<table, row>>, a row being <<what it is about, who wrote    *)
(*            it>>; published the policy and model rows past DRAFT;        *)
(*   cited    <<table, column, row>>: the values that application rows     *)
(*            have in a column that references another table.              *)
(* A table is the pair of its schema and its name.  Plain columns, their   *)
(* types, the functions and the indexes that are not unique are left out.  *)
(* A key added to a table that has rows adds to its primary key, or to the *)
(* columns of one, so that no rows can break it; the columns added later   *)
(* are nullable or have a default.                                         *)
(***************************************************************************)
EXTENDS Naturals, Sequences, SequencesExt

EmptyDatabase ==
    [ok |-> TRUE, schemas |-> {}, keys |-> <<>>, refs |-> <<>>, parts |-> {}, muted |-> {},
     types |-> {}, rows |-> {}, published |-> {}, cited |-> {}]

-----------------------------------------------------------------------------
(* What a foreign key may point at. *)

Key(s, t, k) == {<<<<s, t>>, k>>}
Row(s, t) == Key(s, t, "id")
Scoped(s, t) == Key(s, t, "boundary")
AnEvent == Scoped("exhibition", "event")
ATenant == Row("core", "tenant")
AnAccount == Row("profile", "user_account")
AConcept == Row("ontology", "concept_revision")
NoRefs == <<>>

(* A record column -> targets, as the set of its foreign keys. *)
References(R) == UNION {{<<c, x[1], x[2]>> : x \in R[c]} : c \in DOMAIN R}

-----------------------------------------------------------------------------
(* The statements. *)

CreateSchema(s) == [do |-> "create schema", schema |-> s]
DropSchema(s) == [do |-> "drop schema", schema |-> s]
DropSchemaCascade(s) == [do |-> "drop schema cascade", schema |-> s]
Create(s, t, K, R) == [do |-> "create", table |-> <<s, t>>, keys |-> K, refs |-> References(R)]
Drop(s, t) == [do |-> "drop", table |-> <<s, t>>]
DropCascade(s, t) == [do |-> "drop cascade", table |-> <<s, t>>]
AddKey(s, t, k) == [do |-> "add key", table |-> <<s, t>>, key |-> k]
DropKey(s, t, k) == [do |-> "drop key", table |-> <<s, t>>, key |-> k]
AddRef(s, t, c, to) == [do |-> "add ref", table |-> <<s, t>>, refs |-> References(c :> to)]
DropRef(s, t, c, to) == [do |-> "drop ref", table |-> <<s, t>>, refs |-> References(c :> to)]
AddParts(s, t, N) == [do |-> "add parts", table |-> <<s, t>>, parts |-> N]
DropParts(s, t, N) == [do |-> "drop parts", table |-> <<s, t>>, parts |-> N]
Mute(s, t, trigger) == [do |-> "mute", table |-> <<s, t>>, trigger |-> trigger]
Unmute(s, t, trigger) == [do |-> "unmute", table |-> <<s, t>>, trigger |-> trigger]
PolicyTypes(T) == [do |-> "policy types", types |-> T]
Insert(s, t, whats, published) ==
    [do |-> "insert", table |-> <<s, t>>, whats |-> whats, published |-> published]
SeedPolicies(T, published) == Insert("matching", "match_policy_version", T, published)
SeedParts(t, T) == Insert("matching", t, T, FALSE)
SeedModel(kind) == Insert("ai", "model_version", {kind}, TRUE)
Publish(type) == [do |-> "publish", row |-> <<type, "seed">>]
Delete(s, t, what) == [do |-> "delete", table |-> <<s, t>>, row |-> <<what, "seed">>]
RefuseIfUsed(kind) == [do |-> "refuse if used", row |-> <<kind, "seed">>]
CopyRoles == [do |-> "copy roles"]

-----------------------------------------------------------------------------
(* Whether PostgreSQL accepts a statement. *)

Tables(db) == DOMAIN db.keys

(* The target of every one of these foreign keys exists, with its key. *)
Resolves(db, refs) == \A r \in refs : r[2] \in Tables(db) /\ r[3] \in db.keys[r[2]]

(* ADD CONSTRAINT ... FOREIGN KEY validates the rows that are there: every *)
(* value of the column is the row of a target.                             *)
Validates(db, t, refs) ==
    \A r \in refs : \A c \in db.cited : c[1] = t /\ c[2] = r[1] => <<r[2], c[3]>> \in db.rows

(* No other table references t. *)
Unreferenced(db, t) == \A u \in Tables(db) \ {t} : \A r \in db.refs[u] : r[2] # t

Immutability ==
    [t \in {<<"matching", "match_policy_version">>, <<"matching", "match_weight">>,
            <<"matching", "filter_rule">>, <<"ai", "model_version">>} |->
        CASE t[2] = "match_policy_version" -> "trg_match_policy_version_immutable"
          [] t[2] = "match_weight" -> "trg_match_weight_published_immutable"
          [] t[2] = "filter_rule" -> "trg_filter_rule_published_immutable"
          [] t[2] = "model_version" -> "trg_model_version_immutable"]

(* protect_published_policy, protect_published_policy_child and            *)
(* protect_deployed_model: past DRAFT, a policy, its weights and rules and *)
(* a model are not written again, unless the trigger is away or disabled.  *)
Protected(db, t, row) ==
    /\ row \in db.published
    /\ t \in DOMAIN Immutability
    /\ <<t, Immutability[t]>> \in db.parts
    /\ <<t, Immutability[t]>> \notin db.muted

Policy == <<"matching", "match_policy_version">>
PolicyChildren == {<<"matching", "match_weight">>, <<"matching", "filter_rule">>}
Audited == {<<"ai", "ai_run">>, <<"matching", "recommendation_session">>}
Cited(db, row) == \E c \in db.cited : c[3] = row

Accepts(db, s) ==
    CASE s.do = "drop schema" ->
            s.schema \in db.schemas /\ \A t \in Tables(db) : t[1] # s.schema
      [] s.do = "create" ->
            /\ s.table[1] \in db.schemas /\ s.table \notin Tables(db)
            /\ Resolves([db EXCEPT !.keys = (s.table :> s.keys) @@ @], s.refs)
      [] s.do = "drop" -> s.table \in Tables(db) /\ Unreferenced(db, s.table)
      [] s.do = "add key" -> s.table \in Tables(db) /\ s.key \notin db.keys[s.table]
      [] s.do = "drop key" ->
            /\ s.table \in Tables(db) /\ s.key \in db.keys[s.table]
            /\ \A t \in Tables(db) : \A r \in db.refs[t] : <<r[2], r[3]>> # <<s.table, s.key>>
      [] s.do = "add ref" ->
            s.table \in Tables(db) /\ Resolves(db, s.refs) /\ Validates(db, s.table, s.refs)
      [] s.do = "drop ref" -> s.table \in Tables(db) /\ s.refs \subseteq db.refs[s.table]
      [] s.do = "add parts" ->
            s.table \in Tables(db) /\ \A n \in s.parts : <<s.table, n>> \notin db.parts
      [] s.do = "drop parts" ->
            s.table \in Tables(db) /\ \A n \in s.parts : <<s.table, n>> \in db.parts
      [] s.do \in {"mute", "unmute"} -> <<s.table, s.trigger>> \in db.parts
      [] s.do = "policy types" -> \A r \in db.rows : r[1] = Policy => r[2][1] \in s.types
      [] s.do = "insert" ->
            /\ s.table \in Tables(db)
            /\ s.table = Policy => s.whats \subseteq db.types
            /\ \A w \in s.whats : <<s.table, <<w, "seed">>>> \notin db.rows
            /\ s.table \in PolicyChildren =>
                 \A w \in s.whats :
                     <<Policy, <<w, "seed">>>> \in db.rows /\ ~Protected(db, s.table, <<w, "seed">>)
      [] s.do = "publish" -> ~Protected(db, Policy, s.row)
      [] s.do = "delete" ->
            /\ ~Protected(db, s.table, s.row)
            /\ s.table \notin PolicyChildren => ~Cited(db, s.row)
            /\ s.table = Policy =>
                 \A t \in PolicyChildren : <<t, s.row>> \in db.rows => ~Protected(db, t, s.row)
      [] s.do = "refuse if used" -> \A c \in db.cited : c[3] = s.row => c[1] \notin Audited
      [] OTHER -> TRUE

-----------------------------------------------------------------------------
(* What an accepted statement does. *)

Without(db, gone) ==
    [db EXCEPT !.keys = [t \in Tables(db) \ gone |-> db.keys[t]],
               !.refs = [t \in Tables(db) \ gone |-> {r \in db.refs[t] : r[2] \notin gone}],
               !.parts = {p \in @ : p[1] \notin gone},
               !.muted = {p \in @ : p[1] \notin gone},
               !.types = IF Policy \in gone THEN {} ELSE @,
               !.published = {p \in @ : \E r \in db.rows : r[2] = p /\ r[1] \notin gone},
               !.rows = {r \in @ : r[1] \notin gone},
               !.cited = {c \in @ : c[1] \notin gone}]

(* A dropped column takes the values it held with it. *)
WithoutParts(db, t, names) ==
    [db EXCEPT !.parts = @ \ ({t} \X names), !.muted = @ \ ({t} \X names),
               !.cited = {c \in @ : ~(c[1] = t /\ c[2] \in names)}]

WithRows(db, s) ==
    [db EXCEPT !.rows = @ \cup {<<s.table, <<w, "seed">>>> : w \in s.whats},
               !.published = @ \cup (IF s.published THEN {<<w, "seed">> : w \in s.whats} ELSE {})]

(* DELETE; the weights and rules of a policy go with it (ON DELETE         *)
(* CASCADE).                                                               *)
WithoutRow(db, t, row) ==
    IF t = Policy
    THEN [db EXCEPT !.rows = @ \ {<<u, row>> : u \in PolicyChildren \cup {t}},
                    !.published = @ \ {row}]
    ELSE [db EXCEPT !.rows = @ \ {<<t, row>>},
                    !.published = IF t \in PolicyChildren THEN @ ELSE @ \ {row}]

UserRoles == <<"profile", "user_role">>
RoleGrants == <<"profile", "auth_role_grant">>

Outcome(db, s) ==
    CASE s.do = "create schema" -> [db EXCEPT !.schemas = @ \cup {s.schema}]
      [] s.do = "drop schema" -> [db EXCEPT !.schemas = @ \ {s.schema}]
      [] s.do = "drop schema cascade" ->
            [Without(db, {t \in Tables(db) : t[1] = s.schema}) EXCEPT !.schemas = @ \ {s.schema}]
      [] s.do = "create" ->
            [db EXCEPT !.keys = (s.table :> s.keys) @@ @, !.refs = (s.table :> s.refs) @@ @]
      [] s.do \in {"drop", "drop cascade"} -> Without(db, {s.table})
      [] s.do = "add key" -> [db EXCEPT !.keys[s.table] = @ \cup {s.key}]
      [] s.do = "drop key" -> [db EXCEPT !.keys[s.table] = @ \ {s.key}]
      [] s.do = "add ref" -> [db EXCEPT !.refs[s.table] = @ \cup s.refs]
      [] s.do = "drop ref" -> [db EXCEPT !.refs[s.table] = @ \ s.refs]
      [] s.do = "add parts" -> [db EXCEPT !.parts = @ \cup ({s.table} \X s.parts)]
      [] s.do = "drop parts" -> WithoutParts(db, s.table, s.parts)
      [] s.do = "mute" -> [db EXCEPT !.muted = @ \cup {<<s.table, s.trigger>>}]
      [] s.do = "unmute" -> [db EXCEPT !.muted = @ \ {<<s.table, s.trigger>>}]
      [] s.do = "policy types" -> [db EXCEPT !.types = s.types]
      [] s.do = "insert" -> WithRows(db, s)
      [] s.do = "publish" -> [db EXCEPT !.published = @ \cup {s.row}]
      [] s.do = "delete" -> WithoutRow(db, s.table, s.row)
      [] s.do = "copy roles" ->
            [db EXCEPT !.rows = @ \cup {<<RoleGrants, r[2]>> : r \in {x \in @ : x[1] = UserRoles}}]
      [] OTHER -> db

Perform(db, s) ==
    IF db.ok /\ Accepts(db, s) THEN Outcome(db, s) ELSE [db EXCEPT !.ok = FALSE]

(* The statements of a migration, in order; a refused one stops it.  (The  *)
(* singletons make TLC evaluate the database once per migration.)          *)
Migrate(db, statements) ==
    CHOOSE after \in {FoldLeft(Perform, d, statements) : d \in {db}} : TRUE

=============================================================================
