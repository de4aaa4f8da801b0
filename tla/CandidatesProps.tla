-------------------------- MODULE CandidatesProps ---------------------------
(***************************************************************************)
(* Cases and properties of module Candidates.                               *)
(***************************************************************************)
EXTENDS Candidates, Stage

PoolOf(relevance, quality) ==
  [c \in 1..6 |-> [relevance |-> relevance[c], quality |-> quality[c], created |-> 7 - c,
                   participation |-> IF c <= 3 THEN "a" ELSE IF c <= 5 THEN "b" ELSE None,
                   exhibitor |-> IF c <= 3 THEN "x" ELSE IF c <= 5 THEN "y" ELSE None]]
Recalls == {[status |-> "AVAILABLE", scores |-> s] :
              s \in UNION {[P -> 1..2] : P \in SUBSET {"a", "b"}}}
Saves(E) == {[type |-> "RECOMMENDATION_SAVED", exhibitor |-> e] : e \in E}
Histories == {{}, Saves({"x"}), Saves({"x", "y"}) \cup {[type |-> "VIEW", exhibitor |-> None]}}
PoolTasks ==
  [kind : {"pool"}, recall : Recalls, events : Histories,
   pool : {PoolOf(r, q) : r \in [1..6 -> 0..1], q \in {<<2, 1, 0, 0, 1, 2>>, <<0, 0, 0, 2, 2, 1>>}}]

Merge ==
  /\ task.kind = "pool"
  /\ result' = Generate(task.pool, task.recall, task.events)

\* Losing the semantic channel costs what only it found: the structured part of
\* the pool is the same, and in the same places, with its hits and without
\* ("장애/비활성화 시 구조화 채널을 그대로 유지한다", candidate_generator.py:699),
\* though the cap cuts what the later channels add.
FailureKeepsStructured ==
  task.kind = "pool" /\ result # None =>
    LET without == Generate(task.pool, [status |-> "UNAVAILABLE", scores |-> << >>], task.events)
        part(r) == {<<i, r.order[i]>> : i \in {j \in DOMAIN r.order : "STRUCTURED" \in r.tags[r.order[j]]}}
    IN part(result) = part(without)

\* No participation dominates by its many products: whatever else found them,
\* the semantic channel brings at most a few objects of one participation, and
\* with a candidate it passes over it passes over no better one of another.
VectorSpread ==
  task.kind = "pool" /\ result # None =>
    LET pool   == task.pool
        scores == task.recall.scores
        hit    == {c \in DOMAIN pool : "VECTOR" \in result.tags[c]}
        of(p)  == Cardinality(OfParticipation(pool, hit, p))
    IN /\ Cardinality(hit) <= VectorLimit
       /\ \A p \in DOMAIN scores : of(p) <= PerParticipation
       /\ \A p, q \in DOMAIN scores : scores[p] > scores[q] /\ of(q) > 0
            => of(p) >= Min({PerParticipation, Cardinality(OfParticipation(pool, DOMAIN pool, p))})

Trade == [common : BOOLEAN, oem : {"UNKNOWN", "YES", "NO"}, moq : {None, 2}, channels : {{}},
          regions : {{"r"}}]
         \cup [common : {FALSE}, oem : {"YES"}, moq : {1, 3}, channels : {{"c"}}, regions : {{}}]
SupplyTasks == [kind : {"supply"}, trade : UNION {[1..n -> Trade] : n \in 1..3},
                capabilities : {<<[capacity |-> 1, regions |-> {"s"}]>>}]

Assemble ==
  /\ task.kind = "supply"
  /\ result' = SupplyProfile(task.trade, task.capabilities)

\* A list in every order.
OrdersOf(s) == {[i \in DOMAIN s |-> s[f[i]]] : f \in Surjection(DOMAIN s, DOMAIN s)}

\* What a set of rows leaves open of a status: what the common rows say, and
\* where one of them says nothing, or there is none, what the rows of products
\* say.
StatusReadings(rows) ==
  LET common == {r \in rows : r.common}
      said   == {r.oem : r \in rows \ common} \ {"UNKNOWN"}
  IN IF common = {} THEN IF said = {} THEN {"UNKNOWN"} ELSE said
     ELSE {r.oem : r \in common} \cup (IF \E r \in common : r.oem = "UNKNOWN" THEN said ELSE {})

\* Rows come in no stated order (no ORDER BY).  The least order, the channels and
\* the regions of an exhibitor are those of all its rows, whatever the order.  A
\* status is not: it is one of its readings, and every reading is what some order
\* of the same rows gives.  So the statuses are settled exactly where the rows
\* have one reading, such as one common row that says something; two common
\* rows, or two products without one, that disagree are read as they come.
SupplyOfAllRows ==
  task.kind = "supply" /\ result # None =>
    LET rows == {task.trade[i] : i \in DOMAIN task.trade}
        more == {task.capabilities[i] : i \in DOMAIN task.capabilities}
    IN /\ result.oem \in StatusReadings(rows)
       /\ \A v \in StatusReadings(rows) :
            \E q \in OrdersOf(task.trade) : SupplyProfile(q, task.capabilities).oem = v
       /\ \A r \in rows : r.moq # None => result.moq # None /\ result.moq <= r.moq
       /\ result.moq # None => \E r \in rows : r.moq = result.moq
       /\ result.channels = UNION {r.channels : r \in rows}
       /\ result.regions = (UNION {r.regions : r \in rows}) \cup UNION {c.regions : c \in more}

Answers == {None} \cup [same_model : BOOLEAN, data : UNION {[1..n ->
             [index : 1..2, vector : {"u", "v"}, usable : {TRUE}] \cup
             {[index |-> 1, vector |-> "u", usable |-> FALSE]}] : n \in 1..3}]
EmbedTasks == [kind : {"embed"}, texts : {<<"s">>, <<"s", "t">>}, answer : Answers]
ProfileItems == [code : {"DRY", "SEOUL", "gone"}, level : {"REQUIRED", "EXCLUDED"}]
RecallTasks == [kind : {"recall"}, enabled : BOOLEAN, items : SUBSET ProfileItems,
                answer : {None, [same_model |-> TRUE, data |->
                            <<[index |-> 1, vector |-> "u", usable |-> TRUE]>>]},
                rows : {None} \cup [{"a", "b"} -> 0..2]]

Embed ==
  /\ task.kind = "embed"
  /\ result' = [vectors |-> Embedded(task.texts, task.answer)]

Ask ==
  /\ task.kind = "recall"
  /\ result' = [sought |-> Sought(task.items),
                recall |-> Recall(task.enabled, task.items, task.answer, task.rows)]

\* Each text gets the vector the provider computed for it, whatever the order
\* of the answer, and a partial or repeated answer gives none at all.
VectorOfItsText ==
  task.kind = "embed" /\ result # None /\ result.vectors # None =>
    LET given == {task.answer.data[k] : k \in DOMAIN task.answer.data} IN
    /\ Cardinality({d.index : d \in given}) = Len(task.texts)
    /\ \A i \in DOMAIN task.texts :
         \E d \in given : d.index = i /\ d.usable /\ d.vector = result.vectors[i]

\* What the subject rules out is never what the recall looks for, and a profile
\* that only rules out asks the provider nothing.
ExcludedNeverSought ==
  task.kind = "recall" /\ result # None =>
    LET wanted == {i.code : i \in {j \in task.items : j.level # "EXCLUDED"}} IN
    /\ result.sought \subseteq wanted
    /\ result.recall.status # "DISABLED" => wanted \cap Concept # {}
    /\ DOMAIN result.recall.scores # {} => result.recall.status = "AVAILABLE"

CandidatesTasks   == PoolTasks \cup SupplyTasks \cup EmbedTasks \cup RecallTasks
CandidatesCompute == Merge \/ Assemble \/ Embed \/ Ask
=============================================================================
