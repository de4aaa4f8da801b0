----------------------------- MODULE Candidates -----------------------------
(***************************************************************************)
(* The pool a recommendation is ranked from (candidate_generator.py): what  *)
(* is fetched, the supply conditions of its exhibitors, and the channels    *)
(* merged under a cap.  The semantic channel (profile_semantic_recall.py,   *)
(* semantic_search.py) asks an embedding provider and may be unavailable.   *)
(*                                                                          *)
(* Candidates are numbered in the order of their identities (object_type,   *)
(* object_id), which breaks every tie; so it does among candidates made at  *)
(* one moment, which the code leaves as they were fetched.                  *)
(***************************************************************************)
EXTENDS Ontology, Ranking, SequencesExt

CONSTANTS StructuredLimit, VectorLimit, PerParticipation, PopularityLimit,
          InterestLimit, ExplorationLimit, PoolCap, MinimumRelevance

ASSUME LimitsAssumption ==
  {StructuredLimit, VectorLimit, PerParticipation, PopularityLimit, InterestLimit,
   ExplorationLimit, PoolCap} \subseteq Nat

-----------------------------------------------------------------------------
(* Supply conditions of one exhibitor: its rows of trade conditions in the  *)
(* order they are read, [common, moq, channels, regions, oem], and of its   *)
(* supply capabilities, [capacity, regions].  The other two statuses are    *)
(* set together with oem.                                                   *)

Least(a, b) == IF a = None THEN b ELSE IF b = None \/ a <= b THEN a ELSE b
Most(a, b)  == IF a = None THEN b ELSE IF b = None \/ a >= b THEN a ELSE b

\* Mutant: a common row does not take precedence.
TradeRowFirst(profile, row) ==
  [channels |-> profile.channels \cup row.channels, regions |-> profile.regions \cup row.regions,
   moq |-> Least(profile.moq, row.moq), capacity |-> profile.capacity,
   oem |-> IF profile.oem = "UNKNOWN" THEN row.oem ELSE profile.oem]

TradeRow(profile, row) ==
  [channels |-> profile.channels \cup row.channels, regions |-> profile.regions \cup row.regions,
   moq |-> Least(profile.moq, row.moq), capacity |-> profile.capacity,
   oem |-> IF row.common \/ profile.oem = "UNKNOWN" THEN row.oem ELSE profile.oem]

CapabilityRow(profile, row) ==
  [channels |-> profile.channels, regions |-> profile.regions \cup row.regions,
   moq |-> profile.moq, capacity |-> Most(profile.capacity, row.capacity), oem |-> profile.oem]

NoSupply == [channels |-> {}, regions |-> {}, moq |-> None, capacity |-> None, oem |-> "UNKNOWN"]

\* _load_supply_profiles.
SupplyProfile(trade, capabilities) ==
  FoldLeft(CapabilityRow, FoldLeft(TradeRow, NoSupply, trade), capabilities)

-----------------------------------------------------------------------------
(* The semantic channel.                                                    *)

\* Mutant: the vectors are taken in the order of the answer.
EmbeddedInOrder(texts, answer) ==
  IF answer = None \/ Len(answer.data) # Len(texts) THEN None
  ELSE [i \in DOMAIN texts |-> answer.data[i].vector]

\* OpenAIQueryEmbeddingProvider.embed_many: None is EmbeddingProviderError.
Embedded(texts, answer) ==
  LET last(i) == answer.data[CHOOSE k \in DOMAIN answer.data :
                    /\ answer.data[k].index = i
                    /\ \A j \in DOMAIN answer.data : answer.data[j].index = i => j <= k]
  IN IF \/ texts = << >> \/ answer = None
        \/ ~answer.same_model \/ Len(answer.data) # Len(texts)
        \/ {d.index : d \in {answer.data[k] : k \in DOMAIN answer.data}} # DOMAIN texts
        \/ \E i \in DOMAIN texts : ~last(i).usable
     THEN None
     ELSE [i \in DOMAIN texts |-> last(i).vector]

\* Mutant: what the subject excludes is asked for like the rest.
SoughtAll(items) == {i.code : i \in {j \in items : j.code \in Concept}}

\* build_profile_semantic_query: the codes of the query, empty when there is
\* no positive signal.
Sought(items) ==
  {i.code : i \in {j \in items : j.code \in Concept /\ j.level # "EXCLUDED"}}

\* PgvectorSemanticScorer.prepare.
Prepared(enabled, items, answer) ==
  IF ~enabled \/ Sought(items) = {} THEN "DISABLED"
  ELSE IF Embedded(<<Sought(items)>>, answer) = None THEN "UNAVAILABLE" ELSE "AVAILABLE"

\* PgvectorSemanticScorer.score: rows are the scores of the hits by
\* participation, in the event, model and language asked for.
Scored(rows) == [p \in {q \in DOMAIN rows : rows[q] >= MinimumRelevance} |-> rows[p]]

\* recall_profile_participations; rows is None when the query failed.
Recall(enabled, items, answer, rows) ==
  LET status == Prepared(enabled, items, answer) IN
  IF status # "AVAILABLE" THEN [status |-> status, scores |-> << >>]
  ELSE IF rows = None THEN [status |-> "UNAVAILABLE", scores |-> << >>]
  ELSE [status |-> "AVAILABLE", scores |-> Scored(rows)]

-----------------------------------------------------------------------------
(* Merging.  selected is [order, tags, added]: the candidates in the order  *)
(* they came in, the channels of each, how many the channel at hand added.  *)

Sorted(S, key) == Arranged(S, LAMBDA a, b : key[a] > key[b] \/ (key[a] = key[b] /\ a < b))

\* A candidate that a channel found, among those of the channels before it.
Found(selected, c, channel) ==
  [selected EXCEPT !.tags[c] = @ \cup {channel},
                   !.order = IF c \in ToSet(@) THEN @ ELSE Append(@, c)]

\* The same in a channel that adds no more than limit new ones.
Take(selected, c, limit, channel) ==
  LET found == Found(selected, c, channel)
  IN IF selected.added >= limit THEN selected
     ELSE IF c \in ToSet(selected.order) THEN found ELSE [found EXCEPT !.added = @ + 1]

\* One pass over the candidates in a channel's order.
Enter(selected, order, channel) == FoldLeft(LAMBDA s, c : Found(s, c, channel), selected, order)
Channel(selected, order, limit, channel) ==
  FoldLeft(LAMBDA s, c : Take(s, c, limit, channel), [selected EXCEPT !.added = 0], order)

Hits(pool, scores) == {c \in DOMAIN pool : pool[c].participation \in DOMAIN scores}
HitBefore(pool, scores, a, b) ==
  LET s(c) == scores[pool[c].participation]
  IN \/ s(a) > s(b)
     \/ s(a) = s(b) /\ pool[a].quality > pool[b].quality
     \/ s(a) = s(b) /\ pool[a].quality = pool[b].quality /\ a < b

BestHits(pool, scores) ==
  Arranged(Hits(pool, scores), LAMBDA a, b : HitBefore(pool, scores, a, b))

\* Those among some that one participation brings.
OfParticipation(pool, S, p) == {c \in S : pool[c].participation = p}

Pick(pool, taken, c) ==
  IF \/ Len(taken) >= VectorLimit
     \/ Cardinality(OfParticipation(pool, ToSet(taken), pool[c].participation)) >= PerParticipation
  THEN taken ELSE Append(taken, c)

\* _apply_vector_recall: the best by score, then quality, a few of each
\* participation; those already selected count too.
VectorPicks(pool, scores) ==
  FoldLeft(LAMBDA taken, c : Pick(pool, taken, c), << >>, BestHits(pool, scores))

\* _interest_related_ids: the exhibitors of what the subject saved, from its
\* events [type, exhibitor].
Saved(events) ==
  {e.exhibitor : e \in {f \in events : f.type \in {"RECOMMENDATION_SAVED", "FAVORITE_ADD"}}} \ {None}

ByIdentity(S) == Arranged(S, LAMBDA a, b : a < b)
By(pool, field) == Sorted(DOMAIN pool, [c \in DOMAIN pool |-> pool[c][field]])

\* The first channel: what the attributes of the profile find.
Structured(pool) ==
  Enter([order |-> << >>, tags |-> [c \in DOMAIN pool |-> {}], added |-> 0],
        SubSeq(By(pool, "relevance"), 1, Min({Len(By(pool, "relevance")), StructuredLimit})),
        "STRUCTURED")

\* generate_candidates: the candidates of the pool with their channels.
Generate(pool, recall, events) ==
  LET related  == {c \in DOMAIN pool : pool[c].exhibitor \in Saved(events)}
      similar  == Enter(Structured(pool), VectorPicks(pool, recall.scores), "VECTOR")
      popular  == Channel(similar, By(pool, "quality"), PopularityLimit, "POPULARITY")
      interest == Channel(popular, ByIdentity(related), InterestLimit, "INTEREST")
      recent   == Channel(interest, By(pool, "created"), ExplorationLimit, "EXPLORATION")
  IN [order |-> SubSeq(recent.order, 1, Min({Len(recent.order), PoolCap})), tags |-> recent.tags]
=============================================================================
