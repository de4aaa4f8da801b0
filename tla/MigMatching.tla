---------------------------- MODULE MigMatching ----------------------------
(***************************************************************************)
(* The revisions of the recommendation runtime, 0008 to 0017: runs, their  *)
(* results and reasons, the interaction log, the slate, the cold start and *)
(* the learning ledger with the policies they seed, conversations, kiosks  *)
(* and the embeddings with the model they seed.                            *)
(***************************************************************************)
EXTENDS MigFoundation

(* 0008_matching_runtime, 20260801_0008_matching_runtime.py *)

create_recommendable ==
    Create("exhibition", "recommendable",
        {"id", "boundary", "booth_id", "event_product_id", "participation_id", "program_id"},
        [event_id |-> AnEvent, booth_id |-> Scoped("exhibition", "booth"),
         event_product_id |-> Scoped("exhibition", "event_product"),
         participation_id |-> Scoped("exhibition", "exhibitor_participation"),
         program_id |-> Scoped("exhibition", "program")])

create_recommendation_session ==
    Create("matching", "recommendation_session", {"id", "filter_evaluation", "boundary"},
        [profile_id |-> Scoped("profile", "user_profile") \cup Row("profile", "user_profile"),
         policy_version_id |-> Row("matching", "match_policy_version"),
         ranking_model_version_id |-> Row("ai", "model_version"),
         explanation_model_version_id |-> Row("ai", "model_version"),
         taxonomy_version_id |-> Row("ontology", "taxonomy_version"), event_id |-> AnEvent,
         profile_version_id |-> Key("profile", "profile_version", "profile_id_version_id"),
         visit_session_id |-> Scoped("profile", "visit_session"),
         filter_evaluation_id |-> Scoped("matching", "filter_evaluation")])

create_match_result ==
    Create("matching", "match_result",
        {"id", "session_rank", "session_recommendable", "session_result"},
        [directional_policy_version_id |-> Row("matching", "match_policy_version"),
         exhibitor_policy_version_id |-> Row("matching", "match_policy_version"),
         reciprocal_policy_version_id |-> Row("matching", "match_policy_version"),
         recommendation_session_id |-> Scoped("matching", "recommendation_session"),
         recommendable_id |-> Scoped("exhibition", "recommendable")])

create_match_reason ==
    Create("matching", "match_reason", {"id"},
        [match_result_id |-> Row("matching", "match_result"), ai_run_id |-> Row("ai", "ai_run")])

create_recommendation_delivery ==
    Create("matching", "recommendation_delivery", {"id"},
        [recommendation_session_id |-> Scoped("matching", "recommendation_session"),
         match_result_id |-> Key("matching", "match_result", "session_result"),
         recommendable_id |-> Scoped("exhibition", "recommendable")])

create_interaction_event ==
    Create("interaction", "interaction_event", {"id"},
        [user_id |-> AnAccount, guest_session_id |-> Row("profile", "guest_session"),
         event_id |-> AnEvent, recommendable_id |-> Scoped("exhibition", "recommendable"),
         recommendation_session_id |-> Scoped("matching", "recommendation_session"),
         visit_session_id |-> Scoped("profile", "visit_session"),
         match_result_id |-> Key("matching", "match_result", "session_result")])

Up0008 ==
    <<AddKey("profile", "user_profile", "boundary"), AddKey("exhibition", "booth", "boundary"),
      AddKey("exhibition", "program", "boundary"),
      AddKey("profile", "visit_session", "boundary"),
      AddKey("matching", "filter_evaluation", "boundary"),
      AddRef("matching", "filter_evaluation", "profile_id", Scoped("profile", "user_profile")),
      create_recommendable, create_recommendation_session, create_match_result,
      create_match_reason, create_recommendation_delivery, create_interaction_event,
      AddParts("matching", "recommendation_session", {"trg_recommendation_session_provenance"}),
      AddParts("matching", "match_result", {"trg_match_result_append_only"}),
      AddParts("matching", "match_reason", {"trg_match_reason_append_only"}),
      AddParts("interaction", "interaction_event", {"trg_interaction_event_append_only"})>>

Down0008 ==
    <<DropParts("interaction", "interaction_event", {"trg_interaction_event_append_only"}),
      DropParts("matching", "match_reason", {"trg_match_reason_append_only"}),
      DropParts("matching", "match_result", {"trg_match_result_append_only"}),
      DropParts("matching", "recommendation_session", {"trg_recommendation_session_provenance"}),
      Drop("interaction", "interaction_event"), Drop("matching", "recommendation_delivery"),
      Drop("matching", "match_reason"), Drop("matching", "match_result"),
      Drop("matching", "recommendation_session"), Drop("exhibition", "recommendable"),
      DropRef("matching", "filter_evaluation", "profile_id", Scoped("profile", "user_profile")),
      DropKey("matching", "filter_evaluation", "boundary"),
      DropKey("profile", "visit_session", "boundary"),
      DropKey("exhibition", "program", "boundary"), DropKey("exhibition", "booth", "boundary"),
      DropKey("profile", "user_profile", "boundary")>>

(* 0009_recommendation_api, 20260801_0009_recommendation_api_guarantees.py *)

create_client_event_dedupe ==
    Create("interaction", "client_event_dedupe", {"id"},
        [event_id |-> AnEvent, interaction_event_id |-> Row("interaction", "interaction_event")])

Up0009 ==
    <<AddParts("matching", "match_result", {"context_details"}), create_client_event_dedupe,
      AddParts("interaction", "client_event_dedupe", {"trg_client_event_dedupe_append_only"})>>

Down0009 ==
    <<DropParts("interaction", "client_event_dedupe", {"trg_client_event_dedupe_append_only"}),
      Drop("interaction", "client_event_dedupe"),
      DropParts("matching", "match_result", {"context_details"})>>

(* 0010_context_rerank, 20260801_0010_context_rerank.py *)

Up0010 ==
    <<PolicyTypes(RerankTypes),
      AddParts("matching", "match_result", {"context_policy_version_id", "context_components",
          "context_effective_weights", "context_contributions", "context_input_fingerprint",
          "context_score_fingerprint"}),
      AddRef("matching", "match_result", "context_policy_version_id",
          Row("matching", "match_policy_version")),
      AddParts("matching", "match_result", {"context_provenance_consistency"}),
      SeedPolicies({"CONTEXT_RERANK"}, FALSE), SeedParts("match_weight", {"CONTEXT_RERANK"}),
      Publish("CONTEXT_RERANK")>>

Down0010 ==
    <<DropParts("matching", "match_result", {"context_provenance_consistency"}),
      DropRef("matching", "match_result", "context_policy_version_id",
          Row("matching", "match_policy_version")),
      DropParts("matching", "match_result", {"context_score_fingerprint",
          "context_input_fingerprint", "context_contributions", "context_effective_weights",
          "context_components", "context_policy_version_id"}),
      Mute("matching", "match_weight", "trg_match_weight_published_immutable"),
      Mute("matching", "match_policy_version", "trg_match_policy_version_immutable"),
      Delete("matching", "match_weight", "CONTEXT_RERANK"),
      Delete("matching", "match_policy_version", "CONTEXT_RERANK"),
      Unmute("matching", "match_policy_version", "trg_match_policy_version_immutable"),
      Unmute("matching", "match_weight", "trg_match_weight_published_immutable"),
      PolicyTypes(ScoreTypes)>>

(* 0011_slate_policy, 20260801_0011_slate_policy.py *)

create_slate_result ==
    Create("matching", "slate_result", {"id", "session", "boundary"},
        [recommendation_session_id |-> Scoped("matching", "recommendation_session"),
         slate_policy_version_id |-> Row("matching", "match_policy_version")])

create_slate_item ==
    Create("matching", "slate_item",
        {"id", "rank", "match_result", "boundary", "result_boundary_id"},
        [slate_result_id |-> Scoped("matching", "slate_result"),
         match_result_id |-> Row("matching", "match_result"),
         recommendable_id |-> Scoped("exhibition", "recommendable"),
         exhibitor_id |-> Key("exhibition", "exhibitor", "tenant_boundary")])

create_recommendation_impression ==
    Create("interaction", "recommendation_impression", {"id", "interaction_event"},
        [event_id |-> AnEvent, interaction_event_id |-> Row("interaction", "interaction_event"),
         visit_session_id |-> Scoped("profile", "visit_session"),
         slate_result_id |-> Scoped("matching", "slate_result"),
         slate_item_id |-> Key("matching", "slate_item", "result_boundary_id"),
         recommendable_id |-> Scoped("exhibition", "recommendable"),
         exhibitor_id |-> Key("exhibition", "exhibitor", "tenant_boundary"), user_id |-> AnAccount,
         guest_session_id |-> Row("profile", "guest_session")])

seed_slate_policy ==
    <<SeedPolicies({"SLATE_POLICY"}, FALSE), Publish("SLATE_POLICY")>>

Up0011 ==
    <<PolicyTypes(SlateTypes), create_slate_result, create_slate_item,
      create_recommendation_impression>>
    \o seed_slate_policy
    \o <<AddParts("matching", "slate_result", {"trg_slate_result_append_only"}),
      AddParts("matching", "slate_item", {"trg_slate_item_append_only"}),
      AddParts("interaction", "recommendation_impression",
          {"trg_recommendation_impression_append_only"})>>

(* Mutant: the seed is deleted with its trigger still armed. *)
DeletesArmed ==
    <<Drop("interaction", "recommendation_impression"), Drop("matching", "slate_item"),
      Drop("matching", "slate_result"), Delete("matching", "match_policy_version", "SLATE_POLICY"),
      PolicyTypes(RerankTypes)>>

Down0011 ==
    <<DropParts("interaction", "recommendation_impression",
          {"trg_recommendation_impression_append_only"}),
      Drop("interaction", "recommendation_impression"),
      DropParts("matching", "slate_item", {"trg_slate_item_append_only"}),
      Drop("matching", "slate_item"),
      DropParts("matching", "slate_result", {"trg_slate_result_append_only"}),
      Drop("matching", "slate_result"),
      Mute("matching", "match_policy_version", "trg_match_policy_version_immutable"),
      Delete("matching", "match_policy_version", "SLATE_POLICY"),
      Unmute("matching", "match_policy_version", "trg_match_policy_version_immutable"),
      PolicyTypes(RerankTypes)>>

(* 0012_cold_start, 20260802_0012_cold_start.py *)

create_cold_start_status ==
    Create("matching", "cold_start_status", {"id"},
        [event_id |-> AnEvent, match_policy_version_id |-> Row("matching", "match_policy_version")])

create_question_definition ==
    Create("matching", "question_definition", {"id"}, NoRefs)

create_question_response ==
    Create("matching", "question_response", {"id"},
        [profile_id |-> Row("profile", "user_profile"),
         question_id |-> Row("matching", "question_definition")])

create_cold_start_prior ==
    Create("matching", "cold_start_prior", {"id", "versioned_group"}, NoRefs)

create_exploration_result ==
    Create("matching", "exploration_result", {"id"},
        [user_profile_id |-> Row("profile", "user_profile"),
         recommendation_session_id |-> Row("matching", "recommendation_session"),
         prior_id |-> Row("matching", "cold_start_prior")])

seed_cold_start_policy ==
    <<SeedPolicies({"COLD_START"}, FALSE), Publish("COLD_START")>>

Up0012 ==
    <<PolicyTypes(ColdTypes)>>
    \o seed_cold_start_policy
    \o <<create_cold_start_status, create_question_definition, create_question_response,
      create_cold_start_prior, create_exploration_result,
      AddParts("matching", "recommendation_session", {"cold_start_policy_version_id",
          "cold_start_details"}),
      AddRef("matching", "recommendation_session", "cold_start_policy_version_id",
          Row("matching", "match_policy_version")),
      AddParts("matching", "match_result", {"cold_start_policy_version_id", "cold_start_details",
          "recommendation_confidence"}),
      AddRef("matching", "match_result", "cold_start_policy_version_id",
          Row("matching", "match_policy_version")),
      AddParts("matching", "match_result", {"recommendation_confidence_range"})>>

Down0012 ==
    <<DropParts("matching", "match_result", {"recommendation_confidence_range"}),
      DropRef("matching", "match_result", "cold_start_policy_version_id",
          Row("matching", "match_policy_version")),
      DropParts("matching", "match_result", {"recommendation_confidence", "cold_start_details",
          "cold_start_policy_version_id"}),
      DropRef("matching", "recommendation_session", "cold_start_policy_version_id",
          Row("matching", "match_policy_version")),
      DropParts("matching", "recommendation_session", {"cold_start_details",
          "cold_start_policy_version_id"}),
      Drop("matching", "exploration_result"), Drop("matching", "cold_start_prior"),
      Drop("matching", "question_response"), Drop("matching", "question_definition"),
      Drop("matching", "cold_start_status"),
      Mute("matching", "match_policy_version", "trg_match_policy_version_immutable"),
      Delete("matching", "match_policy_version", "COLD_START"),
      Unmute("matching", "match_policy_version", "trg_match_policy_version_immutable"),
      PolicyTypes(SlateTypes)>>

(* 0013_behavior_learning, 20260802_0013_behavior_learning.py *)

create_behavior_signal ==
    Create("learning", "behavior_signal", {"id", "event"},
        [event_log_id |-> Row("interaction", "interaction_event"),
         profile_id |-> Row("profile", "user_profile"),
         match_policy_version_id |-> Row("matching", "match_policy_version")])

create_attribute_evidence ==
    Create("learning", "attribute_evidence", {"id"},
        [behavior_signal_id |-> Row("learning", "behavior_signal")])

create_profile_adjustment ==
    Create("learning", "profile_adjustment", {"id"},
        [profile_id |-> Row("profile", "user_profile")])

create_feedback_reason ==
    Create("learning", "feedback_reason", {"id"},
        [behavior_signal_id |-> Row("learning", "behavior_signal")])

create_model_reward ==
    Create("learning", "model_reward", {"id"},
        [recommendation_session_id |-> Row("matching", "recommendation_session"),
         match_result_id |-> Row("matching", "match_result")])

create_inference ==
    Create("profile", "inference", {"id"}, [profile_id |-> Row("profile", "user_profile")])

seed_learning_policy ==
    <<PolicyTypes(LearningTypes), SeedPolicies({"BEHAVIOR_LEARNING"}, FALSE),
      Publish("BEHAVIOR_LEARNING")>>

protect_evidence ==
    <<AddParts("learning", "behavior_signal", {"trg_behavior_signal_append_only"}),
      AddParts("learning", "attribute_evidence", {"trg_attribute_evidence_append_only"}),
      AddParts("learning", "profile_adjustment", {"trg_profile_adjustment_append_only"}),
      AddParts("learning", "feedback_reason", {"trg_feedback_reason_append_only"}),
      AddParts("learning", "model_reward", {"trg_model_reward_append_only"})>>

Up0013 ==
    seed_learning_policy
    \o <<CreateSchema("learning"), create_behavior_signal, create_attribute_evidence,
      create_profile_adjustment, create_feedback_reason, create_model_reward, create_inference>>
    \o protect_evidence

Down0013 ==
    <<DropParts("learning", "model_reward", {"trg_model_reward_append_only"}),
      DropParts("learning", "feedback_reason", {"trg_feedback_reason_append_only"}),
      DropParts("learning", "profile_adjustment", {"trg_profile_adjustment_append_only"}),
      DropParts("learning", "attribute_evidence", {"trg_attribute_evidence_append_only"}),
      DropParts("learning", "behavior_signal", {"trg_behavior_signal_append_only"}),
      Drop("profile", "inference"), Drop("learning", "model_reward"),
      Drop("learning", "feedback_reason"), Drop("learning", "profile_adjustment"),
      Drop("learning", "attribute_evidence"), Drop("learning", "behavior_signal"),
      DropSchema("learning"),
      Mute("matching", "match_policy_version", "trg_match_policy_version_immutable"),
      Delete("matching", "match_policy_version", "BEHAVIOR_LEARNING"),
      Unmute("matching", "match_policy_version", "trg_match_policy_version_immutable"),
      PolicyTypes(ColdTypes)>>

(* 0014_explanation_lineage, 20260802_0014_explanation_lineage.py *)

Up0014 ==
    <<AddParts("matching", "match_reason", {"explanation_policy_version", "input_fingerprint"})>>

(* Mutant: the downgrade forgets one of the two columns. *)
ForgetsColumn == <<DropParts("matching", "match_reason", {"explanation_policy_version"})>>

Down0014 ==
    <<DropParts("matching", "match_reason", {"input_fingerprint", "explanation_policy_version"})>>

(* 0015_conversation_profile, 20260802_0015_conversation_profile.py *)

create_conversation_session ==
    Create("conversation", "conversation_session", {"id"},
        [profile_id |-> Scoped("profile", "user_profile"),
         visit_session_id |-> Row("profile", "visit_session")])

create_message ==
    Create("conversation", "message", {"id"},
        [conversation_id |-> Row("conversation", "conversation_session")])

create_entity_extraction ==
    Create("conversation", "entity_extraction", {"id"},
        [message_id |-> Row("conversation", "message"),
         applied_profile_attribute_id |-> Row("profile", "profile_attribute")])

Up0015 ==
    <<CreateSchema("conversation"), create_conversation_session, create_message,
      create_entity_extraction>>

Down0015 ==
    <<Drop("conversation", "entity_extraction"), Drop("conversation", "message"),
      Drop("conversation", "conversation_session"), DropSchema("conversation")>>

(* 0016_kiosk_session, 20260802_0016_kiosk_session.py *)

create_kiosk_session ==
    Create("kiosk", "kiosk_session", {"id"}, [event_id |-> AnEvent])

(* Mutant: the token of a handoff is not unique in the database. *)
TokenNotUnique ==
    Create("kiosk", "kiosk_qr_handoff", {"id"},
        [kiosk_session_id |-> Row("kiosk", "kiosk_session"), event_id |-> AnEvent])

create_kiosk_qr_handoff ==
    Create("kiosk", "kiosk_qr_handoff", {"id", "token_hash"},
        [kiosk_session_id |-> Row("kiosk", "kiosk_session"), event_id |-> AnEvent])

(* Mutant: the schema is taken for granted. *)
AssumesSchema == <<create_kiosk_session, create_kiosk_qr_handoff>>

Up0016 ==
    <<CreateSchema("kiosk"), create_kiosk_session, create_kiosk_qr_handoff>>

Down0016 ==
    <<Drop("kiosk", "kiosk_qr_handoff"), Drop("kiosk", "kiosk_session"), DropSchema("kiosk")>>

(* 0017_object_embedding, 20260802_0017_object_embedding.py *)

create_object_embedding ==
    Create("ai", "object_embedding", {"id", "content_version", "active_pointer"},
        [recommendable_id |-> Scoped("exhibition", "recommendable"),
         model_version_id |-> Row("ai", "model_version")])

seed_embedding_model ==
    <<SeedModel("EMBEDDING")>>

Up0017 ==
    seed_embedding_model
    \o <<create_object_embedding,
      AddParts("ai", "object_embedding", {"trg_object_embedding_validate_model"}),
      AddParts("exhibition", "event_product", {"trg_embedding_source_lock_event_product"}),
      AddParts("exhibition", "product", {"trg_embedding_source_lock_product"}),
      AddParts("exhibition", "exhibitor_participation",
          {"trg_embedding_source_lock_participation"}),
      AddParts("exhibition", "exhibitor", {"trg_embedding_source_lock_exhibitor"}),
      AddParts("exhibition", "recommendable", {"trg_embedding_source_lock_recommendable"}),
      AddParts("exhibition", "event_product", {"trg_embedding_invalidate_event_product_summary"}),
      AddParts("exhibition", "product", {"trg_embedding_invalidate_product_summary"}),
      AddParts("exhibition", "exhibitor_participation",
          {"trg_embedding_invalidate_participation_summary"}),
      AddParts("exhibition", "exhibitor", {"trg_embedding_invalidate_exhibitor_summary"}),
      AddParts("exhibition", "recommendable", {"trg_embedding_invalidate_recommendable"})>>

Down0017 ==
    <<RefuseIfUsed("EMBEDDING"),
      DropParts("exhibition", "recommendable", {"trg_embedding_invalidate_recommendable"}),
      DropParts("exhibition", "exhibitor", {"trg_embedding_invalidate_exhibitor_summary"}),
      DropParts("exhibition", "exhibitor_participation",
          {"trg_embedding_invalidate_participation_summary"}),
      DropParts("exhibition", "product", {"trg_embedding_invalidate_product_summary"}),
      DropParts("exhibition", "event_product",
          {"trg_embedding_invalidate_event_product_summary"}),
      DropParts("exhibition", "recommendable", {"trg_embedding_source_lock_recommendable"}),
      DropParts("exhibition", "exhibitor", {"trg_embedding_source_lock_exhibitor"}),
      DropParts("exhibition", "exhibitor_participation",
          {"trg_embedding_source_lock_participation"}),
      DropParts("exhibition", "product", {"trg_embedding_source_lock_product"}),
      DropParts("exhibition", "event_product", {"trg_embedding_source_lock_event_product"}),
      DropParts("ai", "object_embedding", {"trg_object_embedding_validate_model"}),
      Drop("ai", "object_embedding"),
      DropParts("ai", "model_version", {"trg_model_version_immutable"}),
      Delete("ai", "model_version", "EMBEDDING"),
      AddParts("ai", "model_version", {"trg_model_version_immutable"})>>

=============================================================================
