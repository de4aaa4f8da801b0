------------------------------- MODULE Classes ------------------------------
(***************************************************************************)
(* The classes of app/models: the table each one maps, the keys and the    *)
(* foreign keys its __table_args__ and columns declare.  The eight tables  *)
(* of the ontology have no class: ontology_refs.py registers their names   *)
(* so that the foreign keys of the others resolve.                         *)
(***************************************************************************)
EXTENDS SchemaOps

Class(s, t, K, R) == [table |-> <<s, t>>, keys |-> K, refs |-> References(R)]

(* ai.py *)

ModelVersion ==
    Class("ai", "model_version", {"id", "type_version"}, NoRefs)

AiRun ==
    Class("ai", "ai_run", {"id"},
        [event_id |-> AnEvent, model_version_id |-> Row("ai", "model_version")])

ObjectEmbedding ==
    Class("ai", "object_embedding", {"id", "content_version", "active_pointer"},
        [recommendable_id |-> Scoped("exhibition", "recommendable"),
         model_version_id |-> Row("ai", "model_version")])

(* analytics.py *)

AnalyticsDailyMetric ==
    Class("analytics", "daily_metric", {"id", "metric_date_metric_code_dimension_code"},
        [event_id |-> AnEvent])

AnalyticsFunnelMetric ==
    Class("analytics", "funnel_metric", {"id", "metric_date_funnel_code_step_code"},
        [event_id |-> AnEvent])

AnalyticsSearchNoResultSummary ==
    Class("analytics", "search_no_result_summary", {"id", "summary_date_channel_code_query_norm"},
        [event_id |-> AnEvent])

AnalyticsDataQualitySnapshot ==
    Class("analytics", "data_quality_snapshot", {"id", "snapshot_date_check_code"},
        [event_id |-> AnEvent])

(* auth.py *)

PersonalAccessLink ==
    Class("identity", "personal_access_link", {"id", "token_hmac"},
        [event_id |-> AnEvent, user_id |-> AnAccount, profile_id |-> Row("profile", "user_profile"),
         recommendation_session_id |-> Row("matching", "recommendation_session")])

AuthRoleGrant ==
    Class("profile", "auth_role_grant", {"id", "active"},
        [event_id |-> AnEvent, exhibitor_id |-> Key("exhibition", "exhibitor", "tenant_boundary"),
         user_id |-> AnAccount])

AuthSession ==
    Class("identity", "auth_session", {"id", "token_hmac"},
        [event_id |-> AnEvent, user_id |-> AnAccount, profile_id |-> Row("profile", "user_profile")])

MfaAuthenticator ==
    Class("identity", "mfa_authenticator", {"id", "credential_active"}, [user_id |-> AnAccount])

MfaChallenge ==
    Class("identity", "mfa_challenge", {"id"},
        [session_id |-> Row("identity", "auth_session"), user_id |-> AnAccount])

MfaRecoveryCode ==
    Class("identity", "mfa_recovery_code", {"id", "digest"}, [user_id |-> AnAccount])

(* buyer_match.py *)

BuyerMatchSession ==
    Class("matching", "buyer_match_session", {"id"},
        [event_id |-> AnEvent, buyer_profile_id |-> Row("profile", "user_profile")])

BuyerMatchCandidate ==
    Class("matching", "buyer_match_candidate", {"id", "session_rank", "session_exhibitor"},
        [exhibitor_id |-> Key("exhibition", "exhibitor", "tenant_boundary"),
         buyer_match_session_id |-> Row("matching", "buyer_match_session"),
         participation_id |-> Row("exhibition", "exhibitor_participation")])

(* buyer_profile.py *)

BuyerProfile ==
    Class("profile", "buyer_profile", {"id", "tenant_user"},
        [tenant_id |-> ATenant, user_id |-> AnAccount,
         verification_reviewed_by_user_id |-> AnAccount])

BuyerProfileCode ==
    Class("profile", "buyer_profile_code", {"id", "group_concept"},
        [concept_id |-> AConcept, attribute_code |-> Key("ontology", "concept", "concept_id_code"),
         buyer_profile_id |-> Row("profile", "buyer_profile")])

(* cold_start.py *)

ColdStartStatus ==
    Class("matching", "cold_start_status", {"id"},
        [event_id |-> AnEvent, match_policy_version_id |-> Row("matching", "match_policy_version")])

QuestionDefinition ==
    Class("matching", "question_definition", {"id"}, NoRefs)

QuestionResponse ==
    Class("matching", "question_response", {"id"},
        [profile_id |-> Row("profile", "user_profile"),
         question_id |-> Row("matching", "question_definition")])

ColdStartPrior ==
    Class("matching", "cold_start_prior", {"id", "versioned_group"}, NoRefs)

ExplorationResult ==
    Class("matching", "exploration_result", {"id"},
        [user_profile_id |-> Row("profile", "user_profile"),
         recommendation_session_id |-> Row("matching", "recommendation_session"),
         prior_id |-> Row("matching", "cold_start_prior")])

(* consent.py *)

ConsentPolicy ==
    Class("profile", "consent_policy", {"id", "tenant_event_purpose_version"},
        [event_id |-> AnEvent, tenant_id |-> ATenant])

UserConsent ==
    Class("profile", "user_consent", {"id"},
        [event_id |-> AnEvent, tenant_id |-> ATenant, user_id |-> AnAccount,
         guest_session_id |-> Row("profile", "guest_session"),
         consent_policy_id |-> Row("profile", "consent_policy")])

PrivacyRequest ==
    Class("privacy", "privacy_request", {"id"}, [tenant_id |-> ATenant, user_id |-> AnAccount])

RetentionPolicy ==
    Class("privacy", "retention_policy", {"id", "tenant_category_purpose_version"},
        [tenant_id |-> ATenant])

DeletionJob ==
    Class("privacy", "deletion_job", {"id"},
        [tenant_id |-> ATenant, privacy_request_id |-> Row("privacy", "privacy_request"),
         retention_policy_id |-> Row("privacy", "retention_policy")])

AuditLog ==
    Class("audit", "audit_log", {"id"},
        [event_id |-> AnEvent, tenant_id |-> ATenant, actor_user_id |-> AnAccount])

(* conversation.py *)

ConversationSession ==
    Class("conversation", "conversation_session", {"id"},
        [profile_id |-> Scoped("profile", "user_profile"),
         visit_session_id |-> Row("profile", "visit_session")])

ConversationMessage ==
    Class("conversation", "message", {"id"},
        [conversation_id |-> Row("conversation", "conversation_session")])

EntityExtraction ==
    Class("conversation", "entity_extraction", {"id"},
        [message_id |-> Row("conversation", "message"),
         applied_profile_attribute_id |-> Row("profile", "profile_attribute")])

(* core.py *)

Tenant ==
    Class("core", "tenant", {"id", "tenant_code"}, NoRefs)

Event ==
    Class("exhibition", "event", {"id", "tenant_code", "boundary"},
        [tenant_id |-> ATenant,
         current_taxonomy_version_id |-> Row("ontology", "taxonomy_version")])

EventDay ==
    Class("exhibition", "event_day", {"id", "event_date"}, [event_id |-> AnEvent])

EventZone ==
    Class("exhibition", "event_zone", {"id", "code", "boundary"},
        [event_id |-> AnEvent, parent_zone_id |-> Scoped("exhibition", "event_zone")])

(* document.py *)

SourceDocument ==
    Class("document", "source_document", {"id"},
        [event_id |-> AnEvent, tenant_id |-> ATenant,
         exhibitor_id |-> Row("exhibition", "exhibitor")])

DocumentFile ==
    Class("document", "document_file", {"id", "document_id_version_no"},
        [document_id |-> Row("document", "source_document")])

DocumentProcessingJob ==
    Class("document", "document_processing_job", {"id"},
        [document_id |-> Row("document", "source_document"),
         file_id |-> Row("document", "document_file")])

DocumentAccessLog ==
    Class("document", "document_access_log", {"id"}, NoRefs)

(* event_message.py *)

EventMessage ==
    Class("event_message", "event_message", {"id"},
        [event_id |-> AnEvent, tenant_id |-> ATenant, created_by_user_id |-> AnAccount,
         approved_by_user_id |-> AnAccount])

EventMessageRecipient ==
    Class("event_message", "event_message_recipient", {"id", "message_user"},
        [event_message_id |-> Row("event_message", "event_message"),
         recipient_user_id |-> AnAccount])

(* exhibitor.py *)

Exhibitor ==
    Class("exhibition", "exhibitor", {"id", "tenant_boundary"},
        [tenant_id |-> ATenant, business_type_concept_id |-> AConcept,
         region_concept_id |-> AConcept])

ExhibitorBusinessType ==
    Class("exhibition", "exhibitor_business_type", {"id", "concept"},
        [exhibitor_id |-> Row("exhibition", "exhibitor"), concept_id |-> AConcept])

ExhibitorParticipation ==
    Class("exhibition", "exhibitor_participation", {"id", "event", "boundary"},
        [event_id |-> AnEvent, exhibitor_id |-> Key("exhibition", "exhibitor", "tenant_boundary")])

ParticipationCategory ==
    Class("exhibition", "participation_category", {"id"},
        [participation_id |-> Row("exhibition", "exhibitor_participation"),
         concept_id |-> AConcept])

ExhibitorStaff ==
    Class("exhibition", "exhibitor_staff", {"id"},
        [participation_id |-> Row("exhibition", "exhibitor_participation"), user_id |-> AnAccount])

StaffTopic ==
    Class("exhibition", "staff_topic", {"id"},
        [staff_id |-> Row("exhibition", "exhibitor_staff"), concept_id |-> AConcept])

Product ==
    Class("exhibition", "product", {"id"},
        [exhibitor_id |-> Row("exhibition", "exhibitor"), category_concept_id |-> AConcept])

EventProduct ==
    Class("exhibition", "event_product", {"id", "event_product", "boundary"},
        [event_id |-> AnEvent, participation_id |-> Scoped("exhibition", "exhibitor_participation"),
         product_id |-> Row("exhibition", "product")])

ProductAttribute ==
    Class("exhibition", "product_attribute", {"id"},
        [product_id |-> Row("exhibition", "product"), concept_id |-> AConcept])

ProductImage ==
    Class("exhibition", "product_image", {"id"}, [product_id |-> Row("exhibition", "product")])

TradeCondition ==
    Class("exhibition", "trade_condition", {"id"},
        [participation_id |-> Row("exhibition", "exhibitor_participation"),
         event_product_id |-> Row("exhibition", "event_product")])

TradeConditionTerm ==
    Class("exhibition", "trade_condition_term", {"id", "trade_condition_term"},
        [trade_condition_id |-> Row("exhibition", "trade_condition"), concept_id |-> AConcept])

Booth ==
    Class("exhibition", "booth", {"id", "boundary", "event_number"},
        [event_id |-> AnEvent, zone_id |-> Scoped("exhibition", "event_zone"),
         participation_id |-> Scoped("exhibition", "exhibitor_participation")])

BoothStatusHistory ==
    Class("exhibition", "booth_status_history", {"id"},
        [booth_id |-> Row("exhibition", "booth"), changed_by_user_id |-> AnAccount])

BoothQr ==
    Class("exhibition", "booth_qr", {"id", "token_hmac"},
        [booth_id |-> Row("exhibition", "booth")])

Program ==
    Class("exhibition", "program", {"id", "boundary"},
        [event_id |-> AnEvent, zone_id |-> Scoped("exhibition", "event_zone")])

ExhibitorProfile ==
    Class("exhibition", "exhibitor_profile", {"id", "exhibitor_id"},
        [exhibitor_id |-> Row("exhibition", "exhibitor")])

ProductProfile ==
    Class("exhibition", "product_profile", {"id", "product_id"},
        [product_id |-> Row("exhibition", "product")])

SupplyCapability ==
    Class("exhibition", "supply_capability", {"id"},
        [exhibitor_id |-> Row("exhibition", "exhibitor"),
         product_id |-> Row("exhibition", "product")])

ExhibitorBuyerPreference ==
    Class("exhibition", "buyer_preference", {"id"},
        [exhibitor_id |-> Row("exhibition", "exhibitor"), buyer_type_concept_id |-> AConcept,
         channel_concept_id |-> AConcept, region_concept_id |-> AConcept])

SupplyProfileAttribute ==
    Class("exhibition", "profile_attribute", {"id"},
        [attribute_code |-> Key("ontology", "concept", "concept_id_code"), concept_id |-> AConcept])

(* exhibitor_preference.py *)

ExhibitorTradeAvailability ==
    Class("exhibition", "exhibitor_trade_availability", {"id", "exhibitor"},
        [exhibitor_id |-> Row("exhibition", "exhibitor")])

ExhibitorPreferredCooperationType ==
    Class("exhibition", "exhibitor_cooperation_type", {"id", "concept"},
        [exhibitor_id |-> Row("exhibition", "exhibitor"), concept_id |-> AConcept])

(* extraction.py *)

ExtractedAttribute ==
    Class("document", "extracted_attribute", {"id"},
        [exhibitor_id |-> Key("exhibition", "exhibitor", "tenant_boundary"),
         superseded_by_extraction_id |-> Row("document", "extracted_attribute"),
         ai_run_id |-> Row("ai", "ai_run")])

SourceEvidence ==
    Class("document", "source_evidence", {"id"},
        [extraction_id |-> Row("document", "extracted_attribute")])

ExtractionConflict ==
    Class("document", "extraction_conflict", {"id"},
        [exhibitor_id |-> Key("exhibition", "exhibitor", "tenant_boundary"),
         winning_extraction_id |-> Row("document", "extracted_attribute")])

ContentReviewRequest ==
    Class("document", "content_review_request", {"id"},
        [exhibitor_id |-> Key("exhibition", "exhibitor", "tenant_boundary")])

ContentReviewAction ==
    Class("document", "content_review_action", {"id"},
        [review_request_id |-> Row("document", "content_review_request"),
         extraction_id |-> Row("document", "extracted_attribute")])

PublishedContentVersion ==
    Class("document", "published_content_version", {"id", "no"},
        [extraction_id |-> Row("document", "extracted_attribute"),
         exhibitor_id |-> Key("exhibition", "exhibitor", "tenant_boundary")])

(* filtering.py *)

FilterEvaluation ==
    Class("matching", "filter_evaluation", {"id", "request", "boundary", "idempotency"},
        [event_id |-> AnEvent,
         profile_version_id |-> Key("profile", "profile_version", "profile_id_version_id"),
         profile_id |-> Scoped("profile", "user_profile"), tenant_id |-> ATenant])

FilterResult ==
    Class("matching", "filter_result", {"id", "candidate"},
        [filter_evaluation_id |-> Row("matching", "filter_evaluation")])

(* identity.py *)

UserAccount ==
    Class("profile", "user_account", {"id"}, NoRefs)

UserIdentity ==
    Class("identity", "user_identity", {"id", "phone_hmac", "user_id"}, [user_id |-> AnAccount])

AuthenticationMethod ==
    Class("identity", "authentication_method", {"id"}, [user_id |-> AnAccount])

Role ==
    Class("profile", "role", {"id", "role_code"}, NoRefs)

UserRole ==
    Class("profile", "user_role", {"id", "active_assignment"},
        [event_id |-> AnEvent, exhibitor_id |-> Key("exhibition", "exhibitor", "tenant_boundary"),
         tenant_id |-> ATenant, user_id |-> AnAccount, role_id |-> Row("profile", "role")])

GuestSession ==
    Class("profile", "guest_session", {"id", "session_token_hmac"},
        [event_id |-> AnEvent, converted_user_id |-> AnAccount])

(* indexing.py *)

SearchDocument ==
    Class("indexing", "search_document", {"id", "exhibitor_id_tier"},
        [exhibitor_id |-> Key("exhibition", "exhibitor", "tenant_boundary")])

IndexingJob ==
    Class("indexing", "indexing_job", {"id"}, NoRefs)

CacheInvalidationEvent ==
    Class("indexing", "cache_invalidation_event", {"id"},
        [indexing_job_id |-> Row("indexing", "indexing_job")])

(* integration.py *)

SourceSystem ==
    Class("integration", "source_system", {"id", "tenant_code"}, [tenant_id |-> ATenant])

ExternalReference ==
    Class("integration", "external_reference", {"id", "source_object"},
        [source_system_id |-> Row("integration", "source_system")])

SyncJob ==
    Class("integration", "sync_job", {"id"},
        [tenant_id |-> ATenant, source_system_id |-> Row("integration", "source_system")])

SyncRowError ==
    Class("integration", "sync_row_error", {"id"},
        [sync_job_id |-> Row("integration", "sync_job")])

IdempotencyRecord ==
    Class("integration", "idempotency_record", {"id", "scope"}, [tenant_id |-> ATenant])

NotificationDelivery ==
    Class("integration", "notification_delivery", {"id", "dedupe", "personal_access_link_id"},
        [event_id |-> AnEvent, user_id |-> AnAccount,
         recommendation_session_id |-> Row("matching", "recommendation_session"),
         personal_access_link_id |-> Row("identity", "personal_access_link")])

NotificationAttempt ==
    Class("integration", "notification_attempt", {"id", "sequence"},
        [notification_delivery_id |-> Row("integration", "notification_delivery")])

OutboxEvent ==
    Class("integration", "outbox_event", {"id", "dedupe"},
        [event_id |-> AnEvent, tenant_id |-> ATenant])

(* interaction_event.py *)

EventIngestionFailure ==
    Class("interaction", "event_ingestion_failure", {"id"}, NoRefs)

(* kiosk.py *)

KioskSession ==
    Class("kiosk", "kiosk_session", {"id"}, [event_id |-> AnEvent])

KioskQrHandoff ==
    Class("kiosk", "kiosk_qr_handoff", {"id", "token_hash"},
        [event_id |-> AnEvent, kiosk_session_id |-> Row("kiosk", "kiosk_session")])

(* learning.py *)

BehaviorSignal ==
    Class("learning", "behavior_signal", {"id", "event"},
        [event_log_id |-> Row("interaction", "interaction_event"),
         profile_id |-> Row("profile", "user_profile"),
         match_policy_version_id |-> Row("matching", "match_policy_version")])

AttributeEvidence ==
    Class("learning", "attribute_evidence", {"id"},
        [behavior_signal_id |-> Row("learning", "behavior_signal")])

ProfileAdjustment ==
    Class("learning", "profile_adjustment", {"id"},
        [profile_id |-> Row("profile", "user_profile")])

FeedbackReason ==
    Class("learning", "feedback_reason", {"id"},
        [behavior_signal_id |-> Row("learning", "behavior_signal")])

ModelReward ==
    Class("learning", "model_reward", {"id"},
        [recommendation_session_id |-> Row("matching", "recommendation_session"),
         match_result_id |-> Row("matching", "match_result")])

ProfileInference ==
    Class("profile", "inference", {"id"}, [profile_id |-> Row("profile", "user_profile")])

(* matching.py *)

Recommendable ==
    Class("exhibition", "recommendable",
        {"id", "boundary", "booth_id", "event_product_id", "participation_id", "program_id"},
        [event_id |-> AnEvent, booth_id |-> Scoped("exhibition", "booth"),
         event_product_id |-> Scoped("exhibition", "event_product"),
         participation_id |-> Scoped("exhibition", "exhibitor_participation"),
         program_id |-> Scoped("exhibition", "program")])

MatchRun ==
    Class("matching", "recommendation_session", {"id", "filter_evaluation", "boundary"},
        [event_id |-> AnEvent,
         profile_version_id |-> Key("profile", "profile_version", "profile_id_version_id"),
         profile_id |-> Scoped("profile", "user_profile") \cup Row("profile", "user_profile"),
         visit_session_id |-> Scoped("profile", "visit_session"),
         filter_evaluation_id |-> Scoped("matching", "filter_evaluation"),
         policy_version_id |-> Row("matching", "match_policy_version"),
         ranking_model_version_id |-> Row("ai", "model_version"),
         explanation_model_version_id |-> Row("ai", "model_version"),
         taxonomy_version_id |-> Row("ontology", "taxonomy_version"),
         cold_start_policy_version_id |-> Row("matching", "match_policy_version")])

MatchResult ==
    Class("matching", "match_result",
        {"id", "session_rank", "session_recommendable", "session_result"},
        [recommendation_session_id |-> Scoped("matching", "recommendation_session"),
         recommendable_id |-> Scoped("exhibition", "recommendable"),
         directional_policy_version_id |-> Row("matching", "match_policy_version"),
         exhibitor_policy_version_id |-> Row("matching", "match_policy_version"),
         reciprocal_policy_version_id |-> Row("matching", "match_policy_version"),
         context_policy_version_id |-> Row("matching", "match_policy_version"),
         cold_start_policy_version_id |-> Row("matching", "match_policy_version")])

MatchReason ==
    Class("matching", "match_reason", {"id"},
        [match_result_id |-> Row("matching", "match_result"), ai_run_id |-> Row("ai", "ai_run")])

SlateResult ==
    Class("matching", "slate_result", {"id", "session", "boundary"},
        [recommendation_session_id |-> Scoped("matching", "recommendation_session"),
         slate_policy_version_id |-> Row("matching", "match_policy_version")])

SlateItem ==
    Class("matching", "slate_item",
        {"id", "rank", "match_result", "boundary", "result_boundary_id"},
        [slate_result_id |-> Scoped("matching", "slate_result"),
         recommendable_id |-> Scoped("exhibition", "recommendable"),
         exhibitor_id |-> Key("exhibition", "exhibitor", "tenant_boundary"),
         match_result_id |-> Row("matching", "match_result")])

RecommendationDelivery ==
    Class("matching", "recommendation_delivery", {"id"},
        [recommendation_session_id |-> Scoped("matching", "recommendation_session"),
         match_result_id |-> Key("matching", "match_result", "session_result"),
         recommendable_id |-> Scoped("exhibition", "recommendable")])

InteractionEvent ==
    Class("interaction", "interaction_event", {"id"},
        [event_id |-> AnEvent, recommendable_id |-> Scoped("exhibition", "recommendable"),
         recommendation_session_id |-> Scoped("matching", "recommendation_session"),
         visit_session_id |-> Scoped("profile", "visit_session"),
         match_result_id |-> Key("matching", "match_result", "session_result"),
         user_id |-> AnAccount, guest_session_id |-> Row("profile", "guest_session")])

InteractionClientEventDedupe ==
    Class("interaction", "client_event_dedupe", {"id"},
        [event_id |-> AnEvent, interaction_event_id |-> Row("interaction", "interaction_event")])

RecommendationImpression ==
    Class("interaction", "recommendation_impression", {"id", "interaction_event"},
        [event_id |-> AnEvent, interaction_event_id |-> Row("interaction", "interaction_event"),
         visit_session_id |-> Scoped("profile", "visit_session"),
         slate_result_id |-> Scoped("matching", "slate_result"),
         slate_item_id |-> Key("matching", "slate_item", "result_boundary_id"),
         recommendable_id |-> Scoped("exhibition", "recommendable"),
         exhibitor_id |-> Key("exhibition", "exhibitor", "tenant_boundary"), user_id |-> AnAccount,
         guest_session_id |-> Row("profile", "guest_session")])

(* meeting.py *)

AvailabilitySlot ==
    Class("interaction", "availability_slot", {"id"},
        [event_id |-> AnEvent, concept_id |-> AConcept,
         participation_id |-> Row("exhibition", "exhibitor_participation"),
         staff_id |-> Row("exhibition", "exhibitor_staff"), booth_id |-> Row("exhibition", "booth")])

MeetingRequest ==
    Class("interaction", "meeting", {"id"},
        [event_id |-> AnEvent, concept_id |-> AConcept,
         buyer_profile_id |-> Row("profile", "user_profile"),
         participation_id |-> Row("exhibition", "exhibitor_participation"),
         staff_id |-> Row("exhibition", "exhibitor_staff"), booth_id |-> Row("exhibition", "booth"),
         confirmed_slot_id |-> Row("interaction", "availability_slot"),
         match_result_id |-> Row("matching", "match_result"),
         product_id |-> Row("exhibition", "product")])

MeetingSlotRequest ==
    Class("interaction", "meeting_slot_request", {"id", "meeting_slot", "meeting_preference"},
        [meeting_id |-> Row("interaction", "meeting"),
         availability_slot_id |-> Row("interaction", "availability_slot")])

MeetingContactShare ==
    Class("interaction", "meeting_contact_share", {"id", "meeting_id"},
        [meeting_id |-> Row("interaction", "meeting"),
         consent_policy_id |-> Row("profile", "consent_policy"), disclosed_to_user_id |-> AnAccount,
         exhibitor_enabled_by_staff_id |-> Row("exhibition", "exhibitor_staff")])

MeetingStatusHistory ==
    Class("interaction", "meeting_status_history", {"id"},
        [meeting_id |-> Row("interaction", "meeting"), changed_by_user_id |-> AnAccount])

Lead ==
    Class("interaction", "meeting_outcome", {"id", "meeting_id"},
        [concept_id |-> AConcept, meeting_id |-> Row("interaction", "meeting"),
         recorded_by_user_id |-> AnAccount])

FollowUp ==
    Class("interaction", "follow_up_action", {"id"},
        [concept_id |-> AConcept, meeting_id |-> Row("interaction", "meeting"),
         assignee_user_id |-> AnAccount])

(* notification.py *)

NotificationPreference ==
    Class("notification", "notification_preferences", {"id", "user_type"},
        [tenant_id |-> ATenant, user_id |-> AnAccount])

NotificationTemplate ==
    Class("notification", "notification_templates", {"id", "scope"}, [tenant_id |-> ATenant])

NotificationRule ==
    Class("notification", "notification_rules", {"id", "scope"}, [tenant_id |-> ATenant])

Notification ==
    Class("notification", "notifications", {"id", "dedup_key"},
        [event_id |-> AnEvent, tenant_id |-> ATenant, recipient_user_id |-> AnAccount])

NotificationChannelDelivery ==
    Class("notification", "notification_deliveries", {"id", "notification_channel"},
        [notification_id |-> Row("notification", "notifications")])

NotificationChannelDeliveryAttempt ==
    Class("notification", "notification_delivery_attempts", {"id", "number"},
        [notification_delivery_id |-> Row("notification", "notification_deliveries")])

(* policy.py *)

MatchPolicyVersion ==
    Class("matching", "match_policy_version",
        {"id", "match_policy_type_version", "match_policy_version", "match_policy_id_type"}, NoRefs)

MatchWeight ==
    Class("matching", "match_weight", {"id", "policy_component"},
        [match_policy_version_id |-> Row("matching", "match_policy_version")])

FilterRule ==
    Class("matching", "filter_rule", {"id", "policy_code", "policy_order"},
        [match_policy_version_id |-> Row("matching", "match_policy_version")])

EventPolicyBinding ==
    Class("matching", "event_policy_binding", {"id", "active"},
        [event_id |-> AnEvent,
         policy_type |-> Key("matching", "match_policy_version", "match_policy_id_type")])

(* profile.py *)

UserProfile ==
    Class("profile", "user_profile", {"id", "user_event_type", "guest_event_type", "boundary"},
        [event_id |-> AnEvent, tenant_id |-> ATenant, user_id |-> AnAccount,
         guest_session_id |-> Row("profile", "guest_session")])

ProfileAttribute ==
    Class("profile", "profile_attribute", {"id"},
        [concept_id |-> AConcept, attribute_code |-> Key("ontology", "concept", "concept_id_code"),
         profile_id |-> Row("profile", "user_profile")])

InferredPreference ==
    Class("profile", "inferred_preference", {"id", "concept"},
        [concept_id |-> AConcept, attribute_code |-> Key("ontology", "concept", "concept_id_code"),
         profile_id |-> Row("profile", "user_profile")])

ProfileVersion ==
    Class("profile", "profile_version", {"id", "number", "profile_id_version_id"},
        [profile_id |-> Row("profile", "user_profile")])

VisitSession ==
    Class("profile", "visit_session", {"id", "boundary"},
        [event_id |-> AnEvent, current_zone_id |-> Scoped("exhibition", "event_zone"),
         tenant_id |-> ATenant, user_id |-> AnAccount,
         guest_session_id |-> Row("profile", "guest_session"),
         profile_id |-> Row("profile", "user_profile")])

ContextProfile ==
    Class("profile", "context_profile", {"id"},
        [visit_session_id |-> Row("profile", "visit_session"),
         current_zone_id |-> Row("exhibition", "event_zone")])

BuyerNeed ==
    Class("profile", "buyer_need", {"id"}, [profile_id |-> Row("profile", "user_profile")])

MODELS ==
    {ModelVersion, AiRun, ObjectEmbedding, AnalyticsDailyMetric, AnalyticsFunnelMetric,
    AnalyticsSearchNoResultSummary, AnalyticsDataQualitySnapshot, PersonalAccessLink,
    AuthRoleGrant, AuthSession, MfaAuthenticator, MfaChallenge, MfaRecoveryCode,
    BuyerMatchSession, BuyerMatchCandidate, BuyerProfile, BuyerProfileCode, ColdStartStatus,
    QuestionDefinition, QuestionResponse, ColdStartPrior, ExplorationResult, ConsentPolicy,
    UserConsent, PrivacyRequest, RetentionPolicy, DeletionJob, AuditLog, ConversationSession,
    ConversationMessage, EntityExtraction, Tenant, Event, EventDay, EventZone, SourceDocument,
    DocumentFile, DocumentProcessingJob, DocumentAccessLog, EventMessage, EventMessageRecipient,
    Exhibitor, ExhibitorBusinessType, ExhibitorParticipation, ParticipationCategory,
    ExhibitorStaff, StaffTopic, Product, EventProduct, ProductAttribute, ProductImage,
    TradeCondition, TradeConditionTerm, Booth, BoothStatusHistory, BoothQr, Program,
    ExhibitorProfile, ProductProfile, SupplyCapability, ExhibitorBuyerPreference,
    SupplyProfileAttribute, ExhibitorTradeAvailability, ExhibitorPreferredCooperationType,
    ExtractedAttribute, SourceEvidence, ExtractionConflict, ContentReviewRequest,
    ContentReviewAction, PublishedContentVersion, FilterEvaluation, FilterResult, UserAccount,
    UserIdentity, AuthenticationMethod, Role, UserRole, GuestSession, SearchDocument, IndexingJob,
    CacheInvalidationEvent, SourceSystem, ExternalReference, SyncJob, SyncRowError,
    IdempotencyRecord, NotificationDelivery, NotificationAttempt, OutboxEvent,
    EventIngestionFailure, KioskSession, KioskQrHandoff, BehaviorSignal, AttributeEvidence,
    ProfileAdjustment, FeedbackReason, ModelReward, ProfileInference, Recommendable, MatchRun,
    MatchResult, MatchReason, SlateResult, SlateItem, RecommendationDelivery, InteractionEvent,
    InteractionClientEventDedupe, RecommendationImpression, AvailabilitySlot, MeetingRequest,
    MeetingSlotRequest, MeetingContactShare, MeetingStatusHistory, Lead, FollowUp,
    NotificationPreference, NotificationTemplate, NotificationRule, Notification,
    NotificationChannelDelivery, NotificationChannelDeliveryAttempt, MatchPolicyVersion,
    MatchWeight, FilterRule, EventPolicyBinding, UserProfile, ProfileAttribute,
    InferredPreference, ProfileVersion, VisitSession, ContextProfile, BuyerNeed}

=============================================================================
