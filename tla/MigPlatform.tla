---------------------------- MODULE MigPlatform ----------------------------
(***************************************************************************)
(* The revisions of the platform around the recommendation, 0018 to 0031:  *)
(* sign-in, outbox, meetings, preferences, buyers, documents, extraction,  *)
(* indexing, notifications, messages, analytics, ingestion, integration.   *)
(***************************************************************************)
EXTENDS MigMatching

(* 0018_auth_session_mfa, 20260803_0018_auth_session_mfa.py *)

create_auth_role_grant ==
    Create("profile", "auth_role_grant", {"id", "active"},
        [user_id |-> AnAccount, event_id |-> AnEvent,
         exhibitor_id |-> Key("exhibition", "exhibitor", "tenant_boundary")])

create_personal_access_link ==
    Create("identity", "personal_access_link", {"id", "token_hmac"},
        [user_id |-> AnAccount, profile_id |-> Row("profile", "user_profile"),
         recommendation_session_id |-> Row("matching", "recommendation_session"),
         event_id |-> AnEvent])

create_auth_session ==
    Create("identity", "auth_session", {"id", "token_hmac"},
        [user_id |-> AnAccount, profile_id |-> Row("profile", "user_profile"), event_id |-> AnEvent])

create_mfa_authenticator ==
    Create("identity", "mfa_authenticator", {"id", "credential_active"}, [user_id |-> AnAccount])

create_mfa_challenge ==
    Create("identity", "mfa_challenge", {"id"},
        [session_id |-> Row("identity", "auth_session"), user_id |-> AnAccount])

create_mfa_recovery_code ==
    Create("identity", "mfa_recovery_code", {"id", "digest"}, [user_id |-> AnAccount])

Up0018 ==
    <<create_auth_role_grant, CopyRoles, create_personal_access_link, create_auth_session,
      create_mfa_authenticator, create_mfa_challenge, create_mfa_recovery_code>>

Down0018 ==
    <<Drop("identity", "mfa_recovery_code"), Drop("identity", "mfa_challenge"),
      Drop("identity", "mfa_authenticator"), Drop("identity", "auth_session"),
      Drop("identity", "personal_access_link"), Drop("profile", "auth_role_grant")>>

(* 0019_notification_outbox, 20260803_0019_notification_outbox.py *)

create_notification_delivery ==
    Create("integration", "notification_delivery", {"id", "dedupe", "personal_access_link_id"},
        [user_id |-> AnAccount,
         recommendation_session_id |-> Row("matching", "recommendation_session"),
         personal_access_link_id |-> Row("identity", "personal_access_link"), event_id |-> AnEvent])

create_notification_attempt ==
    Create("integration", "notification_attempt", {"id", "sequence"},
        [notification_delivery_id |-> Row("integration", "notification_delivery")])

create_outbox_event ==
    Create("integration", "outbox_event", {"id", "dedupe"},
        [tenant_id |-> ATenant, event_id |-> AnEvent])

Up0019 ==
    <<create_notification_delivery, create_notification_attempt, create_outbox_event>>

Down0019 ==
    <<Drop("integration", "outbox_event"), Drop("integration", "notification_attempt"),
      Drop("integration", "notification_delivery")>>

(* 0020_interaction_domain, 20260803_0020_interaction_domain.py *)

create_availability_slot ==
    Create("interaction", "availability_slot", {"id"},
        [participation_id |-> Row("exhibition", "exhibitor_participation"),
         staff_id |-> Row("exhibition", "exhibitor_staff"), booth_id |-> Row("exhibition", "booth"),
         event_id |-> AnEvent, concept_id |-> AConcept])

create_meeting ==
    Create("interaction", "meeting", {"id"},
        [buyer_profile_id |-> Row("profile", "user_profile"),
         participation_id |-> Row("exhibition", "exhibitor_participation"),
         staff_id |-> Row("exhibition", "exhibitor_staff"), booth_id |-> Row("exhibition", "booth"),
         confirmed_slot_id |-> Row("interaction", "availability_slot"),
         match_result_id |-> Row("matching", "match_result"),
         product_id |-> Row("exhibition", "product"), event_id |-> AnEvent, concept_id |-> AConcept])

create_meeting_slot_request ==
    Create("interaction", "meeting_slot_request", {"id", "meeting_slot", "meeting_preference"},
        [meeting_id |-> Row("interaction", "meeting"),
         availability_slot_id |-> Row("interaction", "availability_slot")])

create_meeting_contact_share ==
    Create("interaction", "meeting_contact_share", {"id", "meeting_id"},
        [meeting_id |-> Row("interaction", "meeting"),
         consent_policy_id |-> Row("profile", "consent_policy"), disclosed_to_user_id |-> AnAccount,
         exhibitor_enabled_by_staff_id |-> Row("exhibition", "exhibitor_staff")])

create_meeting_status_history ==
    Create("interaction", "meeting_status_history", {"id"},
        [meeting_id |-> Row("interaction", "meeting"), changed_by_user_id |-> AnAccount])

create_meeting_outcome ==
    Create("interaction", "meeting_outcome", {"id", "meeting_id"},
        [meeting_id |-> Row("interaction", "meeting"), recorded_by_user_id |-> AnAccount,
         concept_id |-> AConcept])

create_follow_up_action ==
    Create("interaction", "follow_up_action", {"id"},
        [meeting_id |-> Row("interaction", "meeting"), assignee_user_id |-> AnAccount,
         concept_id |-> AConcept])

Up0020 ==
    <<create_availability_slot, create_meeting, create_meeting_slot_request,
      create_meeting_contact_share, create_meeting_status_history, create_meeting_outcome,
      create_follow_up_action>>

Down0020 ==
    <<Drop("interaction", "follow_up_action"), Drop("interaction", "meeting_outcome"),
      Drop("interaction", "meeting_status_history"),
      Drop("interaction", "meeting_contact_share"), Drop("interaction", "meeting_slot_request"),
      Drop("interaction", "meeting"), Drop("interaction", "availability_slot")>>

(* 0021_exhibitor_preference, 20260803_0021_exhibitor_preference.py *)

create_exhibitor_trade_availability ==
    Create("exhibition", "exhibitor_trade_availability", {"id", "exhibitor"},
        [exhibitor_id |-> Row("exhibition", "exhibitor")])

create_exhibitor_cooperation_type ==
    Create("exhibition", "exhibitor_cooperation_type", {"id", "concept"},
        [exhibitor_id |-> Row("exhibition", "exhibitor"), concept_id |-> AConcept])

Up0021 ==
    <<create_exhibitor_trade_availability, create_exhibitor_cooperation_type>>

Down0021 ==
    <<Drop("exhibition", "exhibitor_cooperation_type"),
      Drop("exhibition", "exhibitor_trade_availability")>>

(* 0022_buyer_profile, 20260803_0022_buyer_profile.py *)

create_buyer_profile ==
    Create("profile", "buyer_profile", {"id", "tenant_user"},
        [tenant_id |-> ATenant, user_id |-> AnAccount,
         verification_reviewed_by_user_id |-> AnAccount])

create_buyer_profile_code ==
    Create("profile", "buyer_profile_code", {"id", "group_concept"},
        [buyer_profile_id |-> Row("profile", "buyer_profile"), concept_id |-> AConcept,
         attribute_code |-> Key("ontology", "concept", "concept_id_code")])

Up0022 ==
    <<create_buyer_profile, create_buyer_profile_code>>

Down0022 ==
    <<Drop("profile", "buyer_profile_code"), Drop("profile", "buyer_profile")>>

(* 0023_buyer_match, 20260803_0023_buyer_match.py *)

create_buyer_match_session ==
    Create("matching", "buyer_match_session", {"id"},
        [buyer_profile_id |-> Row("profile", "user_profile"), event_id |-> AnEvent])

create_buyer_match_candidate ==
    Create("matching", "buyer_match_candidate", {"id", "session_rank", "session_exhibitor"},
        [buyer_match_session_id |-> Row("matching", "buyer_match_session"),
         participation_id |-> Row("exhibition", "exhibitor_participation"),
         exhibitor_id |-> Key("exhibition", "exhibitor", "tenant_boundary")])

Up0023 ==
    <<create_buyer_match_session, create_buyer_match_candidate>>

Down0023 ==
    <<Drop("matching", "buyer_match_candidate"), Drop("matching", "buyer_match_session")>>

(* 0024_document_storage, 20260803_0024_document_storage.py *)

create_source_document ==
    Create("document", "source_document", {"id"},
        [event_id |-> AnEvent, tenant_id |-> ATenant,
         exhibitor_id |-> Row("exhibition", "exhibitor")])

create_document_file ==
    Create("document", "document_file", {"id", "document_id_version_no"},
        [document_id |-> Row("document", "source_document")])

create_document_processing_job ==
    Create("document", "document_processing_job", {"id"},
        [document_id |-> Row("document", "source_document"),
         file_id |-> Row("document", "document_file")])

create_document_access_log ==
    Create("document", "document_access_log", {"id"}, NoRefs)

Up0024 ==
    <<CreateSchema("document"), create_source_document, create_document_file,
      create_document_processing_job, create_document_access_log>>

Down0024 ==
    <<Drop("document", "document_access_log"), Drop("document", "document_processing_job"),
      Drop("document", "document_file"), Drop("document", "source_document"),
      DropSchema("document")>>

(* 0025_extraction_review, 20260803_0025_extraction_review.py *)

create_extracted_attribute ==
    Create("document", "extracted_attribute", {"id"},
        [exhibitor_id |-> Key("exhibition", "exhibitor", "tenant_boundary"),
         ai_run_id |-> Row("ai", "ai_run"),
         superseded_by_extraction_id |-> Row("document", "extracted_attribute")])

create_source_evidence ==
    Create("document", "source_evidence", {"id"},
        [extraction_id |-> Row("document", "extracted_attribute")])

create_extraction_conflict ==
    Create("document", "extraction_conflict", {"id"},
        [exhibitor_id |-> Key("exhibition", "exhibitor", "tenant_boundary"),
         winning_extraction_id |-> Row("document", "extracted_attribute")])

create_content_review_request ==
    Create("document", "content_review_request", {"id"},
        [exhibitor_id |-> Key("exhibition", "exhibitor", "tenant_boundary")])

create_content_review_action ==
    Create("document", "content_review_action", {"id"},
        [review_request_id |-> Row("document", "content_review_request"),
         extraction_id |-> Row("document", "extracted_attribute")])

create_published_content_version ==
    Create("document", "published_content_version", {"id", "no"},
        [extraction_id |-> Row("document", "extracted_attribute"),
         exhibitor_id |-> Key("exhibition", "exhibitor", "tenant_boundary")])

Up0025 ==
    <<CreateSchema("document"), create_extracted_attribute, create_source_evidence,
      create_extraction_conflict, create_content_review_request, create_content_review_action,
      create_published_content_version>>

Down0025 ==
    <<Drop("document", "published_content_version"), Drop("document", "content_review_action"),
      Drop("document", "content_review_request"), Drop("document", "extraction_conflict"),
      Drop("document", "source_evidence"), Drop("document", "extracted_attribute")>>

(* 0026_search_indexing, 20260803_0026_search_indexing.py *)

create_search_document ==
    Create("indexing", "search_document", {"id", "exhibitor_id_tier"},
        [exhibitor_id |-> Key("exhibition", "exhibitor", "tenant_boundary")])

create_indexing_job ==
    Create("indexing", "indexing_job", {"id"}, NoRefs)

create_cache_invalidation_event ==
    Create("indexing", "cache_invalidation_event", {"id"},
        [indexing_job_id |-> Row("indexing", "indexing_job")])

Up0026 ==
    <<CreateSchema("indexing"), create_search_document, create_indexing_job,
      create_cache_invalidation_event>>

Down0026 ==
    <<Drop("indexing", "cache_invalidation_event"), Drop("indexing", "indexing_job"),
      Drop("indexing", "search_document"), DropSchema("indexing")>>

(* 0027_notification, 20260803_0027_notification.py *)

create_notification_preferences ==
    Create("notification", "notification_preferences", {"id", "user_type"},
        [tenant_id |-> ATenant, user_id |-> AnAccount])

create_notification_templates ==
    Create("notification", "notification_templates", {"id", "scope"}, [tenant_id |-> ATenant])

create_notification_rules ==
    Create("notification", "notification_rules", {"id", "scope"}, [tenant_id |-> ATenant])

create_notifications ==
    Create("notification", "notifications", {"id", "dedup_key"},
        [tenant_id |-> ATenant, recipient_user_id |-> AnAccount, event_id |-> AnEvent])

create_notification_deliveries ==
    Create("notification", "notification_deliveries", {"id", "notification_channel"},
        [notification_id |-> Row("notification", "notifications")])

create_notification_delivery_attempts ==
    Create("notification", "notification_delivery_attempts", {"id", "number"},
        [notification_delivery_id |-> Row("notification", "notification_deliveries")])

Up0027 ==
    <<CreateSchema("notification"), create_notification_preferences,
      create_notification_templates, create_notification_rules, create_notifications,
      create_notification_deliveries, create_notification_delivery_attempts>>

Down0027 ==
    <<Drop("notification", "notification_delivery_attempts"),
      Drop("notification", "notification_deliveries"), Drop("notification", "notifications"),
      Drop("notification", "notification_rules"), Drop("notification", "notification_templates"),
      Drop("notification", "notification_preferences"), DropSchema("notification")>>

(* 0028_event_message, 20260803_0028_event_message.py *)

create_event_message ==
    Create("event_message", "event_message", {"id"},
        [tenant_id |-> ATenant, event_id |-> AnEvent, created_by_user_id |-> AnAccount,
         approved_by_user_id |-> AnAccount])

create_event_message_recipient ==
    Create("event_message", "event_message_recipient", {"id", "message_user"},
        [event_message_id |-> Row("event_message", "event_message"),
         recipient_user_id |-> AnAccount])

Up0028 ==
    <<CreateSchema("event_message"), create_event_message, create_event_message_recipient>>

Down0028 ==
    <<Drop("event_message", "event_message_recipient"), Drop("event_message", "event_message"),
      DropSchemaCascade("event_message")>>

(* 0029_analytics_aggregation, 20260803_0029_analytics_aggregation.py *)

create_daily_metric ==
    Create("analytics", "daily_metric", {"id", "metric_date_metric_code_dimension_code"},
        [event_id |-> AnEvent])

create_funnel_metric ==
    Create("analytics", "funnel_metric", {"id", "metric_date_funnel_code_step_code"},
        [event_id |-> AnEvent])

create_search_no_result_summary ==
    Create("analytics", "search_no_result_summary", {"id", "summary_date_channel_code_query_norm"},
        [event_id |-> AnEvent])

create_data_quality_snapshot ==
    Create("analytics", "data_quality_snapshot", {"id", "snapshot_date_check_code"},
        [event_id |-> AnEvent])

Up0029 ==
    <<create_daily_metric, create_funnel_metric, create_search_no_result_summary,
      create_data_quality_snapshot>>

Down0029 ==
    <<Drop("analytics", "data_quality_snapshot"), Drop("analytics", "search_no_result_summary"),
      Drop("analytics", "funnel_metric"), Drop("analytics", "daily_metric")>>

(* 0030_event_ingestion_failure, 20260803_0030_event_ingestion_failure.py *)

create_event_ingestion_failure ==
    Create("interaction", "event_ingestion_failure", {"id"}, NoRefs)

Up0030 ==
    <<create_event_ingestion_failure>>

Down0030 ==
    <<Drop("interaction", "event_ingestion_failure")>>

(* 0031_integration_source_sync, 20260803_0031_integration_source_sync.py *)

create_source_system ==
    Create("integration", "source_system", {"id", "tenant_code"}, [tenant_id |-> ATenant])

create_external_reference ==
    Create("integration", "external_reference", {"id", "source_object"},
        [source_system_id |-> Row("integration", "source_system")])

create_sync_job ==
    Create("integration", "sync_job", {"id"},
        [tenant_id |-> ATenant, source_system_id |-> Row("integration", "source_system")])

create_sync_row_error ==
    Create("integration", "sync_row_error", {"id"},
        [sync_job_id |-> Row("integration", "sync_job")])

create_idempotency_record ==
    Create("integration", "idempotency_record", {"id", "scope"}, [tenant_id |-> ATenant])

Up0031 ==
    <<create_source_system, create_external_reference, create_sync_job, create_sync_row_error,
      create_idempotency_record>>

Down0031 ==
    <<Drop("integration", "idempotency_record"), Drop("integration", "sync_row_error"),
      Drop("integration", "sync_job"), Drop("integration", "external_reference"),
      Drop("integration", "source_system")>>

=============================================================================
