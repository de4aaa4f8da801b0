--------------------------- MODULE MigFoundation ---------------------------
(***************************************************************************)
(* The first seven revisions: the namespaces, the ontology, the tenants,   *)
(* accounts and consents, the visitor profile, the exhibition, the filter  *)
(* evaluations, and the registry of policies and models with its seeds.    *)
(* Each table is what its CREATE TABLE and the unique indexes that follow  *)
(* give it; each revision is its upgrade and its downgrade, statement by   *)
(* statement.  The tables of 0002 and 0005 are written in SQL files the    *)
(* revision runs.                                                          *)
(***************************************************************************)
EXTENDS SchemaOps

(* ALL_SCHEMAS of app/db/base.py, which 0001 imports: the thirteen of the  *)
(* database document first, then those later stages appended.              *)
ALL_SCHEMAS ==
    <<"core", "identity", "profile", "ontology", "exhibition", "matching", "interaction", "ai",
      "integration", "privacy", "audit", "quality", "analytics", "learning", "conversation",
      "kiosk", "document", "indexing", "notification", "event_message">>

(* The policy types the CHECK admits at 0007, and after each revision that *)
(* widens it by one.                                                       *)
ScoreTypes ==
    {"HARD_FILTER", "CONSUMER_SCORE", "BUYER_SCORE", "EXHIBITOR_SCORE", "RECIPROCAL_SCORE"}
RerankTypes == ScoreTypes \cup {"CONTEXT_RERANK"}
SlateTypes == RerankTypes \cup {"SLATE_POLICY"}
ColdTypes == SlateTypes \cup {"COLD_START"}
LearningTypes == ColdTypes \cup {"BEHAVIOR_LEARNING"}

(* 0001_create_schemas *)

Up0001 == [i \in DOMAIN ALL_SCHEMAS |-> CreateSchema(ALL_SCHEMAS[i])]

Down0001 == Reverse([i \in DOMAIN ALL_SCHEMAS |-> DropSchemaCascade(ALL_SCHEMAS[i])])

(* 0002_ontology, 20260801_0001_0002_ontology.py *)

create_taxonomy_version ==
    Create("ontology", "taxonomy_version", {"id", "taxonomy_version_tenant_semver"},
        [base_version_id |-> Row("ontology", "taxonomy_version")])

create_concept ==
    Create("ontology", "concept", {"id", "concept_code"},
        [replacement_concept_id |-> Row("ontology", "concept")])

create_concept_revision ==
    Create("ontology", "concept_revision", {"id"},
        [taxonomy_version_id |-> Row("ontology", "taxonomy_version"),
         concept_id |-> Row("ontology", "concept"), parent_concept_id |-> AConcept])

create_concept_label ==
    Create("ontology", "concept_label", {"id"}, [concept_id |-> AConcept])

create_concept_synonym ==
    Create("ontology", "concept_synonym", {"id", "synonym_target"}, [concept_id |-> AConcept])

create_concept_relation ==
    Create("ontology", "concept_relation", {"id", "relation"},
        [source_concept_id |-> AConcept, target_concept_id |-> AConcept])

create_external_mapping ==
    Create("ontology", "external_mapping", {"id", "external_mapping_source"},
        [target_concept_id |-> AConcept])

create_unknown_term_queue ==
    Create("ontology", "unknown_term_queue", {"id", "unknown_term_aggregate"},
        [taxonomy_version_id |-> Row("ontology", "taxonomy_version"),
         suggested_concept_id |-> Row("ontology", "concept")])

Up0002 ==
    <<CreateSchema("ontology"), create_taxonomy_version, create_concept, create_concept_revision,
      create_concept_label, create_concept_synonym, create_concept_relation,
      create_external_mapping, create_unknown_term_queue,
      AddParts("ontology", "concept_revision", {"trg_ontology_revision_immutable"}),
      AddParts("ontology", "concept_label", {"trg_ontology_label_immutable"}),
      AddParts("ontology", "concept_synonym", {"trg_ontology_synonym_immutable"}),
      AddParts("ontology", "concept_relation", {"trg_ontology_relation_immutable"}),
      AddParts("ontology", "external_mapping", {"trg_ontology_mapping_immutable"})>>

Down0002 ==
    <<DropCascade("ontology", "unknown_term_queue"), DropCascade("ontology", "external_mapping"),
      DropCascade("ontology", "concept_relation"), DropCascade("ontology", "concept_synonym"),
      DropCascade("ontology", "concept_label"), DropCascade("ontology", "concept_revision"),
      DropCascade("ontology", "concept"), DropCascade("ontology", "taxonomy_version")>>

(* 0003_foundation, 20260801_0002_0003_foundation.py *)

create_tenant ==
    Create("core", "tenant", {"id", "tenant_code"}, NoRefs)

create_event ==
    Create("exhibition", "event", {"id", "tenant_code", "boundary"},
        [tenant_id |-> ATenant,
         current_taxonomy_version_id |-> Row("ontology", "taxonomy_version")])

create_event_day ==
    Create("exhibition", "event_day", {"id", "event_date"}, [event_id |-> AnEvent])

create_event_zone ==
    Create("exhibition", "event_zone", {"id", "code", "boundary"},
        [event_id |-> AnEvent, parent_zone_id |-> Scoped("exhibition", "event_zone")])

create_user_account ==
    Create("profile", "user_account", {"id"}, NoRefs)

create_user_identity ==
    Create("identity", "user_identity", {"id", "user_id", "phone_hmac"}, [user_id |-> AnAccount])

create_authentication_method ==
    Create("identity", "authentication_method", {"id"}, [user_id |-> AnAccount])

create_role ==
    Create("profile", "role", {"id", "role_code"}, NoRefs)

create_user_role ==
    Create("profile", "user_role", {"id", "active_assignment"},
        [event_id |-> AnEvent, tenant_id |-> ATenant, user_id |-> AnAccount,
         role_id |-> Row("profile", "role")])

create_guest_session ==
    Create("profile", "guest_session", {"id", "session_token_hmac"},
        [event_id |-> AnEvent, converted_user_id |-> AnAccount])

create_consent_policy ==
    Create("profile", "consent_policy", {"id", "tenant_event_purpose_version"},
        [tenant_id |-> ATenant, event_id |-> AnEvent])

create_user_consent ==
    Create("profile", "user_consent", {"id"},
        [tenant_id |-> ATenant, event_id |-> AnEvent, user_id |-> AnAccount,
         guest_session_id |-> Row("profile", "guest_session"),
         consent_policy_id |-> Row("profile", "consent_policy")])

create_privacy_request ==
    Create("privacy", "privacy_request", {"id"}, [tenant_id |-> ATenant, user_id |-> AnAccount])

create_retention_policy ==
    Create("privacy", "retention_policy", {"id", "tenant_category_purpose_version"},
        [tenant_id |-> ATenant])

create_deletion_job ==
    Create("privacy", "deletion_job", {"id"},
        [tenant_id |-> ATenant, privacy_request_id |-> Row("privacy", "privacy_request"),
         retention_policy_id |-> Row("privacy", "retention_policy")])

create_audit_log ==
    Create("audit", "audit_log", {"id"},
        [tenant_id |-> ATenant, event_id |-> AnEvent, actor_user_id |-> AnAccount])

Up0003 ==
    <<AddKey("ontology", "concept", "concept_id_code"), create_tenant, create_event,
      create_event_day, create_event_zone, create_user_account, create_user_identity,
      create_authentication_method, create_role, create_user_role, create_guest_session,
      create_consent_policy, create_user_consent, create_privacy_request,
      create_retention_policy, create_deletion_job, create_audit_log>>

Down0003 ==
    <<Drop("audit", "audit_log"), Drop("privacy", "deletion_job"),
      Drop("privacy", "retention_policy"), Drop("privacy", "privacy_request"),
      Drop("profile", "user_consent"), Drop("profile", "consent_policy"),
      Drop("profile", "guest_session"), Drop("profile", "user_role"), Drop("profile", "role"),
      Drop("identity", "authentication_method"), Drop("identity", "user_identity"),
      Drop("profile", "user_account"), Drop("exhibition", "event_zone"),
      Drop("exhibition", "event_day"), Drop("exhibition", "event"), Drop("core", "tenant"),
      DropKey("ontology", "concept", "concept_id_code")>>

(* 0004_profile_domain, 20260801_1446_20260801144653_profile_domain_create_profile_domain_tables.py *)

create_user_profile ==
    Create("profile", "user_profile", {"id", "user_event_type", "guest_event_type"},
        [tenant_id |-> ATenant, user_id |-> AnAccount,
         guest_session_id |-> Row("profile", "guest_session"), event_id |-> AnEvent])

create_profile_attribute ==
    Create("profile", "profile_attribute", {"id"},
        [profile_id |-> Row("profile", "user_profile"), concept_id |-> AConcept,
         attribute_code |-> Key("ontology", "concept", "concept_id_code")])

create_inferred_preference ==
    Create("profile", "inferred_preference", {"id", "concept"},
        [profile_id |-> Row("profile", "user_profile"), concept_id |-> AConcept,
         attribute_code |-> Key("ontology", "concept", "concept_id_code")])

create_profile_version ==
    Create("profile", "profile_version", {"id", "number"},
        [profile_id |-> Row("profile", "user_profile")])

create_visit_session ==
    Create("profile", "visit_session", {"id"},
        [tenant_id |-> ATenant, user_id |-> AnAccount,
         guest_session_id |-> Row("profile", "guest_session"),
         profile_id |-> Row("profile", "user_profile"), event_id |-> AnEvent,
         current_zone_id |-> Scoped("exhibition", "event_zone")])

create_context_profile ==
    Create("profile", "context_profile", {"id"},
        [visit_session_id |-> Row("profile", "visit_session"),
         current_zone_id |-> Row("exhibition", "event_zone")])

create_buyer_need ==
    Create("profile", "buyer_need", {"id"}, [profile_id |-> Row("profile", "user_profile")])

Up0004 ==
    <<create_user_profile, create_profile_attribute, create_inferred_preference,
      create_profile_version, create_visit_session, create_context_profile, create_buyer_need>>

Down0004 ==
    <<Drop("profile", "buyer_need"), Drop("profile", "context_profile"),
      Drop("profile", "visit_session"), Drop("profile", "profile_version"),
      Drop("profile", "inferred_preference"), Drop("profile", "profile_attribute"),
      Drop("profile", "user_profile")>>

(* 0005_exhibition, 20260801_0004_0005_exhibition.py *)

create_exhibitor ==
    Create("exhibition", "exhibitor", {"id", "tenant_boundary"},
        [business_type_concept_id |-> AConcept, region_concept_id |-> AConcept,
         tenant_id |-> ATenant])

create_supply_attribute ==
    Create("exhibition", "profile_attribute", {"id"}, [concept_id |-> AConcept])

create_buyer_preference ==
    Create("exhibition", "buyer_preference", {"id"},
        [buyer_type_concept_id |-> AConcept, channel_concept_id |-> AConcept,
         region_concept_id |-> AConcept, exhibitor_id |-> Row("exhibition", "exhibitor")])

create_exhibitor_business_type ==
    Create("exhibition", "exhibitor_business_type", {"id", "concept"},
        [concept_id |-> AConcept, exhibitor_id |-> Row("exhibition", "exhibitor")])

create_exhibitor_participation ==
    Create("exhibition", "exhibitor_participation", {"id", "event", "boundary"},
        [event_id |-> AnEvent, exhibitor_id |-> Key("exhibition", "exhibitor", "tenant_boundary")])

create_exhibitor_profile ==
    Create("exhibition", "exhibitor_profile", {"id", "exhibitor_id"},
        [exhibitor_id |-> Row("exhibition", "exhibitor")])

create_product ==
    Create("exhibition", "product", {"id"},
        [category_concept_id |-> AConcept, exhibitor_id |-> Row("exhibition", "exhibitor")])

create_program ==
    Create("exhibition", "program", {"id"},
        [event_id |-> AnEvent, zone_id |-> Scoped("exhibition", "event_zone")])

create_booth ==
    Create("exhibition", "booth", {"id", "event_number"},
        [event_id |-> AnEvent, zone_id |-> Scoped("exhibition", "event_zone"),
         participation_id |-> Scoped("exhibition", "exhibitor_participation")])

create_event_product ==
    Create("exhibition", "event_product", {"id", "event_product", "boundary"},
        [event_id |-> AnEvent, participation_id |-> Scoped("exhibition", "exhibitor_participation"),
         product_id |-> Row("exhibition", "product")])

create_exhibitor_staff ==
    Create("exhibition", "exhibitor_staff", {"id"},
        [participation_id |-> Row("exhibition", "exhibitor_participation"), user_id |-> AnAccount])

create_participation_category ==
    Create("exhibition", "participation_category", {"id"},
        [concept_id |-> AConcept,
         participation_id |-> Row("exhibition", "exhibitor_participation")])

create_product_attribute ==
    Create("exhibition", "product_attribute", {"id"},
        [concept_id |-> AConcept, product_id |-> Row("exhibition", "product")])

create_product_image ==
    Create("exhibition", "product_image", {"id"}, [product_id |-> Row("exhibition", "product")])

create_product_profile ==
    Create("exhibition", "product_profile", {"id", "product_id"},
        [product_id |-> Row("exhibition", "product")])

create_supply_capability ==
    Create("exhibition", "supply_capability", {"id"},
        [exhibitor_id |-> Row("exhibition", "exhibitor"),
         product_id |-> Row("exhibition", "product")])

create_booth_qr ==
    Create("exhibition", "booth_qr", {"id", "token_hmac"},
        [booth_id |-> Row("exhibition", "booth")])

create_booth_status_history ==
    Create("exhibition", "booth_status_history", {"id"},
        [booth_id |-> Row("exhibition", "booth"), changed_by_user_id |-> AnAccount])

create_staff_topic ==
    Create("exhibition", "staff_topic", {"id"},
        [concept_id |-> AConcept, staff_id |-> Row("exhibition", "exhibitor_staff")])

create_trade_condition ==
    Create("exhibition", "trade_condition", {"id"},
        [participation_id |-> Row("exhibition", "exhibitor_participation"),
         event_product_id |-> Row("exhibition", "event_product")])

create_trade_condition_term ==
    Create("exhibition", "trade_condition_term", {"id", "trade_condition_term"},
        [concept_id |-> AConcept, trade_condition_id |-> Row("exhibition", "trade_condition")])

Up0005 ==
    <<create_exhibitor, create_supply_attribute, create_buyer_preference,
      create_exhibitor_business_type, create_exhibitor_participation, create_exhibitor_profile,
      create_product, create_program, create_booth, create_event_product, create_exhibitor_staff,
      create_participation_category, create_product_attribute, create_product_image,
      create_product_profile, create_supply_capability, create_booth_qr,
      create_booth_status_history, create_staff_topic, create_trade_condition,
      create_trade_condition_term,
      AddRef("profile", "user_role", "exhibitor_id",
          Key("exhibition", "exhibitor", "tenant_boundary")),
      AddParts("exhibition", "event_product", {"trg_event_product_owner_boundary"}),
      AddParts("exhibition", "trade_condition", {"trg_trade_condition_scope"}),
      AddParts("exhibition", "supply_capability", {"trg_supply_capability_owner"}),
      AddParts("exhibition", "product_profile", {"trg_product_profile_category_code"}),
      AddParts("exhibition", "profile_attribute", {"trg_supply_attribute_target"}),
      AddParts("profile", "user_role", {"trg_user_role_scope"})>>

Down0005 ==
    <<DropParts("profile", "user_role", {"trg_user_role_scope"}),
      DropRef("profile", "user_role", "exhibitor_id",
          Key("exhibition", "exhibitor", "tenant_boundary")),
      Drop("exhibition", "trade_condition_term"), Drop("exhibition", "trade_condition"),
      Drop("exhibition", "staff_topic"), Drop("exhibition", "booth_status_history"),
      Drop("exhibition", "booth_qr"), Drop("exhibition", "supply_capability"),
      Drop("exhibition", "product_profile"), Drop("exhibition", "product_image"),
      Drop("exhibition", "product_attribute"), Drop("exhibition", "participation_category"),
      Drop("exhibition", "exhibitor_staff"), Drop("exhibition", "event_product"),
      Drop("exhibition", "booth"), Drop("exhibition", "program"), Drop("exhibition", "product"),
      Drop("exhibition", "exhibitor_profile"), Drop("exhibition", "exhibitor_participation"),
      Drop("exhibition", "exhibitor_business_type"), Drop("exhibition", "buyer_preference"),
      Drop("exhibition", "profile_attribute"), Drop("exhibition", "exhibitor")>>

(* 0006_filter_evaluation, 20260801_0006_filter_evaluation.py *)

create_filter_evaluation ==
    Create("matching", "filter_evaluation", {"id", "request", "idempotency"},
        [tenant_id |-> ATenant, event_id |-> AnEvent,
         profile_version_id |-> Key("profile", "profile_version", "profile_id_version_id")])

create_filter_result ==
    Create("matching", "filter_result", {"id", "candidate"},
        [filter_evaluation_id |-> Row("matching", "filter_evaluation")])

Up0006 ==
    <<AddKey("profile", "profile_version", "profile_id_version_id"), create_filter_evaluation,
      create_filter_result,
      AddParts("matching", "filter_evaluation", {"trg_filter_evaluation_append_only"}),
      AddParts("matching", "filter_result", {"trg_filter_result_append_only"})>>

Down0006 ==
    <<DropParts("matching", "filter_result", {"trg_filter_result_append_only"}),
      DropParts("matching", "filter_evaluation", {"trg_filter_evaluation_append_only"}),
      Drop("matching", "filter_result"), Drop("matching", "filter_evaluation"),
      DropKey("profile", "profile_version", "profile_id_version_id")>>

(* 0007_policy_ai_registry, 20260801_0007_policy_ai_registry.py *)

create_match_policy_version ==
    Create("matching", "match_policy_version",
        {"id", "match_policy_type_version", "match_policy_version", "match_policy_id_type"}, NoRefs)

create_match_weight ==
    Create("matching", "match_weight", {"id", "policy_component"},
        [match_policy_version_id |-> Row("matching", "match_policy_version")])

create_filter_rule ==
    Create("matching", "filter_rule", {"id", "policy_code", "policy_order"},
        [match_policy_version_id |-> Row("matching", "match_policy_version")])

create_event_policy_binding ==
    Create("matching", "event_policy_binding", {"id", "active"},
        [event_id |-> AnEvent,
         policy_type |-> Key("matching", "match_policy_version", "match_policy_id_type")])

create_model_version ==
    Create("ai", "model_version", {"id", "type_version"}, NoRefs)

create_ai_run ==
    Create("ai", "ai_run", {"id"},
        [event_id |-> AnEvent, model_version_id |-> Row("ai", "model_version")])

seed_baselines ==
    <<SeedPolicies(ScoreTypes, TRUE), SeedParts("match_weight", ScoreTypes \ {"HARD_FILTER"}),
      SeedParts("filter_rule", {"HARD_FILTER"}), SeedModel("RANKING")>>

create_immutability_triggers ==
    <<AddParts("matching", "match_policy_version", {"trg_match_policy_version_immutable"}),
      AddParts("matching", "match_weight", {"trg_match_weight_published_immutable"}),
      AddParts("matching", "filter_rule", {"trg_filter_rule_published_immutable"}),
      AddParts("matching", "event_policy_binding", {"trg_event_policy_binding_validate"}),
      AddParts("ai", "model_version", {"trg_model_version_immutable"}),
      AddParts("ai", "ai_run", {"trg_ai_run_append_only"})>>

Up0007 ==
    <<create_match_policy_version, PolicyTypes(ScoreTypes), create_match_weight,
      create_filter_rule, create_event_policy_binding, create_model_version, create_ai_run>>
    \o seed_baselines
    \o create_immutability_triggers

Down0007 ==
    <<DropParts("ai", "ai_run", {"trg_ai_run_append_only"}),
      DropParts("ai", "model_version", {"trg_model_version_immutable"}),
      DropParts("matching", "event_policy_binding", {"trg_event_policy_binding_validate"}),
      DropParts("matching", "filter_rule", {"trg_filter_rule_published_immutable"}),
      DropParts("matching", "match_weight", {"trg_match_weight_published_immutable"}),
      DropParts("matching", "match_policy_version", {"trg_match_policy_version_immutable"}),
      Drop("ai", "ai_run"), Drop("ai", "model_version"),
      Drop("matching", "event_policy_binding"), Drop("matching", "filter_rule"),
      Drop("matching", "match_weight"), Drop("matching", "match_policy_version")>>

=============================================================================
