----------------------------- MODULE StoreSchema -----------------------------
(***************************************************************************)
(* The tables of the relational store (persistence/models.py), as far as   *)
(* the store's methods depend on them: the column sets the database keeps  *)
(* unique, the columns that refer to a row of another table, and the       *)
(* columns copied out of the stored record so that queries can filter on   *)
(* them.  The rest of a record is its "body" (the JSON definition column). *)
(*                                                                         *)
(* A primary key that holds an identifier of the record goes by the name   *)
(* of the record's field; a primary key that is only a fresh surrogate     *)
(* (new_id) constrains nothing and is left out, and so are the timestamps  *)
(* that only order a listing.                                              *)
(***************************************************************************)

Table(name, unique, refs, columns) ==
  [name |-> name, unique |-> unique, refs |-> refs, columns |-> columns]

Fields(table) ==
  UNION table.unique \union table.refs \union table.columns \union {"body"}

-----------------------------------------------------------------------------
(* Projects, tasks, runs and what a run leaves behind.                     *)

ProjectRow == Table("projects", {{"project_id"}}, {}, {})

ProjectFeatureSettingsRow ==
  Table("project_feature_settings", {{"project_id"}}, {"project_id"}, {"revision"})

TaskRow ==
  Table("tasks", {{"task_id"}}, {"project_id"},
        {"prompt_contract_id", "context_bundle_id", "current_profile_id",
         "current_strategy_decision_id"})

RunRow ==
  Table("runs", {{"run_id"}}, {"task_id", "project_id"},
        {"provider", "state", "last_sequence", "revision", "session_id",
         "workspace_lease_id", "strategy_decision_id", "execution_mode",
         "workflow_template_id", "acceptance_policy_id", "loop_execution_id",
         "budget_spent", "error"})

AcceptancePolicyRow == Table("acceptance_policies", {{"policy_id"}}, {}, {"version"})

LoopExecutionRow ==
  Table("loop_executions",
        {{"loop_execution_id"}, {"run_id", "node_key", "attempt"}},
        {"run_id", "acceptance_policy_id"}, {"status", "stop_reason", "revision"})

VerificationRow ==
  Table("verifications", {{"verification_id"}},
        {"run_id", "loop_execution_id", "iteration_id"},
        {"verifier_id", "verifier_version", "target_ref", "status"})

RuntimeSessionRow ==
  Table("runtime_sessions", {{"session_id"}, {"run_id"}}, {"run_id"},
        {"provider", "native_session_id", "workspace_path"})

WorkspaceLeaseRow ==
  Table("workspace_leases",
        {{"lease_id"}, {"run_id"}, {"path"}, {"branch_name"}},
        {"project_id", "run_id"}, {"status"})

ArtifactRow == Table("artifacts", {{"artifact_id"}}, {"run_id"}, {"kind"})

ApprovalRow ==
  Table("approvals", {{"approval_id"}, {"run_id", "native_request_id"}},
        {"run_id"}, {"status"})

-----------------------------------------------------------------------------
(* The capability registry, plugins and policies.                          *)

CapabilityRow ==
  Table("capabilities", {{"capability_id", "version"}}, {}, {"enabled"})

SkillRow == Table("skills", {{"skill_id", "version"}}, {}, {})

PluginRow ==
  Table("plugins", {{"plugin_id", "version"}}, {}, {"checksum", "allowlisted"})

PluginVersionRow ==
  Table("plugin_versions", {{"plugin_version_id"}, {"plugin_id", "version"}},
        {}, {"manifest_digest", "trust_level"})

PluginInstallationRow ==
  Table("plugin_installations", {{"installation_id"}, {"workspace_id", "plugin_id"}},
        {}, {"version", "state", "trust_level", "revision"})

PluginAuditEventRow ==
  Table("plugin_audit_events", {{"plugin_event_id"}}, {},
        {"plugin_id", "installation_id", "event_type", "correlation_id"})

CapabilityPolicyRow == Table("policies", {{"policy_id", "version"}}, {}, {})

CapabilityRequestRow ==
  Table("capability_requests", {{"request_id"}}, {"run_id"},
        {"capability_id", "capability_version", "status", "authorization",
         "provenance"})

-----------------------------------------------------------------------------
(* Identity, connectors, connections and MCP servers.                      *)

PrincipalRow ==
  Table("principals", {{"principal_id"}, {"issuer", "subject"}}, {}, {"status"})

WorkspaceRow == Table("workspaces", {{"workspace_id"}}, {}, {})

WorkspaceMembershipRow ==
  Table("workspace_memberships", {{"membership_id"}, {"workspace_id", "principal_id"}},
        {}, {"role"})

AuthSessionRow ==
  Table("auth_sessions", {{"auth_session_id"}}, {},
        {"principal_id", "expires_at", "revoked"})

OAuthTransactionRow ==
  Table("oauth_transactions", {{"state"}}, {},
        {"connector_id", "principal_id", "expires_at"})

TokenHandleRow ==
  Table("token_handles", {{"token_handle_id"}}, {},
        {"connector_id", "workspace_id", "principal_id", "status", "expires_at"})

SecretRecordRow ==
  Table("secret_records", {{"secret_store_key"}}, {}, {"key_id", "nonce", "ciphertext"})

AuthTransactionRow == Table("auth_transactions", {{"state"}}, {}, {"expires_at"})

ConnectorDefinitionRow ==
  Table("connector_definitions", {{"connector_id"}}, {}, {"auth_type"})

ConnectionRow ==
  Table("connections", {{"connection_id"}}, {},
        {"connector_id", "workspace_id", "principal_id", "scope", "status"})

CapabilityBindingRow ==
  Table("capability_bindings", {{"binding_id"}, {"capability_id", "connector_id"}},
        {}, {"enabled"})

McpServerRow ==
  Table("mcp_servers", {{"mcp_server_id"}}, {},
        {"workspace_id", "connector_id", "state", "enabled", "revision"})

McpDiscoverySnapshotRow ==
  Table("mcp_server_discovery_snapshots", {{"discovery_snapshot_id"}}, {},
        {"mcp_server_id", "connection_id", "valid", "content_sha256"})

McpServerEventRow ==
  Table("mcp_server_events", {{"mcp_event_id"}}, {},
        {"mcp_server_id", "event_type", "correlation_id"})

ResearchEvidenceRow ==
  Table("research_evidence", {{"evidence_id"}}, {},
        {"run_id", "capability_id", "connector_id", "source_id", "content_digest",
         "trust", "trust_score"})

IdentityAssertionRow ==
  Table("identity_assertions", {{"assertion_id"}}, {},
        {"auth_session_id", "principal_id", "status", "expires_at"})

EnterpriseAuthGrantRow ==
  Table("enterprise_auth_grants", {{"grant_id"}}, {},
        {"principal_id", "workspace_id", "connector_id", "mcp_server_id",
         "connection_id", "outcome"})

-----------------------------------------------------------------------------
(* Benchmarks, workflow templates, run graphs and proposals.               *)

BenchmarkTaskRow ==
  Table("benchmark_tasks", {{"benchmark_task_id", "version"}}, {},
        {"category", "task_type", "environment_ref", "environment_version"})

BenchmarkRunRow ==
  Table("benchmark_runs", {{"benchmark_run_id"}}, {},
        {"suite_version", "configuration_version", "execution_source", "status",
         "corpus_sha256", "trace_sha256", "scenario_count"})

ArchitectureMetricRow ==
  Table("architecture_metrics",
        {{"metric_id"}, {"benchmark_run_id", "benchmark_task_id", "task_version", "mode"}},
        {"benchmark_run_id"}, {"provider", "verifier_id", "selector_version"})

WorkflowTemplateRow ==
  Table("workflow_templates", {{"template_id", "version"}}, {},
        {"mode", "status", "checksum"})

RunGraphRow ==
  Table("run_graphs", {{"run_graph_id"}, {"run_id"}},
        {"run_id", "task_id", "template_record_id"},
        {"template_id", "template_version", "template_checksum", "graph_revision"})

WorkflowProposalRow ==
  Table("workflow_proposals", {{"proposal_id"}}, {"task_id", "run_id"},
        {"based_on_graph_revision", "planner_version"})

GraphValidationResultRow ==
  Table("graph_validation_results", {{"validation_id"}}, {"proposal_id"},
        {"status", "validator_version"})

RunGraphRevisionRow ==
  Table("run_graph_revisions", {{"revision_id"}, {"run_graph_id", "revision"}},
        {"run_graph_id", "run_id", "proposal_id"}, {"parent_revision", "graph_hash"})

ReplanRequestRow ==
  Table("replan_requests", {{"replan_request_id"}}, {"run_id"},
        {"based_on_graph_revision", "status"})

RuntimeDecisionRow ==
  Table("runtime_decisions", {{"decision_id"}}, {"run_id"},
        {"node_id", "selected_runtime", "policy_version"})

-----------------------------------------------------------------------------
(* Candidate search and experience memory.                                 *)

SearchPlanRow ==
  Table("search_plans",
        {{"search_id"}, {"run_id", "graph_revision", "parent_node_id"}},
        {"run_id"}, {"mode", "status", "revision"})

SearchCandidateRow ==
  Table("search_candidates", {{"candidate_id"}, {"search_id", "ordinal"}},
        {"search_id", "run_id"}, {"provider", "status"})

CandidateScoreRow ==
  Table("candidate_scores", {{"score_id"}, {"candidate_id"}},
        {"search_id", "candidate_id"}, {"eligible", "total_score"})

SearchPromotionRow ==
  Table("search_promotions", {{"promotion_id"}, {"search_id"}},
        {"search_id", "candidate_id", "run_id"}, {"status"})

ExperienceRow ==
  Table("experiences", {{"experience_id"}, {"source_key"}},
        {"project_id", "task_id", "source_run_id", "source_candidate_id"},
        {"repository_identity", "trust", "polarity", "retracted", "revision"})

ExperienceQueryRow ==
  Table("experience_queries", {{"query_id"}}, {"project_id", "task_id"},
        {"repository_identity", "embedding"})

ExperienceMatchRow ==
  Table("experience_matches",
        {{"match_id"}, {"query_id", "experience_id"}, {"query_id", "rank"}},
        {"query_id", "experience_id"}, {"disposition", "final_score"})

ExperienceSelectionRow ==
  Table("experience_selections", {{"selection_id"}},
        {"task_id", "query_id", "expected_context_bundle_id",
         "resulting_context_bundle_id"}, {})

TrajectoryReplaySeedRow ==
  Table("trajectory_replay_seeds", {{"seed_id"}, {"candidate_id"}},
        {"search_id", "candidate_id", "match_id", "experience_id"},
        {"validation_status"})

-----------------------------------------------------------------------------
(* The append-only v0.4 contract tables.  V04ContractRow gives each one its *)
(* header; contract_id is the primary key, and the digest of the sealed     *)
(* document is unique together with its schema version.                     *)

V04ContractRow(name, unique, refs, columns) ==
  Table(name,
        {{"contract_id"}, {"content_hash", "schema_version"}} \union unique,
        {"project_id"} \union refs,
        {"workspace_id", "supersedes_contract_id"} \union columns)

ObjectiveContractRow == V04ContractRow("objective_contracts", {}, {}, {"revision"})

NodeContractRow ==
  V04ContractRow("node_contracts", {}, {},
    {"node_id", "run_graph_id", "graph_revision", "execution_instance_id",
     "immutable_hash"})

VerificationSpecRow == V04ContractRow("verification_specs", {}, {}, {"revision"})

RoutingRequestRow ==
  V04ContractRow("routing_requests", {}, {},
    {"node_contract_id", "node_contract_hash", "available_runtime_snapshot_id",
     "capability_registry_snapshot_id", "connection_availability_snapshot_id",
     "policy_snapshot_id", "workspace_router_version", "project_adapter_version"})

ConfigurationCandidateRow ==
  V04ContractRow("configuration_candidates", {}, {},
    {"routing_request_id", "configuration_hash", "construction_stage", "hard_eligible"})

CompatibilityDecisionRow ==
  V04ContractRow("compatibility_decisions", {}, {},
    {"subject_type", "subject_ref", "status", "rule_id", "rule_version", "reason_code"})

RoutingReceiptRow ==
  V04ContractRow("routing_receipts", {{"routing_request_id"}}, {},
    {"node_contract_hash", "selected_configuration_id", "selected_configuration_hash",
     "decision_type", "selection_propensity", "workspace_router_version",
     "project_adapter_version"})

RoutingOverrideRow ==
  V04ContractRow("routing_overrides", {}, {},
    {"receipt_id", "principal_id", "candidate_id", "reason_code",
     "superseding_receipt_id", "created_at"})

VerificationResultRow ==
  V04ContractRow("verification_results", {}, {},
    {"execution_instance_id", "verification_spec_hash", "status",
     "source_verification_id"})

ExperienceRecordRow ==
  V04ContractRow("experience_records", {}, {"experience_id"},
    {"source_node_execution_id", "configuration_hash", "visibility",
     "local_verification_status", "final_run_status", "contradiction_status",
     "eligible_for_learning"})

FailureEventRow ==
  V04ContractRow("failure_events", {}, {},
    {"execution_instance_id", "failure_type", "assigned_owner", "retryable"})

RouterModelVersionRow ==
  V04ContractRow("router_model_versions", {}, {},
    {"scope", "algorithm_id", "feature_schema_version", "training_snapshot_id",
     "artifact_digest", "parent_version_id", "status"})

RouterTrainingSnapshotRow ==
  V04ContractRow("router_training_snapshots", {}, {},
    {"feature_schema_version", "contract_schema_version", "window_start", "window_end"})

RouterPromotionReportRow ==
  V04ContractRow("router_promotion_reports", {}, {},
    {"candidate_version", "baseline_version", "training_snapshot_id",
     "holdout_definition_id", "decision", "rollback_target"})

ShadowDecisionRow ==
  V04ContractRow("shadow_decisions", {}, {},
    {"executed_receipt_id", "shadow_receipt_id", "shadow_router_version_id", "agreement"})

ShadowRolloutResultRow ==
  V04ContractRow("shadow_rollout_results", {}, {},
    {"shadow_decision_id", "kind", "configuration_hash"})

RouterActivationRow ==
  V04ContractRow("router_activations",
    {{"workspace_id", "scope", "family_key", "sequence"}}, {},
    {"kind", "router_version_id", "previous_version_id",
     "rollback_target_version_id", "promotion_report_id"})
=============================================================================
