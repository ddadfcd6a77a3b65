---------------------------- MODULE PostgresStore ----------------------------
(***************************************************************************)
(* The methods of PostgresStore (persistence/store.py), in the order of    *)
(* the class, one record per group of neighbouring methods.  Each runs in  *)
(* one transaction at READ COMMITTED; StoreMethods says what the fields of *)
(* a method mean and StateStore runs them.  A batch of rows written by one *)
(* call is represented by one of its rows.                                 *)
(***************************************************************************)
EXTENDS StoreMethods

\* The fields of a run that update_run leaves as they are.
NotUpdated == {"task_id", "project_id", "provider", "last_sequence", "budget_spent", "body"}

ProjectMethods == [
  create_project |-> Insert(ProjectRow),
  get_project |-> Select(ProjectRow, {"project_id"}),
  list_projects |-> Select(ProjectRow, {}),
  create_task |-> Insert(TaskRow)]

TaskMethods == [
  get_task |-> Select(TaskRow, {"task_id"})]

RunMethods == [
  create_run |-> Insert(RunRow),
  get_run |-> Select(RunRow, {"run_id"}),
  list_runs |-> Select(RunRow, {}),
  update_run |->
    [Method(RunRow, {"run_id"}, "count", "KeyError")
       EXCEPT !.on = "revision", !.keeps = NotUpdated, !.writes = @ \ NotUpdated, !.lock = "row"],
  save_acceptance_policy |-> PutOnce(AcceptancePolicyRow, {"policy_id"}),
  get_acceptance_policy |-> Select(AcceptancePolicyRow, {"policy_id"}),
  create_loop_execution |->
    [Method(LoopExecutionRow, {"run_id", "node_key", "attempt"}, "refuse", "insert")
       EXCEPT !.requires = {"run_id"}, !.parents = {"acceptance_policy_id"},
              !.lock = "run_id"],
  get_loop_execution |-> Select(LoopExecutionRow, {"loop_execution_id"})]

VerificationMethods == [
  save_verification |->
    [PutOnce(VerificationRow, {"verification_id"}) EXCEPT !.needs = {"iteration_id"}],
  get_verification |-> Select(VerificationRow, {"verification_id"}),
  list_verifications |-> Select(VerificationRow, {"run_id", "iteration_id"})]

WorkspaceMethods == [
  save_lease |-> Insert(WorkspaceLeaseRow),
  get_lease |-> Select(WorkspaceLeaseRow, {"lease_id"}),
  save_session |->
    [Upsert(RuntimeSessionRow, {"run_id"},
            {"session_id", "provider", "native_session_id", "workspace_path"})
       EXCEPT !.lock = "row"],
  get_session_for_run |-> Select(RuntimeSessionRow, {"run_id"}),
  list_sessions |-> Select(RuntimeSessionRow, {"provider"})]

ArtifactMethods == [
  save_artifact |-> Insert(ArtifactRow),
  list_artifacts |-> Select(ArtifactRow, {"run_id"})]

TemplateMethods == [
  upsert_workflow_template |->
    [PutOnce(WorkflowTemplateRow, {"template_id", "version"})
       EXCEPT !.compare = {"checksum"}, !.lock = "row"],
  get_workflow_template |->
    Select(WorkflowTemplateRow, {"template_id", "version", "status"}),
  list_workflow_templates |-> Select(WorkflowTemplateRow, {"status"})]

GraphMethods == [
  create_run_graph |->
    [Method(RunGraphRow, {"run_id"}, "refuse", "insert")
       EXCEPT !.requires = {"run_id"}, !.parents = {"template_record_id"}, !.lock = "run_id"],
  get_run_graph |-> Select(RunGraphRow, {"run_id"}),
  update_run_graph |->
    [Method(RunGraphRow, {"run_graph_id"}, "revise", "KeyError")
       EXCEPT !.on = "graph_revision", !.writes = {"graph_revision", "body"}, !.lock = "row",
              !.keeps = Fields(RunGraphRow) \ {"graph_revision", "body"}]]

ApprovalMethods == [
  save_approval |->
    [Method(ApprovalRow, {"run_id", "native_request_id"}, "stored", "insert")
       EXCEPT !.requires = {"run_id"}],
  get_approval |-> Select(ApprovalRow, {"approval_id"}),
  list_approvals |-> Select(ApprovalRow, {"run_id", "status"}),
  decide_approval |->
    [Method(ApprovalRow, {"approval_id"}, "switch", "KeyError")
       EXCEPT !.on = "status", !.from = {1}, !.writes = {"status", "body"}, !.lock = "row"]]

CatalogMethods == [
  upsert_capability |-> PutOnce(CapabilityRow, {"capability_id", "version"}),
  get_capability |-> Select(CapabilityRow, {"capability_id", "version"}),
  list_capabilities |-> Select(CapabilityRow, {"enabled"}),
  upsert_skill |-> PutOnce(SkillRow, {"skill_id", "version"}),
  list_skills |-> Select(SkillRow, {}),
  upsert_plugin |-> PutOnce(PluginRow, {"plugin_id", "version"}),
  list_plugins |-> Select(PluginRow, {"allowlisted"})]

PrincipalMethods == [
  upsert_principal |->
    [Upsert(PrincipalRow, {"issuer", "subject"}, {"status", "body"})
       EXCEPT !.keeps = {"principal_id"}],
  get_principal |-> Select(PrincipalRow, {"principal_id"}),
  get_principal_by_identity |-> Select(PrincipalRow, {"issuer", "subject"}),
  list_principals |-> Select(PrincipalRow, {}),
  upsert_workspace |-> Upsert(WorkspaceRow, {"workspace_id"}, {"body"})]

MembershipMethods == [
  \* The membership's revision is its body; a change of role increments it.
  upsert_workspace_membership |->
    [Upsert(WorkspaceMembershipRow, {"workspace_id", "principal_id"}, {"role", "body"})
       EXCEPT !.keeps = {"membership_id"}, !.bump = "role"],
  list_workspace_memberships |->
    Select(WorkspaceMembershipRow, {"workspace_id", "principal_id"})]

\* Mutated form: the row is read without FOR UPDATE.
consume_auth_transaction_Unlocked ==
  [Consume(AuthTransactionRow, {"state"}) EXCEPT !.lock = "none"]

consume_auth_transaction == Consume(AuthTransactionRow, {"state"})

SessionMethods == [
  create_auth_session |-> Insert(AuthSessionRow),
  get_auth_session |-> Select(AuthSessionRow, {"auth_session_id", "revoked", "expires_at"}),
  revoke_auth_session |->
    [Method(AuthSessionRow, {"auth_session_id"}, "switch", "None")
       EXCEPT !.on = "revoked", !.from = {1, 2}, !.writes = {"revoked", "body"}],
  create_auth_transaction |-> Insert(AuthTransactionRow),
  consume_auth_transaction |-> consume_auth_transaction,
  create_oauth_transaction |-> Insert(OAuthTransactionRow),
  consume_oauth_transaction |-> Consume(OAuthTransactionRow, {"state"})]

SecretMethods == [
  upsert_token_handle |->
    Upsert(TokenHandleRow, {"token_handle_id"},
           {"status", "expires_at", "principal_id", "workspace_id", "body"}),
  get_token_handle |-> Select(TokenHandleRow, {"token_handle_id"}),
  upsert_secret_record |->
    Upsert(SecretRecordRow, {"secret_store_key"}, {"key_id", "nonce", "ciphertext"}),
  get_secret_record |-> Select(SecretRecordRow, {"secret_store_key"}),
  delete_secret_record |-> Method(SecretRecordRow, {"secret_store_key"}, "drop", "None")]

AssertionMethods == [
  upsert_identity_assertion |->
    Upsert(IdentityAssertionRow, {"assertion_id"},
           {"auth_session_id", "principal_id", "status", "expires_at", "body"}),
  get_identity_assertion_for_session |-> Select(IdentityAssertionRow, {"auth_session_id"}),
  get_identity_assertion_for_principal |->
    Select(IdentityAssertionRow, {"principal_id", "status"}),
  append_enterprise_auth_grant |->
    Method(EnterpriseAuthGrantRow, {"grant_id"}, "refuse", "insert"),
  list_enterprise_auth_grants |->
    Select(EnterpriseAuthGrantRow, {"principal_id", "connector_id"})]

\* Mutated form: the status column does not follow the connection.
upsert_connection_StaleStatus ==
  Upsert(ConnectionRow, {"connection_id"}, {"workspace_id", "principal_id", "scope", "body"})

upsert_connection ==
  Upsert(ConnectionRow, {"connection_id"},
         {"workspace_id", "principal_id", "status", "scope", "body"})

ConnectionMethods == [
  upsert_connector_definition |->
    Upsert(ConnectorDefinitionRow, {"connector_id"}, {"auth_type", "body"}),
  get_connector_definition |-> Select(ConnectorDefinitionRow, {"connector_id"}),
  list_connector_definitions |-> Select(ConnectorDefinitionRow, {}),
  upsert_connection |-> upsert_connection,
  get_connection |-> Select(ConnectionRow, {"connection_id"}),
  list_connections |-> Select(ConnectionRow, {"connector_id", "status"})]

BindingMethods == [
  upsert_capability_binding |->
    Upsert(CapabilityBindingRow, {"binding_id"}, {"enabled", "body"}),
  list_capability_bindings |->
    Select(CapabilityBindingRow, {"capability_id", "connector_id", "enabled"})]

McpMethods == [
  upsert_mcp_server |->
    Upsert(McpServerRow, {"mcp_server_id"},
           {"workspace_id", "connector_id", "state", "enabled", "revision", "body"}),
  get_mcp_server |-> Select(McpServerRow, {"mcp_server_id"}),
  list_mcp_servers |-> Select(McpServerRow, {"workspace_id"}),
  save_mcp_discovery_snapshot |-> Insert(McpDiscoverySnapshotRow),
  list_mcp_discovery_snapshots |->
    Select(McpDiscoverySnapshotRow, {"mcp_server_id", "connection_id"}),
  append_mcp_server_event |-> Insert(McpServerEventRow),
  list_mcp_server_events |-> Select(McpServerEventRow, {"mcp_server_id"})]

PluginMethods == [
  upsert_plugin_version |-> PutOnce(PluginVersionRow, {"plugin_id", "version"}),
  get_plugin_version |-> Select(PluginVersionRow, {"plugin_id", "version"}),
  list_plugin_versions |-> Select(PluginVersionRow, {"plugin_id"}),
  upsert_plugin_installation |->
    Upsert(PluginInstallationRow, {"workspace_id", "plugin_id"},
           {"installation_id", "version", "state", "trust_level", "revision", "body"}),
  get_plugin_installation |-> Select(PluginInstallationRow, {"workspace_id", "plugin_id"}),
  list_plugin_installations |-> Select(PluginInstallationRow, {"workspace_id"}),
  append_plugin_audit_event |-> Insert(PluginAuditEventRow),
  list_plugin_audit_events |-> Select(PluginAuditEventRow, {"plugin_id", "installation_id"})]

PolicyMethods == [
  upsert_capability_policy |-> PutOnce(CapabilityPolicyRow, {"policy_id", "version"}),
  get_capability_policy |-> Select(CapabilityPolicyRow, {"policy_id", "version"}),
  \* The request, its run and its capability are those of the first save.
  save_capability_result |->
    [Upsert(CapabilityRequestRow, {"request_id"},
            {"status", "authorization", "provenance", "body"})
       EXCEPT !.requires = {"run_id"},
              !.keeps = {"run_id", "capability_id", "capability_version"}],
  list_capability_results |-> Select(CapabilityRequestRow, {"run_id"})]

ResearchMethods == [
  save_research_evidence |->
    Upsert(ResearchEvidenceRow, {"evidence_id"}, {"trust", "trust_score", "body"}),
  list_research_evidence |-> Select(ResearchEvidenceRow, {"run_id", "capability_id"}),
  get_research_evidence_by_digest |->
    Select(ResearchEvidenceRow, {"run_id", "content_digest"})]

BenchmarkMethods == [
  upsert_benchmark_task |-> PutOnce(BenchmarkTaskRow, {"benchmark_task_id", "version"}),
  get_benchmark_task |-> Select(BenchmarkTaskRow, {"benchmark_task_id"}),
  list_benchmark_tasks |-> Select(BenchmarkTaskRow, {}),
  save_benchmark_run |->
    [PutOnce(BenchmarkRunRow, {"benchmark_run_id"})
       EXCEPT !.compare = {"corpus_sha256", "trace_sha256", "scenario_count"}],
  list_benchmark_runs |-> Select(BenchmarkRunRow, {}),
  list_architecture_metrics |-> Select(ArchitectureMetricRow, {"benchmark_run_id"})]

FeatureMethods == [
  get_project_features |-> Select(ProjectFeatureSettingsRow, {"project_id"}),
  update_project_features |->
    [Method(ProjectFeatureSettingsRow, {"project_id"}, "revise", "first")
       EXCEPT !.requires = {"project_id"}, !.on = "revision",
              !.writes = {"revision", "body"}, !.lock = "row"]]

ProposalMethods == [
  save_workflow_proposal |-> PutOnce(WorkflowProposalRow, {"proposal_id"}),
  get_workflow_proposal |-> Select(WorkflowProposalRow, {"proposal_id"}),
  list_workflow_proposals |-> Select(WorkflowProposalRow, {"task_id", "run_id"}),
  save_graph_validation |-> PutOnce(GraphValidationResultRow, {"validation_id"}),
  list_graph_validations |-> Select(GraphValidationResultRow, {"proposal_id"})]

RevisionMethods == [
  save_graph_revision |->
    [PutOnce(RunGraphRevisionRow, {"run_graph_id", "revision"})
       EXCEPT !.chain = {[by |-> {"run_graph_id"}, on |-> "revision", first |-> TRUE,
                          prior |-> "none"]}],
  list_graph_revisions |-> Select(RunGraphRevisionRow, {"run_id"}),
  get_graph_revision |-> Select(RunGraphRevisionRow, {"run_id", "revision"}),
  save_replan_request |->
    [Upsert(ReplanRequestRow, {"replan_request_id"}, {"status", "body"})
       EXCEPT !.fixed = {"run_id"}],
  list_replan_requests |-> Select(ReplanRequestRow, {"run_id"}),
  save_runtime_decision |-> PutOnce(RuntimeDecisionRow, {"decision_id"}),
  list_runtime_decisions |-> Select(RuntimeDecisionRow, {"run_id"})]

SearchMethods == [
  create_search |-> [Insert(SearchPlanRow) EXCEPT !.requires = {"run_id"}],
  get_search |-> Select(SearchPlanRow, {"search_id"}),
  list_searches |-> Select(SearchPlanRow, {"run_id"}),
  update_search |->
    [Method(SearchPlanRow, {"search_id"}, "revise", "KeyError")
       EXCEPT !.on = "revision", !.lock = "row", !.writes = {"status", "revision", "body"},
              !.fixed = {"run_id", "graph_revision", "parent_node_id"}],
  save_search_candidate |->
    [Upsert(SearchCandidateRow, {"candidate_id"}, {"provider", "status", "body"})
       EXCEPT !.requires = {"search_id"}, !.fixed = {"search_id", "ordinal"}],
  get_search_candidate |-> Select(SearchCandidateRow, {"candidate_id"}),
  list_search_candidates |-> Select(SearchCandidateRow, {"search_id"})]

ScoreMethods == [
  save_candidate_score |-> PutOnce(CandidateScoreRow, {"candidate_id"}),
  list_candidate_scores |-> Select(CandidateScoreRow, {"search_id"}),
  save_search_promotion |->
    [Upsert(SearchPromotionRow, {"search_id"}, {"status", "body"})
       EXCEPT !.fixed = {"promotion_id", "candidate_id"}],
  get_search_promotion |-> Select(SearchPromotionRow, {"search_id"})]

ExperienceMethods == [
  save_experience |-> [PutOnce(ExperienceRow, {"source_key"}) EXCEPT !.lock = "row"],
  get_experience |-> Select(ExperienceRow, {"experience_id"}),
  list_experiences |->
    Select(ExperienceRow, {"project_id", "repository_identity", "retracted"})]

ReuseMethods == [
  save_experience_query |->
    [PutOnce(ExperienceQueryRow, {"query_id"})
       EXCEPT !.compare = Fields(ExperienceQueryRow) \ {"embedding"}],
  get_experience_query |-> Select(ExperienceQueryRow, {"query_id"}),
  save_experience_matches |->
    [PutOnce(ExperienceMatchRow, {"query_id"}) EXCEPT !.requires = {"query_id"}],
  list_experience_matches |-> Select(ExperienceMatchRow, {"query_id"}),
  save_experience_selection |-> PutOnce(ExperienceSelectionRow, {"selection_id"}),
  list_experience_selections |-> Select(ExperienceSelectionRow, {"task_id"})]

SeedMethods == [
  save_trajectory_seed |->
    [PutOnce(TrajectoryReplaySeedRow, {"seed_id"}) EXCEPT !.distinct = {{"candidate_id"}}],
  list_trajectory_seeds |-> Select(TrajectoryReplaySeedRow, {"search_id"})]

-----------------------------------------------------------------------------
(* The v0.4 contracts.                                                     *)

_put_v04_contract(row_type) ==
  [PutOnce(row_type, {"contract_id"})
     EXCEPT !.distinct = {{"content_hash", "schema_version"}}]

_put_v04_document(row_type, identity_fields) ==
  [_put_v04_contract(row_type) EXCEPT !.compare = identity_fields]

_get_v04_contract(row_type) == Select(row_type, {"contract_id"})

_list_v04_contracts(row_type) == Select(row_type, {"workspace_id", "project_id"})

_guard_receipt_request_uniqueness == {"routing_request_id"}

_guard_activation_contiguity ==
  [by |-> {"workspace_id", "scope", "family_key"}, on |-> "sequence", first |-> TRUE,
   prior |-> "previous_version_id"]

ContractMethods == [
  put_objective_contract |-> _put_v04_contract(ObjectiveContractRow),
  get_objective_contract |-> _get_v04_contract(ObjectiveContractRow),
  list_objective_contracts |-> _list_v04_contracts(ObjectiveContractRow),
  put_node_contract |-> _put_v04_contract(NodeContractRow),
  get_node_contract |-> _get_v04_contract(NodeContractRow),
  list_node_contracts |-> _list_v04_contracts(NodeContractRow),
  put_verification_spec |-> _put_v04_contract(VerificationSpecRow),
  get_verification_spec |-> _get_v04_contract(VerificationSpecRow),
  list_verification_specs |-> _list_v04_contracts(VerificationSpecRow)]

RoutingMethods == [
  put_routing_request |-> _put_v04_contract(RoutingRequestRow),
  get_routing_request |-> _get_v04_contract(RoutingRequestRow),
  list_routing_requests |-> _list_v04_contracts(RoutingRequestRow),
  put_configuration_candidate |-> _put_v04_contract(ConfigurationCandidateRow),
  get_configuration_candidate |-> _get_v04_contract(ConfigurationCandidateRow),
  list_configuration_candidates |-> _list_v04_contracts(ConfigurationCandidateRow),
  put_compatibility_decision |-> _put_v04_contract(CompatibilityDecisionRow),
  get_compatibility_decision |-> _get_v04_contract(CompatibilityDecisionRow),
  list_compatibility_decisions |-> _list_v04_contracts(CompatibilityDecisionRow)]

\* Mutated form: no check that the request has no receipt yet.
put_routing_receipt_Unguarded == _put_v04_contract(RoutingReceiptRow)

put_routing_receipt ==
  [_put_v04_contract(RoutingReceiptRow)
     EXCEPT !.distinct = @ \union {_guard_receipt_request_uniqueness}]

ReceiptMethods == [
  \* The clock is left out of the comparison: the store stamps it.
  put_routing_override |->
    _put_v04_document(RoutingOverrideRow,
                      Fields(RoutingOverrideRow) \ {"created_at", "content_hash"}),
  get_routing_override |-> _get_v04_contract(RoutingOverrideRow),
  list_routing_overrides |-> _list_v04_contracts(RoutingOverrideRow),
  put_routing_receipt |-> put_routing_receipt,
  get_routing_receipt |-> _get_v04_contract(RoutingReceiptRow),
  list_routing_receipts |-> _list_v04_contracts(RoutingReceiptRow),
  get_routing_receipt_for_request |-> Select(RoutingReceiptRow, {"routing_request_id"})]

OutcomeMethods == [
  put_verification_result |-> _put_v04_contract(VerificationResultRow),
  get_verification_result |-> _get_v04_contract(VerificationResultRow),
  list_verification_results |-> _list_v04_contracts(VerificationResultRow),
  put_experience_record |-> _put_v04_contract(ExperienceRecordRow),
  get_experience_record |-> _get_v04_contract(ExperienceRecordRow),
  list_experience_records |-> _list_v04_contracts(ExperienceRecordRow),
  list_experience_record_revisions |->
    Select(ExperienceRecordRow, {"experience_id", "workspace_id"}),
  put_failure_event |-> _put_v04_contract(FailureEventRow),
  get_failure_event |-> _get_v04_contract(FailureEventRow),
  list_failure_events |-> _list_v04_contracts(FailureEventRow)]

RouterMethods == [
  put_router_model_version |-> _put_v04_contract(RouterModelVersionRow),
  get_router_model_version |-> _get_v04_contract(RouterModelVersionRow),
  list_router_model_versions |-> _list_v04_contracts(RouterModelVersionRow),
  put_router_training_snapshot |-> _put_v04_contract(RouterTrainingSnapshotRow),
  get_router_training_snapshot |-> _get_v04_contract(RouterTrainingSnapshotRow),
  list_router_training_snapshots |-> _list_v04_contracts(RouterTrainingSnapshotRow),
  put_router_promotion_report |-> _put_v04_contract(RouterPromotionReportRow),
  get_router_promotion_report |-> _get_v04_contract(RouterPromotionReportRow),
  list_router_promotion_reports |-> _list_v04_contracts(RouterPromotionReportRow)]

ShadowMethods == [
  put_shadow_decision |-> _put_v04_contract(ShadowDecisionRow),
  get_shadow_decision |-> _get_v04_contract(ShadowDecisionRow),
  list_shadow_decisions |-> _list_v04_contracts(ShadowDecisionRow),
  put_shadow_rollout_result |-> _put_v04_contract(ShadowRolloutResultRow),
  get_shadow_rollout_result |-> _get_v04_contract(ShadowRolloutResultRow),
  list_shadow_rollout_results |-> _list_v04_contracts(ShadowRolloutResultRow),
  put_router_activation |->
    [_put_v04_contract(RouterActivationRow)
       EXCEPT !.chain = {_guard_activation_contiguity}],
  get_router_activation |-> _get_v04_contract(RouterActivationRow),
  list_router_activations |-> _list_v04_contracts(RouterActivationRow)]

=============================================================================
