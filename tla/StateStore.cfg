CONSTANTS
  Clients = {c1, c2}
  MaxCalls = 2
  Pinned = {"version", "issuer", "workspace_id", "connector_id", "capability_id",
            "node_key", "attempt", "path", "branch_name", "task_version", "mode",
            "graph_revision", "parent_node_id", "run_graph_id", "scope", "family_key",
            "rank", "experience_id", "native_request_id", "routing_request_id", "ordinal"}
  Sampled = {"status", "state", "enabled", "role", "revoked", "trust", "auth_type",
             "provider", "checksum", "corpus_sha256", "embedding"}
SPECIFICATION Spec
SYMMETRY Symmetry
CHECK_DEADLOCK FALSE
 
 
PROPERTY GuardsMirrorConstraints
