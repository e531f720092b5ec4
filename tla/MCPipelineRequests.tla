------------------------- MODULE MCPipelineRequests -------------------------
EXTENDS PipelineRequests, TLC

CONSTANTS u, v, r1, r2

Symmetry == Permutations({r1, r2})

AllOps == {"create", "put", "state", "sync", "webhooks", "prs", "admins", "batch", "event", "build",
           "own_pr", "pr", "hook", "merged", "delete", "all"}
=============================================================================
