-------------------------- MODULE MCPendingHandoff --------------------------
EXTENDS PendingHandoff

CONSTANTS t1, t2, k1, h1
=============================================================================
