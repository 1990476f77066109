---------------------------- MODULE MCNodesPage -----------------------------
\* An instance of NodesPage for TLC.
EXTENDS NodesPage
CONSTANTS a, b
=============================================================================
