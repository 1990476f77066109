--------------------------- MODULE MCMaintenance ----------------------------
\* An instance of Maintenance for TLC.
EXTENDS Maintenance
=============================================================================
