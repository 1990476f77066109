---------------------------- MODULE MCPoolEntry -----------------------------
\* Instances of PoolEntry for TLC.
EXTENDS PoolEntry
CONSTANTS deviceA, deviceB, token1, procP, procQ
=============================================================================
