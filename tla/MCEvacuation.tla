---------------------------- MODULE MCEvacuation ----------------------------
\* An instance of Evacuation for TLC.
EXTENDS Evacuation
CONSTANTS self, a, b, c
=============================================================================
