------------------------------ MODULE MC_Sequence ------------------------------
EXTENDS Sequence
=============================================================================
