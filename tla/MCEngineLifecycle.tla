------------------------- MODULE MCEngineLifecycle -------------------------
EXTENDS EngineLifecycle

CONSTANTS w1, s1, s2
=============================================================================
