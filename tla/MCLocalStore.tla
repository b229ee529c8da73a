---------------------------- MODULE MCLocalStore ----------------------------
EXTENDS LocalStore

CONSTANTS e1, e2
=============================================================================
