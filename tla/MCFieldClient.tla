--------------------------- MODULE MCFieldClient ----------------------------
EXTENDS FieldClient

CONSTANTS f1, f2
=============================================================================
