----------------------------- MODULE MCKvConfig -----------------------------
EXTENDS KvConfig

CONSTANTS k1, c1
=============================================================================
