----------------------------- MODULE MCTaskLabs -----------------------------
EXTENDS TaskLabs
=============================================================================
