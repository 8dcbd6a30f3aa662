---------------------------- MODULE MCMemoryLabs ----------------------------
EXTENDS PagingMonitor
=============================================================================
