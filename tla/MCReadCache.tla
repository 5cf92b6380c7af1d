---------------------------- MODULE MCReadCache ------------------------------
\* Instance for TLC: one key is enough, for snapshots do not look at it.
EXTENDS ReadCache
=============================================================================
