---------------------------- MODULE MCPageRefresh ----------------------------
\* Instance for TLC: key w is shown by the page, u is not.
EXTENDS PageRefresh
CONSTANTS w, u
=============================================================================
