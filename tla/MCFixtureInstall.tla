-------------------------- MODULE MCFixtureInstall --------------------------
\* The instance of FixtureInstall for TLC.
EXTENDS FixtureInstall
TwoTrays   == {1, 2}
FourIds    == 1..4
BothKinds  == {"payload", "generated"}
=============================================================================
