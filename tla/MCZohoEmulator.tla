---------------------------- MODULE MCZohoEmulator ----------------------------
EXTENDS ZohoEmulatorProperties, TLC

SymmetricCalls ==
  Permutations(Calls) \cup Permutations(Keys) \cup Permutations(Humans)
=============================================================================
