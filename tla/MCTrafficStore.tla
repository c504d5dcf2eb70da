---- MODULE MCTrafficStore ----
\* TrafficStore for TLC.
EXTENDS TrafficStore, TLC

InodesAlike == Permutations(Inodes)
====
