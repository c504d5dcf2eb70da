---- MODULE MCTrafficSync ----
\* TrafficSync for TLC.
EXTENDS TrafficSync
====
