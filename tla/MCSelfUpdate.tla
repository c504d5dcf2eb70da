---- MODULE MCSelfUpdate ----
\* SelfUpdate for TLC.
EXTENDS SelfUpdate
====
