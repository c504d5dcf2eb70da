---- MODULE MCBridge ----
\* Bridge with two specs.
EXTENDS Bridge
====
