-------------------------- MODULE MCUsageCollector --------------------------
(* Instances of UsageCollector for TLC: one node, whose poll, flush, removal   *)
(* and restarts interleave.  Nodes meet only in Flush, which takes them one by *)
(* one; the proofs are for any set of nodes.                                   *)
EXTENDS UsageCollector

\* The first hour can grow between polls; the second completes it.
TwoThenOne == <<2, 1>>
============================================================================
