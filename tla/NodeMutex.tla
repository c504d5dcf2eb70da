---- MODULE NodeMutex ----
\* What the stats-sync gate promises to its callers: a node is collected from by
\* at most one of them at a time, and an answer for one node says nothing about
\* another.  StatsGate, the gate as src/internal/node/usecase/traffic_batch.go
\* writes it, is shown to implement this.
CONSTANTS Callers, Nodes

VARIABLE held          \* node -> the callers that hold it

Init == held = [n \in Nodes |-> {}]

Take(c, n) ==
  /\ held[n] = {}
  /\ held' = [held EXCEPT ![n] = {c}]

Leave(c, n) ==
  /\ held[n] = {c}
  /\ held' = [held EXCEPT ![n] = {}]

Next == \E c \in Callers, n \in Nodes : Take(c, n) \/ Leave(c, n)

Spec == Init /\ [][Next]_held
====
