---- MODULE StatsGate ----
\* The gate that lets one collection at a time talk to a node's agent:
\* acquireStatsSync in src/internal/node/usecase/traffic_batch.go.
\*
\* A gate is an object with a one-place channel (the token) and a count of its
\* users.  The map statsSyncs leads from a node to its gate; a gate is made when a
\* node has none and leaves the map with its last user.  Every step below is one
\* critical section of statsSyncMu or one channel operation, and between two of
\* them any other caller runs.  Gates are garbage-collected objects: a caller that
\* makes one gets an object nobody refers to.
EXTENDS Naturals, FiniteSets

CONSTANTS
  Callers,    \* goroutines: sweeps, single-node syncs, ingestions
  Nodes,      \* node IDs
  Gates,      \* gate objects
  NoGate      \* the map has no entry

ASSUME CallersFinite == IsFiniteSet(Callers)
ASSUME NoGateIsNone == NoGate \notin Gates

VARIABLES
  statsSyncs,  \* node -> its gate in the map, or NoGate
  users,       \* gate -> gate.users
  token,       \* gate -> whether its channel is full
  pc,          \* caller -> where it stands in acquireStatsSync and the sync it guards
  nodeOf,      \* caller -> the node it asked for
  gateOf,      \* caller -> the gate it got
  done         \* caller -> whether its context has ended

vars == <<statsSyncs, users, token, pc, nodeOf, gateOf, done>>

\* idle:    not in acquireStatsSync and not collecting
\* select:  counted as a user, at the select
\* sent:    put its token in, about to look at ctx.Err
\* hold:    acquireStatsSync has returned its release function
\* drop:    token taken out again, about to run releaseRef
Places == {"idle", "select", "sent", "hold", "drop"}

\* The callers that are counted in the users of gate g.
refs(g) == {c \in Callers : pc[c] # "idle" /\ gateOf[c] = g}

Init ==
  /\ statsSyncs = [n \in Nodes |-> NoGate]
  /\ users = [g \in Gates |-> 0]
  /\ token = [g \in Gates |-> FALSE]
  /\ pc = [c \in Callers |-> "idle"]
  /\ nodeOf \in [Callers -> Nodes]
  /\ gateOf \in [Callers -> Gates]
  /\ done = [c \in Callers |-> FALSE]

\* An object make() may return: neither the map nor a caller refers to it.
fresh(g) == refs(g) = {} /\ \A n \in Nodes : statsSyncs[n] # g

\* The gate the caller goes on with: the node's, or a new one when it has none.
gateFor(n, g) == IF statsSyncs[n] = NoGate THEN fresh(g) ELSE g = statsSyncs[n]

\* A new gate starts with no users and an empty channel.
usersOf(n, g) == IF statsSyncs[n] = NoGate THEN 0 ELSE users[g]
tokenOf(n, g) == IF statsSyncs[n] = NoGate THEN FALSE ELSE token[g]

\* Lines 35-45: find or make the gate and be counted in it, under statsSyncMu.
Enter(c, n, g) ==
  /\ pc[c] = "idle"
  /\ gateFor(n, g)
  /\ statsSyncs' = [statsSyncs EXCEPT ![n] = g]
  /\ users' = [users EXCEPT ![g] = usersOf(n, g) + 1]
  /\ token' = [token EXCEPT ![g] = tokenOf(n, g)]
  /\ pc' = [pc EXCEPT ![c] = "select"]
  /\ nodeOf' = [nodeOf EXCEPT ![c] = n]
  /\ gateOf' = [gateOf EXCEPT ![c] = g]
  /\ done' = [done EXCEPT ![c] = FALSE]

\* The deadline of the sweep or the request passes, or its client leaves.
ContextEnds(c) ==
  /\ pc[c] # "idle" /\ ~ done[c]
  /\ done' = [done EXCEPT ![c] = TRUE]
  /\ UNCHANGED <<statsSyncs, users, token, pc, nodeOf, gateOf>>

\* The send of the select succeeds only when the one-place channel is empty.
\* (mutant of free: a channel with room for one token more than it should have)
freeAlways(g) == TRUE
free(g) == ~ token[g]

\* Line 55: the select sends the token.  With both cases ready Go picks either,
\* so a caller whose context has ended may come this way too.
Send(c) ==
  /\ pc[c] = "select"
  /\ free(gateOf[c])
  /\ token' = [token EXCEPT ![gateOf[c]] = TRUE]
  /\ pc' = [pc EXCEPT ![c] = "sent"]
  /\ UNCHANGED <<statsSyncs, users, nodeOf, gateOf, done>>

\* Line 61: the caller has the gate.
Granted(c) ==
  /\ pc[c] = "sent" /\ ~ done[c]
  /\ pc' = [pc EXCEPT ![c] = "hold"]
  /\ UNCHANGED <<statsSyncs, users, token, nodeOf, gateOf, done>>

\* What a receive leaves in the channel.
\* (mutant of received: the early return of lines 56-60 forgets to take the token out)
receivedOnlyHeld(c) == [token EXCEPT ![gateOf[c]] = pc[c] = "sent"]
received(c) == [token EXCEPT ![gateOf[c]] = FALSE]

\* Line 57 and line 61: take the token out, either because the context had ended
\* by the time it went in or because the collection is over.
Receive(c) ==
  /\ \/ pc[c] = "sent" /\ done[c]
     \/ pc[c] = "hold"
  /\ token[gateOf[c]]
  /\ token' = received(c)
  /\ pc' = [pc EXCEPT ![c] = "drop"]
  /\ UNCHANGED <<statsSyncs, users, nodeOf, gateOf, done>>

\* releaseRef drops the map's entry with the last user.
\* (mutant of last: the entry never goes)
lastNever(g) == FALSE
last(g) == users[g] = 1

\* Lines 46-53, releaseRef, under statsSyncMu.
dropRef(c) ==
  LET g == gateOf[c] IN
  /\ users' = [users EXCEPT ![g] = @ - 1]
  /\ statsSyncs' = IF last(g) THEN [statsSyncs EXCEPT ![nodeOf[c]] = NoGate]
                              ELSE statsSyncs
  /\ pc' = [pc EXCEPT ![c] = "idle"]
  /\ UNCHANGED <<token, nodeOf, gateOf, done>>

releaseRef(c) == pc[c] = "drop" /\ dropRef(c)

\* Lines 62-64: the context ends first.
GiveUp(c) == pc[c] = "select" /\ done[c] /\ dropRef(c)

Step(c) ==
  \/ Send(c)
  \/ Granted(c)
  \/ Receive(c)
  \/ releaseRef(c)
  \/ GiveUp(c)

Next ==
  \E c \in Callers :
    \/ \E n \in Nodes, g \in Gates : Enter(c, n, g)
    \/ ContextEnds(c)
    \/ Step(c)

Spec == Init /\ [][Next]_vars

----------------------------------------------------------------------------

TypeOK ==
  /\ statsSyncs \in [Nodes -> Gates \cup {NoGate}]
  /\ users \in [Gates -> Nat]
  /\ token \in [Gates -> BOOLEAN]
  /\ pc \in [Callers -> Places]
  /\ nodeOf \in [Callers -> Nodes]
  /\ gateOf \in [Callers -> Gates]
  /\ done \in [Callers -> BOOLEAN]

holding(n) == {c \in Callers : pc[c] = "hold" /\ nodeOf[c] = n}

\* Two collections never read and acknowledge one agent's buffer at the same time:
\* the comment at lines 26-28, "two manual/scheduled readers of one agent would
\* otherwise persist the same buffered snapshot".  A gate that leaves the map while
\* somebody still waits on it would let the next caller make a second one.
OneSyncPerNode == \A n \in Nodes : \A c, d \in holding(n) : c = d

\* "Idle gates are removed so deleted nodes do not accumulate" (line 28): a node
\* with an entry in the map has a caller that is counted in it, and the count is
\* the number of such callers, so the last of them takes the entry away.
NoIdleGate ==
  \A n \in Nodes : statsSyncs[n] # NoGate =>
    /\ refs(statsSyncs[n]) # {}
    /\ users[statsSyncs[n]] = Cardinality(refs(statsSyncs[n]))

\* A caller waits at the select only for collections that end: it gets the gate or
\* leaves with its context's error.
NobodyWaitsForEver == \A c \in Callers : pc[c] = "select" ~> pc[c] # "select"

heldNow == [n \in Nodes |-> holding(n)]
Mutex == INSTANCE NodeMutex WITH held <- heldNow

\* The gate implements the mutex its callers count on: a node passes from one
\* collection to the next only through a state in which nobody holds it, and what
\* happens at one node leaves the others alone.
MutexSpec == Mutex!Spec
====
