--------------------------- MODULE TrafficSyncProofs ---------------------------
(***************************************************************************)
(* Proofs about the hub's stats gate and about the traffic sync behind it.  *)
(*                                                                         *)
(* The gate (StatsGate), for any finite set of callers and any nodes.  A    *)
(* gate leaves the map when its count reaches zero, so everything rests on  *)
(* the count being right (Counted) and on every caller's gate being the one *)
(* the map has for its node (Mapped): then a caller that arrives while      *)
(* another is counted gets the same gate, and the one-place channel of that *)
(* gate separates them (Tokens).  Separate keeps two nodes from sharing a   *)
(* gate, so that the last user of a gate removes the entry of its own node  *)
(* and no other.                                                            *)
(*                                                                         *)
(* The sync (TrafficSync), for one node (OneNode) and any callers, any      *)
(* number of hours and of bytes, and any number of contexts that end, calls *)
(* that fail and deaths of the hub.  A caller in a sync holds the gate      *)
(* (Guarded), so there is one at most.                                      *)
(* BookedOnce bounds what is booked and still held; when the agent drops    *)
(* what was read that is not enough, because a late acknowledgement may     *)
(* have dropped some of it before: Covered says that the bookings alone,    *)
(* the one to come included, are within the bound too.  OlderHoursBooked    *)
(* needs that bytes come into the running hour only (Past), which no batch  *)
(* reaches beyond, so that what a batch was read from has not grown in the  *)
(* hours before its newest (ReadOnce).                                      *)
(***************************************************************************)
EXTENDS TrafficSync, FiniteSetTheorems, WellFoundedInduction, TLAPS

--------------------------------------------------------------------------------
(***************************************************************************)
(* The gate, for any finite set of callers and any nodes: it is a mutex per *)
(* node and leaves no gate behind.                                          *)
(***************************************************************************)

Counted == \A g \in Gates : users[g] = Cardinality(refs(g))

Mapped == \A c \in Callers : pc[c] # "idle" => statsSyncs[nodeOf[c]] = gateOf[c]

Used ==
  \A n \in Nodes : statsSyncs[n] # NoGate =>
    \E c \in Callers : pc[c] # "idle" /\ gateOf[c] = statsSyncs[n]

Separate == \A m, n \in Nodes : statsSyncs[m] = statsSyncs[n] /\ statsSyncs[m] # NoGate => m = n

\* The channel is full exactly while one caller's token is in it.
Tokens ==
  \A c \in Callers : pc[c] \in {"sent", "hold"} =>
    /\ token[gateOf[c]]
    /\ \A d \in Callers : pc[d] \in {"sent", "hold"} /\ gateOf[d] = gateOf[c] => d = c

\* A full channel holds somebody's token, so that a fresh gate's is empty.
Owned == \A g \in Gates : token[g] =>
  \E c \in Callers : pc[c] \in {"sent", "hold"} /\ gateOf[c] = g

IInv == TypeOK /\ Counted /\ Mapped /\ Used /\ Separate /\ Tokens /\ Owned

\* The users of a gate are among the callers, so they can be counted.
LEMMA RefsFinite ==
  ASSUME NEW g
  PROVE  IsFiniteSet(refs(g))
BY CallersFinite, FS_Subset DEF refs

LEMMA InitHolds == Init => IInv
<1> SUFFICES ASSUME Init PROVE IInv
  OBVIOUS
<1>1. \A g \in Gates : refs(g) = {}
  BY DEF Init, refs
<1>2. Counted
  BY <1>1, FS_EmptySet DEF Init, Counted
<1>3. TypeOK
  BY DEF Init, TypeOK, Places
<1>4. Mapped /\ Used /\ Separate /\ Tokens /\ Owned
  BY DEF Init, Mapped, Used, Separate, Tokens, Owned
<1> QED BY <1>2, <1>3, <1>4 DEF IInv

\* Who is counted where after a caller comes in.
LEMMA EnterRefs ==
  ASSUME IInv, NEW c \in Callers, NEW n \in Nodes, NEW g \in Gates, Enter(c, n, g)
  PROVE  /\ c \notin refs(g)
         /\ refs(g)' = refs(g) \cup {c}
         /\ \A h \in Gates \ {g} : refs(h)' = refs(h)
<1> USE DEF IInv, TypeOK, Enter, refs
<1>1. c \notin refs(g)
  OBVIOUS
<1>2. refs(g)' = refs(g) \cup {c}
  OBVIOUS
<1>3. ASSUME NEW h \in Gates \ {g} PROVE refs(h)' = refs(h)
  BY <1>3
<1> QED BY <1>1, <1>2, <1>3

LEMMA EnterHolds ==
  ASSUME IInv, NEW c \in Callers, NEW n \in Nodes, NEW g \in Gates, Enter(c, n, g)
  PROVE  IInv'
<1>1. TypeOK'
  <2>1. usersOf(n, g) + 1 \in Nat
    BY DEF IInv, TypeOK, usersOf
  <2>2. token[g] \in BOOLEAN
    BY DEF IInv, TypeOK
  <2>3. tokenOf(n, g) \in BOOLEAN
    BY <2>2, Zenon DEF tokenOf
  <2> QED BY <2>1, <2>3 DEF IInv, TypeOK, Enter, Places
<1>2. Counted'
  <2> SUFFICES ASSUME NEW h \in Gates PROVE users'[h] = Cardinality(refs(h)')
    BY DEF Counted
  <2>1. CASE h # g
    <3>1. refs(h)' = refs(h)
      BY <2>1, EnterRefs
    <3>2. users'[h] = users[h]
      BY <2>1 DEF Enter, IInv, TypeOK
    <3> QED BY <3>1, <3>2 DEF IInv, Counted
  <2>2. CASE h = g
    <3>1. usersOf(n, g) = Cardinality(refs(g))
      <4>1. CASE statsSyncs[n] = NoGate
        <5>1. refs(g) = {}
          BY <4>1 DEF Enter, gateFor, fresh
        <5> QED BY <4>1, <5>1, FS_EmptySet DEF usersOf
      <4>2. CASE statsSyncs[n] # NoGate
        BY <4>2 DEF usersOf, IInv, Counted
      <4> QED BY <4>1, <4>2
    <3>2. Cardinality(refs(g) \cup {c}) = Cardinality(refs(g)) + 1
      BY EnterRefs, RefsFinite, FS_AddElement
    <3>3. users'[g] = usersOf(n, g) + 1
      BY DEF Enter, IInv, TypeOK
    <3> QED BY <2>2, <3>1, <3>2, <3>3, EnterRefs
  <2> QED BY <2>1, <2>2
<1>3. \A m \in Nodes : statsSyncs'[m] = IF m = n THEN g ELSE statsSyncs[m]
  BY DEF Enter, IInv, TypeOK
<1>4. statsSyncs[n] \in {NoGate, g}
  BY DEF Enter, gateFor
<1>5. Mapped'
  <2> SUFFICES ASSUME NEW d \in Callers, pc'[d] # "idle"
               PROVE  statsSyncs'[nodeOf'[d]] = gateOf'[d]
    BY DEF Mapped
  <2>1. CASE d = c
    BY <2>1, <1>3 DEF Enter, IInv, TypeOK
  <2>2. CASE d # c
    <3>1. pc'[d] = pc[d] /\ nodeOf'[d] = nodeOf[d] /\ gateOf'[d] = gateOf[d]
      BY <2>2 DEF Enter, IInv, TypeOK
    <3>2. statsSyncs[nodeOf[d]] = gateOf[d] /\ gateOf[d] \in Gates /\ nodeOf[d] \in Nodes
      BY <3>1 DEF IInv, Mapped, TypeOK
    <3> QED BY <3>1, <3>2, <1>3, <1>4, NoGateIsNone
  <2> QED BY <2>1, <2>2
<1>6. Used'
  <2> SUFFICES ASSUME NEW m \in Nodes, statsSyncs'[m] # NoGate
               PROVE  \E d \in Callers : pc'[d] # "idle" /\ gateOf'[d] = statsSyncs'[m]
    BY DEF Used
  <2>1. CASE statsSyncs'[m] = g
    BY <2>1 DEF Enter, IInv, TypeOK
  <2>2. CASE statsSyncs'[m] # g
    <3>1. statsSyncs'[m] = statsSyncs[m] /\ statsSyncs[m] \in Gates \ {g}
      BY <2>2, <1>3 DEF IInv, TypeOK
    <3>2. PICK d \in Callers : pc[d] # "idle" /\ gateOf[d] = statsSyncs[m]
      BY <3>1, NoGateIsNone DEF IInv, Used
    <3>3. pc'[d] # "idle" /\ gateOf'[d] = statsSyncs'[m]
      BY <3>1, <3>2 DEF Enter, IInv, TypeOK
    <3> QED BY <3>3
  <2> QED BY <2>1, <2>2
<1>7. Separate'
  BY <1>3 DEF Separate, IInv, Enter, gateFor, fresh
<1>8. /\ \A d \in Callers : d # c => pc'[d] = pc[d] /\ gateOf'[d] = gateOf[d]
      /\ pc'[c] = "select"
  BY DEF Enter, IInv, TypeOK
<1>9. ASSUME NEW d \in Callers, pc[d] \in {"sent", "hold"}
      PROVE  token'[gateOf[d]] = token[gateOf[d]]
  <2>1. gateOf[d] \in Gates /\ d \in refs(gateOf[d])
    BY <1>9 DEF IInv, TypeOK, refs
  <2>2. CASE gateOf[d] = g
    <3>1. statsSyncs[n] # NoGate
      BY <2>1, <2>2 DEF Enter, gateFor, fresh
    <3> QED BY <3>1, <2>2 DEF Enter, tokenOf, IInv, TypeOK
  <2>3. CASE gateOf[d] # g
    BY <2>3, <2>1 DEF Enter, IInv, TypeOK
  <2> QED BY <2>2, <2>3
<1>10. Tokens'
  <2> SUFFICES ASSUME NEW d \in Callers, pc'[d] \in {"sent", "hold"}
               PROVE  /\ token'[gateOf'[d]]
                      /\ \A e \in Callers : pc'[e] \in {"sent", "hold"} /\ gateOf'[e] = gateOf'[d] => e = d
    BY DEF Tokens
  <2>1. d # c /\ pc[d] \in {"sent", "hold"} /\ gateOf'[d] = gateOf[d]
    BY <1>8
  <2>2. token'[gateOf'[d]]
    BY <2>1, <1>9 DEF IInv, Tokens
  <2>3. ASSUME NEW e \in Callers, pc'[e] \in {"sent", "hold"}, gateOf'[e] = gateOf'[d]
        PROVE  e = d
    BY <2>1, <2>3, <1>8 DEF IInv, Tokens
  <2> QED BY <2>2, <2>3
<1>11. Owned'
  <2> SUFFICES ASSUME NEW h \in Gates, token'[h]
               PROVE  \E d \in Callers : pc'[d] \in {"sent", "hold"} /\ gateOf'[d] = h
    BY DEF Owned
  <2>1. token[h]
    BY DEF Enter, tokenOf, IInv, TypeOK
  <2>2. PICK d \in Callers : pc[d] \in {"sent", "hold"} /\ gateOf[d] = h
    BY <2>1 DEF IInv, Owned
  <2>3. d # c
    BY <2>2 DEF Enter
  <2> QED BY <2>2, <2>3, <1>8
<1> QED BY <1>1, <1>2, <1>5, <1>6, <1>7, <1>10, <1>11 DEF IInv

\* A step that moves one caller between two places at which it is counted leaves
\* the counts and the map alone.
LEMMA MoveHolds ==
  ASSUME IInv, NEW c \in Callers, NEW p \in Places \ {"idle"}, pc[c] # "idle",
         pc' = [pc EXCEPT ![c] = p],
         UNCHANGED <<statsSyncs, users, nodeOf, gateOf>>
  PROVE  Counted' /\ Mapped' /\ Used' /\ Separate'
<1>1. \A d \in Callers : pc'[d] # "idle" <=> pc[d] # "idle"
  BY DEF IInv, TypeOK
<1>2. \A g : refs(g)' = refs(g)
  BY <1>1 DEF refs
<1>3. Counted'
  BY <1>2 DEF Counted, IInv
<1>4. Mapped'
  BY <1>1 DEF Mapped, IInv
<1>5. Used'
  BY <1>2 DEF Used, IInv
<1>6. Separate'
  BY DEF Separate, IInv
<1> QED BY <1>3, <1>4, <1>5, <1>6

LEMMA SendHolds ==
  ASSUME IInv, NEW c \in Callers, Send(c)
  PROVE  IInv'
<1>1. TypeOK'
  BY DEF IInv, TypeOK, Send, Places
<1>2. Counted' /\ Mapped' /\ Used' /\ Separate'
  BY MoveHolds DEF Send, Places
<1>3. /\ \A d \in Callers : pc'[d] = IF d = c THEN "sent" ELSE pc[d]
      /\ \A g \in Gates : token'[g] = (g = gateOf[c] \/ token[g])
      /\ gateOf' = gateOf /\ gateOf[c] \in Gates /\ ~ token[gateOf[c]]
  BY DEF Send, free, IInv, TypeOK
<1>4. \A d \in Callers : pc[d] \in {"sent", "hold"} =>
        gateOf[d] # gateOf[c] /\ gateOf[d] \in Gates
  BY <1>3 DEF IInv, Tokens, TypeOK
<1>5. Tokens'
  <2> SUFFICES ASSUME NEW d \in Callers, pc'[d] \in {"sent", "hold"}
               PROVE  /\ token'[gateOf[d]]
                      /\ \A e \in Callers : pc'[e] \in {"sent", "hold"} /\ gateOf[e] = gateOf[d] => e = d
    BY <1>3 DEF Tokens
  <2>1. CASE d = c
    BY <2>1, <1>3, <1>4
  <2>2. CASE d # c
    BY <2>2, <1>3, <1>4 DEF IInv, Tokens
  <2> QED BY <2>1, <2>2
<1>6. Owned'
  BY <1>3 DEF Owned, IInv
<1> QED BY <1>1, <1>2, <1>5, <1>6 DEF IInv

LEMMA GrantedHolds ==
  ASSUME IInv, NEW c \in Callers, Granted(c)
  PROVE  IInv'
<1>1. TypeOK'
  BY DEF IInv, TypeOK, Granted, Places
<1>2. Counted' /\ Mapped' /\ Used' /\ Separate'
  BY MoveHolds DEF Granted, Places
<1>3. /\ \A d \in Callers : pc'[d] \in {"sent", "hold"} <=> pc[d] \in {"sent", "hold"}
      /\ gateOf' = gateOf /\ token' = token
  BY DEF Granted, IInv, TypeOK
<1>4. Tokens' /\ Owned'
  BY <1>3 DEF Tokens, Owned, IInv
<1> QED BY <1>1, <1>2, <1>4 DEF IInv

LEMMA ReceiveHolds ==
  ASSUME IInv, NEW c \in Callers, Receive(c)
  PROVE  IInv'
<1>1. TypeOK'
  BY DEF IInv, TypeOK, Receive, received, Places
<1>2. Counted' /\ Mapped' /\ Used' /\ Separate'
  BY MoveHolds DEF Receive, Places
<1>3. /\ \A d \in Callers : pc'[d] = IF d = c THEN "drop" ELSE pc[d]
      /\ \A g \in Gates : token'[g] = (g # gateOf[c] /\ token[g])
      /\ gateOf' = gateOf /\ gateOf[c] \in Gates
      /\ pc[c] \in {"sent", "hold"}
  BY DEF Receive, received, IInv, TypeOK
<1>4. \A d \in Callers : pc[d] \in {"sent", "hold"} /\ d # c => gateOf[d] # gateOf[c]
  BY <1>3 DEF IInv, Tokens
<1>5. Tokens'
  BY <1>3, <1>4 DEF Tokens, IInv, TypeOK
<1>6. Owned'
  BY <1>3, <1>4 DEF Owned, IInv
<1> QED BY <1>1, <1>2, <1>5, <1>6 DEF IInv

\* The last user of a gate is the only caller that refers to it.
LEMMA LastIsAlone ==
  ASSUME IInv, NEW c \in Callers, pc[c] # "idle"
  PROVE  /\ gateOf[c] \in Gates
         /\ users[gateOf[c]] \in Nat \ {0}
         /\ Cardinality(refs(gateOf[c]) \ {c}) = users[gateOf[c]] - 1
         /\ last(gateOf[c]) <=> refs(gateOf[c]) = {c}
<1> DEFINE g == gateOf[c]
<1>1. g \in Gates /\ c \in refs(g)
  BY DEF IInv, TypeOK, refs
<1>2. users[g] = Cardinality(refs(g)) /\ users[g] \in Nat
  BY <1>1 DEF IInv, Counted, TypeOK
<1>3. IsFiniteSet(refs(g) \ {c}) /\ Cardinality(refs(g) \ {c}) = Cardinality(refs(g)) - 1
  BY <1>1, RefsFinite, FS_RemoveElement
<1>4. Cardinality(refs(g) \ {c}) \in Nat
  BY <1>3, FS_CardinalityType
<1>5. Cardinality(refs(g) \ {c}) = 0 <=> refs(g) \ {c} = {}
  BY <1>3, FS_EmptySet
<1> QED BY <1>1, <1>2, <1>3, <1>4, <1>5 DEF last

LEMMA DropHolds ==
  ASSUME IInv, NEW c \in Callers, pc[c] \in {"select", "drop"}, dropRef(c)
  PROVE  IInv'
<1> DEFINE g == gateOf[c]
<1>1. /\ g \in Gates /\ nodeOf[c] \in Nodes /\ statsSyncs[nodeOf[c]] = g
      /\ users[g] \in Nat \ {0} /\ c \in refs(g)
      /\ Cardinality(refs(g) \ {c}) = users[g] - 1
      /\ last(g) <=> refs(g) = {c}
  BY LastIsAlone DEF IInv, TypeOK, Mapped, refs
<1>2. /\ \A d \in Callers : pc'[d] = IF d = c THEN "idle" ELSE pc[d]
      /\ \A h \in Gates : users'[h] = IF h = g THEN users[g] - 1 ELSE users[h]
      /\ \A n \in Nodes : statsSyncs'[n] = IF n = nodeOf[c] /\ last(g) THEN NoGate ELSE statsSyncs[n]
      /\ UNCHANGED <<token, nodeOf, gateOf, done>>
  BY <1>1 DEF dropRef, IInv, TypeOK
<1>3. \A h \in Gates : refs(h)' = refs(h) \ {c}
  BY <1>2 DEF refs
<1>4. \A h \in Gates : h # g => c \notin refs(h)
  BY DEF refs
<1>5. TypeOK'
  BY <1>1 DEF dropRef, IInv, TypeOK, Places
<1>6. Counted'
  <2> SUFFICES ASSUME NEW h \in Gates PROVE users'[h] = Cardinality(refs(h)')
    BY DEF Counted
  <2>1. CASE h = g
    BY <2>1, <1>1, <1>2, <1>3
  <2>2. CASE h # g
    <3>1. refs(h) \ {c} = refs(h)
      BY <2>2, <1>4
    <3> QED BY <2>2, <3>1, <1>2, <1>3 DEF IInv, Counted
  <2> QED BY <2>1, <2>2
<1>7. Mapped'
  <2> SUFFICES ASSUME NEW d \in Callers, pc'[d] # "idle"
               PROVE  statsSyncs'[nodeOf'[d]] = gateOf'[d]
    BY DEF Mapped
  <2>1. d # c /\ pc[d] # "idle" /\ statsSyncs[nodeOf[d]] = gateOf[d] /\ nodeOf[d] \in Nodes
    BY <1>2 DEF IInv, Mapped, TypeOK
  <2>2. last(g) => nodeOf[d] # nodeOf[c]
    BY <1>1, <2>1 DEF refs
  <2> QED BY <2>1, <2>2, <1>2
<1>8. Used'
  <2> SUFFICES ASSUME NEW n \in Nodes, statsSyncs'[n] # NoGate
               PROVE  \E d \in Callers : pc'[d] # "idle" /\ gateOf'[d] = statsSyncs'[n]
    BY DEF Used
  <2>1. statsSyncs'[n] = statsSyncs[n] /\ statsSyncs[n] \in Gates
    BY <1>2 DEF IInv, TypeOK
  <2>2. refs(statsSyncs[n]) # {c}
    <3>1. CASE statsSyncs[n] = g
      <4>1. n = nodeOf[c]
        BY <3>1, <1>1, NoGateIsNone DEF IInv, Separate
      <4> QED BY <4>1, <3>1, <2>1, <1>1, <1>2, NoGateIsNone
    <3>2. CASE statsSyncs[n] # g
      BY <3>2, <2>1, <1>4
    <3> QED BY <3>1, <3>2
  <2>3. refs(statsSyncs[n]) # {}
    BY <2>1, NoGateIsNone DEF IInv, Used, refs
  <2>4. refs(statsSyncs[n]) \ {c} # {}
    BY <2>2, <2>3
  <2>5. PICK d \in refs(statsSyncs[n]) : d # c
    BY <2>4
  <2>6. pc'[d] # "idle" /\ gateOf'[d] = statsSyncs'[n] /\ d \in Callers
    BY <2>1, <2>5, <1>2 DEF refs
  <2> QED BY <2>6
<1>9. Separate'
  BY <1>2 DEF IInv, Separate
<1>10. Tokens'
  BY <1>2 DEF IInv, Tokens
<1>11. Owned'
  BY <1>2 DEF IInv, Owned
<1> QED BY <1>5, <1>6, <1>7, <1>8, <1>9, <1>10, <1>11 DEF IInv

\* The strengthened invariant is kept by every step.
THEOREM Inductive == IInv /\ [Next]_vars => IInv'
<1> SUFFICES ASSUME IInv, [Next]_vars PROVE IInv'
  OBVIOUS
<1>1. ASSUME NEW c \in Callers, NEW n \in Nodes, NEW g \in Gates, Enter(c, n, g) PROVE IInv'
  BY <1>1, EnterHolds
<1>2. ASSUME NEW c \in Callers, ContextEnds(c) PROVE IInv'
  <2>1. TypeOK'
    BY <1>2 DEF ContextEnds, IInv, TypeOK
  <2>2. \A g : refs(g)' = refs(g)
    BY <1>2 DEF ContextEnds, refs
  <2>3. Counted' /\ Used'
    BY <1>2, <2>2 DEF ContextEnds, IInv, Counted, Used
  <2>4. Mapped' /\ Separate' /\ Tokens' /\ Owned'
    BY <1>2 DEF ContextEnds, IInv, Mapped, Separate, Tokens, Owned
  <2> QED BY <2>1, <2>3, <2>4 DEF IInv
<1>3. ASSUME NEW c \in Callers, Step(c) PROVE IInv'
  <2>1. CASE Send(c)
    BY <2>1, SendHolds
  <2>2. CASE Granted(c)
    BY <2>2, GrantedHolds
  <2>3. CASE Receive(c)
    BY <2>3, ReceiveHolds
  <2>4. CASE releaseRef(c)
    BY <2>4, DropHolds DEF releaseRef
  <2>5. CASE GiveUp(c)
    BY <2>5, DropHolds DEF GiveUp
  <2> QED BY <1>3, <2>1, <2>2, <2>3, <2>4, <2>5 DEF Step
<1>4. CASE UNCHANGED vars
  <2>1. \A g : refs(g)' = refs(g)
    BY <1>4 DEF vars, refs
  <2>2. Counted' /\ Used'
    BY <1>4, <2>1 DEF vars, IInv, Counted, Used
  <2>3. TypeOK' /\ Mapped' /\ Separate' /\ Tokens' /\ Owned'
    BY <1>4 DEF vars, IInv, TypeOK, Mapped, Separate, Tokens, Owned
  <2> QED BY <2>2, <2>3 DEF IInv
<1> QED BY <1>1, <1>2, <1>3, <1>4 DEF Next

THEOREM Invariance == Spec => []IInv
BY InitHolds, Inductive, PTL DEF Spec

\* Two callers that hold the same node are one caller.
LEMMA Alone ==
  ASSUME IInv, NEW c \in Callers, NEW d \in Callers,
         pc[c] \in {"sent", "hold"}, pc[d] \in {"sent", "hold"}, nodeOf[c] = nodeOf[d]
  PROVE  c = d
<1>1. gateOf[c] = gateOf[d]
  BY DEF IInv, Mapped
<1> QED BY <1>1 DEF IInv, Tokens

\* For any finite set of callers, a node is collected from by at most one of them.
THEOREM Exclusion == Spec => []OneSyncPerNode
<1>1. IInv => OneSyncPerNode
  BY Alone DEF OneSyncPerNode, holding
<1> QED BY <1>1, Invariance, PTL

\* The map holds no gate without users, and the count of one is exact.
THEOREM NoLeak == Spec => []NoIdleGate
<1>1. IInv => NoIdleGate
  BY DEF IInv, Used, Counted, NoIdleGate, TypeOK, refs
<1> QED BY <1>1, Invariance, PTL

\* The variables keep their types; in particular no count falls below zero.
THEOREM Typed == Spec => []TypeOK
<1>1. IInv => TypeOK
  BY DEF IInv
<1> QED BY <1>1, Invariance, PTL

\* A step that changes nobody's hold is a stutter of the mutex.
LEMMA SameHold ==
  ASSUME NEW c \in Callers, IInv,
         \A d \in Callers : (pc'[d] = "hold" <=> pc[d] = "hold") /\ (pc[d] = "hold" => nodeOf'[d] = nodeOf[d])
  PROVE  heldNow' = heldNow
BY DEF heldNow, holding

\* Being granted the gate is Take, the end of a collection is Leave, and every other
\* step at the gate leaves the holders alone.
LEMMA MutexStep ==
  ASSUME IInv, IInv', [Next]_vars
  PROVE  [Mutex!Next]_heldNow
<1>1. ASSUME NEW c \in Callers, NEW n \in Nodes, NEW g \in Gates, Enter(c, n, g)
      PROVE  heldNow' = heldNow
  BY <1>1, SameHold DEF Enter, IInv, TypeOK
<1>2. ASSUME NEW c \in Callers, ContextEnds(c) PROVE heldNow' = heldNow
  BY <1>2, SameHold DEF ContextEnds
<1>3. ASSUME NEW c \in Callers, Send(c) PROVE heldNow' = heldNow
  BY <1>3, SameHold DEF Send, IInv, TypeOK
<1>4. ASSUME NEW c \in Callers, Granted(c) PROVE Mutex!Next
  <2>1. nodeOf[c] \in Nodes /\ pc[c] = "sent" /\ nodeOf' = nodeOf
        /\ \A d \in Callers : pc'[d] = IF d = c THEN "hold" ELSE pc[d]
    BY <1>4 DEF Granted, IInv, TypeOK
  <2>2. holding(nodeOf[c]) = {}
    BY <2>1, Alone DEF holding
  <2>3. \A n \in Nodes : holding(n)' = IF n = nodeOf[c] THEN holding(n) \cup {c} ELSE holding(n)
    BY <2>1 DEF holding
  <2>4. Mutex!Take(c, nodeOf[c])
    BY <2>1, <2>2, <2>3 DEF Mutex!Take, heldNow
  <2> QED BY <2>1, <2>4 DEF Mutex!Next
<1>5. ASSUME NEW c \in Callers, Receive(c) PROVE Mutex!Next \/ heldNow' = heldNow
  <2>1. nodeOf[c] \in Nodes /\ pc[c] \in {"sent", "hold"} /\ nodeOf' = nodeOf
        /\ \A d \in Callers : pc'[d] = IF d = c THEN "drop" ELSE pc[d]
    BY <1>5 DEF Receive, IInv, TypeOK
  <2>2. CASE pc[c] = "sent"
    BY <2>1, <2>2, SameHold
  <2>3. CASE pc[c] = "hold"
    <3>1. holding(nodeOf[c]) = {c}
      BY <2>1, <2>3, Alone DEF holding
    <3>2. \A n \in Nodes : holding(n)' = IF n = nodeOf[c] THEN holding(n) \ {c} ELSE holding(n)
      BY <2>1 DEF holding
    <3>3. Mutex!Leave(c, nodeOf[c])
      BY <2>1, <3>1, <3>2 DEF Mutex!Leave, heldNow
    <3> QED BY <2>1, <3>3 DEF Mutex!Next
  <2> QED BY <2>1, <2>2, <2>3
<1>6. ASSUME NEW c \in Callers, releaseRef(c) \/ GiveUp(c) PROVE heldNow' = heldNow
  BY <1>6, SameHold DEF releaseRef, GiveUp, dropRef, IInv, TypeOK
<1>7. CASE UNCHANGED vars
  BY <1>7 DEF vars, heldNow, holding
<1> QED BY <1>1, <1>2, <1>3, <1>4, <1>5, <1>6, <1>7 DEF Next, Step

\* The gate implements a mutex per node.
THEOREM Refinement == Spec => MutexSpec
<1>1. Init => Mutex!Init
  BY DEF Init, Mutex!Init, heldNow, holding
<1> QED BY <1>1, MutexStep, Invariance, PTL DEF Spec, MutexSpec, Mutex!Spec

--------------------------------------------------------------------------------
(***************************************************************************)
(* The newest hour of a batch.                                              *)
(***************************************************************************)

\* A batch is a number of bytes for every hour.
Batches == [Hours -> Nat]

\* A set of numbers up to a bound, with 0 in it, has a greatest.
LEMMA MaxExists ==
  ASSUME NEW n \in Nat, NEW S \in SUBSET (0..n), 0 \in S
  PROVE  Max(S) \in S /\ \A x \in S : x <= Max(S)
<1> DEFINE T == {k \in 0..n : n - k \in S}
           R == OpToRel(<, Nat)
<1>1. T \subseteq Nat /\ n \in T
  OBVIOUS
<1>2. IsWellFoundedOn(R, Nat)
  BY NatLessThanWellFounded
<1>3. PICK k \in T : \A j \in T : ~ (<<j, k>> \in R)
  <2> HIDE DEF T, R
  <2> QED BY <1>1, <1>2, WFMin
<1>4. \A j \in T : ~ (j < k)
  BY <1>1, <1>3 DEF OpToRel
<1>5. \A x \in S : x <= n - k
  <2> TAKE x \in S
  <2>1. n - x \in T
    OBVIOUS
  <2> QED BY <2>1, <1>4
<1>6. n - k \in S
  OBVIOUS
<1> HIDE DEF T
<1>7. \E x \in S : \A y \in S : x >= y
  BY <1>5, <1>6
<1>8. Max(S) \in S /\ \A y \in S : Max(S) >= y
  BY <1>7 DEF Max
<1> QED BY <1>8

\* through names the last hour of a batch with bytes in it, or 0.
LEMMA Through ==
  ASSUME NEW b \in Batches
  PROVE  /\ through(b) \in Nat /\ through(b) <= MaxHour
         /\ through(b) > 0 => through(b) \in Hours /\ b[through(b)] # 0
         /\ \A h \in Hours : h > through(b) => b[h] = 0
<1> DEFINE S == {0} \cup {h \in Hours : b[h] # 0}
<1>1. MaxHour \in Nat /\ S \in SUBSET (0..MaxHour) /\ 0 \in S
  BY SyncBounds DEF Hours
<1>2. Max(S) \in S /\ \A x \in S : x <= Max(S)
  <2> HIDE DEF S
  <2> QED BY <1>1, MaxExists
<1>3. through(b) = Max(S)
  BY DEF through
<1> QED BY <1>1, <1>2, <1>3 DEF Hours, Batches

--------------------------------------------------------------------------------
(***************************************************************************)
(* The inductive invariant.                                                 *)
(***************************************************************************)
Phases == {"over", "begun", "collected", "booked"}

SyncTypes ==
  /\ hour \in Nat /\ trouble \in Nat
  /\ buckets \in Batches /\ put \in Batches /\ booked \in Batches /\ unsure \in Batches
  /\ phase \in [Callers -> Phases] /\ export \in [Callers -> Batches]
  /\ late \subseteq Batches

\* A sync is between the grant of its gate and the release.
Guarded == \A c \in Callers : phase[c] # "over" => pc[c] = "hold"

\* The agent has nothing of an hour to come, and nobody has read such a thing.
Past ==
  /\ \A h \in Hours : h > hour => buckets[h] = 0
  /\ \A e \in late : through(e) <= hour
  /\ \A c \in Callers : phase[c] \in {"collected", "booked"} => through(export[c]) <= hour

\* What a batch was read from has not grown but in its newest hour.
ReadOnce ==
  \A c \in Callers : phase[c] \in {"collected", "booked"} =>
    \A h \in Hours : h < through(export[c]) => buckets[h] <= export[c][h]

\* A batch that is booked now, or was, goes beyond what the agent collected only by bytes
\* whose acknowledgement nobody saw.
Covered ==
  \A c \in Callers : \A h \in Hours :
    /\ phase[c] = "collected" => booked[h] + export[c][h] <= put[h] + unsure[h]
    /\ phase[c] = "booked" => booked[h] <= put[h] + unsure[h]

\* Syncs of several nodes run side by side; the accounts below are those of one.
OneNode == \E n \in Nodes : Nodes = {n}

SyncInv ==
  OneNode /\ IInv /\ SyncTypes /\ Guarded /\ Past /\ ReadOnce /\ Covered /\ BookedOnce /\ OlderHoursBooked

\* One node, so one sync at a time.
LEMMA OneSync ==
  ASSUME OneNode, IInv, Guarded, NEW c \in Callers, NEW d \in Callers, phase[c] # "over", phase[d] # "over"
  PROVE  c = d
<1>1. PICK n : Nodes = {n}
  BY DEF OneNode
<1>2. nodeOf[c] = nodeOf[d]
  BY <1>1 DEF IInv, TypeOK
<1> QED BY <1>2, Alone DEF Guarded

\* The batch under way is that of the caller that has booked one.
LEMMA Underway ==
  ASSUME OneNode, IInv, Guarded
  PROVE  /\ \A c \in Callers : phase[c] = "booked" => inFlight = {c} /\ underway = export[c]
         /\ (\A c \in Callers : phase[c] # "booked") => inFlight = {} /\ underway = Empty
<1>1. ASSUME NEW c \in Callers, phase[c] = "booked"
      PROVE  inFlight = {c} /\ underway = export[c]
  <2>1. inFlight = {c}
    BY <1>1, OneSync DEF inFlight
  <2> QED BY <2>1 DEF underway
<1> QED BY <1>1 DEF inFlight, underway

LEMMA EmptyBatch == Empty \in Batches /\ \A h \in Hours : Empty[h] = 0
BY DEF Empty, Batches

\* It holds at the start.
LEMMA SyncInitHolds == OneNode /\ SyncInit => SyncInv
<1> SUFFICES ASSUME OneNode, SyncInit PROVE SyncInv
  OBVIOUS
<1>1. IInv
  BY InitHolds DEF SyncInit
<1>2. SyncTypes /\ Guarded /\ Past /\ ReadOnce /\ Covered
  BY EmptyBatch DEF SyncInit, SyncTypes, Guarded, Past, ReadOnce, Covered, Phases
<1>3. BookedOnce /\ OlderHoursBooked
  BY EmptyBatch DEF SyncInit, BookedOnce, OlderHoursBooked, inFlight, underway, unseen
<1> QED BY <1>1, <1>2, <1>3 DEF SyncInv

--------------------------------------------------------------------------------
(***************************************************************************)
(* Steps at the gate.                                                       *)
(***************************************************************************)

\* Steps that leave the agent, the syncs and the database alone keep everything but
\* Guarded, whatever they do to the gate.
LEMMA GateStepHolds ==
  ASSUME SyncInv, IInv', Guarded', trouble' \in Nat, UNCHANGED <<agentVars, syncVars, hubVars, late>>
  PROVE  SyncInv'
<1> USE DEF SyncInv, agentVars, syncVars, hubVars
<1>1. SyncTypes' /\ Past' /\ ReadOnce' /\ Covered'
  BY DEF SyncTypes, Past, ReadOnce, Covered, through
<1>2. inFlight' = inFlight /\ underway' = underway
  BY DEF inFlight, underway
<1>3. BookedOnce' /\ OlderHoursBooked'
  BY <1>2 DEF BookedOnce, OlderHoursBooked, unseen, through
<1> QED BY <1>1, <1>3

LEMMA AcquireHolds ==
  ASSUME SyncInv, NEW c \in Callers, Acquire(c)
  PROVE  SyncInv'
<1>1. IInv'
  <2>1. Next
    BY DEF Acquire, Next, Step
  <2> QED BY <2>1, Inductive DEF SyncInv
<1>2. Guarded'
  <2>1. pc[c] # "hold" /\ \A d \in Callers \ {c} : pc'[d] = pc[d]
    BY DEF Acquire, Enter, Send, Receive, GiveUp, dropRef, SyncInv, IInv, TypeOK
  <2> QED BY <2>1 DEF SyncInv, Guarded, Acquire, syncVars
<1> QED BY <1>1, <1>2, GateStepHolds DEF Acquire, SyncInv, SyncTypes

LEMMA BeginHolds ==
  ASSUME SyncInv, NEW c \in Callers, Begin(c)
  PROVE  SyncInv'
<1> USE DEF SyncInv, agentVars, hubVars, Begin
<1>1. IInv'
  <2>1. Next
    BY DEF Next, Step
  <2> QED BY <2>1, Inductive
<1>2. /\ phase' = [phase EXCEPT ![c] = "begun"] /\ phase \in [Callers -> Phases]
      /\ phase[c] = "over" /\ pc' = [pc EXCEPT ![c] = "hold"]
  BY DEF Granted, SyncTypes, Guarded
<1>3. Guarded'
  BY <1>2 DEF Guarded, IInv, TypeOK
<1>4. SyncTypes' /\ Past' /\ ReadOnce' /\ Covered'
  BY <1>2 DEF SyncTypes, Past, ReadOnce, Covered, through, Phases
<1>5. inFlight' = inFlight /\ underway' = underway
  <2>1. \A d \in Callers : phase'[d] = "booked" <=> phase[d] = "booked"
    BY <1>2
  <2>2. inFlight' = inFlight
    BY <2>1 DEF inFlight
  <2> QED BY <2>2 DEF underway, Empty
<1>6. BookedOnce' /\ OlderHoursBooked'
  BY <1>5 DEF BookedOnce, OlderHoursBooked, unseen, through
<1> QED BY <1>1, <1>3, <1>4, <1>6

LEMMA ReleaseHolds ==
  ASSUME SyncInv, NEW c \in Callers, Release(c)
  PROVE  SyncInv'
<1>1. IInv'
  <2>1. Next
    BY DEF Release, Next, Step
  <2> QED BY <2>1, Inductive DEF SyncInv
<1>2. Guarded'
  <2>1. phase[c] = "over" /\ \A d \in Callers \ {c} : pc'[d] = pc[d]
    BY DEF Release, Receive, releaseRef, dropRef, SyncInv, IInv, TypeOK, Guarded
  <2> QED BY <2>1 DEF SyncInv, Guarded, Release, syncVars
<1> QED BY <1>1, <1>2, GateStepHolds DEF Release, SyncInv, SyncTypes

LEMMA DeadlineHolds ==
  ASSUME SyncInv, NEW c \in Callers, Deadline(c)
  PROVE  SyncInv'
<1>1. IInv'
  <2>1. Next
    BY DEF Deadline, Next
  <2> QED BY <2>1, Inductive DEF SyncInv
<1>2. Guarded' /\ trouble' \in Nat
  BY DEF SyncInv, SyncTypes, Guarded, Deadline, ContextEnds, syncVars
<1> QED BY <1>1, <1>2, GateStepHolds DEF Deadline

\* A step that leaves the gate alone keeps its invariant.
LEMMA GateUntouched ==
  ASSUME IInv, UNCHANGED vars
  PROVE  IInv'
BY Inductive

--------------------------------------------------------------------------------
(***************************************************************************)
(* Steps of the agent.                                                      *)
(***************************************************************************)
LEMMA HourHolds ==
  ASSUME SyncInv, HourPasses
  PROVE  SyncInv'
<1> USE DEF SyncInv, HourPasses, hubVars, syncVars
<1>1. IInv' /\ Guarded'
  BY GateUntouched DEF Guarded, vars
<1>2. Past'
  <2>1. /\ \A e \in late : through(e) \in Nat
        /\ \A c \in Callers : through(export[c]) \in Nat
    BY Through DEF SyncTypes
  <2>2. hour \in Nat /\ hour' = hour + 1 /\ Hours \subseteq Nat
    BY DEF SyncTypes, Hours
  <2> QED BY <2>1, <2>2 DEF Past, through
<1>3. SyncTypes' /\ ReadOnce' /\ Covered'
  BY DEF SyncTypes, ReadOnce, Covered, through
<1>4. inFlight' = inFlight /\ underway' = underway
  BY DEF inFlight, underway
<1>5. BookedOnce' /\ OlderHoursBooked'
  BY <1>4 DEF BookedOnce, OlderHoursBooked, unseen, through
<1> QED BY <1>1, <1>2, <1>3, <1>5

LEMMA AccumulateHolds ==
  ASSUME SyncInv, Accumulate
  PROVE  SyncInv'
<1> USE DEF SyncInv, hubVars, syncVars
<1>1. IInv' /\ Guarded'
  BY GateUntouched DEF Guarded, vars, Accumulate
<1>2. /\ buckets \in Batches /\ put \in Batches /\ buckets' \in Batches /\ put' \in Batches
      /\ \A h \in Hours : h # hour => buckets'[h] = buckets[h] /\ put'[h] = put[h]
      /\ hour \in Hours => buckets'[hour] = buckets[hour] + 1 /\ put'[hour] = put[hour] + 1
  <2>1. buckets \in [Hours -> Nat] /\ put \in [Hours -> Nat]
    BY DEF SyncTypes, Batches
  <2>2. buckets' = [buckets EXCEPT ![hour] = @ + 1] /\ put' = [put EXCEPT ![hour] = @ + 1]
    BY DEF Accumulate
  <2>3. CASE hour \in Hours
    BY <2>1, <2>2, <2>3 DEF Batches
  <2>4. CASE hour \notin Hours
    <3>1. buckets' = buckets /\ put' = put
      BY <2>1, <2>2, <2>4
    <3> QED BY <2>1, <2>4, <3>1 DEF Batches
  <2> QED BY <2>3, <2>4
<1>3. UNCHANGED <<hour, phase, export, booked, unsure, late, trouble>>
  BY DEF Accumulate
<1>4. SyncTypes'
  BY <1>2, <1>3 DEF SyncTypes
<1>5. Past'
  BY <1>2, <1>3 DEF Past, through, SyncTypes, Hours
<1>6. /\ \A e \in late : through(e) <= hour /\ through(e) \in Nat
      /\ \A c \in Callers : phase[c] \in {"collected", "booked"} =>
           through(export[c]) <= hour /\ through(export[c]) \in Nat
  BY Through DEF Past, SyncTypes
<1>7. ReadOnce'
  BY <1>2, <1>3, <1>6 DEF ReadOnce, through, SyncTypes, Hours
<1>8. Covered'
  BY <1>2, <1>3 DEF Covered, SyncTypes, Batches
<1>9. inFlight' = inFlight /\ underway' = underway /\ underway \in Batches
  <2>1. underway \in Batches
    BY EmptyBatch DEF underway, inFlight, SyncTypes
  <2> QED BY <1>3, <2>1 DEF inFlight, underway
<1>10. BookedOnce'
  BY <1>2, <1>3, <1>9 DEF BookedOnce, unseen, SyncTypes, Batches
<1>11. OlderHoursBooked'
  <2>1. inFlight \subseteq {c \in Callers : phase[c] \in {"collected", "booked"}}
    BY DEF inFlight
  <2> QED BY <1>2, <1>3, <1>6, <1>9, <2>1 DEF OlderHoursBooked, through, SyncTypes, Hours
<1> QED BY <1>1, <1>4, <1>5, <1>7, <1>8, <1>10, <1>11

--------------------------------------------------------------------------------
(***************************************************************************)
(* Steps of a sync.                                                         *)
(***************************************************************************)

\* A sync that ends without having booked leaves what was under way.
LEMMA EndsUnbooked ==
  ASSUME SyncInv, NEW c \in Callers, phase[c] \in {"begun", "collected"}, syncEnds(c), trouble' \in Nat,
         UNCHANGED <<vars, agentVars, hubVars, late>>
  PROVE  SyncInv'
<1> USE DEF SyncInv, agentVars, hubVars
<1>0. /\ phase' = [phase EXCEPT ![c] = "over"] /\ phase \in [Callers -> Phases]
      /\ export' = [export EXCEPT ![c] = Empty] /\ export \in [Callers -> Batches]
      /\ Empty \in Batches
  BY EmptyBatch DEF syncEnds, SyncTypes
<1>1. IInv' /\ Guarded'
  <2>1. IInv'
    BY GateUntouched
  <2> QED BY <1>0, <2>1 DEF Guarded, vars
<1>2. \A d \in Callers : /\ phase'[d] = "booked" <=> phase[d] = "booked"
                         /\ phase'[d] = "collected" => phase[d] = "collected"
                         /\ phase'[d] # "over" => export'[d] = export[d]
  BY <1>0
<1>3. SyncTypes'
  BY <1>0 DEF SyncTypes, Phases
<1>4. Past' /\ ReadOnce' /\ Covered'
  BY <1>2 DEF Past, ReadOnce, Covered, through
<1>5. inFlight' = inFlight /\ underway' = underway /\ \A d \in inFlight : export'[d] = export[d]
  <2>1. inFlight' = inFlight
    BY <1>2 DEF inFlight
  <2>2. \A d \in inFlight : export'[d] = export[d]
    BY <1>2 DEF inFlight
  <2>3. inFlight # {} => (CHOOSE d \in inFlight : TRUE) \in inFlight
    OBVIOUS
  <2> QED BY <2>1, <2>2, <2>3 DEF underway, Empty
<1>6. BookedOnce'
  BY <1>5 DEF BookedOnce, unseen
<1>7. OlderHoursBooked'
  BY <1>5 DEF OlderHoursBooked, through
<1> QED BY <1>1, <1>3, <1>4, <1>6, <1>7

LEMMA CollectHolds ==
  ASSUME SyncInv, NEW c \in Callers, Collect(c)
  PROVE  SyncInv'
<1> USE DEF SyncInv, agentVars, hubVars
<1>0. /\ phase' = [phase EXCEPT ![c] = "collected"] /\ phase \in [Callers -> Phases]
      /\ export' = [export EXCEPT ![c] = buckets] /\ export \in [Callers -> Batches]
      /\ phase[c] = "begun" /\ buckets \in Batches
      /\ UNCHANGED <<vars, hour, buckets, put, booked, unsure, late, trouble>>
  BY DEF Collect, answer, SyncTypes
<1>1. IInv' /\ Guarded'
  <2>1. IInv'
    BY <1>0, GateUntouched
  <2> QED BY <1>0, <2>1 DEF Guarded, vars
<1>2. \A d \in Callers : phase[d] # "over" => d = c
  BY <1>0, OneSync
<1>3. inFlight = {} /\ underway = Empty /\ inFlight' = {} /\ underway' = Empty
  <2>1. inFlight = {} /\ inFlight' = {}
    BY <1>0, <1>2 DEF inFlight
  <2> QED BY <2>1 DEF underway, Empty
<1>4. SyncTypes'
  BY <1>0 DEF SyncTypes, Phases
<1>5. BookedOnce' /\ OlderHoursBooked'
  BY <1>0, <1>3 DEF BookedOnce, OlderHoursBooked, unseen, through
<1>6. export'[c] = buckets /\ \A d \in Callers : phase'[d] # "over" => d = c
  BY <1>0, <1>2
<1>7. Past'
  <2>1. through(buckets) <= hour
    BY Through DEF Past, SyncTypes, Hours
  <2> QED BY <1>0, <1>6, <2>1 DEF Past, through
<1>8. ReadOnce'
  BY <1>0, <1>6 DEF ReadOnce, Batches, Hours
<1>9. Covered'
  BY <1>0, <1>3, <1>6, EmptyBatch DEF Covered, BookedOnce, unseen, SyncTypes, Batches
<1> QED BY <1>1, <1>4, <1>5, <1>7, <1>8, <1>9

LEMMA PersistHolds ==
  ASSUME SyncInv, NEW c \in Callers, Persist(c)
  PROVE  SyncInv'
<1> USE DEF SyncInv, agentVars, hubVars
<1>0. /\ phase' = [phase EXCEPT ![c] = "booked"] /\ phase \in [Callers -> Phases]
      /\ booked' = [h \in Hours |-> booked[h] + export[c][h]]
      /\ phase[c] = "collected" /\ export[c] \in [Hours -> Nat]
      /\ UNCHANGED <<vars, hour, buckets, put, export, unsure, late, trouble>>
  BY DEF Persist, SyncTypes, Batches
<1>1. IInv' /\ Guarded'
  <2>1. IInv'
    BY <1>0, GateUntouched
  <2> QED BY <1>0, <2>1 DEF Guarded, vars
<1>2. \A d \in Callers : phase[d] # "over" => d = c
  BY <1>0, OneSync
<1>3. inFlight = {} /\ underway = Empty /\ inFlight' = {c} /\ underway' = export[c]
  <2>1. inFlight = {} /\ inFlight' = {c}
    BY <1>0, <1>2 DEF inFlight
  <2> QED BY <1>0, <2>1 DEF underway, Empty
<1>4. SyncTypes' /\ \A h \in Hours : booked[h] <= booked'[h]
  BY <1>0 DEF SyncTypes, Phases, Batches
<1>5. Past' /\ ReadOnce'
  BY <1>0, <1>2 DEF Past, ReadOnce, through
<1>6. Covered'
  BY <1>0, <1>2 DEF Covered
<1>7. BookedOnce'
  BY <1>0, <1>3, EmptyBatch DEF BookedOnce, unseen, SyncTypes, Batches
<1>8. OlderHoursBooked'
  <2>1. \A h \in Hours : export[c][h] <= booked'[h]
    BY <1>0 DEF SyncTypes, Batches
  <2>2. \A h \in Hours : h < through(export[c]) => buckets[h] <= export[c][h]
    BY <1>0 DEF ReadOnce
  <2>3. \A e \in late : \A h \in Hours : h < through(e) =>
          buckets[h] <= e[h] /\ e[h] <= booked'[h]
    <3> TAKE e \in late
    <3> TAKE h \in Hours
    <3>1. e[h] \in Nat /\ booked[h] \in Nat /\ booked'[h] \in Nat
      BY <1>4 DEF SyncTypes, Batches
    <3> QED BY <1>4, <3>1 DEF OlderHoursBooked
  <2> QED BY <1>0, <1>3, <2>1, <2>2, <2>3 DEF OlderHoursBooked, through
<1> QED BY <1>1, <1>4, <1>5, <1>6, <1>7, <1>8

\* What a drain leaves: nothing up to the hour it names, everything after.
LEMMA Drained ==
  ASSUME SyncInv, NEW e \in Batches
  PROVE  /\ Drain(through(e)) \in Batches
         /\ \A h \in Hours : /\ Drain(through(e))[h] <= buckets[h]
                             /\ h <= through(e) => Drain(through(e))[h] = 0
                             /\ e[h] # 0 => Drain(through(e))[h] = 0
<1>1. buckets \in [Hours -> Nat] /\ Hours \subseteq Nat
  BY DEF SyncInv, SyncTypes, Batches, Hours
<1>2. through(e) \in Nat /\ \A h \in Hours : h > through(e) => e[h] = 0
  BY Through
<1> QED BY <1>1, <1>2 DEF Drain, Batches

LEMMA AckHolds ==
  ASSUME SyncInv, NEW c \in Callers, Ack(c)
  PROVE  SyncInv'
<1> USE DEF SyncInv, agentVars, hubVars
<1>0. /\ phase' = [phase EXCEPT ![c] = "over"] /\ phase \in [Callers -> Phases]
      /\ export' = [export EXCEPT ![c] = Empty] /\ export \in [Callers -> Batches]
      /\ phase[c] = "booked" /\ export[c] \in Batches /\ Empty \in Batches
      /\ buckets' = Drain(through(export[c]))
      /\ UNCHANGED <<vars, hour, put, booked, unsure, late, trouble>>
  BY EmptyBatch DEF Ack, syncEnds, SyncTypes
<1>1. IInv' /\ Guarded'
  <2>1. IInv'
    BY <1>0, GateUntouched
  <2> QED BY <1>0, <2>1 DEF Guarded, vars
<1>2. \A d \in Callers : phase'[d] = "over"
  BY <1>0, OneSync
<1>3. underway = export[c] /\ inFlight' = {} /\ underway' = Empty
  <2>1. inFlight' = {}
    BY <1>2 DEF inFlight
  <2> QED BY <1>0, <2>1, Underway DEF underway, Empty
<1>4. /\ buckets' \in Batches
      /\ \A h \in Hours : /\ buckets'[h] <= buckets[h]
                          /\ h <= through(export[c]) => buckets'[h] = 0
                          /\ export[c][h] # 0 => buckets'[h] = 0
  BY <1>0, Drained
<1>5. SyncTypes'
  BY <1>0, <1>4 DEF SyncTypes, Phases
<1>6. Past'
  <2>1. ASSUME NEW h \in Hours, h > hour PROVE buckets'[h] = 0
    <3>1. buckets[h] = 0
      BY <2>1 DEF Past
    <3>2. buckets'[h] <= buckets[h]
      BY <1>4
    <3>3. buckets'[h] \in Nat
      BY <1>4 DEF Batches
    <3> QED BY <3>1, <3>2, <3>3
  <2> QED BY <1>0, <1>2, <2>1 DEF Past, through
<1>7. ReadOnce' /\ Covered'
  BY <1>2 DEF ReadOnce, Covered
<1>8. BookedOnce'
  <2> SUFFICES ASSUME NEW h \in Hours
               PROVE  booked[h] + buckets'[h] <= put[h] + unsure[h]
    BY <1>0, <1>3, EmptyBatch DEF BookedOnce, unseen, SyncTypes, Batches
  <2>1. /\ booked[h] \in Nat /\ buckets[h] \in Nat /\ buckets'[h] \in Nat /\ put[h] \in Nat
        /\ unsure[h] \in Nat /\ export[c][h] \in Nat
    BY <1>0, <1>4 DEF SyncTypes, Batches
  <2>2. booked[h] <= put[h] + unsure[h]
    BY <1>0 DEF Covered
  <2>3. booked[h] + buckets[h] <= put[h] + (unsure[h] + export[c][h])
    BY <1>3 DEF BookedOnce, unseen
  <2>4. buckets'[h] <= buckets[h] /\ (export[c][h] # 0 => buckets'[h] = 0)
    BY <1>4
  <2> QED BY <2>1, <2>2, <2>3, <2>4
<1>9. OlderHoursBooked'
  <2> SUFFICES ASSUME NEW e \in late, NEW h \in Hours, h < through(e)
               PROVE  buckets'[h] <= e[h] /\ e[h] <= booked[h]
    BY <1>0, <1>3 DEF OlderHoursBooked, through
  <2>1. e[h] \in Nat /\ buckets[h] \in Nat /\ buckets'[h] \in Nat
    BY <1>4 DEF SyncTypes, Batches
  <2>2. buckets[h] <= e[h] /\ e[h] <= booked[h]
    BY DEF OlderHoursBooked
  <2>3. buckets'[h] <= buckets[h]
    BY <1>4
  <2> QED BY <2>1, <2>2, <2>3
<1> QED BY <1>1, <1>5, <1>6, <1>7, <1>8, <1>9

LEMMA AckFailsHolds ==
  ASSUME SyncInv, NEW c \in Callers, AckFails(c)
  PROVE  SyncInv'
<1> USE DEF SyncInv, agentVars, hubVars
<1>0. /\ phase' = [phase EXCEPT ![c] = "over"] /\ phase \in [Callers -> Phases]
      /\ export' = [export EXCEPT ![c] = Empty] /\ export \in [Callers -> Batches]
      /\ phase[c] = "booked" /\ export[c] \in Batches /\ Empty \in Batches
      /\ late' = late \cup {export[c]} /\ unsure' = [h \in Hours |-> unsure[h] + export[c][h]]
      /\ trouble' \in Nat
      /\ UNCHANGED <<vars, hour, buckets, put, booked>>
  BY EmptyBatch DEF AckFails, syncEnds, SyncTypes, fails, unseen
<1>1. IInv' /\ Guarded'
  <2>1. IInv'
    BY <1>0, GateUntouched
  <2> QED BY <1>0, <2>1 DEF Guarded, vars
<1>2. \A d \in Callers : phase'[d] = "over"
  BY <1>0, OneSync
<1>3. inFlight = {c} /\ underway = export[c] /\ inFlight' = {} /\ underway' = Empty
  <2>1. inFlight' = {}
    BY <1>2 DEF inFlight
  <2> QED BY <1>0, <2>1, Underway DEF underway, Empty
<1>4. SyncTypes'
  BY <1>0 DEF SyncTypes, Phases, Batches
<1>5. Past'
  BY <1>0, <1>2 DEF Past, through
<1>6. ReadOnce' /\ Covered'
  BY <1>2 DEF ReadOnce, Covered
<1>7. BookedOnce'
  BY <1>0, <1>3, EmptyBatch DEF BookedOnce, unseen, SyncTypes, Batches
<1>8. OlderHoursBooked'
  BY <1>0, <1>3 DEF OlderHoursBooked, through
<1> QED BY <1>1, <1>4, <1>5, <1>6, <1>7, <1>8

LEMMA LateAckHolds ==
  ASSUME SyncInv, NEW e \in late, LateAck(e) \/ AckLost(e)
  PROVE  SyncInv'
<1> USE DEF SyncInv, agentVars, hubVars, syncVars
<1>0. /\ UNCHANGED <<vars, hour, put, phase, export, booked, unsure, trouble>>
      /\ late' \subseteq late
      /\ buckets' \in Batches /\ \A h \in Hours : buckets'[h] <= buckets[h]
  <2>1. e \in Batches /\ \A h \in Hours : buckets[h] \in Nat
    BY DEF SyncTypes, Batches
  <2>2. CASE LateAck(e)
    <3>1. buckets' = Drain(through(e))
      BY <2>2 DEF LateAck
    <3>2. buckets' \in Batches /\ \A h \in Hours : buckets'[h] <= buckets[h]
      BY <2>1, <3>1, Drained
    <3> QED BY <2>2, <3>2 DEF LateAck
  <2>3. CASE AckLost(e)
    BY <2>1, <2>3 DEF AckLost, SyncTypes
  <2> QED BY <2>2, <2>3
<1>1. IInv' /\ Guarded'
  <2>1. IInv'
    BY <1>0, GateUntouched
  <2> QED BY <1>0, <2>1 DEF Guarded, vars
<1>2. SyncTypes'
  BY <1>0 DEF SyncTypes
<1>3. \A h \in Hours : buckets[h] \in Nat /\ buckets'[h] \in Nat
  BY <1>0 DEF SyncTypes, Batches
<1>4. Past' /\ Covered'
  BY <1>0, <1>3 DEF Past, Covered, through
<1>5. ReadOnce'
  <2> SUFFICES ASSUME NEW c \in Callers, phase[c] \in {"collected", "booked"},
                      NEW h \in Hours, h < through(export[c])
               PROVE  buckets'[h] <= export[c][h]
    BY <1>0 DEF ReadOnce, through
  <2>1. export[c][h] \in Nat /\ buckets[h] <= export[c][h]
    BY DEF ReadOnce, SyncTypes, Batches
  <2> QED BY <1>0, <1>3, <2>1
<1>6. inFlight' = inFlight /\ underway' = underway /\ underway \in Batches
  <2>1. underway \in Batches
    BY EmptyBatch DEF underway, inFlight, SyncTypes
  <2> QED BY <1>0, <2>1 DEF inFlight, underway
<1>7. BookedOnce'
  BY <1>0, <1>3, <1>6 DEF BookedOnce, unseen, SyncTypes, Batches
<1>8. OlderHoursBooked'
  <2> SUFFICES ASSUME NEW f \in late \cup {export[c] : c \in inFlight},
                      NEW h \in Hours, h < through(f)
               PROVE  buckets'[h] <= f[h] /\ f[h] <= booked[h]
    BY <1>0, <1>6 DEF OlderHoursBooked, through
  <2>1. f \in Batches
    BY DEF SyncTypes, inFlight
  <2>2. f[h] \in Nat /\ buckets[h] <= f[h] /\ f[h] <= booked[h]
    BY <2>1 DEF OlderHoursBooked, Batches
  <2> QED BY <1>0, <1>3, <2>2
<1> QED BY <1>1, <1>2, <1>4, <1>5, <1>7, <1>8

LEMMA HubDiesHolds ==
  ASSUME SyncInv, HubDies
  PROVE  SyncInv'
<1> USE DEF SyncInv, agentVars
<1>0. /\ phase' = [d \in Callers |-> "over"] /\ export' = [d \in Callers |-> Empty]
      /\ pc' = [d \in Callers |-> "idle"] /\ Empty \in Batches
      /\ unsure' = [h \in Hours |-> unsure[h] + underway[h]]
      /\ trouble' \in Nat
      /\ UNCHANGED <<hour, buckets, put, booked, late>>
  BY EmptyBatch DEF HubDies, SyncTypes, unseen
<1>1. Init'
  BY DEF HubDies, Init, IInv, TypeOK
<1>2. IInv'
  <2>1. \A g \in Gates : refs(g)' = {}
    BY <1>0 DEF refs
  <2>2. Counted'
    BY <2>1, FS_EmptySet DEF HubDies, Counted
  <2>3. TypeOK'
    BY <1>1 DEF HubDies, TypeOK, Places, IInv
  <2>4. Mapped' /\ Tokens' /\ Owned' /\ Used' /\ Separate'
    BY <1>0 DEF HubDies, Mapped, Tokens, Owned, Used, Separate
  <2> QED BY <2>2, <2>3, <2>4 DEF IInv
<1>3. Guarded'
  BY <1>0 DEF Guarded
<1>4. inFlight' = {} /\ underway' = Empty /\ underway \in Batches
  <2>1. inFlight' = {}
    BY <1>0 DEF inFlight
  <2>2. underway \in Batches
    BY EmptyBatch DEF underway, inFlight, SyncTypes
  <2> QED BY <2>1, <2>2 DEF underway, Empty
<1>5. SyncTypes'
  BY <1>0, <1>4 DEF SyncTypes, Phases, Batches
<1>6. Past' /\ ReadOnce' /\ Covered'
  BY <1>0 DEF Past, ReadOnce, Covered, through
<1>7. BookedOnce'
  BY <1>0, <1>4, EmptyBatch DEF BookedOnce, unseen, SyncTypes, Batches
<1>8. OlderHoursBooked'
  BY <1>0, <1>4 DEF OlderHoursBooked, through
<1> QED BY <1>2, <1>3, <1>5, <1>6, <1>7, <1>8

--------------------------------------------------------------------------------
(***************************************************************************)
(* The theorems.                                                            *)
(***************************************************************************)
\* Every step of the sync, the agent and the gate keeps the invariant.
THEOREM SyncInductive == SyncInv /\ [SyncNext]_allVars => SyncInv'
<1> SUFFICES ASSUME SyncInv, [SyncNext]_allVars PROVE SyncInv'
  OBVIOUS
<1>1. ASSUME NEW c \in Callers, Sync(c) PROVE SyncInv'
  <2>1. CASE CollectFails(c) \/ PersistNothing(c)
    BY <2>1, EndsUnbooked DEF CollectFails, PersistNothing, fails, SyncInv, SyncTypes
  <2> QED BY <1>1, <2>1, CollectHolds, PersistHolds, AckHolds, AckFailsHolds DEF Sync
<1>2. CASE UNCHANGED allVars
  <2>1. IInv'
    BY <1>2, GateUntouched DEF allVars, SyncInv
  <2>2. Guarded' /\ trouble' \in Nat
    BY <1>2 DEF allVars, vars, syncVars, SyncInv, SyncTypes, Guarded
  <2> QED BY <1>2, <2>1, <2>2, GateStepHolds DEF allVars
<1>3. CASE SyncNext
  BY <1>1, <1>3, HourHolds, AccumulateHolds, HubDiesHolds, LateAckHolds,
     AcquireHolds, BeginHolds, ReleaseHolds, DeadlineHolds DEF SyncNext
<1> QED BY <1>2, <1>3

\* The inductive invariant holds throughout.
THEOREM SyncInvariance == OneNode /\ SyncSpec => []SyncInv
BY SyncInitHolds, SyncInductive, PTL DEF SyncSpec

\* No byte is booked twice but for batches whose acknowledgement nobody saw succeed,
\* whatever callers, failures and deaths of the hub (node_stats.go, syncSingleNode).
THEOREM Once == OneNode /\ SyncSpec => []BookedOnce
<1>1. SyncInv => BookedOnce
  BY DEF SyncInv
<1> QED BY <1>1, SyncInvariance, PTL

\* An acknowledgement that can still arrive drops nothing unbooked of the hours before
\* the newest it names.
THEOREM OlderHours == OneNode /\ SyncSpec => []OlderHoursBooked
<1>1. SyncInv => OlderHoursBooked
  BY DEF SyncInv
<1> QED BY <1>1, SyncInvariance, PTL

\* With the syncs behind it and a hub that dies, the map holds no gate without users, and
\* the count of one is exact.
THEOREM SyncNoLeak == OneNode /\ SyncSpec => []NoIdleGate
<1>1. SyncInv => NoIdleGate
  BY DEF SyncInv, IInv, Used, Counted, NoIdleGate, TypeOK, refs
<1> QED BY <1>1, SyncInvariance, PTL

\* A death of the hub takes the hold of the one who had it.
LEMMA DeathLeaves ==
  ASSUME OneNode, IInv, HubDies
  PROVE  [Mutex!Next]_heldNow
<1>1. PICK n \in Nodes : Nodes = {n}
  BY DEF OneNode
<1>2. heldNow' = [m \in Nodes |-> {}]
  BY DEF HubDies, heldNow, holding
<1>3. CASE holding(n) = {}
  BY <1>1, <1>2, <1>3 DEF heldNow
<1>4. ASSUME NEW c \in holding(n) PROVE Mutex!Next
  <2>1. c \in Callers /\ holding(n) = {c}
    BY <1>1, <1>4, Alone DEF holding, IInv, TypeOK
  <2>2. heldNow[n] = {c} /\ heldNow' = [heldNow EXCEPT ![n] = {}]
    BY <1>1, <1>2, <2>1 DEF heldNow
  <2> QED BY <2>1, <2>2 DEF Mutex!Next, Mutex!Leave
<1> QED BY <1>3, <1>4

\* The gate as syncs use it, with contexts that end and a hub that dies, still implements
\* the mutex.
THEOREM SyncRefinement == OneNode /\ SyncSpec => MutexSpec
<1>1. SyncInit => Mutex!Init
  BY DEF SyncInit, Init, Mutex!Init, heldNow, holding
<1>2. ASSUME SyncInv, SyncInv', [SyncNext]_allVars PROVE [Mutex!Next]_heldNow
  <2>1. CASE [Next]_vars
    BY <1>2, <2>1, MutexStep DEF SyncInv
  <2>2. CASE HubDies
    BY <1>2, <2>2, DeathLeaves DEF SyncInv
  <2>3. [Next]_vars \/ HubDies
    <3>1. ASSUME NEW c \in Callers, Acquire(c) \/ Begin(c) \/ Release(c) \/ Deadline(c)
          PROVE  Next
      BY <3>1 DEF Acquire, Begin, Release, Deadline, Next, Step
    <3>2. ASSUME NEW c \in Callers, Sync(c) PROVE UNCHANGED vars
      BY <3>2 DEF Sync, Collect, CollectFails, Persist, PersistNothing, Ack, AckFails
    <3>3. ASSUME NEW e \in late, LateAck(e) \/ AckLost(e) PROVE UNCHANGED vars
      BY <3>3 DEF LateAck, AckLost
    <3>4. HourPasses \/ Accumulate => UNCHANGED vars
      BY DEF HourPasses, Accumulate
    <3>5. UNCHANGED allVars => UNCHANGED vars
      BY DEF allVars
    <3> QED BY <1>2, <3>1, <3>2, <3>3, <3>4, <3>5 DEF SyncNext
  <2> QED BY <2>1, <2>2, <2>3
<1> QED BY <1>1, <1>2, SyncInvariance, PTL DEF SyncSpec, MutexSpec, Mutex!Spec
================================================================================
