---- MODULE BridgeProofs ----
\* Theorems of Bridge: at most one bridge process, a status, a cached hash and a delay that
\* are what they say, and a shutdown after which nothing is left or started again.
\*
\* The invariant has one part for each pair of goroutines that must agree: the loop and
\* its process (OwnsProcess), the loop and what is kept under mu (KeepsStatus), the callers
\* and the loop, which share ctl and the command channel (OneCommand), the manager and main
\* and their calls (Asks), the manager's hash and the supervisor (Hashes), and the loop's
\* delay and its deaths (Delays).
EXTENDS Bridge, FiniteSetTheorems, WellFoundedInduction, TLAPS

\* A process that may still run is the loop's, and the loop has one exactly while it
\* watches or terminates it.
OwnsProcess ==
  /\ loop.ch # 0 <=> loop.pc \in {"watch", "terminate"}
  /\ loop.ch # 0 => /\ procs[loop.ch].is # "unborn"
                    /\ procs[loop.ch].spec = sup.spec
                    /\ sup.pid = loop.ch
  /\ \A p \in Pids : p # loop.ch => procs[p].is \in {"unborn", "gone"}
  /\ loop.pc = "watch" /\ main # "exited" => procs[loop.ch].is \in {"up", "gone"}

KeepsStatus ==
  /\ sup.run <=> loop.pc # "none"
  /\ sup.state = "stopped" <=> ~sup.run
  /\ sup.state = "running" <=> loop.ch # 0
  /\ loop.pc \in {"sleep", "wait", "launch"} => sup.retryAt

\* ctl is held by the caller whose call is under way, and the loop handles that one's
\* command.
Holding == {"start", "send", "reply", "replied"}
Handling == {"terminate", "handle"}
OneCommand ==
  /\ \A c \in Callers :
       /\ ctl = c <=> call[c].pc \in Holding
       /\ call[c].pc # "idle" => call[c].op \in {"update", "stop"}
       /\ call[c].pc # "idle" /\ call[c].op = "update" => call[c].spec # None
       /\ call[c].pc = "start" => ~sup.run /\ call[c].op = "update"
       /\ call[c].pc = "send" => sup.run /\ loop.pc \notin Handling \cup {"finish"}
       /\ call[c].pc = "reply" => /\ loop.pc \in Handling /\ loop.by = c
                                  /\ loop.cmd = call[c].op /\ loop.spec = call[c].spec
       /\ call[c].pc = "replied" => call[c].op = "stop" /\ loop.pc \in {"finish", "none"}
  /\ loop.pc \in Handling => loop.by \in Callers /\ call[loop.by].pc = "reply"
  /\ loop.pc = "finish" => \E c \in Callers : call[c].pc = "replied"

\* The manager asks from stop and update only, main only to stop, and only when the
\* manager has ended, unless it was not waited for.
Asks ==
  /\ call["manager"].pc # "idle" <=> mgr.pc \in {"stop", "update"}
  /\ mgr.pc \in {"stop", "update"} => call["manager"].op = mgr.pc
  /\ call["main"].pc = "idle" <=> main \in {"serving", "closing"}
  /\ call["main"].pc # "idle" => call["main"].op = "stop"
  /\ main = "exited" => call["main"].pc = "done"
  /\ main \in {"stopping", "exited"} /\ ~late =>
       mgr.pc = "ended" /\ (call["main"].pc = "done" => ~sup.run)

\* While the manager is not in a call its hash is that of the supervisor's spec; an answer
\* says enough to make it so again.
SameSpec ==
  /\ mgr.appliedHash # None <=> sup.run
  /\ sup.run => sup.spec = mgr.appliedHash
Hashes ==
  main = "serving" =>
    /\ mgr.pc \in {"idle", "gate", "read"} => SameSpec
    /\ mgr.pc = "stop" /\ call["manager"].pc = "done" => ~sup.run
    /\ mgr.pc = "update" /\ call["manager"].pc = "done" =>
         /\ sup.run => sup.spec = call["manager"].spec
         /\ ~call["manager"].err => sup.run

\* The delay is the nominal one for the deaths in a row, of which the faults are at least
\* as many.
Delays ==
  /\ loop.deaths <= faults
  /\ loop.pc = "watch" /\ main # "exited" /\ procs[loop.ch].is = "gone" =>
       loop.deaths + 1 <= faults
  /\ loop.pc \in {"watch", "launch"} => loop.delay = nominal(loop.deaths + 1)
  /\ loop.pc \in {"sleep", "handled", "wait"} =>
       loop.deaths >= 1 /\ loop.delay = nominal(loop.deaths)

BridgeInv ==
  TypeOK /\ OwnsProcess /\ KeepsStatus /\ OneCommand /\ Asks /\ Hashes /\ Delays

----------------------------------------------------------------------------
\* The delays.

LEMMA Smallest ==
    ASSUME NEW T \in SUBSET Nat, T # {}
    PROVE  \E m \in T : \A x \in T : m <= x
  <1> DEFINE R == OpToRel(<, Nat)
  <1>1. PICK m \in T : \A x \in T : ~ (<<x, m>> \in R)
    <2>1. IsWellFoundedOn(R, Nat)
      BY NatLessThanWellFounded
    <2> HIDE DEF R
    <2> QED
      BY <2>1, WFMin
  <1>2. \A x \in T : ~ (x < m)
    BY <1>1 DEF OpToRel
  <1> QED
    BY <1>2

\* A set with 0 and the successor of each of its members holds every natural number.
LEMMA SetInduction ==
    ASSUME NEW P \in SUBSET Nat, 0 \in P, \A n \in P : n + 1 \in P
    PROVE  P = Nat
  <1> SUFFICES ASSUME Nat \ P # {} PROVE FALSE
    OBVIOUS
  <1>1. PICK m \in Nat \ P : \A x \in Nat \ P : m <= x
    BY Smallest
  <1>2. m # 0 /\ m - 1 \in Nat /\ (m - 1) + 1 = m
    BY <1>1
  <1>3. m - 1 \in P
    BY <1>1, <1>2
  <1> QED
    BY <1>1, <1>2, <1>3

\* The recursive definition of pow2 has a solution: the limit of its restrictions to 0..k,
\* which exist and agree with one another.
LEMMA Pow2Def == pow2 = [n \in Nat |-> IF n = 0 THEN 1 ELSE 2 * pow2[n - 1]]
  <1> DEFINE Pow(g, k) == /\ g \in [0..k -> Nat] /\ g[0] = 1
                          /\ \A i \in 1..k : g[i] = 2 * g[i - 1]
  <1> SUFFICES \E f : f = [n \in Nat |-> IF n = 0 THEN 1 ELSE 2 * f[n - 1]]
    BY Zenon DEF pow2
  <1>1. \A k \in Nat : \E g : Pow(g, k)
    <2> DEFINE P == {k \in Nat : \E g : Pow(g, k)}
    <2>1. 0 \in P
      <3>1. Pow([i \in 0..0 |-> 1], 0)
        OBVIOUS
      <3> QED
        BY <3>1
    <2>2. ASSUME NEW k \in P PROVE k + 1 \in P
      <3>1. PICK g : Pow(g, k)
        OBVIOUS
      <3> DEFINE h == [i \in 0..(k + 1) |-> IF i = k + 1 THEN 2 * g[k] ELSE g[i]]
      <3>2. Pow(h, k + 1)
        BY <3>1
      <3> HIDE DEF h, Pow
      <3> QED
        BY <3>2
    <2>3. P = Nat
      <3>1. P \in SUBSET Nat
        OBVIOUS
      <3> HIDE DEF P
      <3> QED
        BY <2>1, <2>2, <3>1, SetInduction
    <2> QED
      BY <2>3
  <1>2. ASSUME NEW k \in Nat, NEW l \in Nat, NEW g, NEW h, Pow(g, k), Pow(h, l)
        PROVE  \A i \in Nat : i <= k /\ i <= l => g[i] = h[i]
    <2> DEFINE P == {i \in Nat : i <= k /\ i <= l => g[i] = h[i]}
    <2>1. 0 \in P /\ \A i \in P : i + 1 \in P
      BY <1>2
    <2>2. P = Nat
      <3>1. P \in SUBSET Nat
        OBVIOUS
      <3> HIDE DEF P
      <3> QED
        BY <2>1, <3>1, SetInduction
    <2> QED
      BY <2>2
  <1> DEFINE the(k) == CHOOSE g : Pow(g, k)
             f == [n \in Nat |-> the(n)[n]]
  <1>3. \A k \in Nat : Pow(the(k), k)
    BY <1>1, Zenon
  <1>4. ASSUME NEW n \in Nat PROVE f[n] = IF n = 0 THEN 1 ELSE 2 * f[n - 1]
    <2>1. CASE n = 0
      BY <1>3, <2>1
    <2>2. CASE n # 0
      <3>1. n - 1 \in Nat /\ Pow(the(n), n) /\ Pow(the(n - 1), n - 1)
        <4> HIDE DEF Pow, the
        <4> QED
          BY <1>3, <2>2
      <3>2. the(n)[n - 1] = the(n - 1)[n - 1]
        <4> HIDE DEF Pow, the
        <4> QED
          BY <1>2, <3>1
      <3> HIDE DEF the
      <3>3. the(n)[n] = 2 * the(n)[n - 1]
        BY <2>2, <3>1
      <3> QED
        BY <2>2, <3>1, <3>2, <3>3
    <2> QED
      BY <2>1, <2>2
  <1> HIDE DEF the
  <1>5. f = [n \in Nat |-> IF n = 0 THEN 1 ELSE 2 * f[n - 1]]
    BY <1>4
  <1> QED
    BY <1>5, Zenon

LEMMA Pow2 ==
    /\ \A n \in Nat : pow2[n] \in Nat \ {0}
    /\ pow2[0] = 1
    /\ \A n \in Nat : pow2[n + 1] = 2 * pow2[n]
  <1> DEFINE P == {n \in Nat : pow2[n] \in Nat \ {0}}
  <1>1. \A n \in Nat : pow2[n] = IF n = 0 THEN 1 ELSE 2 * pow2[n - 1]
    <2>1. ASSUME NEW f, f = [n \in Nat |-> IF n = 0 THEN 1 ELSE 2 * f[n - 1]]
          PROVE  \A n \in Nat : f[n] = IF n = 0 THEN 1 ELSE 2 * f[n - 1]
      BY <2>1, Zenon
    <2> QED
      BY <2>1, Pow2Def
  <1>2. pow2[0] = 1 /\ \A n \in Nat : pow2[n + 1] = 2 * pow2[n]
    BY <1>1
  <1>3. 0 \in P /\ (\A n \in P : n + 1 \in P) /\ P \in SUBSET Nat
    BY <1>2
  <1>4. P = Nat
    <2> HIDE DEF P
    <2> QED
      BY <1>3, SetInduction
  <1> QED
    BY <1>2, <1>4

LEMMA Nominal ==
    ASSUME NEW n \in Nat \ {0}
    PROVE  /\ nominal(n) \in MinDelay..MaxDelay
           /\ nominal(1) = MinDelay
           /\ doubled(nominal(n)) = nominal(n + 1)
  <1> DEFINE x(k) == MinDelay * pow2[k - 1]
  <1>1. \A a, b \in Nat : Min({a, b}) = IF a <= b THEN a ELSE b
    BY DEF Min
  <1>2. pow2[n - 1] \in Nat \ {0} /\ pow2[(n - 1) + 1] = 2 * pow2[n - 1] /\ (n - 1) + 1 = n
    BY Pow2
  <1>3. x(n) \in Nat /\ x(n) >= MinDelay /\ x(n + 1) = 2 * x(n) /\ x(1) = MinDelay
    <2>1. \A a, b \in Nat \ {0} : a * b \in Nat /\ a * b >= a /\ a * (2 * b) = 2 * (a * b)
      OBVIOUS
    <2>2. MinDelay \in Nat \ {0} /\ MinDelay * 1 = MinDelay
      BY BridgeBounds
    <2>3. (n + 1) - 1 = n /\ 1 - 1 = 0
      OBVIOUS
    <2>4. x(1) = MinDelay
      BY <2>2, <2>3, Pow2
    <2>5. x(n + 1) = MinDelay * (2 * pow2[n - 1])
      BY <1>2, <2>3
    <2> QED
      BY <1>2, <2>1, <2>2, <2>4, <2>5
  <1> HIDE DEF x
  <1>4. \A k \in {1, n, n + 1} : nominal(k) = IF MaxDelay <= x(k) THEN MaxDelay ELSE x(k)
    BY <1>1, <1>3, BridgeBounds DEF nominal, x
  <1> QED
    BY <1>3, <1>4, BridgeBounds DEF doubled

LEMMA NewPid ==
    ASSUME Unborn # {}
    PROVE  newPid \in Pids /\ procs[newPid].is = "unborn" /\ newPid # 0
           /\ newPid \in 0..MaxLaunches
  <1>1. newPid \in Pids /\ procs[newPid].is = "unborn"
    BY DEF Unborn, newPid
  <1>2. \A p \in Pids : p # 0 /\ p \in 0..MaxLaunches
    BY BridgeBounds DEF Pids, MaxLaunches
  <1> QED
    BY <1>1, <1>2

LEMMA Ranges ==
    /\ 0 \in 0..MaxLaunches /\ 0 \in 0..MaxFaults
    /\ MinDelay \in MinDelay..MaxDelay
    /\ \A d \in MinDelay..MaxDelay : doubled(d) \in MinDelay..MaxDelay
  BY BridgeBounds DEF MaxLaunches, doubled

LEMMA StepLock ==
    ASSUME BridgeInv, main # "exited", NEW c \in Callers, Lock(c)
    PROVE  BridgeInv'
  <1>1. TypeOK'
    <2>1. call' \in [Callers -> CallType]
      BY BridgeBounds DEF BridgeInv, TypeOK, CallType, Plans, Lock, Return, Callers
    <2> QED
      BY BridgeBounds, <2>1
      DEF BridgeInv, TypeOK, planVars, Callers, Plans, SupStates, Lock, Return
  <1>2. OneCommand'
    BY BridgeBounds
    DEF BridgeInv, TypeOK, CallType, OneCommand, Lock, Return, planVars, Holding, Handling,
        Callers
  <1>3. Asks'
    BY BridgeBounds DEF BridgeInv, TypeOK, CallType, Asks, Lock, Return, planVars, Callers
  <1>4. Hashes'
    BY BridgeBounds
    DEF BridgeInv, TypeOK, CallType, Hashes, SameSpec, Asks, OneCommand, KeepsStatus, Lock,
        Return, planVars, Holding, Handling, Callers
  <1>5. OwnsProcess' /\ KeepsStatus' /\ Delays'
    BY DEF BridgeInv, OwnsProcess, KeepsStatus, Delays, Lock, planVars
  <1> QED
    BY <1>1, <1>2, <1>3, <1>4, <1>5 DEF BridgeInv

LEMMA StepStartLocked ==
    ASSUME BridgeInv, main # "exited", NEW c \in Callers, startLocked(c)
    PROVE  BridgeInv'
  <1>1. TypeOK'
    <2>1. call' \in [Callers -> CallType]
      BY BridgeBounds, NewPid
      DEF BridgeInv, TypeOK, CallType, Plans, startLocked, Return, Born, launched, Callers
    <2>2. sup' \in SupType
      BY BridgeBounds, NewPid, Ranges
      DEF BridgeInv, TypeOK, SupType, SupStates, Plans, CallType, startLocked, Return, Born,
          launched
    <2>3. loop' \in LoopType
      BY BridgeBounds, NewPid, Ranges
      DEF BridgeInv, TypeOK, LoopType, Plans, startLocked, Return, Born, launched, NoLoop,
          Callers
    <2>4. procs' \in [Pids -> ProcType]
      BY BridgeBounds, NewPid
      DEF BridgeInv, TypeOK, ProcType, Plans, CallType, startLocked, Return, Born, launched
    <2> QED
      BY BridgeBounds, <2>1, <2>2, <2>3, <2>4
      DEF BridgeInv, TypeOK, planVars, Callers, Plans, SupStates, startLocked, Return, Born,
          launched, NoLoop
  <1>2. OwnsProcess'
    <2>1. /\ newPid \in Pids /\ newPid # 0
          /\ loop'.pc = "watch" /\ loop'.ch = newPid
          /\ sup'.pid = newPid /\ sup'.spec = call[c].spec
          /\ procs' = [procs EXCEPT ![newPid] = [spec |-> call[c].spec, is |-> "up"]]
      BY NewPid
      DEF BridgeInv, TypeOK, LoopType, SupType, startLocked, Return, Born, launched, NoLoop
    <2>2. \A p \in Pids : procs[p].is \in {"unborn", "gone"}
      <3>1. loop.ch = 0
        BY DEF BridgeInv, OwnsProcess, KeepsStatus, OneCommand, Handling, startLocked
      <3> QED
        BY <3>1, BridgeBounds DEF BridgeInv, OwnsProcess, Pids
    <2>3. \A p \in Pids : p # newPid => procs'[p] = procs[p]
      BY <2>1 DEF BridgeInv, TypeOK
    <2>4. procs'[newPid] = [spec |-> call[c].spec, is |-> "up"]
      BY <2>1 DEF BridgeInv, TypeOK
    <2> QED
      BY <2>1, <2>2, <2>3, <2>4 DEF OwnsProcess
  <1>3. KeepsStatus'
    BY BridgeBounds, NewPid
    DEF BridgeInv, TypeOK, CallType, SupType, LoopType, ProcType, KeepsStatus, startLocked,
        Return, Born, launched, NoLoop, planVars, Callers
  <1>4. OneCommand'
    BY BridgeBounds, NewPid
    DEF BridgeInv, TypeOK, CallType, SupType, LoopType, ProcType, OneCommand, startLocked,
        Return, Born, launched, NoLoop, planVars, Holding, Handling, Callers
  <1>5. Asks'
    BY BridgeBounds, NewPid
    DEF BridgeInv, TypeOK, CallType, SupType, LoopType, ProcType, Asks, OneCommand,
        KeepsStatus, startLocked, Return, Born, launched, NoLoop, planVars, Holding, Handling,
        Callers
  <1>6. Hashes'
    BY BridgeBounds, NewPid
    DEF BridgeInv, TypeOK, CallType, SupType, LoopType, ProcType, Hashes, SameSpec, Asks,
        OneCommand, KeepsStatus, startLocked, Return, Born, launched, NoLoop, planVars,
        Holding, Handling, Callers
  <1>7. Delays'
    BY BridgeBounds, NewPid, Nominal
    DEF BridgeInv, TypeOK, CallType, SupType, LoopType, ProcType, Delays, startLocked, Return,
        Born, launched, NoLoop, planVars, Callers
  <1> QED
    BY <1>1, <1>2, <1>3, <1>4, <1>5, <1>6, <1>7 DEF BridgeInv

LEMMA StepStartFails ==
    ASSUME BridgeInv, main # "exited", NEW c \in Callers, startFails(c)
    PROVE  BridgeInv'
  <1>1. TypeOK'
    <2>1. call' \in [Callers -> CallType]
      BY BridgeBounds DEF BridgeInv, TypeOK, CallType, Plans, startFails, Return, Fault, Callers
    <2>2. sup' \in SupType
      BY BridgeBounds, Ranges
      DEF BridgeInv, TypeOK, SupType, SupStates, Plans, CallType, startFails, Return, Fault
    <2>3. faults' \in 0..MaxFaults
      BY BridgeBounds DEF BridgeInv, TypeOK, startFails, Return, Fault
    <2> QED
      BY BridgeBounds, <2>1, <2>2, <2>3
      DEF BridgeInv, TypeOK, planVars, Callers, Plans, SupStates, startFails, Return, Fault
  <1>2. OwnsProcess'
    BY BridgeBounds
    DEF BridgeInv, TypeOK, CallType, SupType, OwnsProcess, KeepsStatus, OneCommand, startFails,
        Return, Fault, planVars, Holding, Handling, Callers
  <1>3. KeepsStatus'
    BY BridgeBounds
    DEF BridgeInv, TypeOK, CallType, SupType, KeepsStatus, startFails, Return, Fault, planVars,
        Callers
  <1>4. OneCommand'
    BY BridgeBounds
    DEF BridgeInv, TypeOK, CallType, SupType, OneCommand, startFails, Return, Fault, planVars,
        Holding, Handling, Callers
  <1>5. Asks'
    BY BridgeBounds
    DEF BridgeInv, TypeOK, CallType, SupType, Asks, OneCommand, KeepsStatus, startFails,
        Return, Fault, planVars, Holding, Handling, Callers
  <1>6. Hashes'
    BY BridgeBounds
    DEF BridgeInv, TypeOK, CallType, SupType, Hashes, SameSpec, Asks, OneCommand, KeepsStatus,
        startFails, Return, Fault, planVars, Holding, Handling, Callers
  <1>7. Delays'
    BY BridgeBounds, Nominal
    DEF BridgeInv, TypeOK, MgrType, CallType, SupType, LoopType, ProcType, SupStates, Plans,
        Delays, startFails, Return, Fault, planVars, Callers
  <1> QED
    BY <1>1, <1>2, <1>3, <1>4, <1>5, <1>6, <1>7 DEF BridgeInv

LEMMA StepSend ==
    ASSUME BridgeInv, main # "exited", NEW c \in Callers, Send(c)
    PROVE  BridgeInv'
  <1>1. TypeOK'
    <2>1. call' \in [Callers -> CallType]
      BY BridgeBounds DEF BridgeInv, TypeOK, CallType, Plans, Send, Callers
    <2>2. loop' \in LoopType
      BY BridgeBounds, Ranges DEF BridgeInv, TypeOK, LoopType, Plans, CallType, Send, Callers
    <2> QED
      BY BridgeBounds, <2>1, <2>2
      DEF BridgeInv, TypeOK, planVars, Callers, Plans, SupStates, Send
  <1>2. OwnsProcess'
    BY BridgeBounds
    DEF BridgeInv, TypeOK, CallType, LoopType, OwnsProcess, Send, planVars, Callers
  <1>3. KeepsStatus'
    BY BridgeBounds
    DEF BridgeInv, TypeOK, CallType, LoopType, KeepsStatus, Send, planVars, Callers
  <1>4. OneCommand'
    BY BridgeBounds
    DEF BridgeInv, TypeOK, CallType, LoopType, OneCommand, Send, planVars, Holding, Handling,
        Callers
  <1>5. Asks'
    BY BridgeBounds DEF BridgeInv, TypeOK, CallType, LoopType, Asks, Send, planVars, Callers
  <1>6. Hashes'
    BY BridgeBounds
    DEF BridgeInv, TypeOK, CallType, LoopType, Hashes, SameSpec, Send, planVars, Callers
  <1>7. Delays'
    BY BridgeBounds, Nominal
    DEF BridgeInv, TypeOK, CallType, LoopType, Delays, Send, planVars, Callers
  <1> QED
    BY <1>1, <1>2, <1>3, <1>4, <1>5, <1>6, <1>7 DEF BridgeInv

LEMMA StepStopped ==
    ASSUME BridgeInv, main # "exited", NEW c \in Callers, Stopped(c)
    PROVE  BridgeInv'
  <1>1. TypeOK'
    <2>1. call' \in [Callers -> CallType]
      BY BridgeBounds DEF BridgeInv, TypeOK, CallType, Plans, Stopped, Return, Callers
    <2> QED
      BY BridgeBounds, <2>1
      DEF BridgeInv, TypeOK, planVars, Callers, Plans, SupStates, Stopped, Return
  <1>2. OneCommand'
    BY BridgeBounds
    DEF BridgeInv, TypeOK, CallType, OneCommand, Stopped, Return, planVars, Holding, Handling,
        Callers
  <1>3. Asks'
    BY BridgeBounds
    DEF BridgeInv, TypeOK, CallType, Asks, OneCommand, KeepsStatus, Stopped, Return, planVars,
        Holding, Handling, Callers
  <1>4. Hashes'
    BY BridgeBounds
    DEF BridgeInv, TypeOK, CallType, Hashes, SameSpec, Asks, OneCommand, KeepsStatus, Stopped,
        Return, planVars, Holding, Handling, Callers
  <1>5. OwnsProcess' /\ KeepsStatus' /\ Delays'
    BY DEF BridgeInv, OwnsProcess, KeepsStatus, Delays, Stopped, planVars
  <1> QED
    BY <1>1, <1>2, <1>3, <1>4, <1>5 DEF BridgeInv

LEMMA StepChildExited ==
    ASSUME BridgeInv, main # "exited", ChildExited
    PROVE  BridgeInv'
  <1>1. TypeOK'
    <2>1. sup' \in SupType
      BY BridgeBounds, Ranges
      DEF BridgeInv, TypeOK, SupType, SupStates, Plans, ChildExited, noteExit
    <2>2. loop' \in LoopType
      <3>1. PICK healthy \in BOOLEAN :
              loop' = [loop EXCEPT !.pc = "sleep", !.ch = 0, !.delay = afterDeath(healthy),
                                   !.deaths = IF healthy THEN 1 ELSE @ + 1]
        BY DEF ChildExited
      <3>2. loop.deaths + 1 \in 0..MaxFaults /\ 1 \in 0..MaxFaults
        BY BridgeBounds DEF ChildExited, BridgeInv, TypeOK, LoopType, Delays
      <3>3. afterDeath(healthy) \in MinDelay..MaxDelay
        BY Ranges DEF afterDeath, BridgeInv, TypeOK, LoopType
      <3> HIDE DEF afterDeath
      <3>4. CASE healthy
        BY <3>1, <3>2, <3>3, <3>4, Ranges DEF BridgeInv, TypeOK, LoopType
      <3>5. CASE ~healthy
        BY <3>1, <3>2, <3>3, <3>5, Ranges DEF BridgeInv, TypeOK, LoopType
      <3> QED
        BY <3>4, <3>5
    <2> QED
      BY BridgeBounds, <2>1, <2>2
      DEF BridgeInv, TypeOK, planVars, Callers, Plans, SupStates, ChildExited, noteExit,
          afterDeath
  <1>2. OwnsProcess'
    BY BridgeBounds
    DEF BridgeInv, TypeOK, SupType, LoopType, OwnsProcess, ChildExited, noteExit, afterDeath,
        planVars, Callers
  <1>3. KeepsStatus'
    BY BridgeBounds
    DEF BridgeInv, TypeOK, SupType, LoopType, KeepsStatus, ChildExited, noteExit, afterDeath,
        planVars, Callers
  <1>4. OneCommand'
    BY BridgeBounds
    DEF BridgeInv, TypeOK, SupType, LoopType, OneCommand, ChildExited, noteExit, afterDeath,
        planVars, Holding, Handling, Callers
  <1>5. Asks'
    BY BridgeBounds
    DEF BridgeInv, TypeOK, SupType, LoopType, Asks, ChildExited, noteExit, afterDeath,
        planVars, Callers
  <1>6. Hashes'
    BY BridgeBounds
    DEF BridgeInv, TypeOK, SupType, LoopType, Hashes, SameSpec, ChildExited, noteExit,
        afterDeath, planVars, Callers
  <1>7. Delays'
    <2>1. PICK healthy \in BOOLEAN :
            loop' = [loop EXCEPT !.pc = "sleep", !.ch = 0, !.delay = afterDeath(healthy),
                                 !.deaths = IF healthy THEN 1 ELSE @ + 1]
      BY DEF ChildExited
    <2>2. /\ loop.deaths \in Nat /\ faults \in Nat /\ loop.deaths + 1 <= faults
          /\ loop.delay = nominal(loop.deaths + 1) /\ faults' = faults
      BY BridgeBounds DEF ChildExited, BridgeInv, TypeOK, LoopType, Delays
    <2>3. loop'.pc = "sleep" /\ loop'.delay = afterDeath(healthy)
          /\ loop'.deaths = IF healthy THEN 1 ELSE loop.deaths + 1
      BY <2>1 DEF BridgeInv, TypeOK, LoopType
    <2>4. nominal(1) = MinDelay
      BY Nominal
    <2>5. CASE healthy
      BY <2>2, <2>3, <2>4, <2>5 DEF afterDeath, Delays
    <2>6. CASE ~healthy
      BY <2>2, <2>3, <2>6 DEF afterDeath, Delays
    <2> QED
      BY <2>5, <2>6
  <1> QED
    BY <1>1, <1>2, <1>3, <1>4, <1>5, <1>6, <1>7 DEF BridgeInv

LEMMA StepSleep ==
    ASSUME BridgeInv, main # "exited", Sleep
    PROVE  BridgeInv'
  <1>1. TypeOK'
    <2>1. sup' \in SupType
      BY BridgeBounds, Ranges DEF BridgeInv, TypeOK, SupType, SupStates, Plans, Sleep
    <2>2. loop' \in LoopType
      BY BridgeBounds, Ranges DEF BridgeInv, TypeOK, LoopType, Plans, Sleep, Callers
    <2> QED
      BY BridgeBounds, <2>1, <2>2
      DEF BridgeInv, TypeOK, planVars, Callers, Plans, SupStates, Sleep
  <1>2. OwnsProcess'
    BY BridgeBounds
    DEF BridgeInv, TypeOK, SupType, LoopType, OwnsProcess, Sleep, planVars, Callers
  <1>3. KeepsStatus'
    BY BridgeBounds
    DEF BridgeInv, TypeOK, SupType, LoopType, KeepsStatus, OwnsProcess, OneCommand, Sleep,
        planVars, Holding, Handling, Callers
  <1>4. OneCommand'
    BY BridgeBounds
    DEF BridgeInv, TypeOK, SupType, LoopType, OneCommand, Sleep, planVars, Holding, Handling,
        Callers
  <1>5. Asks'
    BY BridgeBounds DEF BridgeInv, TypeOK, SupType, LoopType, Asks, Sleep, planVars, Callers
  <1>6. Hashes'
    BY BridgeBounds
    DEF BridgeInv, TypeOK, SupType, LoopType, Hashes, SameSpec, Sleep, planVars, Callers
  <1>7. Delays'
    BY BridgeBounds, Nominal
    DEF BridgeInv, TypeOK, SupType, LoopType, Delays, Sleep, planVars, Callers
  <1> QED
    BY <1>1, <1>2, <1>3, <1>4, <1>5, <1>6, <1>7 DEF BridgeInv

LEMMA StepTimer ==
    ASSUME BridgeInv, main # "exited", Timer
    PROVE  BridgeInv'
  <1>1. TypeOK'
    <2>1. loop' \in LoopType
      BY BridgeBounds, Ranges DEF BridgeInv, TypeOK, LoopType, Plans, Timer, Callers
    <2> QED
      BY BridgeBounds, <2>1 DEF BridgeInv, TypeOK, planVars, Callers, Plans, SupStates, Timer
  <1>2. OwnsProcess'
    BY BridgeBounds DEF BridgeInv, TypeOK, LoopType, OwnsProcess, Timer, planVars, Callers
  <1>3. KeepsStatus'
    BY BridgeBounds DEF BridgeInv, TypeOK, LoopType, KeepsStatus, Timer, planVars, Callers
  <1>4. OneCommand'
    BY BridgeBounds
    DEF BridgeInv, TypeOK, LoopType, OneCommand, Timer, planVars, Holding, Handling, Callers
  <1>5. Delays'
    BY BridgeBounds, Nominal DEF BridgeInv, TypeOK, LoopType, Delays, Timer, planVars, Callers
  <1>6. Asks' /\ Hashes'
    BY DEF BridgeInv, Asks, Hashes, Timer, planVars, SameSpec
  <1> QED
    BY <1>1, <1>2, <1>3, <1>4, <1>5, <1>6 DEF BridgeInv

LEMMA StepRelaunch ==
    ASSUME BridgeInv, main # "exited", Relaunch
    PROVE  BridgeInv'
  <1>1. TypeOK'
    <2>1. sup' \in SupType
      BY BridgeBounds, NewPid, Ranges
      DEF BridgeInv, TypeOK, SupType, SupStates, Plans, Relaunch, Born, launched
    <2>2. loop' \in LoopType
      BY BridgeBounds, NewPid, Ranges
      DEF BridgeInv, TypeOK, LoopType, Plans, Relaunch, Born, launched, Callers
    <2>3. procs' \in [Pids -> ProcType]
      BY BridgeBounds, NewPid
      DEF BridgeInv, TypeOK, ProcType, Plans, SupType, Relaunch, Born, launched
    <2> QED
      BY BridgeBounds, <2>1, <2>2, <2>3
      DEF BridgeInv, TypeOK, planVars, Callers, Plans, SupStates, Relaunch, Born, launched
  <1>2. OwnsProcess'
    <2>1. /\ newPid \in Pids /\ newPid # 0
          /\ loop'.pc = "watch" /\ loop'.ch = newPid
          /\ sup'.pid = newPid /\ sup'.spec = sup.spec
          /\ procs' = [procs EXCEPT ![newPid] = [spec |-> sup.spec, is |-> "up"]]
      BY NewPid DEF BridgeInv, TypeOK, LoopType, SupType, Relaunch, Born, launched
    <2>2. \A p \in Pids : procs[p].is \in {"unborn", "gone"}
      <3>1. loop.ch = 0
        BY DEF BridgeInv, OwnsProcess, KeepsStatus, OneCommand, Handling, Relaunch
      <3> QED
        BY <3>1, BridgeBounds DEF BridgeInv, OwnsProcess, Pids
    <2>3. \A p \in Pids : p # newPid => procs'[p] = procs[p]
      BY <2>1 DEF BridgeInv, TypeOK
    <2>4. procs'[newPid] = [spec |-> sup.spec, is |-> "up"]
      BY <2>1 DEF BridgeInv, TypeOK
    <2> QED
      BY <2>1, <2>2, <2>3, <2>4 DEF OwnsProcess
  <1>3. KeepsStatus'
    BY BridgeBounds, NewPid
    DEF BridgeInv, TypeOK, SupType, LoopType, ProcType, KeepsStatus, Relaunch, Born, launched,
        planVars, Callers
  <1>4. OneCommand'
    BY BridgeBounds, NewPid
    DEF BridgeInv, TypeOK, SupType, LoopType, ProcType, OneCommand, Relaunch, Born, launched,
        planVars, Holding, Handling, Callers
  <1>5. Asks'
    BY BridgeBounds, NewPid
    DEF BridgeInv, TypeOK, SupType, LoopType, ProcType, Asks, Relaunch, Born, launched,
        planVars, Callers
  <1>6. Hashes'
    BY BridgeBounds, NewPid
    DEF BridgeInv, TypeOK, SupType, LoopType, ProcType, Hashes, SameSpec, Relaunch, Born,
        launched, planVars, Callers
  <1>7. Delays'
    BY BridgeBounds, NewPid, Nominal
    DEF BridgeInv, TypeOK, SupType, LoopType, ProcType, Delays, Relaunch, Born, launched,
        planVars, Callers
  <1> QED
    BY <1>1, <1>2, <1>3, <1>4, <1>5, <1>6, <1>7 DEF BridgeInv

LEMMA StepRelaunchFails ==
    ASSUME BridgeInv, main # "exited", RelaunchFails
    PROVE  BridgeInv'
  <1>1. TypeOK'
    <2>1. loop' \in LoopType
      <3>1. loop.deaths + 1 \in 0..MaxFaults
        BY BridgeBounds DEF BridgeInv, TypeOK, LoopType, RelaunchFails, Fault, Delays
      <3> QED
        BY <3>1 DEF BridgeInv, TypeOK, LoopType, RelaunchFails
    <2>2. faults' \in 0..MaxFaults
      BY BridgeBounds DEF BridgeInv, TypeOK, RelaunchFails, Fault
    <2> QED
      BY BridgeBounds, <2>1, <2>2
      DEF BridgeInv, TypeOK, planVars, Callers, Plans, SupStates, RelaunchFails, Fault
  <1>2. OwnsProcess'
    BY BridgeBounds
    DEF BridgeInv, TypeOK, LoopType, OwnsProcess, RelaunchFails, Fault, planVars, Callers
  <1>3. KeepsStatus'
    BY BridgeBounds
    DEF BridgeInv, TypeOK, LoopType, KeepsStatus, RelaunchFails, Fault, planVars, Callers
  <1>4. OneCommand'
    BY BridgeBounds
    DEF BridgeInv, TypeOK, LoopType, OneCommand, RelaunchFails, Fault, planVars, Holding,
        Handling, Callers
  <1>5. Delays'
    BY BridgeBounds, Nominal
    DEF BridgeInv, TypeOK, LoopType, Delays, RelaunchFails, Fault, planVars, Callers
  <1>6. Asks' /\ Hashes'
    BY DEF BridgeInv, Asks, Hashes, RelaunchFails, planVars, SameSpec
  <1> QED
    BY <1>1, <1>2, <1>3, <1>4, <1>5, <1>6 DEF BridgeInv

LEMMA StepTerminate ==
    ASSUME BridgeInv, main # "exited", Terminate
    PROVE  BridgeInv'
  <1>1. TypeOK'
    <2>1. procs' \in [Pids -> ProcType]
      BY BridgeBounds DEF BridgeInv, TypeOK, ProcType, Plans, Terminate
    <2> QED
      BY BridgeBounds, <2>1
      DEF BridgeInv, TypeOK, planVars, Callers, Plans, SupStates, Terminate
  <1>2. OwnsProcess'
    BY BridgeBounds DEF BridgeInv, TypeOK, ProcType, OwnsProcess, Terminate, planVars, Callers
  <1>3. Delays'
    BY BridgeBounds, Nominal
    DEF BridgeInv, TypeOK, ProcType, Delays, Terminate, planVars, Callers
  <1>4. KeepsStatus' /\ OneCommand' /\ Asks' /\ Hashes'
    BY
    DEF BridgeInv, KeepsStatus, OneCommand, Asks, Hashes, Terminate, planVars, Holding,
        Handling, SameSpec
  <1> QED
    BY <1>1, <1>2, <1>3, <1>4 DEF BridgeInv

LEMMA StepTerminated ==
    ASSUME BridgeInv, main # "exited", Terminated
    PROVE  BridgeInv'
  <1>1. TypeOK'
    <2>1. sup' \in SupType
      BY BridgeBounds, Ranges
      DEF BridgeInv, TypeOK, SupType, SupStates, Plans, Terminated, hasGone, noteExit
    <2>2. loop' \in LoopType
      BY BridgeBounds, Ranges
      DEF BridgeInv, TypeOK, LoopType, Plans, Terminated, hasGone, noteExit, Callers
    <2> QED
      BY BridgeBounds, <2>1, <2>2
      DEF BridgeInv, TypeOK, planVars, Callers, Plans, SupStates, Terminated, hasGone, noteExit
  <1>2. OwnsProcess'
    BY BridgeBounds
    DEF BridgeInv, TypeOK, SupType, LoopType, OwnsProcess, Terminated, hasGone, noteExit,
        planVars, Callers
  <1>3. KeepsStatus'
    BY BridgeBounds
    DEF BridgeInv, TypeOK, SupType, LoopType, KeepsStatus, Terminated, hasGone, noteExit,
        planVars, Callers
  <1>4. OneCommand'
    BY BridgeBounds
    DEF BridgeInv, TypeOK, SupType, LoopType, OneCommand, Terminated, hasGone, noteExit,
        planVars, Holding, Handling, Callers
  <1>5. Asks'
    BY BridgeBounds
    DEF BridgeInv, TypeOK, SupType, LoopType, Asks, Terminated, hasGone, noteExit, planVars,
        Callers
  <1>6. Hashes'
    BY BridgeBounds
    DEF BridgeInv, TypeOK, SupType, LoopType, Hashes, SameSpec, Terminated, hasGone, noteExit,
        planVars, Callers
  <1>7. Delays'
    BY BridgeBounds, Nominal
    DEF BridgeInv, TypeOK, SupType, LoopType, Delays, Terminated, hasGone, noteExit, planVars,
        Callers
  <1> QED
    BY <1>1, <1>2, <1>3, <1>4, <1>5, <1>6, <1>7 DEF BridgeInv

LEMMA StepHandleStop ==
    ASSUME BridgeInv, main # "exited", HandleStop
    PROVE  BridgeInv'
  <1>1. TypeOK'
    <2>1. call' \in [Callers -> CallType]
      BY BridgeBounds
      DEF BridgeInv, TypeOK, CallType, Plans, HandleStop, Reply, Callers, OneCommand, Handling
    <2>2. loop' \in LoopType
      BY BridgeBounds, Ranges DEF BridgeInv, TypeOK, LoopType, Plans, HandleStop, Reply, Callers
    <2> QED
      BY BridgeBounds, <2>1, <2>2
      DEF BridgeInv, TypeOK, planVars, Callers, Plans, SupStates, HandleStop, Reply
  <1>2. OwnsProcess'
    BY BridgeBounds
    DEF BridgeInv, TypeOK, CallType, LoopType, OwnsProcess, HandleStop, Reply, planVars, Callers
  <1>3. KeepsStatus'
    BY BridgeBounds
    DEF BridgeInv, TypeOK, CallType, LoopType, KeepsStatus, HandleStop, Reply, planVars, Callers
  <1>4. OneCommand'
    BY BridgeBounds
    DEF BridgeInv, TypeOK, CallType, LoopType, OneCommand, HandleStop, Reply, planVars,
        Holding, Handling, Callers
  <1>5. Asks'
    BY BridgeBounds
    DEF BridgeInv, TypeOK, CallType, LoopType, Asks, OneCommand, KeepsStatus, HandleStop,
        Reply, planVars, Holding, Handling, Callers
  <1>6. Hashes'
    BY BridgeBounds
    DEF BridgeInv, TypeOK, CallType, LoopType, Hashes, SameSpec, HandleStop, Reply, planVars,
        Callers
  <1>7. Delays'
    BY BridgeBounds, Nominal
    DEF BridgeInv, TypeOK, CallType, LoopType, Delays, HandleStop, Reply, planVars, Callers
  <1> QED
    BY <1>1, <1>2, <1>3, <1>4, <1>5, <1>6, <1>7 DEF BridgeInv

LEMMA StepFinish ==
    ASSUME BridgeInv, main # "exited", finish
    PROVE  BridgeInv'
  <1>1. TypeOK'
    <2>1. sup' \in SupType
      BY BridgeBounds, Ranges DEF BridgeInv, TypeOK, SupType, SupStates, Plans, finish
    <2>2. loop' \in LoopType
      BY BridgeBounds, Ranges DEF BridgeInv, TypeOK, LoopType, Plans, finish, NoLoop, Callers
    <2> QED
      BY BridgeBounds, <2>1, <2>2
      DEF BridgeInv, TypeOK, planVars, Callers, Plans, SupStates, finish, NoLoop
  <1>2. OwnsProcess'
    BY BridgeBounds
    DEF BridgeInv, TypeOK, SupType, LoopType, OwnsProcess, finish, NoLoop, planVars, Callers
  <1>3. KeepsStatus'
    BY BridgeBounds
    DEF BridgeInv, TypeOK, SupType, LoopType, KeepsStatus, finish, NoLoop, planVars, Callers
  <1>4. OneCommand'
    BY BridgeBounds
    DEF BridgeInv, TypeOK, SupType, LoopType, OneCommand, finish, NoLoop, planVars, Holding,
        Handling, Callers
  <1>5. Asks'
    BY BridgeBounds
    DEF BridgeInv, TypeOK, SupType, LoopType, Asks, finish, NoLoop, planVars, Callers
  <1>6. Hashes'
    BY BridgeBounds
    DEF BridgeInv, TypeOK, SupType, LoopType, Hashes, SameSpec, Asks, OneCommand, KeepsStatus,
        finish, NoLoop, planVars, Holding, Handling, Callers
  <1>7. Delays'
    BY BridgeBounds, Nominal
    DEF BridgeInv, TypeOK, SupType, LoopType, Delays, finish, NoLoop, planVars, Callers
  <1> QED
    BY <1>1, <1>2, <1>3, <1>4, <1>5, <1>6, <1>7 DEF BridgeInv

LEMMA StepHandleUpdate ==
    ASSUME BridgeInv, main # "exited", HandleUpdate
    PROVE  BridgeInv'
  <1>1. TypeOK'
    <2>1. call' \in [Callers -> CallType]
      BY BridgeBounds, NewPid
      DEF BridgeInv, TypeOK, CallType, Plans, HandleUpdate, Born, launched, Reply, Callers,
          OneCommand, Handling
    <2>2. sup' \in SupType
      BY BridgeBounds, NewPid, Ranges
      DEF BridgeInv, TypeOK, SupType, SupStates, Plans, LoopType, HandleUpdate, Born, launched,
          Reply
    <2>3. loop' \in LoopType
      BY BridgeBounds, NewPid, Ranges
      DEF BridgeInv, TypeOK, LoopType, Plans, HandleUpdate, Born, launched, Reply, Carries,
          NoLoop, Callers
    <2>4. procs' \in [Pids -> ProcType]
      BY BridgeBounds, NewPid
      DEF BridgeInv, TypeOK, ProcType, Plans, LoopType, HandleUpdate, Born, launched, Reply
    <2> QED
      BY BridgeBounds, <2>1, <2>2, <2>3, <2>4
      DEF BridgeInv, TypeOK, planVars, Callers, Plans, SupStates, HandleUpdate, Born, launched,
          Reply, Carries, NoLoop
  <1>2. OwnsProcess'
    <2>1. /\ newPid \in Pids /\ newPid # 0
          /\ loop'.pc = "watch" /\ loop'.ch = newPid
          /\ sup'.pid = newPid /\ sup'.spec = loop.spec
          /\ procs' = [procs EXCEPT ![newPid] = [spec |-> loop.spec, is |-> "up"]]
      BY NewPid
      DEF BridgeInv, TypeOK, LoopType, SupType, HandleUpdate, Born, launched, Carries, NoLoop
    <2>2. \A p \in Pids : procs[p].is \in {"unborn", "gone"}
      <3>1. loop.ch = 0
        BY DEF BridgeInv, OwnsProcess, KeepsStatus, OneCommand, Handling, HandleUpdate
      <3> QED
        BY <3>1, BridgeBounds DEF BridgeInv, OwnsProcess, Pids
    <2>3. \A p \in Pids : p # newPid => procs'[p] = procs[p]
      BY <2>1 DEF BridgeInv, TypeOK
    <2>4. procs'[newPid] = [spec |-> loop.spec, is |-> "up"]
      BY <2>1 DEF BridgeInv, TypeOK
    <2> QED
      BY <2>1, <2>2, <2>3, <2>4 DEF OwnsProcess
  <1>3. KeepsStatus'
    BY BridgeBounds, NewPid
    DEF BridgeInv, TypeOK, CallType, SupType, LoopType, ProcType, KeepsStatus, HandleUpdate,
        Born, launched, Reply, Carries, NoLoop, planVars, Callers
  <1>4. OneCommand'
    BY BridgeBounds, NewPid
    DEF BridgeInv, TypeOK, CallType, SupType, LoopType, ProcType, OneCommand, HandleUpdate,
        Born, launched, Reply, Carries, NoLoop, planVars, Holding, Handling, Callers
  <1>5. Asks'
    BY BridgeBounds, NewPid
    DEF BridgeInv, TypeOK, CallType, SupType, LoopType, ProcType, Asks, OneCommand,
        KeepsStatus, HandleUpdate, Born, launched, Reply, Carries, NoLoop, planVars, Holding,
        Handling, Callers
  <1>6. Hashes'
    BY BridgeBounds, NewPid
    DEF BridgeInv, TypeOK, CallType, SupType, LoopType, ProcType, Hashes, SameSpec, Asks,
        OneCommand, KeepsStatus, HandleUpdate, Born, launched, Reply, Carries, NoLoop,
        planVars, Holding, Handling, Callers
  <1>7. Delays'
    BY BridgeBounds, NewPid, Nominal
    DEF BridgeInv, TypeOK, CallType, SupType, LoopType, ProcType, Delays, HandleUpdate, Born,
        launched, Reply, Carries, NoLoop, planVars, Callers
  <1> QED
    BY <1>1, <1>2, <1>3, <1>4, <1>5, <1>6, <1>7 DEF BridgeInv

LEMMA StepUpdateFails ==
    ASSUME BridgeInv, main # "exited", UpdateFails
    PROVE  BridgeInv'
  <1>1. TypeOK'
    <2>1. call' \in [Callers -> CallType]
      BY BridgeBounds
      DEF BridgeInv, TypeOK, CallType, Plans, UpdateFails, Fault, Reply, Callers, OneCommand,
          Handling
    <2>2. sup' \in SupType
      BY BridgeBounds, Ranges
      DEF BridgeInv, TypeOK, SupType, SupStates, Plans, LoopType, UpdateFails, Fault, Reply
    <2>3. loop' \in LoopType
      <3>1. 1 \in 0..MaxFaults
        BY BridgeBounds DEF BridgeInv, TypeOK, UpdateFails, Fault
      <3> QED
        BY <3>1, Ranges DEF LoopType, Plans, UpdateFails, Carries, NoLoop
    <2>4. faults' \in 0..MaxFaults
      BY BridgeBounds DEF BridgeInv, TypeOK, UpdateFails, Fault, Reply
    <2> QED
      BY BridgeBounds, <2>1, <2>2, <2>3, <2>4
      DEF BridgeInv, TypeOK, planVars, Callers, Plans, SupStates, UpdateFails, Fault, Reply,
          Carries, NoLoop
  <1>2. OwnsProcess'
    BY BridgeBounds
    DEF BridgeInv, TypeOK, CallType, SupType, LoopType, OwnsProcess, UpdateFails, Fault, Reply,
        Carries, NoLoop, planVars, Callers
  <1>3. KeepsStatus'
    BY BridgeBounds
    DEF BridgeInv, TypeOK, CallType, SupType, LoopType, KeepsStatus, OwnsProcess, OneCommand,
        UpdateFails, Fault, Reply, Carries, NoLoop, planVars, Holding, Handling, Callers
  <1>4. OneCommand'
    BY BridgeBounds
    DEF BridgeInv, TypeOK, CallType, SupType, LoopType, OneCommand, UpdateFails, Fault, Reply,
        Carries, NoLoop, planVars, Holding, Handling, Callers
  <1>5. Asks'
    BY BridgeBounds
    DEF BridgeInv, TypeOK, CallType, SupType, LoopType, Asks, OneCommand, KeepsStatus,
        UpdateFails, Fault, Reply, Carries, NoLoop, planVars, Holding, Handling, Callers
  <1>6. Hashes'
    BY BridgeBounds
    DEF BridgeInv, TypeOK, CallType, SupType, LoopType, Hashes, SameSpec, Asks, OneCommand,
        KeepsStatus, UpdateFails, Fault, Reply, Carries, NoLoop, planVars, Holding, Handling,
        Callers
  <1>7. Delays'
    BY BridgeBounds, Nominal
    DEF BridgeInv, TypeOK, CallType, SupType, LoopType, Delays, UpdateFails, Fault, Reply,
        Carries, NoLoop, planVars, Callers
  <1> QED
    BY <1>1, <1>2, <1>3, <1>4, <1>5, <1>6, <1>7 DEF BridgeInv

LEMMA StepLook ==
    ASSUME BridgeInv, main # "exited", Look
    PROVE  BridgeInv'
  <1>1. TypeOK'
    <2>1. mgr' \in MgrType
      BY BridgeBounds DEF BridgeInv, TypeOK, MgrType, Plans, SupStates, Look
    <2> QED
      BY BridgeBounds, <2>1 DEF BridgeInv, TypeOK, planVars, Callers, Plans, SupStates, Look
  <1>2. Asks'
    BY BridgeBounds DEF BridgeInv, TypeOK, MgrType, Asks, Look, planVars, Callers
  <1>3. Hashes'
    BY BridgeBounds DEF BridgeInv, TypeOK, MgrType, Hashes, SameSpec, Look, planVars, Callers
  <1>4. OwnsProcess' /\ KeepsStatus' /\ OneCommand' /\ Delays'
    BY
    DEF BridgeInv, OwnsProcess, KeepsStatus, OneCommand, Delays, Look, planVars, Holding,
        Handling
  <1> QED
    BY <1>1, <1>2, <1>3, <1>4 DEF BridgeInv

\* applyBridge asks for nothing, or asks for a stop or for an update with the spec planned.
LEMMA Applied ==
    ASSUME TypeOK, applyBridge
    PROVE  \/ /\ mgr' \in MgrType /\ mgr'.appliedHash = mgr.appliedHash /\ call' = call
              /\ mgr'.pc \in {"idle", "read"}
           \/ \E op \in {"stop", "update"}, spec \in Plans :
                /\ main = "serving" /\ mgr' = [mgr EXCEPT !.pc = op]
                /\ call' = [call EXCEPT !["manager"] =
                              [op |-> op, spec |-> spec, pc |-> "lock", err |-> FALSE]]
                /\ op = "update" => spec # None
  <1>1. planned \in Plans /\ None \in Plans
    BY DEF TypeOK, MgrType, planned, Plans
  <1>2. CASE /\ call' = call
             /\ \/ mgr' = [mgr EXCEPT !.pc = "idle"]
                \/ mgr' = [mgr EXCEPT !.pc = "read"]
                \/ mgr' = [mgr EXCEPT !.pc = "read", !.failedHash = None]
    BY <1>1, <1>2 DEF TypeOK, MgrType
  <1>3. CASE main = "serving" /\ mgr' = [mgr EXCEPT !.pc = "stop"]
             /\ Ask("manager", "stop", None)
    <2>1. call' = [call EXCEPT !["manager"] =
                     [op |-> "stop", spec |-> None, pc |-> "lock", err |-> FALSE]]
      BY <1>3 DEF Ask
    <2> QED
      BY <1>1, <1>3, <2>1
  <1>4. CASE /\ main = "serving" /\ planned # None
             /\ mgr' = [mgr EXCEPT !.pc = "update"] /\ Ask("manager", "update", planned)
    <2>1. call' = [call EXCEPT !["manager"] =
                     [op |-> "update", spec |-> planned, pc |-> "lock", err |-> FALSE]]
      BY <1>4 DEF Ask
    <2> HIDE DEF planned
    <2> QED
      BY <1>1, <1>4, <2>1
  <1> HIDE DEF planned, leaveAlone, Ask
  <1> QED
    BY <1>2, <1>3, <1>4 DEF applyBridge

LEMMA StepApplyBridge ==
    ASSUME BridgeInv, main # "exited", applyBridge
    PROVE  BridgeInv'
  <1>1. /\ mgr.pc = "gate"
        /\ UNCHANGED <<nodes, entry, changes, main, late, ctl, sup, loop, procs, faults>>
    BY DEF applyBridge, planVars
  <1>2. OwnsProcess' /\ KeepsStatus' /\ Delays'
    BY <1>1 DEF BridgeInv, OwnsProcess, KeepsStatus, Delays, Unborn
  <1>3. CASE /\ mgr' \in MgrType /\ mgr'.appliedHash = mgr.appliedHash /\ call' = call
             /\ mgr'.pc \in {"idle", "read"}
    <2>1. TypeOK'
      BY <1>1, <1>3 DEF BridgeInv, TypeOK
    <2>2. OneCommand'
      BY <1>1, <1>3 DEF BridgeInv, OneCommand, Holding, Handling
    <2>3. Asks'
      BY <1>1, <1>3 DEF BridgeInv, Asks
    <2>4. Hashes'
      BY <1>1, <1>3 DEF BridgeInv, Hashes, SameSpec
    <2> QED
      BY <1>2, <2>1, <2>2, <2>3, <2>4 DEF BridgeInv
  <1>4. ASSUME NEW op \in {"stop", "update"}, NEW spec \in Plans,
               main = "serving", mgr' = [mgr EXCEPT !.pc = op],
               call' = [call EXCEPT !["manager"] =
                          [op |-> op, spec |-> spec, pc |-> "lock", err |-> FALSE]],
               op = "update" => spec # None
        PROVE  BridgeInv'
    <2>1. TypeOK'
      BY <1>1, <1>4 DEF BridgeInv, TypeOK, MgrType, CallType, Callers
    <2>2. call["manager"].pc = "idle" /\ call["main"].pc = "idle"
      BY <1>1, <1>4 DEF BridgeInv, Asks
    <2>3. call'["main"] = call["main"] /\ mgr'.pc = op
          /\ call'["manager"] = [op |-> op, spec |-> spec, pc |-> "lock", err |-> FALSE]
      BY <1>4 DEF BridgeInv, TypeOK, MgrType, Callers
    <2>4. OneCommand'
      BY <1>1, <1>4, <2>2, <2>3 DEF BridgeInv, OneCommand, Holding, Handling, Callers
    <2>5. Asks'
      BY <1>1, <1>4, <2>2, <2>3 DEF BridgeInv, Asks
    <2>6. Hashes'
      BY <1>1, <1>4, <2>3 DEF Hashes
    <2> QED
      BY <1>2, <2>1, <2>4, <2>5, <2>6 DEF BridgeInv
  <1>5. TypeOK
    BY DEF BridgeInv
  <1> QED
    BY <1>3, <1>4, <1>5, Applied

LEMMA StepStopBridge ==
    ASSUME BridgeInv, main # "exited", stopBridge
    PROVE  BridgeInv'
  <1>1. TypeOK'
    <2>1. mgr' \in MgrType
      BY BridgeBounds
      DEF BridgeInv, TypeOK, MgrType, Plans, SupStates, stopBridge, Answered, idleCall
    <2>2. call' \in [Callers -> CallType]
      BY BridgeBounds
      DEF BridgeInv, TypeOK, CallType, Plans, stopBridge, Answered, idleCall, Callers
    <2> QED
      BY BridgeBounds, <2>1, <2>2
      DEF BridgeInv, TypeOK, planVars, Callers, Plans, SupStates, stopBridge, Answered, idleCall
  <1>2. OneCommand'
    BY BridgeBounds
    DEF BridgeInv, TypeOK, MgrType, CallType, OneCommand, stopBridge, Answered, idleCall,
        planVars, Holding, Handling, Callers
  <1>3. Asks'
    BY BridgeBounds
    DEF BridgeInv, TypeOK, MgrType, CallType, Asks, stopBridge, Answered, idleCall, planVars,
        Callers
  <1>4. Hashes'
    BY BridgeBounds
    DEF BridgeInv, TypeOK, MgrType, CallType, Hashes, SameSpec, stopBridge, Answered, idleCall,
        planVars, Callers
  <1>5. OwnsProcess' /\ KeepsStatus' /\ Delays'
    BY DEF BridgeInv, OwnsProcess, KeepsStatus, Delays, stopBridge, planVars
  <1> QED
    BY <1>1, <1>2, <1>3, <1>4, <1>5 DEF BridgeInv

LEMMA StepUpdated ==
    ASSUME BridgeInv, main # "exited", Updated
    PROVE  BridgeInv'
  <1>1. TypeOK'
    <2>1. mgr' \in MgrType
      <3>1. call["manager"].spec \in Plans /\ None \in Plans
        BY DEF BridgeInv, TypeOK, CallType, Callers, Plans
      <3>2. CASE held
        BY <3>1, <3>2 DEF Updated, BridgeInv, TypeOK, MgrType
      <3>3. CASE ~held
        BY <3>1, <3>3 DEF Updated, BridgeInv, TypeOK, MgrType
      <3> QED
        BY <3>2, <3>3
    <2>2. call' \in [Callers -> CallType]
      BY BridgeBounds
      DEF BridgeInv, TypeOK, CallType, Plans, Updated, Answered, idleCall, held, Callers
    <2> QED
      BY BridgeBounds, <2>1, <2>2
      DEF BridgeInv, TypeOK, planVars, Callers, Plans, SupStates, Updated, Answered, idleCall,
          held
  <1>2. OneCommand'
    BY BridgeBounds
    DEF BridgeInv, TypeOK, MgrType, CallType, OneCommand, Updated, Answered, idleCall, held,
        planVars, Holding, Handling, Callers
  <1>3. Asks'
    BY BridgeBounds
    DEF BridgeInv, TypeOK, MgrType, CallType, Asks, Updated, Answered, idleCall, held,
        planVars, Callers
  <1>4. Hashes'
    BY BridgeBounds
    DEF BridgeInv, TypeOK, MgrType, CallType, Hashes, SameSpec, Asks, OneCommand, KeepsStatus,
        Updated, Answered, idleCall, held, planVars, Holding, Handling, Callers
  <1>5. OwnsProcess' /\ KeepsStatus' /\ Delays'
    BY DEF BridgeInv, OwnsProcess, KeepsStatus, Delays, Updated, planVars
  <1> QED
    BY <1>1, <1>2, <1>3, <1>4, <1>5 DEF BridgeInv

LEMMA StepReadBridge ==
    ASSUME BridgeInv, main # "exited", readBridge
    PROVE  BridgeInv'
  <1>1. TypeOK'
    <2>1. mgr' \in MgrType
      BY BridgeBounds DEF BridgeInv, TypeOK, MgrType, Plans, SupStates, SupType, readBridge
    <2> QED
      BY BridgeBounds, <2>1
      DEF BridgeInv, TypeOK, planVars, Callers, Plans, SupStates, readBridge
  <1>2. Asks'
    BY BridgeBounds DEF BridgeInv, TypeOK, MgrType, Asks, readBridge, planVars, Callers
  <1>3. Hashes'
    BY BridgeBounds
    DEF BridgeInv, TypeOK, MgrType, Hashes, SameSpec, readBridge, planVars, Callers
  <1>4. OwnsProcess' /\ KeepsStatus' /\ OneCommand' /\ Delays'
    BY
    DEF BridgeInv, OwnsProcess, KeepsStatus, OneCommand, Delays, readBridge, planVars, Holding,
        Handling
  <1> QED
    BY <1>1, <1>2, <1>3, <1>4 DEF BridgeInv

LEMMA StepRetryDue ==
    ASSUME BridgeInv, main # "exited", RetryDue
    PROVE  BridgeInv'
  <1>1. TypeOK'
    <2>1. mgr' \in MgrType
      BY BridgeBounds DEF BridgeInv, TypeOK, MgrType, Plans, SupStates, RetryDue
    <2> QED
      BY BridgeBounds, <2>1 DEF BridgeInv, TypeOK, planVars, Callers, Plans, SupStates, RetryDue
  <1>2. Asks'
    BY BridgeBounds DEF BridgeInv, TypeOK, MgrType, Asks, RetryDue, planVars, Callers
  <1>3. Hashes'
    BY BridgeBounds
    DEF BridgeInv, TypeOK, MgrType, Hashes, SameSpec, RetryDue, planVars, Callers
  <1>4. OwnsProcess' /\ KeepsStatus' /\ OneCommand' /\ Delays'
    BY
    DEF BridgeInv, OwnsProcess, KeepsStatus, OneCommand, Delays, RetryDue, planVars, Holding,
        Handling
  <1> QED
    BY <1>1, <1>2, <1>3, <1>4 DEF BridgeInv

LEMMA StepWatchEnds ==
    ASSUME BridgeInv, main # "exited", WatchEnds
    PROVE  BridgeInv'
  <1>1. TypeOK'
    <2>1. mgr' \in MgrType
      BY BridgeBounds DEF BridgeInv, TypeOK, MgrType, Plans, SupStates, WatchEnds
    <2> QED
      BY BridgeBounds, <2>1
      DEF BridgeInv, TypeOK, planVars, Callers, Plans, SupStates, WatchEnds
  <1>2. Asks'
    BY BridgeBounds DEF BridgeInv, TypeOK, MgrType, Asks, WatchEnds, planVars, Callers
  <1>3. Hashes'
    BY BridgeBounds
    DEF BridgeInv, TypeOK, MgrType, Hashes, SameSpec, WatchEnds, planVars, Callers
  <1>4. OwnsProcess' /\ KeepsStatus' /\ OneCommand' /\ Delays'
    BY
    DEF BridgeInv, OwnsProcess, KeepsStatus, OneCommand, Delays, WatchEnds, planVars, Holding,
        Handling
  <1> QED
    BY <1>1, <1>2, <1>3, <1>4 DEF BridgeInv

LEMMA StepShutdown ==
    ASSUME BridgeInv, main # "exited", Shutdown
    PROVE  BridgeInv'
  <1>1. TypeOK'
    <2> QED
      BY BridgeBounds DEF BridgeInv, TypeOK, planVars, Callers, Plans, SupStates, Shutdown
  <1>2. OwnsProcess'
    BY BridgeBounds DEF BridgeInv, TypeOK, OwnsProcess, Shutdown, planVars, Callers
  <1>3. Asks'
    BY BridgeBounds DEF BridgeInv, TypeOK, Asks, Shutdown, planVars, Callers
  <1>4. Hashes'
    BY BridgeBounds DEF BridgeInv, TypeOK, Hashes, SameSpec, Shutdown, planVars, Callers
  <1>5. Delays'
    BY BridgeBounds, Nominal DEF BridgeInv, TypeOK, Delays, Shutdown, planVars, Callers
  <1>6. KeepsStatus' /\ OneCommand'
    BY DEF BridgeInv, KeepsStatus, OneCommand, Shutdown, planVars, Holding, Handling
  <1> QED
    BY <1>1, <1>2, <1>3, <1>4, <1>5, <1>6 DEF BridgeInv

LEMMA StepClosed ==
    ASSUME BridgeInv, main # "exited", Closed
    PROVE  BridgeInv'
  <1>1. TypeOK'
    <2>1. call' \in [Callers -> CallType]
      BY BridgeBounds DEF BridgeInv, TypeOK, CallType, Plans, Closed, Ask, Callers
    <2> QED
      BY BridgeBounds, <2>1
      DEF BridgeInv, TypeOK, planVars, Callers, Plans, SupStates, Closed, Ask
  <1>2. OwnsProcess'
    BY BridgeBounds DEF BridgeInv, TypeOK, CallType, OwnsProcess, Closed, Ask, planVars, Callers
  <1>3. KeepsStatus'
    BY BridgeBounds DEF BridgeInv, TypeOK, CallType, KeepsStatus, Closed, Ask, planVars, Callers
  <1>4. OneCommand'
    BY BridgeBounds
    DEF BridgeInv, TypeOK, CallType, OneCommand, KeepsStatus, OwnsProcess, Asks, Closed, Ask,
        planVars, Holding, Handling, Callers
  <1>5. Asks'
    BY BridgeBounds DEF BridgeInv, TypeOK, CallType, Asks, Closed, Ask, planVars, Callers
  <1>6. Hashes'
    BY BridgeBounds
    DEF BridgeInv, TypeOK, CallType, Hashes, SameSpec, Closed, Ask, planVars, Callers
  <1>7. Delays'
    BY BridgeBounds, Nominal
    DEF BridgeInv, TypeOK, CallType, Delays, Closed, Ask, planVars, Callers
  <1> QED
    BY <1>1, <1>2, <1>3, <1>4, <1>5, <1>6, <1>7 DEF BridgeInv

LEMMA StepOutOfTime ==
    ASSUME BridgeInv, main # "exited", OutOfTime
    PROVE  BridgeInv'
  <1>1. TypeOK'
    <2>1. call' \in [Callers -> CallType]
      BY BridgeBounds DEF BridgeInv, TypeOK, CallType, Plans, OutOfTime, Ask, Callers
    <2> QED
      BY BridgeBounds, <2>1
      DEF BridgeInv, TypeOK, planVars, Callers, Plans, SupStates, OutOfTime, Ask
  <1>2. OwnsProcess'
    BY BridgeBounds
    DEF BridgeInv, TypeOK, CallType, OwnsProcess, OutOfTime, Ask, planVars, Callers
  <1>3. KeepsStatus'
    BY BridgeBounds
    DEF BridgeInv, TypeOK, CallType, KeepsStatus, OutOfTime, Ask, planVars, Callers
  <1>4. OneCommand'
    BY BridgeBounds
    DEF BridgeInv, TypeOK, CallType, OneCommand, KeepsStatus, OwnsProcess, Asks, OutOfTime,
        Ask, planVars, Holding, Handling, Callers
  <1>5. Asks'
    BY BridgeBounds DEF BridgeInv, TypeOK, CallType, Asks, OutOfTime, Ask, planVars, Callers
  <1>6. Hashes'
    BY BridgeBounds
    DEF BridgeInv, TypeOK, CallType, Hashes, SameSpec, OutOfTime, Ask, planVars, Callers
  <1>7. Delays'
    BY BridgeBounds, Nominal
    DEF BridgeInv, TypeOK, CallType, Delays, OutOfTime, Ask, planVars, Callers
  <1> QED
    BY <1>1, <1>2, <1>3, <1>4, <1>5, <1>6, <1>7 DEF BridgeInv

LEMMA StepExit ==
    ASSUME BridgeInv, main # "exited", Exit
    PROVE  BridgeInv'
  <1>1. TypeOK'
    <2>1. procs' \in [Pids -> ProcType]
      BY BridgeBounds DEF BridgeInv, TypeOK, ProcType, Plans, Exit
    <2> QED
      BY BridgeBounds, <2>1 DEF BridgeInv, TypeOK, planVars, Callers, Plans, SupStates, Exit
  <1>2. OwnsProcess'
    BY BridgeBounds DEF BridgeInv, TypeOK, ProcType, OwnsProcess, Exit, planVars, Callers
  <1>3. Asks'
    BY BridgeBounds DEF BridgeInv, TypeOK, ProcType, Asks, Exit, planVars, Callers
  <1>4. Hashes'
    BY BridgeBounds DEF BridgeInv, TypeOK, ProcType, Hashes, SameSpec, Exit, planVars, Callers
  <1>5. Delays'
    BY BridgeBounds, Nominal DEF BridgeInv, TypeOK, ProcType, Delays, Exit, planVars, Callers
  <1>6. KeepsStatus' /\ OneCommand'
    BY DEF BridgeInv, KeepsStatus, OneCommand, Exit, planVars, Holding, Handling
  <1> QED
    BY <1>1, <1>2, <1>3, <1>4, <1>5, <1>6 DEF BridgeInv

LEMMA StepChange ==
    ASSUME BridgeInv, main # "exited", Change
    PROVE  BridgeInv'
  <1>1. TypeOK'
    <2>1. nodes' \in Plans /\ changes' \in 0..MaxChanges
      BY BridgeBounds DEF Change, BridgeInv, TypeOK, Plans
    <2>2. entry' \in BOOLEAN
      BY Zenon DEF Change, BridgeInv, TypeOK
    <2> QED
      BY <2>1, <2>2 DEF Change, BridgeInv, TypeOK
  <1>2. OwnsProcess' /\ KeepsStatus' /\ OneCommand' /\ Asks' /\ Hashes' /\ Delays'
    BY
    DEF BridgeInv, OwnsProcess, KeepsStatus, OneCommand, Asks, Hashes, Delays, Change,
        planVars, Holding, Handling, SameSpec
  <1> QED
    BY <1>1, <1>2 DEF BridgeInv

LEMMA StepProcessDies ==
    ASSUME BridgeInv, NEW p \in Pids, ProcessDies(p)
    PROVE  BridgeInv'
  <1>1. TypeOK'
    <2>1. procs' \in [Pids -> ProcType]
      BY BridgeBounds DEF BridgeInv, TypeOK, ProcType, Plans, ProcessDies, Gone, Fault
    <2>2. faults' \in 0..MaxFaults
      BY BridgeBounds DEF BridgeInv, TypeOK, ProcessDies, Gone, Fault
    <2> QED
      BY BridgeBounds, <2>1, <2>2
      DEF BridgeInv, TypeOK, planVars, Callers, Plans, SupStates, ProcessDies, Gone, Fault
  <1>2. OwnsProcess'
    BY BridgeBounds
    DEF BridgeInv, TypeOK, ProcType, OwnsProcess, ProcessDies, Gone, Fault, planVars, Callers
  <1>3. Delays'
    BY BridgeBounds, Nominal
    DEF BridgeInv, TypeOK, MgrType, CallType, SupType, LoopType, ProcType, SupStates, Plans,
        Delays, ProcessDies, Gone, Fault, planVars, Callers
  <1>4. KeepsStatus' /\ OneCommand' /\ Asks' /\ Hashes'
    BY
    DEF BridgeInv, KeepsStatus, OneCommand, Asks, Hashes, ProcessDies, planVars, Holding,
        Handling, SameSpec
  <1> QED
    BY <1>1, <1>2, <1>3, <1>4 DEF BridgeInv

LEMMA StepProcessEnds ==
    ASSUME BridgeInv, NEW p \in Pids, ProcessEnds(p)
    PROVE  BridgeInv'
  <1>1. TypeOK'
    <2>1. procs' \in [Pids -> ProcType]
      BY BridgeBounds DEF BridgeInv, TypeOK, ProcType, Plans, ProcessEnds, Gone
    <2> QED
      BY BridgeBounds, <2>1
      DEF BridgeInv, TypeOK, planVars, Callers, Plans, SupStates, ProcessEnds, Gone
  <1>2. OwnsProcess'
    BY BridgeBounds
    DEF BridgeInv, TypeOK, ProcType, OwnsProcess, ProcessEnds, Gone, planVars, Callers
  <1>3. Delays'
    BY BridgeBounds, Nominal
    DEF BridgeInv, TypeOK, ProcType, Delays, OwnsProcess, KeepsStatus, ProcessEnds, Gone,
        planVars, Callers
  <1>4. KeepsStatus' /\ OneCommand' /\ Asks' /\ Hashes'
    BY
    DEF BridgeInv, KeepsStatus, OneCommand, Asks, Hashes, ProcessEnds, planVars, Holding,
        Handling, SameSpec
  <1> QED
    BY <1>1, <1>2, <1>3, <1>4 DEF BridgeInv

----------------------------------------------------------------------------
\* The theorems.

LEMMA BridgeInit ==
    ASSUME Init PROVE BridgeInv
  <1> USE BridgeBounds DEF Init
  <1>1. TypeOK
    <2>1. nodes \in Plans /\ None \in Plans
      BY DEF Plans
    <2>2. mgr \in MgrType /\ sup \in SupType
      BY <2>1, Ranges DEF MgrType, SupType, SupStates
    <2>3. call \in [Callers -> CallType] /\ procs \in [Pids -> ProcType]
      BY <2>1 DEF CallType, ProcType, idleCall, NoProc
    <2>4. loop \in LoopType
      BY <2>1, Ranges DEF LoopType, NoLoop
    <2>5. changes \in 0..MaxChanges /\ faults \in 0..MaxFaults
      OBVIOUS
    <2> QED
      BY <2>1, <2>2, <2>3, <2>4, <2>5 DEF TypeOK
  <1>2. OwnsProcess /\ KeepsStatus
    BY DEF OwnsProcess, KeepsStatus, NoLoop, NoProc
  <1>3. OneCommand
    BY DEF OneCommand, Holding, Handling, Callers, idleCall, NoLoop
  <1>4. Asks /\ Hashes /\ Delays
    BY DEF Asks, Hashes, SameSpec, Delays, Callers, idleCall, NoLoop
  <1> QED
    BY <1>1, <1>2, <1>3, <1>4 DEF BridgeInv

LEMMA BridgeStep ==
    ASSUME BridgeInv, [Next]_vars PROVE BridgeInv'
  <1>1. CASE UNCHANGED vars
    BY <1>1 DEF vars, BridgeInv, TypeOK, OwnsProcess, KeepsStatus, OneCommand, Asks,
                Hashes, SameSpec, Delays
  <1>2. CASE Over
    BY <1>1, <1>2 DEF Over
  <1>3. ASSUME NEW p \in Pids, ProcessDies(p) \/ ProcessEnds(p) PROVE BridgeInv'
    BY <1>3, StepProcessDies, StepProcessEnds
  <1>4. ASSUME NEW c \in Callers, main # "exited", CallSteps(c) \/ startFails(c)
        PROVE  BridgeInv'
    BY <1>4, StepLock, StepStartLocked, StepStartFails, StepSend, StepStopped DEF CallSteps
  <1>5. CASE main # "exited" /\ (LoopSteps \/ RelaunchFails \/ UpdateFails)
    BY <1>5, StepChildExited, StepSleep, StepTimer, StepRelaunch, StepRelaunchFails,
       StepTerminate, StepTerminated, StepHandleStop, StepFinish, StepHandleUpdate,
       StepUpdateFails DEF LoopSteps
  <1>6. CASE main # "exited" /\ (MgrSteps \/ RetryDue)
    BY <1>6, StepLook, StepApplyBridge, StepStopBridge, StepUpdated, StepReadBridge,
       StepWatchEnds, StepRetryDue DEF MgrSteps
  <1>7. CASE main # "exited" /\ (Shutdown \/ MainSteps \/ Change)
    BY <1>7, StepShutdown, StepClosed, StepOutOfTime, StepExit, StepChange DEF MainSteps
  <1> QED
    BY <1>1, <1>2, <1>3, <1>4, <1>5, <1>6, <1>7 DEF Next

\* Every part of BridgeInv holds throughout, whatever the specs, the delays and the bounds.
THEOREM BridgeInvariance == Spec => []BridgeInv
  <1>1. Init => BridgeInv
    BY BridgeInit
  <1>2. BridgeInv /\ [Next]_vars => BridgeInv'
    BY BridgeStep
  <1> QED
    BY <1>1, <1>2, PTL DEF Spec

\* A loop without a process has left none behind.
LEMMA NothingAlive ==
    ASSUME BridgeInv, loop.ch = 0 PROVE Alive = {}
  <1>1. 0 \notin Pids
    BY BridgeBounds DEF Pids, MaxLaunches
  <1> QED
    BY <1>1 DEF BridgeInv, OwnsProcess, Alive

\* There is never more than one bridge process (supervisor.go:376-429).
THEOREM OneBridge == Spec => []OneChild
  <1>1. BridgeInv => OneChild
    <2> SUFFICES ASSUME BridgeInv PROVE Cardinality(Alive) <= 1
      BY DEF OneChild
    <2>1. Alive \subseteq {loop.ch}
      BY DEF BridgeInv, OwnsProcess, Alive
    <2>2. IsFiniteSet({loop.ch}) /\ Cardinality({loop.ch}) = 1
      BY FS_Singleton
    <2> QED
      BY <2>1, <2>2, FS_Subset
  <1> QED
    BY <1>1, BridgeInvariance, PTL

\* Status, the manager's hash and the delays are what they say (supervisor.go:431-454,
\* bridge.go:155-178, supervisor.go:68-71).
THEOREM EverythingInStep == Spec => []InStep
  <1>1. BridgeInv => StatusTrue
    <2> SUFFICES ASSUME BridgeInv PROVE StatusTrue
      OBVIOUS
    <2>1. sup.state = "running" =>
            sup.run /\ sup.pid = loop.ch /\ procs[loop.ch].spec = sup.spec
      BY DEF BridgeInv, OwnsProcess, KeepsStatus
    <2>2. sup.state # "running" => Alive = {}
      BY NothingAlive DEF BridgeInv, KeepsStatus
    <2>3. sup.state = "backoff" => sup.retryAt \/ loop.pc \in {"handle", "handled", "finish"}
      BY DEF BridgeInv, TypeOK, LoopType, OwnsProcess, KeepsStatus
    <2> QED
      BY <2>1, <2>2, <2>3 DEF StatusTrue, BridgeInv, KeepsStatus
  <1>2. BridgeInv => HashInStep
    BY DEF BridgeInv, Hashes, SameSpec, HashInStep
  <1>3. BridgeInv => BackoffDoubles
    BY DEF BridgeInv, Delays, BackoffDoubles
  <1>4. BridgeInv => InStep
    BY <1>1, <1>2, <1>3 DEF InStep
  <1> QED
    BY <1>4, BridgeInvariance, PTL

\* A hub that waited for its manager leaves no bridge behind (main.go, the shutdown).
THEOREM NoBridgeLeft == Spec => []StoppedForGood
  <1>1. BridgeInv => StoppedForGood
    BY NothingAlive DEF BridgeInv, Asks, OwnsProcess, KeepsStatus, StoppedForGood
  <1> QED
    BY <1>1, BridgeInvariance, PTL
====
