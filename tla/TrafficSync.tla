---- MODULE TrafficSync ----
\* The hub's side of traffic accounting for one node: syncSingleNode in
\* src/internal/node/usecase/node_stats.go with persistBufferedTraffic in
\* traffic_batch.go, against the agent's buckets and its two calls
\* GetBufferedTraffic and AckBufferedTraffic.
\*
\* A sync takes the node's gate (StatsGate), reads every bucket, books them in one
\* transaction and acknowledges the newest timestamp it read; the agent then drops
\* every bucket up to it.  The sync and the gate have one context: once it has ended
\* no call of the sync succeeds any more.  An acknowledgement can fail at the hub and
\* reach the agent later or never, the transaction can fail, and the hub can die
\* between any two steps, which takes the gates with it.
\*
\* The agent here is one that keeps what it is not told to drop: what it loses by
\* itself, or gets back, when it restarts from an old store file or evicts a bucket
\* is the subject of TrafficStore and UsageCollector.
EXTENDS StatsGate, FiniteSetsExt

CONSTANTS
  MaxHour,      \* bound: buckets are made in the hours 1..MaxHour
  MaxBytes,     \* bound: bytes the agent collects
  MaxTrouble    \* bound: contexts that end, calls and transactions that fail and
                \* deaths of the hub

ASSUME SyncBounds == MaxHour \in Nat /\ MaxBytes \in Nat /\ MaxTrouble \in Nat

Hours == 1..MaxHour

VARIABLES
  hour,      \* the agent's hour
  buckets,   \* what the agent holds: hour -> bytes, 0 for no bucket
  put,       \* what the agent ever collected: hour -> bytes
  phase,     \* caller -> how far its sync has come, "over" outside of one
  export,    \* caller -> the buckets it was answered
  booked,    \* the database: hour -> bytes
  unsure,    \* history: the bytes of batches that were booked and whose
             \* acknowledgement the hub did not see succeed
  late,      \* acknowledgements that failed at the hub and are still on their way
  trouble    \* how many of the troubles of MaxTrouble have happened

agentVars == <<hour, buckets, put>>
syncVars == <<phase, export>>
hubVars == <<booked, unsure>>
allVars == <<vars, agentVars, syncVars, hubVars, late, trouble>>

Empty == [h \in Hours |-> 0]

total(b) == MapThenSumSet(LAMBDA h : b[h], Hours)

SyncInit ==
  /\ Init
  /\ hour = 1
  /\ buckets = Empty /\ put = Empty /\ booked = Empty /\ unsure = Empty
  /\ phase = [c \in Callers |-> "over"]
  /\ export = [c \in Callers |-> Empty]
  /\ late = {}
  /\ trouble = 0

----------------------------------------------------------------------------
\* The agent.

HourPasses ==
  /\ hour < MaxHour
  /\ hour' = hour + 1
  /\ UNCHANGED <<vars, buckets, put, syncVars, hubVars, late, trouble>>

Accumulate ==
  /\ total(put) < MaxBytes
  /\ buckets' = [buckets EXCEPT ![hour] = @ + 1]
  /\ put' = [put EXCEPT ![hour] = @ + 1]
  /\ UNCHANGED <<vars, hour, syncVars, hubVars, late, trouble>>

\* The bucket of a timestamp that was acknowledged is dropped whole, whatever has
\* come into it since it was read.
Drain(t) == [h \in Hours |-> IF h <= t THEN 0 ELSE buckets[h]]

----------------------------------------------------------------------------
\* A caller at the gate.

\* acquireStatsSync, up to the release function it returns.
Acquire(c) ==
  /\ \/ \E n \in Nodes, g \in Gates : Enter(c, n, g)
     \/ Send(c)
     \/ Receive(c) /\ pc[c] = "sent"
     \/ GiveUp(c)
  /\ UNCHANGED <<agentVars, syncVars, hubVars, late, trouble>>

Begin(c) ==
  /\ Granted(c)
  /\ phase' = [phase EXCEPT ![c] = "begun"]
  /\ UNCHANGED <<agentVars, export, hubVars, late, trouble>>

\* The deferred release runs when the sync returns.
Release(c) ==
  /\ \/ Receive(c) /\ pc[c] = "hold" /\ phase[c] = "over"
     \/ releaseRef(c)
  /\ UNCHANGED <<agentVars, syncVars, hubVars, late, trouble>>

Deadline(c) ==
  /\ trouble < MaxTrouble
  /\ ContextEnds(c)
  /\ trouble' = trouble + 1
  /\ UNCHANGED <<agentVars, syncVars, hubVars, late>>

----------------------------------------------------------------------------
\* A sync, between Begin and Release.

syncEnds(c) ==
  /\ phase' = [phase EXCEPT ![c] = "over"]
  /\ export' = [export EXCEPT ![c] = Empty]

\* A call fails by itself, or because its context has ended.
fails(c) ==
  \/ done[c] /\ UNCHANGED trouble
  \/ ~ done[c] /\ trouble < MaxTrouble /\ trouble' = trouble + 1

\* GetStatsBundle or GetBufferedTraffic answers with every bucket, also the one
\* that still grows.
answer == buckets

Collect(c) ==
  /\ phase[c] = "begun" /\ ~ done[c]
  /\ export' = [export EXCEPT ![c] = answer]
  /\ phase' = [phase EXCEPT ![c] = "collected"]
  /\ UNCHANGED <<vars, agentVars, hubVars, late, trouble>>

\* The agent does not answer.
CollectFails(c) ==
  /\ phase[c] = "begun"
  /\ fails(c)
  /\ syncEnds(c)
  /\ UNCHANGED <<vars, agentVars, hubVars, late>>

\* The timestamp to acknowledge: the newest record of the batch, 0 with no record.
\* (mutant of through: the hour that runs)
throughNow(b) == hour
through(b) == Max({0} \cup {h \in Hours : b[h] # 0})

\* One transaction books every record of the batch.
Persist(c) ==
  /\ phase[c] = "collected" /\ ~ done[c] /\ through(export[c]) > 0
  /\ booked' = [h \in Hours |-> booked[h] + export[c][h]]
  /\ phase' = [phase EXCEPT ![c] = "booked"]
  /\ UNCHANGED <<vars, agentVars, export, unsure, late, trouble>>

\* (mutant of PersistNothing: the batch is acknowledged although it was rolled back)
PersistUnseen(c) ==
  /\ phase[c] = "collected"
  /\ IF through(export[c]) > 0
     THEN fails(c) /\ phase' = [phase EXCEPT ![c] = "booked"] /\ UNCHANGED export
     ELSE syncEnds(c) /\ UNCHANGED trouble
  /\ UNCHANGED <<vars, agentVars, hubVars, late>>

\* The transaction rolls back, or there is no record: nothing is acknowledged.
PersistNothing(c) ==
  /\ phase[c] = "collected"
  /\ IF through(export[c]) > 0 THEN fails(c) ELSE UNCHANGED trouble
  /\ syncEnds(c)
  /\ UNCHANGED <<vars, agentVars, hubVars, late>>

\* The batch between its commit and its acknowledgement: the gate lets in one caller at
\* a time, so there is one at most.
inFlight == {c \in Callers : phase[c] = "booked"}
underway == IF inFlight = {} THEN Empty ELSE export[CHOOSE c \in inFlight : TRUE]

\* The bytes nobody knows to be acknowledged, with batch b among them.
unseen(b) == [h \in Hours |-> unsure[h] + b[h]]

\* The agent drops the buckets and says so.
Ack(c) ==
  /\ phase[c] = "booked" /\ ~ done[c]
  /\ buckets' = Drain(through(export[c]))
  /\ syncEnds(c)
  /\ UNCHANGED <<vars, hour, put, hubVars, late, trouble>>

\* The acknowledgement fails at the hub, which logs it; the agent may still get it.
AckFails(c) ==
  /\ phase[c] = "booked"
  /\ fails(c)
  /\ late' = late \cup {export[c]}
  /\ unsure' = unseen(export[c])
  /\ syncEnds(c)
  /\ UNCHANGED <<vars, agentVars, booked>>

LateAck(e) ==
  /\ e \in late
  /\ late' = late \ {e}
  /\ buckets' = Drain(through(e))
  /\ UNCHANGED <<vars, hour, put, syncVars, hubVars, trouble>>

AckLost(e) ==
  /\ e \in late
  /\ late' = late \ {e}
  /\ UNCHANGED <<vars, agentVars, syncVars, hubVars, trouble>>

\* The hub dies: the database and the agent stay as they are, the gates are gone.
HubDies ==
  /\ trouble < MaxTrouble
  /\ trouble' = trouble + 1
  /\ statsSyncs' = [n \in Nodes |-> NoGate]
  /\ users' = [g \in Gates |-> 0]
  /\ token' = [g \in Gates |-> FALSE]
  /\ pc' = [c \in Callers |-> "idle"]
  /\ done' = [c \in Callers |-> FALSE]
  /\ phase' = [c \in Callers |-> "over"]
  /\ export' = [c \in Callers |-> Empty]
  /\ unsure' = unseen(underway)
  /\ UNCHANGED <<nodeOf, gateOf, agentVars, booked, late>>

Sync(c) ==
  \/ Collect(c) \/ CollectFails(c)
  \/ Persist(c) \/ PersistNothing(c)
  \/ Ack(c) \/ AckFails(c)

SyncNext ==
  \/ HourPasses \/ Accumulate \/ HubDies
  \/ \E c \in Callers : Acquire(c) \/ Begin(c) \/ Release(c) \/ Deadline(c) \/ Sync(c)
  \/ \E e \in late : LateAck(e) \/ AckLost(e)

\* The scheduler begins a sync again and again, each step of it has a deadline and a
\* channel serves its blocked senders first come, first served.
SyncFairness ==
  \A c \in Callers :
    /\ WF_allVars(Acquire(c) \/ Begin(c) \/ Release(c) \/ Sync(c))
    /\ SF_allVars(Acquire(c) /\ pc[c] = "select")

SyncSpec == SyncInit /\ [][SyncNext]_allVars

LiveSyncSpec == SyncSpec /\ SyncFairness

----------------------------------------------------------------------------

\* No byte is booked twice but for a batch whose acknowledgement failed or died with
\* the hub: what is booked and what the agent still holds is at most what it
\* collected, the batches nobody knows to be acknowledged, and the one between its
\* commit and its acknowledgement.  Collecting, booking and acknowledging under one
\* gate is what this needs (traffic_batch.go:26-28).
BookedOnce ==
  \A h \in Hours : booked[h] + buckets[h] <= put[h] + unseen(underway)[h]

\* Whatever happens to acknowledgements and to the hub, an acknowledgement that can
\* still reach the agent drops nothing unbooked from the hours before the newest it
\* names: those buckets have not changed since they were read and booked.
OlderHoursBooked ==
  \A e \in late \cup {export[c] : c \in inFlight} :
    \A h \in Hours : h < through(e) => buckets[h] <= e[h] /\ e[h] <= booked[h]

\* The hour is over, and no sync or acknowledgement under way that ends with its
\* bucket has less of it than the agent: those would drop bytes nobody booked
\* (DroppedWasReceived).
Closed(h) ==
  /\ h < hour
  /\ \A e \in late \cup {export[c] : c \in Callers} : through(e) = h => e[h] = buckets[h]

\* What the agent holds of an hour that is over is booked in full and then dropped,
\* whatever fails in between: a sync that fails leaves the bucket for the next, and
\* only a batch that is booked is acknowledged.
EverythingBooked ==
  \A h \in Hours, n \in 1..MaxBytes :
    (Closed(h) /\ buckets[h] = n) ~> (booked[h] >= n /\ buckets[h] = 0)

\* "AckBufferedTraffic acknowledges receipt of traffic records up to a given
\* timestamp" (src/internal/agent/server/server.go:1133): what the agent drops has
\* been received, so every byte it collected is booked or still in a bucket.
DroppedWasReceived == \A h \in Hours : put[h] <= booked[h] + buckets[h]
====
