--------------------------- MODULE UsageCollector ---------------------------
(***************************************************************************)
(* How the remote-nodes hub counts the traffic that its nodes' agents      *)
(* buffer (src/internal/remotenodes/usage): Poll reads an agent's hourly   *)
(* buckets and counts the completed ones, Flush writes the counts with the *)
(* mark "counted through here" and then has the agents drop what the file  *)
(* holds, Forget lets go of a removed node, and the hub may die between    *)
(* any two steps and open its file again.                                  *)
(*                                                                         *)
(* An action is what happens under Collector.mu, or one call to an agent   *)
(* or to the disk made without it.  Bytes are kept per node and hour: a    *)
(* day, a lifetime total and the retired totals of the code are sums of    *)
(* these.  Rates, the chart, who is online and pruning of days are left    *)
(* out; an agent's clock never runs backwards and stays within a day of    *)
(* the hub's.                                                              *)
(*                                                                         *)
(* An agent can lose what it buffers: it evicts buckets past its retention *)
(* and, when it restarts, has what its store file holds, which may be old, *)
(* or nothing.  lost records that, and what the hub promises is stated     *)
(* against it: the loss costs those bytes and nothing more (doc.go).       *)
(***************************************************************************)
EXTENDS Naturals

CONSTANTS
    Nodes,       \* ids of the nodes
    MaxHour,     \* bound on the agents' clock
    MaxBytes,    \* bounds on what a node moves in each hour
    MaxUpsets,   \* bound on how often the hub dies, an agent restarts or a node is removed
    Retention,   \* hours an agent keeps a bucket nobody acknowledges
    NoNode       \* no node is being told

Hours == 1..MaxHour
Marks == 0..MaxHour

ASSUME CollectorAssumption ==
    /\ MaxHour \in Nat \ {0}
    /\ MaxBytes \in [Hours -> Nat]
    /\ MaxUpsets \in Nat
    /\ Retention \in Nat \ {0}
    /\ NoNode \notin Nodes

VARIABLES
    (* the nodes *)
    hour,        \* the hour the agents are in
    sent,        \* what each node has moved in each hour
    bucket,      \* what its agent holds of that
    lost,        \* the most that its agent has lost of an hour the hub's file did not count
    acks,        \* acknowledgements on their way to an agent
    (* the hub's memory *)
    known,       \* Collector.nodes has the node
    count,       \* nodeHist: the bytes counted
    through,     \* nodeHist.through
    diskThrough, \* the mark as the file holds it
    src,         \* the node has been polled in this run
    acked,       \* the mark its agent was last told
    staleSeen,   \* its agent was found holding what the file counts
    shown,       \* partial: the newest bucket, on the page but not counted
    retired,     \* bytes counted on the node before it was forgotten
    noWrite,     \* the file is from a newer release
    (* the calls in progress *)
    pollPhase,   \* where the node's poll is
    orphan,      \* the node was forgotten since the poll looked it up
    answer,      \* the agent's answer to the poll
    pollMark,    \* the mark the poll is telling the agent
    flushPhase,  \* where the flush is
    doc,         \* what it is writing, the marks included
    jobs,        \* the marks acknowledge still has to send, 0 for none
    orphans,     \* the nodes forgotten since it listed them
    asked,       \* the node whose agent it is telling
    (* the rest of the world *)
    file,        \* usage.json
    removal,     \* how far the manager is with removing the node
    upsets       \* how often the hub has died, an agent restarted, a node was removed

agentVars == <<hour, sent, bucket, lost>>
countVars == <<count, through, shown>>
ackVars == <<diskThrough, src, acked, staleSeen>>
hubVars == <<known, countVars, ackVars, retired, noWrite>>
pollVars == <<pollPhase, orphan, answer, pollMark>>
flushVars == <<flushPhase, doc, jobs, orphans, asked>>
worldVars == <<removal, upsets>>
vars == <<agentVars, acks, hubVars, pollVars, flushVars, file, worldVars>>

----------------------------------------------------------------------------
(* Data *)

Bytes == [Hours -> Nat]
Zero == [h \in Hours |-> 0]

Doc == [count : [Nodes -> Bytes], through : [Nodes -> Marks], retired : [Nodes -> Bytes]]

NoDoc == [count |-> [i \in Nodes |-> Zero], through |-> [i \in Nodes |-> 0],
          retired |-> [i \in Nodes |-> Zero]]

Ack == [node : Nodes, through : Marks, by : {"poll", "flush"}]

max(a, b) == IF a >= b THEN a ELSE b

plus(f, g) == [h \in Hours |-> f[h] + g[h]]

\* The hub without a file, and everything as NewMemoryStore and Open leave it.
Init ==
    /\ hour = 1 /\ sent = [i \in Nodes |-> Zero] /\ bucket = [i \in Nodes |-> Zero]
    /\ lost = [i \in Nodes |-> Zero]
    /\ acks = {}
    /\ known = [i \in Nodes |-> FALSE]
    /\ count = [i \in Nodes |-> Zero] /\ through = [i \in Nodes |-> 0]
    /\ shown = [i \in Nodes |-> Zero]
    /\ diskThrough = [i \in Nodes |-> 0] /\ src = [i \in Nodes |-> FALSE]
    /\ acked = [i \in Nodes |-> 0] /\ staleSeen = [i \in Nodes |-> FALSE]
    /\ retired = [i \in Nodes |-> Zero] /\ noWrite = FALSE
    /\ pollPhase = [i \in Nodes |-> "idle"] /\ orphan = [i \in Nodes |-> FALSE]
    /\ answer = [i \in Nodes |-> Zero] /\ pollMark = [i \in Nodes |-> 0]
    /\ flushPhase = "idle" /\ doc = NoDoc /\ jobs = [i \in Nodes |-> 0]
    /\ orphans = {} /\ asked = NoNode
    /\ file = NoDoc
    /\ removal = [i \in Nodes |-> "in"] /\ upsets = 0

----------------------------------------------------------------------------
(* The agent *)

\* One more of the events that the bound is on.
upset == upsets < MaxUpsets /\ upsets' = upsets + 1

\* (history) Agent i's buffer is b from here on, not by the hub's word: what the
\* hub's file does not count and b has less of is lost.
loses(i, b) ==
    lost' = [lost EXCEPT ![i] =
               [h \in Hours |-> IF h > file.through[i] /\ b[h] < bucket[i][h]
                                THEN max(@[h], sent[i][h] - b[h]) ELSE @[h]]]

\* Buckets older than the retention are evicted; now is the hour or, for a moment
\* after its first, past it.
evict(b, now) == [h \in Hours |-> IF h + Retention < now THEN 0 ELSE b[h]]

\* MemoryStore.Accumulate: bytes go into the bucket of the present hour, and the
\* expired buckets go.
Accumulate(i) ==
    /\ sent[i][hour] < MaxBytes[hour]
    /\ sent' = [sent EXCEPT ![i][hour] = @ + 1]
    /\ \E now \in {hour, hour + 1} :
        /\ bucket' = [bucket EXCEPT ![i] = [evict(bucket[i], now) EXCEPT ![hour] = @ + 1]]
        /\ loses(i, evict(bucket[i], now))
    /\ UNCHANGED <<hour, acks, hubVars, pollVars, flushVars, file, worldVars>>

HourPasses ==
    /\ hour < MaxHour
    /\ hour' = hour + 1
    /\ UNCHANGED <<sent, bucket, lost, acks, hubVars, pollVars, flushVars, file, worldVars>>

\* (mutant of Drain: the mark's own bucket stays)
DrainBefore(b, mark) == [h \in Hours |-> IF h < mark THEN 0 ELSE b[h]]

\* MemoryStore.Drain: the buckets up to the mark are dropped.
Drain(b, mark) == [h \in Hours |-> IF h =< mark THEN 0 ELSE b[h]]

\* AckBufferedTraffic at the agent, whether or not the hub still waits for it.
AckArrives(a) ==
    /\ a \in acks
    /\ acks' = acks \ {a}
    /\ bucket' = [bucket EXCEPT ![a.node] = Drain(@, a.through)]
    /\ UNCHANGED <<hour, sent, lost, hubVars, pollVars, flushVars, file, worldVars>>

\* What a store file of any earlier moment may hold: of an hour no more than the
\* node has moved, and less, or nothing, where it was written before the rest came
\* or after a drain, an eviction or a fresh start.
storeFiles(i) ==
    {b \in [Hours -> UNION {0..sent[i][h] : h \in Hours}] : \A h \in Hours : b[h] =< sent[i][h]}

\* The agent restarts and loadFromDisk takes in its store file, or finds none,
\* cannot decode it or does not know its version, and starts fresh (the empty
\* buffer).  FileStore.flush runs now and then and only logs a failure, so what
\* came since the file was written is gone, and buckets that the agent has dropped
\* and answered for can come back.
AgentRestarts(i) ==
    /\ upset
    /\ \E b \in storeFiles(i) :
        /\ bucket' = [bucket EXCEPT ![i] = b]
        /\ loses(i, b)
    /\ UNCHANGED <<hour, sent, acks, hubVars, pollVars, flushVars, file, removal>>

----------------------------------------------------------------------------
(* Poll *)

\* Collector.Poll up to the call: nodeLocked makes the node if it is new, and
\* the loop that polls it runs until the manager has ended it.
PollBegin(i) ==
    /\ pollPhase[i] = "idle"
    /\ removal[i] # "gone"
    /\ pollPhase' = [pollPhase EXCEPT ![i] = "asking"]
    /\ orphan' = [orphan EXCEPT ![i] = FALSE]
    /\ UNCHANGED <<answer, pollMark>>
    /\ known' = [known EXCEPT ![i] = TRUE]
    /\ src' = [src EXCEPT ![i] = TRUE]
    /\ UNCHANGED <<agentVars, acks, countVars, diskThrough, acked, staleSeen, retired, noWrite,
                   flushVars, file, worldVars>>

\* The agent makes its answer to GetStatsBundle.
Answer(i) ==
    /\ pollPhase[i] = "asking"
    /\ pollPhase' = [pollPhase EXCEPT ![i] = "answered"]
    /\ answer' = [answer EXCEPT ![i] = bucket[i]]
    /\ UNCHANGED <<orphan, pollMark>>
    /\ UNCHANGED <<agentVars, acks, hubVars, flushVars, file, worldVars>>

pollEnds(i) ==
    /\ pollPhase' = [pollPhase EXCEPT ![i] = "idle"]
    /\ orphan' = [orphan EXCEPT ![i] = FALSE]
    /\ answer' = [answer EXCEPT ![i] = Zero]
    /\ pollMark' = [pollMark EXCEPT ![i] = 0]

\* No answer, or one without traffic: nothing that is counted changes.
PollFails(i) ==
    /\ pollPhase[i] \in {"asking", "answered"}
    /\ pollEnds(i)
    /\ UNCHANGED <<agentVars, acks, hubVars, flushVars, file, worldVars>>

\* The hour after which no record of the answer follows.
newest(a, h) == a[h] > 0 /\ \A g \in Hours : g > h => a[g] = 0

\* (mutant of countable: the mark is not looked at)
countableAgain(a, mark, h) == a[h] > 0 /\ ~ newest(a, h)

\* A newer bucket exists and the mark is before this one.
countable(a, mark, h) == a[h] > 0 /\ h > mark /\ ~ newest(a, h)

\* The mark after counting: the last of the counted hours.
markAfter(a, old, m) ==
    \/ m = old /\ \A h \in Hours : ~ countable(a, old, h)
    \/ m \in Hours /\ countable(a, old, m) /\ \A h \in Hours : countable(a, old, h) => h =< m

\* nodeHist.add, for every bucket that counts.
add(c, a, mark) == [h \in Hours |-> IF countable(a, mark, h) THEN c[h] + a[h] ELSE c[h]]

\* The live partial: the newest bucket, if it is past the mark.
showing(a, mark) == [h \in Hours |-> IF newest(a, h) /\ h > mark THEN a[h] ELSE 0]

\* The agent holds buckets that the file counts.
stale(a, mark, disk) == \E h \in Hours : a[h] > 0 /\ h =< mark /\ h =< disk

\* foldLocked.  A poll whose node was forgotten meanwhile changes nothing.  If
\* the agent holds buckets that the file counts it is told at once.
Fold(i) ==
    LET a == answer[i]
        tell == stale(a, through[i], diskThrough[i]) /\ ~ noWrite
    IN
    /\ pollPhase[i] = "answered"
    /\ ~ orphan[i]
    /\ \E m \in Marks :
        /\ markAfter(a, through[i], m)
        /\ through' = [through EXCEPT ![i] = m]
    /\ count' = [count EXCEPT ![i] = add(@, a, through[i])]
    /\ shown' = [shown EXCEPT ![i] = showing(a, through[i])]
    /\ staleSeen' = [staleSeen EXCEPT ![i] = @ \/ stale(a, through[i], diskThrough[i])]
    /\ \/ /\ tell
          /\ pollPhase' = [pollPhase EXCEPT ![i] = "acking"]
          /\ pollMark' = [pollMark EXCEPT ![i] = diskThrough[i]]
          /\ answer' = [answer EXCEPT ![i] = Zero]
          /\ acks' = acks \cup {[node |-> i, through |-> diskThrough[i], by |-> "poll"]}
          /\ UNCHANGED orphan
       \/ /\ ~ tell
          /\ pollEnds(i)
          /\ UNCHANGED acks
    /\ UNCHANGED <<agentVars, known, diskThrough, src, acked, retired, noWrite, flushVars, file, worldVars>>

FoldForgotten(i) ==
    /\ pollPhase[i] = "answered"
    /\ orphan[i]
    /\ pollEnds(i)
    /\ UNCHANGED <<agentVars, acks, hubVars, flushVars, file, worldVars>>

\* ackNode has its answer.  The fields it sets are those of the node object it
\* was given, which is no longer the hub's once the node was forgotten.
noteAck(i, mark, forgotten) ==
    /\ acked' = [acked EXCEPT ![i] = IF forgotten THEN @ ELSE max(@, mark)]
    /\ staleSeen' = [staleSeen EXCEPT ![i] = forgotten /\ @]
    /\ UNCHANGED <<diskThrough, src>>

PollAcked(i) ==
    /\ pollPhase[i] = "acking"
    /\ [node |-> i, through |-> pollMark[i], by |-> "poll"] \notin acks
    /\ noteAck(i, pollMark[i], orphan[i])
    /\ pollEnds(i)
    /\ UNCHANGED <<agentVars, acks, known, countVars, retired, noWrite, flushVars, file, worldVars>>

\* The call fails; the request may still arrive.
PollAckFails(i) ==
    /\ pollPhase[i] = "acking"
    /\ pollEnds(i)
    /\ UNCHANGED <<agentVars, acks, hubVars, flushVars, file, worldVars>>

----------------------------------------------------------------------------
(* Flush *)

mayFlush == flushPhase = "idle" /\ ~ noWrite

\* write, under the lock: what the file is to hold, and with it the marks.
FlushBegin ==
    /\ mayFlush
    /\ flushPhase' = "writing"
    /\ doc' = [count |-> count, through |-> through, retired |-> retired]
    /\ UNCHANGED <<jobs, orphans, asked>>
    /\ UNCHANGED <<agentVars, acks, hubVars, pollVars, file, worldVars>>

\* WriteFileAtomic, or no write because the bytes are the file's already.
WriteFile ==
    /\ flushPhase = "writing"
    /\ file' = doc
    /\ flushPhase' = "marking"
    /\ UNCHANGED <<doc, jobs, orphans, asked>>
    /\ UNCHANGED <<agentVars, acks, hubVars, pollVars, worldVars>>

\* The write fails: the file is the old one and the flush ends.
WriteFails ==
    /\ flushPhase = "writing"
    /\ flushPhase' = "idle" /\ doc' = NoDoc
    /\ UNCHANGED <<jobs, orphans, asked>>
    /\ UNCHANGED <<agentVars, acks, hubVars, pollVars, file, worldVars>>

\* (mutant of marked: the mark in memory now, not the one that was written)
markedNow(i) == IF known[i] THEN max(diskThrough[i], through[i]) ELSE diskThrough[i]

\* The mark that went to disk, for a node that is there now.
marked(i) == IF known[i] THEN max(diskThrough[i], doc.through[i]) ELSE diskThrough[i]

\* The end of write.
MarkWritten ==
    /\ flushPhase = "marking"
    /\ diskThrough' = [i \in Nodes |-> marked(i)]
    /\ flushPhase' = "listing" /\ doc' = NoDoc
    /\ UNCHANGED <<jobs, orphans, asked>>
    /\ UNCHANGED <<agentVars, acks, known, countVars, src, acked, staleSeen, retired, noWrite, pollVars,
                   file, worldVars>>

\* Which agents are to be told.
due(i) == src[i] /\ diskThrough[i] > 0 /\ (diskThrough[i] > acked[i] \/ staleSeen[i])

\* acknowledge, under the lock.
ListDue ==
    /\ flushPhase = "listing"
    /\ flushPhase' = "acking"
    /\ jobs' = [i \in Nodes |-> IF due(i) THEN diskThrough[i] ELSE 0]
    /\ UNCHANGED <<doc, orphans, asked>>
    /\ UNCHANGED <<agentVars, acks, hubVars, pollVars, file, worldVars>>

\* One agent is told; the code goes by id, the model in any order.
FlushAsks(i) ==
    /\ flushPhase = "acking" /\ asked = NoNode /\ jobs[i] > 0
    /\ asked' = i
    /\ UNCHANGED <<flushPhase, doc, jobs, orphans>>
    /\ acks' = acks \cup {[node |-> i, through |-> jobs[i], by |-> "flush"]}
    /\ UNCHANGED <<agentVars, hubVars, pollVars, file, worldVars>>

FlushAcked(i) ==
    /\ flushPhase = "acking" /\ asked = i
    /\ [node |-> i, through |-> jobs[i], by |-> "flush"] \notin acks
    /\ noteAck(i, jobs[i], i \in orphans)
    /\ asked' = NoNode /\ jobs' = [jobs EXCEPT ![i] = 0]
    /\ UNCHANGED <<flushPhase, doc, orphans>>
    /\ UNCHANGED <<agentVars, acks, known, countVars, retired, noWrite, pollVars, file, worldVars>>

\* One node's failure doesn't stop the others.
FlushAckFails(i) ==
    /\ flushPhase = "acking" /\ asked = i
    /\ asked' = NoNode /\ jobs' = [jobs EXCEPT ![i] = 0]
    /\ UNCHANGED <<flushPhase, doc, orphans>>
    /\ UNCHANGED <<agentVars, acks, hubVars, pollVars, file, worldVars>>

\* Every agent has been told, or the context has ended.
FlushEnds ==
    /\ flushPhase = "acking" /\ asked = NoNode
    /\ flushPhase' = "idle" /\ jobs' = [i \in Nodes |-> 0] /\ orphans' = {}
    /\ UNCHANGED <<doc, asked, agentVars, acks, hubVars, pollVars, file, worldVars>>

----------------------------------------------------------------------------
(* Removing a node, and the life of the hub *)

\* (mutant of retire: what was counted goes with the node)
retireNothing(i) == retired

retire(i) == [retired EXCEPT ![i] = plus(@, count[i])]

\* Collector.Forget.
Forget(i) ==
    /\ retired' = retire(i)
    /\ known' = [known EXCEPT ![i] = FALSE]
    /\ count' = [count EXCEPT ![i] = Zero] /\ through' = [through EXCEPT ![i] = 0]
    /\ shown' = [shown EXCEPT ![i] = Zero]
    /\ diskThrough' = [diskThrough EXCEPT ![i] = 0] /\ src' = [src EXCEPT ![i] = FALSE]
    /\ acked' = [acked EXCEPT ![i] = 0] /\ staleSeen' = [staleSeen EXCEPT ![i] = FALSE]
    /\ orphan' = [orphan EXCEPT ![i] = pollPhase[i] # "idle"]
    /\ orphans' = IF flushPhase = "acking" THEN orphans \cup {i} ELSE orphans
    /\ UNCHANGED <<pollPhase, answer, pollMark, flushPhase, doc, jobs, asked, noWrite>>

\* Manager.forgetNode: the node's loop may be polling, and polls on until Sync
\* has ended it.
ForgetNode(i) ==
    /\ removal[i] = "in"
    /\ Forget(i)
    /\ removal' = [removal EXCEPT ![i] = "going"]
    /\ upset
    /\ UNCHANGED <<agentVars, acks, file>>

\* Manager.forget: the loop has ended.
LoopEnded(i) ==
    /\ removal[i] = "going" /\ pollPhase[i] = "idle"
    /\ Forget(i)
    /\ removal' = [removal EXCEPT ![i] = "gone"]
    /\ UNCHANGED <<agentVars, acks, file, upsets>>

\* What a start gets out of the file: nothing if a newer release wrote it.
decodeDoc(newer) == IF newer THEN NoDoc ELSE file

\* The hub dies and Open reads the file, or, in an older release than the one
\* that wrote it, leaves it alone.
Restart(newer) ==
    LET d == decodeDoc(newer) IN
    /\ upset
    /\ newer => file # NoDoc
    /\ noWrite' = newer
    /\ count' = d.count /\ through' = d.through /\ retired' = d.retired
    /\ known' = [i \in Nodes |-> d.through[i] > 0 \/ d.count[i] # Zero]
    /\ diskThrough' = d.through
    /\ shown' = [i \in Nodes |-> Zero]
    /\ src' = [i \in Nodes |-> FALSE] /\ acked' = [i \in Nodes |-> 0]
    /\ staleSeen' = [i \in Nodes |-> FALSE]
    /\ pollPhase' = [i \in Nodes |-> "idle"] /\ orphan' = [i \in Nodes |-> FALSE]
    /\ answer' = [i \in Nodes |-> Zero] /\ pollMark' = [i \in Nodes |-> 0]
    /\ flushPhase' = "idle" /\ doc' = NoDoc /\ jobs' = [i \in Nodes |-> 0]
    /\ orphans' = {} /\ asked' = NoNode
    /\ removal' = [i \in Nodes |-> IF removal[i] = "going" THEN "gone" ELSE removal[i]]
    /\ UNCHANGED <<agentVars, acks, file>>

Next ==
    \/ HourPasses \/ FlushBegin \/ WriteFile \/ WriteFails \/ MarkWritten \/ ListDue \/ FlushEnds
    \/ \E newer \in BOOLEAN : Restart(newer)
    \/ \E a \in acks : AckArrives(a)
    \/ \E i \in Nodes :
        \/ Accumulate(i) \/ AgentRestarts(i) \/ PollBegin(i) \/ Answer(i) \/ PollFails(i)
        \/ Fold(i) \/ FoldForgotten(i) \/ PollAcked(i) \/ PollAckFails(i)
        \/ FlushAsks(i) \/ FlushAcked(i) \/ FlushAckFails(i)
        \/ ForgetNode(i) \/ LoopEnded(i)

Spec == Init /\ [][Next]_vars

\* What is asked of the surroundings: polls and flushes are started again and
\* again (the manager's loop, the ticker of Run), and neither the network nor
\* the disk fails every time.
Fairness ==
    /\ \A i \in Nodes :
        /\ WF_vars(PollBegin(i) \/ FoldForgotten(i) \/ PollAcked(i))
        /\ SF_vars(Answer(i)) /\ SF_vars(Fold(i)) /\ SF_vars(FlushAsks(i))
    /\ WF_vars(\E a \in acks : AckArrives(a))
    /\ WF_vars(FlushBegin \/ MarkWritten \/ ListDue \/ FlushEnds \/ \E i \in Nodes : FlushAcked(i))
    /\ SF_vars(WriteFile)

FairSpec == Spec /\ Fairness

----------------------------------------------------------------------------
(* Properties *)

AgentsTyped ==
    /\ hour \in Hours /\ sent \in [Nodes -> Bytes] /\ bucket \in [Nodes -> Bytes]
    /\ lost \in [Nodes -> Bytes]
    /\ acks \subseteq Ack

CountsTyped ==
    /\ known \in [Nodes -> BOOLEAN] /\ count \in [Nodes -> Bytes]
    /\ through \in [Nodes -> Marks] /\ shown \in [Nodes -> Bytes]
    /\ retired \in [Nodes -> Bytes] /\ noWrite \in BOOLEAN

AcksTyped ==
    /\ diskThrough \in [Nodes -> Marks] /\ src \in [Nodes -> BOOLEAN]
    /\ acked \in [Nodes -> Marks] /\ staleSeen \in [Nodes -> BOOLEAN]

PollsTyped ==
    /\ pollPhase \in [Nodes -> {"idle", "asking", "answered", "acking"}]
    /\ orphan \in [Nodes -> BOOLEAN] /\ answer \in [Nodes -> Bytes]
    /\ pollMark \in [Nodes -> Marks]

FlushTyped ==
    /\ flushPhase \in {"idle", "writing", "marking", "listing", "acking"}
    /\ doc \in Doc /\ jobs \in [Nodes -> Marks] /\ orphans \subseteq Nodes
    /\ asked \in Nodes \cup {NoNode} /\ file \in Doc

WorldTyped ==
    /\ removal \in [Nodes -> {"in", "going", "gone"}] /\ upsets \in Nat

\* Types: every mark that is sent, kept or written is an hour or zero.
TypeOK == AgentsTyped /\ CountsTyped /\ AcksTyped /\ PollsTyped /\ FlushTyped /\ WorldTyped

\* What c counts of node i is what the node moved up to the mark, each byte once,
\* less at most what its agent lost.
ExactThrough(c, m, i) ==
    \A h \in Hours :
        IF h =< m THEN c[h] =< sent[i][h] /\ c[h] + lost[i][h] >= sent[i][h] ELSE c[h] = 0

\* The counting is exact (doc.go: "nothing is lost and nothing twice"; an agent
\* that loses its buffer "costs those bytes and nothing more"): in memory, and in
\* the file whatever the moment the hub dies, a node's history is what the node
\* moved in the hours up to the mark, each byte once, and short at most of what
\* its agent lost before the file counted it.
CountedExactly ==
    \A i \in Nodes : removal[i] = "in" =>
        /\ ExactThrough(file.count[i], file.through[i], i)
        /\ ~ noWrite => ExactThrough(count[i], through[i], i)

\* The hub loses no byte (Flush: "the agent keeps what it wasn't told to drop"):
\* but for what an agent lost by itself, what a node moved in an hour is whole at
\* its agent or whole in the file.
NothingLost ==
    \A i \in Nodes, h \in Hours : removal[i] = "in" =>
        \/ bucket[i][h] + lost[i][h] >= sent[i][h]
        \/ file.count[i][h] + lost[i][h] >= sent[i][h]

\* The page and a traffic limit, which add the growing bucket to what is
\* counted (sums, SubscriptionLifetime), never see more than was moved.
NeverOvershown ==
    \A i \in Nodes, h \in Hours : count[i][h] + shown[i][h] =< sent[i][h]

\* Removing a node does not give a traffic limit its bytes back (Forget): what
\* the file counts of an hour, retired bytes included, never gets less, through
\* flushes, failed writes, removals and restarts.
KeptTotals ==
    \A i \in Nodes, h \in Hours :
        file'.count[i][h] + file'.retired[i][h] >= file.count[i][h] + file.retired[i][h]

NeverGivenBack == [][KeptTotals]_vars

\* A completed bucket is counted once (doc.go: "A poll adds each completed bucket
\* to the totals once"), also when its node is removed: what is counted of an hour
\* in all, on the node and retired, is not more than the node moved.
CountedOnceEver ==
    \A i \in Nodes, h \in Hours : count[i][h] + retired[i][h] =< sent[i][h]

\* The file has what the agent had not lost of the hour, and the agent's buffer
\* is rid of it.
Settled(i, h) == file.count[i][h] + lost[i][h] >= sent[i][h] /\ bucket[i][h] = 0

\* A bucket that is followed by another gets into the file and out of the agent's
\* buffer, unless the agent loses the later one, the node is removed or the file
\* is not ours to write.
EverythingSettles ==
    \A i \in Nodes, h \in Hours :
        (bucket[i][h] > 0 /\ ~ newest(bucket[i], h))
            ~> (Settled(i, h) \/ newest(bucket[i], h) \/ removal[i] # "in" \/ noWrite)

============================================================================
