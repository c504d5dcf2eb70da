---- MODULE TrafficStore ----
\* The agent's traffic buffer: the collector of src/internal/agent/traffic/collector.go
\* over the file store of file_store.go and memory_store.go, for one counter.
\*
\* Xray counts the bytes it moves.  Every few seconds the collector reads the
\* counter, puts the difference to its baseline into the bucket of the current
\* hour and stores the new baseline.  A loop writes buckets and baseline to a file
\* through a temporary name; the hub's acknowledgement drops buckets and writes the
\* file too, on a goroutine of its own.  The agent may die at any moment and comes
\* back from the file, with Xray still running or started anew.
EXTENDS Naturals

CONSTANTS
  MaxHour,          \* bound: buckets are made in the hours 0..MaxHour
  Retention,        \* hours a bucket is kept
  MaxSent,          \* bound: bytes Xray moves
  MaxXrayStarts,    \* bound: restarts of Xray alone
  MaxCrashes,       \* bound: deaths of the agent
  MaxAcks,          \* bound: acknowledgements
  MaxFails,         \* bound: flushes that fail to write
  Inodes,           \* files on disk
  NoInode,          \* a name with no file
  Torn              \* a file that is not a whole document

ASSUME BoundsAreNumbers ==
  /\ MaxHour \in Nat /\ Retention \in Nat /\ MaxSent \in Nat /\ MaxXrayStarts \in Nat
  /\ MaxCrashes \in Nat /\ MaxAcks \in Nat /\ MaxFails \in Nat
ASSUME NoInodeIsNone == NoInode \notin Inodes

Hours == 0..MaxHour

\* Who runs flush: the loop of the store, and the handler of an acknowledgement.
Flushers == {"loop", "drain"}

Buckets == [Hours -> Nat]          \* 0 stands for no bucket
Doc == [buckets : Buckets, base : Nat]
ASSUME TornIsNoDocument == Torn \notin Doc

VARIABLES
  sent,         \* bytes moved, ever
  counter,      \* Xray's cumulative counter
  hour,         \* the current hour
  cpc,          \* collector: where it stands in collect
  current,      \* collector: the counter it was answered
  delta,        \* collector: the difference not yet in a bucket
  baseline,     \* collector: c.baseline
  buckets,      \* memory store: hour -> bytes
  storeBase,    \* memory store: the baseline, 0 for none
  fpc,          \* flusher -> where it stands in flush
  snapshot,     \* flusher -> the buckets GetAll gave it
  snapBase,     \* flusher -> the baseline GetBaseline gave it
  fd,           \* flusher -> the file it has open
  tmp,          \* the file the temporary name leads to
  file,         \* the file the store's name leads to
  content,      \* file -> its document, or Torn
  gone,         \* bytes that left the buckets, acknowledged or expired
  clean,        \* every death of the agent so far met a settled store
  xrayStarts, crashes, acks, fails   \* how often each bounded event has happened

collector == <<cpc, current, delta, baseline>>
store == <<buckets, storeBase, gone>>
flushing == <<fpc, snapshot, snapBase, fd>>
disk == <<tmp, file, content>>
counts == <<xrayStarts, crashes, acks, fails>>
vars == <<sent, counter, hour, collector, store, flushing, disk, clean, counts>>

\* The bytes in the buckets up to an hour, and in all of them.
subtotals(b) ==
  LET s[h \in Hours] == IF h = 0 THEN b[0] ELSE s[h - 1] + b[h]
  IN s
total(b) == subtotals(b)[MaxHour]

Empty == [h \in Hours |-> 0]

Init ==
  /\ sent = 0 /\ counter = 0 /\ hour = 0
  /\ cpc = "idle" /\ current = 0 /\ delta = 0 /\ baseline = 0
  /\ buckets = Empty /\ storeBase = 0 /\ gone = 0
  /\ fpc = [f \in Flushers |-> "idle"]
  /\ snapshot = [f \in Flushers |-> Empty]
  /\ snapBase = [f \in Flushers |-> 0]
  /\ fd = [f \in Flushers |-> NoInode]
  /\ tmp = NoInode /\ file = NoInode
  /\ content = [i \in Inodes |-> Torn]
  /\ clean = TRUE
  /\ xrayStarts = 0 /\ crashes = 0 /\ acks = 0 /\ fails = 0

----------------------------------------------------------------------------
\* Outside the agent.

Move ==
  /\ sent < MaxSent
  /\ sent' = sent + 1
  /\ counter' = counter + 1
  /\ UNCHANGED <<hour, collector, store, flushing, disk, clean, counts>>

HourPasses ==
  /\ hour < MaxHour
  /\ hour' = hour + 1
  /\ UNCHANGED <<sent, counter, collector, store, flushing, disk, clean, counts>>

\* A configuration change or a crash restarts Xray; its counters start at zero.
XrayRestarts ==
  /\ xrayStarts < MaxXrayStarts
  /\ xrayStarts' = xrayStarts + 1
  /\ counter' = 0
  /\ UNCHANGED <<sent, hour, collector, store, flushing, disk, clean, crashes, acks, fails>>

----------------------------------------------------------------------------
\* The collector.

\* collect reads the cumulative counter, without resetting it.
QueryStats ==
  /\ cpc = "idle"
  /\ current' = counter
  /\ cpc' = "queried"
  /\ UNCHANGED <<sent, counter, hour, delta, baseline, store, flushing, disk, clean, counts>>

\* diffInt64 and diffMap: a counter that went backwards is a new one.
diff(prev, curr) == IF curr < prev THEN curr ELSE curr - prev

\* The difference and the new baseline, under baselineMu.
Diff ==
  /\ cpc = "queried"
  /\ delta' = diff(baseline, current)
  /\ baseline' = current
  /\ cpc' = "diffed"
  /\ UNCHANGED <<sent, counter, hour, current, store, flushing, disk, clean, counts>>

\* The buckets past their retention.
expired(h) == h + Retention < hour

\* MemoryStore.Accumulate: add to the bucket of the hour, then evict; the
\* collector leaves it out for an empty difference.
Accumulate ==
  /\ cpc = "diffed"
  /\ LET put == [buckets EXCEPT ![hour] = @ + delta]
         old == [h \in Hours |-> IF expired(h) THEN put[h] ELSE 0]
     IN IF delta = 0 THEN UNCHANGED <<buckets, gone>>
        ELSE /\ buckets' = [h \in Hours |-> IF expired(h) THEN 0 ELSE put[h]]
             /\ gone' = gone + total(old)
  /\ delta' = 0
  /\ cpc' = "stored"
  /\ UNCHANGED <<sent, counter, hour, current, baseline, storeBase, flushing, disk, clean, counts>>

SetBaseline ==
  /\ cpc = "stored"
  /\ storeBase' = current
  /\ cpc' = "idle" /\ current' = 0
  /\ UNCHANGED <<sent, counter, hour, delta, baseline, buckets, gone, flushing, disk, clean, counts>>

----------------------------------------------------------------------------
\* Flushes.  Buckets and baseline are read one after the other, and nothing keeps
\* two flushes apart.

\* flushLoop's ticker: GetAll.
FlushLoop ==
  /\ fpc["loop"] = "idle"
  /\ snapshot' = [snapshot EXCEPT !["loop"] = buckets]
  /\ fpc' = [fpc EXCEPT !["loop"] = "read"]
  /\ UNCHANGED <<sent, counter, hour, collector, store, snapBase, fd, disk, clean, counts>>

\* AckBufferedTraffic: FileStore.Drain takes the buckets out of memory ...
Drain(through) ==
  /\ fpc["drain"] = "idle" /\ acks < MaxAcks
  /\ acks' = acks + 1
  /\ buckets' = [h \in Hours |-> IF h <= through THEN 0 ELSE buckets[h]]
  /\ gone' = gone + total([h \in Hours |-> IF h <= through THEN buckets[h] ELSE 0])
  /\ fpc' = [fpc EXCEPT !["drain"] = "due"]
  /\ UNCHANGED <<sent, counter, hour, collector, storeBase, snapshot, snapBase, fd, disk, clean,
                 xrayStarts, crashes, fails>>

\* ... and flushes at once.
DrainFlushes ==
  /\ fpc["drain"] = "due"
  /\ snapshot' = [snapshot EXCEPT !["drain"] = buckets]
  /\ fpc' = [fpc EXCEPT !["drain"] = "read"]
  /\ UNCHANGED <<sent, counter, hour, collector, store, snapBase, fd, disk, clean, counts>>

\* A flush that ends leaves nothing behind in memory.
flushEnds(f) ==
  /\ fpc' = [fpc EXCEPT ![f] = "idle"]
  /\ snapshot' = [snapshot EXCEPT ![f] = Empty]
  /\ snapBase' = [snapBase EXCEPT ![f] = 0]
  /\ fd' = [fd EXCEPT ![f] = NoInode]

ReadBaseline(f) ==
  /\ fpc[f] = "read"
  /\ snapBase' = [snapBase EXCEPT ![f] = storeBase]
  /\ fpc' = [fpc EXCEPT ![f] = "ready"]
  /\ UNCHANGED <<sent, counter, hour, collector, store, snapshot, fd, disk, clean, counts>>

\* A file no name leads to and nobody has open.
unused(i) == i \notin {tmp, file} /\ \A f \in Flushers : fd[f] # i

\* A file that loses its name goes with its content, unless somebody has it open.
unwritten(i) == \A f \in Flushers : fd[f] # i

\* os.WriteFile opens the temporary name, which makes the file or empties it ...
OpenTmp(f) ==
  /\ fpc[f] = "ready"
  /\ \E i \in Inodes :
       /\ IF tmp = NoInode THEN unused(i) ELSE i = tmp
       /\ tmp' = i
       /\ content' = [content EXCEPT ![i] = Torn]
       /\ fd' = [fd EXCEPT ![f] = i]
  /\ fpc' = [fpc EXCEPT ![f] = "open"]
  /\ UNCHANGED <<sent, counter, hour, collector, store, snapshot, snapBase, file, clean, counts>>

\* (mutant of document: a file without the baseline)
documentNoBase(f) == [buckets |-> snapshot[f], base |-> 0]
document(f) == [buckets |-> snapshot[f], base |-> snapBase[f]]

\* The file has been written, through the other flush, since this one emptied it.
overlaid(f) == content[fd[f]] \notin {Torn, document(f)}

\* ... and writes it, from its start.  Of two flushes that have one file open the
\* second writes over the first: a longer document sticks out behind a shorter.
WriteTmp(f) ==
  /\ fpc[f] = "open"
  /\ \E d \in {document(f)} \cup (IF overlaid(f) THEN {Torn} ELSE {}) :
       content' = [content EXCEPT ![fd[f]] = d]
  /\ fpc' = [fpc EXCEPT ![f] = "written"]
  /\ fd' = [fd EXCEPT ![f] = NoInode]
  /\ UNCHANGED <<sent, counter, hour, collector, store, snapshot, snapBase, tmp, file, clean, counts>>

\* os.Rename moves whatever the temporary name leads to by now; with nothing there
\* it fails, which is logged.
Rename(f) ==
  /\ fpc[f] = "written"
  /\ IF tmp = NoInode
     THEN UNCHANGED disk
     ELSE /\ file' = tmp /\ tmp' = NoInode
          /\ content' = [i \in Inodes |-> IF i = file /\ unwritten(i) THEN Torn ELSE content[i]]
  /\ flushEnds(f)
  /\ UNCHANGED <<sent, counter, hour, collector, store, clean, counts>>

\* The disk is full: flush logs it and leaves what is there.
FlushFails(f) ==
  /\ fpc[f] \in {"ready", "open"} /\ fails < MaxFails
  /\ fails' = fails + 1
  /\ flushEnds(f)
  /\ UNCHANGED <<sent, counter, hour, collector, store, disk, clean, xrayStarts, crashes, acks>>

----------------------------------------------------------------------------
\* The agent dies and starts again.

\* loadFromDisk: what a start finds; a file that does not parse is a fresh start.
loaded == IF file = NoInode \/ content[file] = Torn THEN [buckets |-> Empty, base |-> 0]
                                                   ELSE content[file]

\* The file says what memory says.
agrees == file # NoInode /\ content[file] = [buckets |-> buckets, base |-> storeBase]

\* ... and the collector is not at work.
settled == cpc = "idle" /\ agrees

\* A start restores the collector's baseline from the store.
\* (mutant of restored: Start leaves the baseline empty)
restoredNothing == 0
restored == loaded.base

\* The process is gone with its memory, its flushes and a difference that was not
\* yet in a bucket; NewFileStore and Collector.Start take up what the file has.
\* Xray goes on (XrayManager.Start finds it running) or starts anew.
Crash ==
  /\ crashes < MaxCrashes
  /\ crashes' = crashes + 1
  /\ clean' = (clean /\ settled)
  /\ counter' \in {counter, 0}
  /\ cpc' = "idle" /\ current' = 0 /\ delta' = 0
  /\ buckets' = loaded.buckets /\ storeBase' = loaded.base /\ baseline' = restored
  /\ fpc' = [f \in Flushers |-> "idle"]
  /\ snapshot' = [f \in Flushers |-> Empty]
  /\ snapBase' = [f \in Flushers |-> 0]
  /\ fd' = [f \in Flushers |-> NoInode]
  /\ UNCHANGED <<sent, hour, gone, disk, xrayStarts, acks, fails>>

Collect == QueryStats \/ Diff \/ Accumulate \/ SetBaseline

Flush(f) == ReadBaseline(f) \/ OpenTmp(f) \/ WriteTmp(f) \/ Rename(f)

Next ==
  \/ Move \/ HourPasses \/ XrayRestarts
  \/ Collect
  \/ FlushLoop \/ DrainFlushes
  \/ \E through \in Hours : Drain(through)
  \/ \E f \in Flushers : Flush(f) \/ FlushFails(f)
  \/ Crash

\* The collector and the flush loop run on tickers, and a handler that has begun
\* goes on to its end.
Fairness ==
  /\ WF_vars(Collect)
  /\ WF_vars(FlushLoop)
  /\ WF_vars(DrainFlushes)
  /\ \A f \in Flushers : WF_vars(Flush(f))

Spec == Init /\ [][Next]_vars

LiveSpec == Spec /\ Fairness

----------------------------------------------------------------------------

TypeOK ==
  /\ sent \in Nat /\ counter \in Nat /\ hour \in Hours
  /\ cpc \in {"idle", "queried", "diffed", "stored"}
  /\ current \in Nat /\ delta \in Nat /\ baseline \in Nat
  /\ buckets \in Buckets /\ storeBase \in Nat /\ gone \in Nat
  /\ fpc \in [Flushers -> {"idle", "due", "read", "ready", "open", "written"}]
  /\ snapshot \in [Flushers -> Buckets]
  /\ snapBase \in [Flushers -> Nat]
  /\ fd \in [Flushers -> Inodes \cup {NoInode}]
  /\ tmp \in Inodes \cup {NoInode} /\ file \in Inodes \cup {NoInode}
  /\ content \in [Inodes -> Doc \cup {Torn}]
  /\ clean \in BOOLEAN
  /\ xrayStarts \in Nat /\ crashes \in Nat /\ acks \in Nat /\ fails \in Nat

\* What the agent has taken for traffic: in its buckets, on the way there, or given
\* to the hub.
counted == gone + total(buckets) + delta

\* Restarts of Xray, evictions, acknowledgements and flushes in any order never make
\* the agent count a byte twice, and neither does a restart of the agent from a file
\* that agrees with memory: "Baseline is persisted so agent restarts don't
\* double-count" (collector.go:16).  While Xray and the agent keep running nothing is
\* missed either: what is counted is the counter as it was last read.
CountedOnce ==
  /\ clean => counted <= sent
  /\ xrayStarts = 0 /\ crashes = 0 => counted = baseline /\ baseline <= counter

\* Once nothing changes any more, the file says what memory says, and goes on saying
\* so: a failed or torn write is made good by a later flush.
EventuallySaved == <>[]agrees

\* Restarts of the agent don't double-count (collector.go:16), and a restart is
\* nothing the hub has to know of (src/internal/remotenodes/usage/doc.go:43-46).
RestartCountsOnce == counted <= sent
====
