------------------------ MODULE UsageCollectorProofs ------------------------
(***************************************************************************)
(* Proofs, for any set of nodes and any bounds, that UsageCollector counts *)
(* every byte that an agent does not lose exactly once, has agents drop    *)
(* only what the file holds, and never gives a counted byte back.          *)
(***************************************************************************)
EXTENDS UsageCollector, TLAPS

----------------------------------------------------------------------------
(* The inductive invariant *)

\* An hour that has not come has no traffic, and an agent holds no more of an
\* hour than was moved in it.
Buckets ==
    \A i \in Nodes, h \in Hours :
        /\ h > hour => sent[i][h] = 0
        /\ bucket[i][h] =< sent[i][h]

\* Every mark, wherever it is, is of an hour that is over.
MarksArePast ==
    /\ \A i \in Nodes :
        /\ through[i] < hour /\ diskThrough[i] < hour /\ pollMark[i] < hour /\ jobs[i] < hour
        /\ file.through[i] < hour /\ doc.through[i] < hour
    /\ \A a \in acks : a.through < hour

\* An answer, too, has no more of an hour than was moved in it.
Answers == \A i \in Nodes, h \in Hours : answer[i][h] =< sent[i][h]

\* What is counted, in memory, in the file and in what is being written, is
\* before the mark, and at most what was moved.
MemBelow ==
    \A i \in Nodes, h \in Hours :
        count[i][h] =< sent[i][h] /\ (h > through[i] => count[i][h] = 0)

FileBelow ==
    \A i \in Nodes, h \in Hours :
        file.count[i][h] =< sent[i][h] /\ (h > file.through[i] => file.count[i][h] = 0)

DocBelow ==
    \A i \in Nodes, h \in Hours :
        doc.count[i][h] =< sent[i][h] /\ (h > doc.through[i] => doc.count[i][h] = 0)

\* What is shown and not counted is after the mark.
ShownAfter ==
    \A i \in Nodes, h \in Hours :
        /\ shown[i][h] =< sent[i][h]
        /\ h =< through[i] => shown[i][h] = 0

\* The flush: nothing is written over a newer file, and once it is written the
\* file is what was encoded.
Flushing ==
    /\ noWrite => flushPhase = "idle"
    /\ flushPhase = "marking" => doc = file
    /\ flushPhase \notin {"writing", "marking"} => doc = NoDoc

\* The marks of a node that has not been removed: what an agent is told to drop
\* is in the file, and memory is ahead of what is written and that of the file.
Ordered ==
    \A i \in Nodes : removal[i] = "in" =>
        /\ diskThrough[i] =< file.through[i]
        /\ pollMark[i] =< file.through[i]
        /\ jobs[i] =< file.through[i]
        /\ \A a \in acks : a.node = i => a.through =< file.through[i]
        /\ ~ noWrite => file.through[i] =< through[i]
        /\ flushPhase = "writing" =>
            file.through[i] =< doc.through[i] /\ doc.through[i] =< through[i]

\* What the file doesn't count, the agent has, but for what it lost.
Held ==
    \A i \in Nodes, h \in Hours :
        removal[i] = "in" /\ h > file.through[i] => bucket[i][h] + lost[i][h] >= sent[i][h]

\* An answer lacks, of an hour after the mark that is before its last, no more than
\* the agent has lost.
Complete ==
    \A i \in Nodes, g, h \in Hours :
        removal[i] = "in" /\ ~ noWrite /\ pollPhase[i] = "answered"
          /\ g > h /\ answer[i][g] > 0 /\ h > through[i] =>
            answer[i][h] + lost[i][h] >= sent[i][h]

\* The file, what is being written and the memory lack, of the hours up to their
\* marks, no more than the agent has lost.
FileExact ==
    \A i \in Nodes, h \in Hours :
        removal[i] = "in" /\ h =< file.through[i] =>
            file.count[i][h] + lost[i][h] >= sent[i][h]

DocExact ==
    flushPhase = "writing" => \A i \in Nodes, h \in Hours :
        removal[i] = "in" /\ h =< doc.through[i] => doc.count[i][h] + lost[i][h] >= sent[i][h]

MemExact ==
    ~ noWrite => \A i \in Nodes, h \in Hours :
        removal[i] = "in" /\ h =< through[i] => count[i][h] + lost[i][h] >= sent[i][h]

\* Totals only grow from the file to what is being written and to memory.
Growing ==
    /\ ~ noWrite => \A i \in Nodes, h \in Hours :
        file.count[i][h] + file.retired[i][h] =< count[i][h] + retired[i][h]
    /\ flushPhase = "writing" => \A i \in Nodes, h \in Hours :
        /\ file.count[i][h] + file.retired[i][h] =< doc.count[i][h] + doc.retired[i][h]
        /\ doc.count[i][h] + doc.retired[i][h] =< count[i][h] + retired[i][h]

IInv ==
    /\ TypeOK /\ Buckets /\ MarksArePast /\ Answers /\ MemBelow /\ FileBelow /\ DocBelow
    /\ ShownAfter /\ Flushing /\ Ordered /\ Held /\ Complete
    /\ FileExact /\ DocExact /\ MemExact /\ Growing

----------------------------------------------------------------------------
(* Numbers *)

\* What the counts and the marks are made of.
Numbers ==
    /\ hour \in Nat
    /\ \A k \in Nodes :
        /\ through[k] \in Nat /\ diskThrough[k] \in Nat /\ pollMark[k] \in Nat
        /\ jobs[k] \in Nat /\ file.through[k] \in Nat /\ doc.through[k] \in Nat
        /\ \A h \in Hours :
            /\ sent[k][h] \in Nat /\ bucket[k][h] \in Nat /\ answer[k][h] \in Nat
            /\ lost[k][h] \in Nat
            /\ count[k][h] \in Nat /\ shown[k][h] \in Nat /\ retired[k][h] \in Nat
            /\ file.count[k][h] \in Nat /\ file.retired[k][h] \in Nat
            /\ doc.count[k][h] \in Nat /\ doc.retired[k][h] \in Nat

\* The empty values are typed, and hours and marks are numbers.
LEMMA Constants ==
    /\ Zero \in Bytes /\ 0 \in Marks /\ NoDoc \in Doc
    /\ \A h \in Hours : h \in Nat /\ h > 0 /\ Zero[h] = 0
    /\ \A m \in Marks : m \in Nat
    /\ \A k \in Nodes : NoDoc.count[k] = Zero /\ NoDoc.through[k] = 0 /\ NoDoc.retired[k] = Zero
<1>1. Zero \in Bytes /\ 0 \in Marks
  BY CollectorAssumption DEF Zero, Bytes, Marks
<1> QED
  BY <1>1, CollectorAssumption DEF NoDoc, Doc, Hours, Zero, Marks

\* The type invariant as facts about single numbers, which the arithmetic needs.
LEMMA NumbersHold == ASSUME TypeOK PROVE Numbers
<1>1. hour \in Nat
  BY Constants DEF TypeOK, AgentsTyped
<1>2. ASSUME NEW k \in Nodes
      PROVE  /\ through[k] \in Nat /\ diskThrough[k] \in Nat /\ pollMark[k] \in Nat
             /\ jobs[k] \in Nat /\ file.through[k] \in Nat /\ doc.through[k] \in Nat
  <2>1. through[k] \in Marks /\ diskThrough[k] \in Marks /\ pollMark[k] \in Marks
        /\ jobs[k] \in Marks
    BY DEF TypeOK, CountsTyped, AcksTyped, PollsTyped, FlushTyped
  <2>2. file.through[k] \in Marks /\ doc.through[k] \in Marks
    BY DEF TypeOK, FlushTyped, Doc
  <2> QED
    BY <2>1, <2>2, CollectorAssumption DEF Marks
<1>3. ASSUME NEW k \in Nodes, NEW h \in Hours
      PROVE  /\ sent[k][h] \in Nat /\ bucket[k][h] \in Nat /\ answer[k][h] \in Nat
             /\ lost[k][h] \in Nat
             /\ count[k][h] \in Nat /\ shown[k][h] \in Nat /\ retired[k][h] \in Nat
  BY DEF TypeOK, AgentsTyped, CountsTyped, PollsTyped, Bytes
<1>4. ASSUME NEW k \in Nodes, NEW h \in Hours
      PROVE  /\ file.count[k][h] \in Nat /\ file.retired[k][h] \in Nat
             /\ doc.count[k][h] \in Nat /\ doc.retired[k][h] \in Nat
  BY DEF TypeOK, FlushTyped, Doc, Bytes
<1> QED
  BY <1>1, <1>2, <1>3, <1>4, Zenon DEF Numbers

----------------------------------------------------------------------------
(* A step that leaves alone what a conjunct is about keeps it *)

\* AgentsTyped is about these variables only.
LEMMA AgentsTypedFrame ==
    ASSUME AgentsTyped, UNCHANGED <<lost, hour, sent, bucket, acks>> PROVE AgentsTyped'
  BY DEF AgentsTyped

\* CountsTyped is about these variables only.
LEMMA CountsTypedFrame ==
    ASSUME CountsTyped, UNCHANGED <<known, count, through, shown, retired, noWrite>> PROVE
        CountsTyped'
  BY DEF CountsTyped

\* AcksTyped is about these variables only.
LEMMA AcksTypedFrame ==
    ASSUME AcksTyped, UNCHANGED <<diskThrough, src, acked, staleSeen>> PROVE AcksTyped'
  BY DEF AcksTyped

\* PollsTyped is about these variables only.
LEMMA PollsTypedFrame ==
    ASSUME PollsTyped, UNCHANGED <<pollPhase, orphan, answer, pollMark>> PROVE PollsTyped'
  BY DEF PollsTyped

\* FlushTyped is about these variables only.
LEMMA FlushTypedFrame ==
    ASSUME FlushTyped, UNCHANGED <<flushPhase, doc, jobs, orphans, asked, file>> PROVE
        FlushTyped'
  BY DEF FlushTyped

\* WorldTyped is about these variables only.
LEMMA WorldTypedFrame ==
    ASSUME WorldTyped, UNCHANGED <<removal, upsets>> PROVE WorldTyped'
  BY DEF WorldTyped

\* Buckets is about these variables only.
LEMMA BucketsFrame ==
    ASSUME Buckets, UNCHANGED <<hour, sent, bucket>> PROVE Buckets'
  BY DEF Buckets

\* MarksArePast is about these variables only.
LEMMA MarksArePastFrame ==
    ASSUME MarksArePast, UNCHANGED <<hour, through, diskThrough, pollMark, jobs, file, doc,
        acks>> PROVE MarksArePast'
  BY DEF MarksArePast

\* Answers is about these variables only.
LEMMA AnswersFrame ==
    ASSUME Answers, UNCHANGED <<hour, answer, sent>> PROVE Answers'
  BY DEF Answers

\* MemBelow is about these variables only.
LEMMA MemBelowFrame ==
    ASSUME MemBelow, UNCHANGED <<sent, count, through>> PROVE MemBelow'
  BY DEF MemBelow

\* FileBelow is about these variables only.
LEMMA FileBelowFrame ==
    ASSUME FileBelow, UNCHANGED <<sent, file>> PROVE FileBelow'
  BY DEF FileBelow

\* DocBelow is about these variables only.
LEMMA DocBelowFrame ==
    ASSUME DocBelow, UNCHANGED <<sent, doc>> PROVE DocBelow'
  BY DEF DocBelow

\* ShownAfter is about these variables only.
LEMMA ShownAfterFrame ==
    ASSUME ShownAfter, UNCHANGED <<shown, sent, through>> PROVE ShownAfter'
  BY DEF ShownAfter

\* Flushing is about these variables only.
LEMMA FlushingFrame ==
    ASSUME Flushing, UNCHANGED <<noWrite, flushPhase, doc, file>> PROVE Flushing'
  BY DEF Flushing

\* Ordered is about these variables only.
LEMMA OrderedFrame ==
    ASSUME Ordered, UNCHANGED <<removal, diskThrough, file, pollMark, jobs, acks, noWrite,
        through, flushPhase, doc>> PROVE Ordered'
  BY DEF Ordered

\* Held is about these variables only.
LEMMA HeldFrame ==
    ASSUME Held, UNCHANGED <<lost, removal, file, bucket, sent>> PROVE Held'
  BY DEF Held

\* Complete is about these variables only.
LEMMA CompleteFrame ==
    ASSUME Complete, UNCHANGED <<lost, removal, noWrite, pollPhase, answer, through, sent>> PROVE
        Complete'
  BY DEF Complete

\* FileExact is about these variables only.
LEMMA FileExactFrame ==
    ASSUME FileExact, UNCHANGED <<lost, removal, file, sent>> PROVE FileExact'
  BY DEF FileExact

\* DocExact is about these variables only.
LEMMA DocExactFrame ==
    ASSUME DocExact, UNCHANGED <<lost, removal, flushPhase, doc, sent>> PROVE DocExact'
  BY DEF DocExact

\* MemExact is about these variables only.
LEMMA MemExactFrame ==
    ASSUME MemExact, UNCHANGED <<lost, removal, noWrite, count, through, sent>> PROVE MemExact'
  BY DEF MemExact

\* Growing is about these variables only.
LEMMA GrowingFrame ==
    ASSUME Growing, UNCHANGED <<noWrite, file, count, retired, flushPhase, doc>> PROVE Growing'
  BY DEF Growing

----------------------------------------------------------------------------
(* Every action keeps the invariant *)

USE DEF agentVars, countVars, ackVars, hubVars, pollVars, flushVars, worldVars

\* What an agent loses is recorded: lost grows, and covers what the new buffer has
\* less of than the old one had.
LEMMA LossIsRecorded ==
    ASSUME TypeOK, NEW i \in Nodes, NEW b \in Bytes, \A h \in Hours : b[h] =< sent[i][h],
           loses(i, b)
    PROVE  /\ lost' \in [Nodes -> Bytes]
           /\ \A k \in Nodes, h \in Hours : lost'[k][h] \in Nat /\ lost'[k][h] >= lost[k][h]
           /\ \A h \in Hours : h > file.through[i] /\ b[h] < bucket[i][h] =>
                b[h] + lost'[i][h] >= sent[i][h]
<1>n. Numbers
  BY NumbersHold
<1> DEFINE new(h) == IF h > file.through[i] /\ b[h] < bucket[i][h]
                     THEN max(lost[i][h], sent[i][h] - b[h]) ELSE lost[i][h]
<1>1. lost' = [lost EXCEPT ![i] = [h \in Hours |-> new(h)]]
  BY DEF loses
<1>2. ASSUME NEW h \in Hours
      PROVE  /\ new(h) \in Nat /\ new(h) >= lost[i][h]
             /\ h > file.through[i] /\ b[h] < bucket[i][h] => b[h] + new(h) >= sent[i][h]
  <2>1. b[h] \in Nat /\ b[h] =< sent[i][h]
    BY DEF Bytes
  <2> QED
    BY <2>1, <1>n, Constants DEF Numbers, max
<1> HIDE DEF new
<1>3. lost \in [Nodes -> Bytes]
  BY DEF TypeOK, AgentsTyped
<1>4. [h \in Hours |-> new(h)] \in Bytes
  BY <1>2 DEF Bytes
<1>5. lost' \in [Nodes -> Bytes]
  BY <1>1, <1>3, <1>4
<1>6. /\ \A h \in Hours : lost'[i][h] = new(h)
      /\ \A k \in Nodes : k # i => lost'[k] = lost[k]
  BY <1>1, <1>3
<1>7. \A k \in Nodes, h \in Hours : lost'[k][h] \in Nat /\ lost'[k][h] >= lost[k][h]
  BY <1>2, <1>6, <1>n DEF Numbers
<1> QED
  BY <1>2, <1>5, <1>6, <1>7

\* Accumulate keeps the invariant.
LEMMA AccumulateKeeps ==
    ASSUME IInv, NEW i \in Nodes, Accumulate(i) PROVE IInv'
<1>1. CountsTyped' /\ AcksTyped' /\ PollsTyped' /\ FlushTyped' /\ WorldTyped' /\ MarksArePast'
      /\ Flushing' /\ Ordered' /\ Growing'
  <2>1. UNCHANGED <<hour, acks, known, count, through, shown, retired, noWrite, diskThrough,
        src, acked, staleSeen, pollPhase, orphan, answer, pollMark, flushPhase, doc, jobs,
        orphans, asked, file, removal, upsets>>
    BY DEF Accumulate
  <2> QED
    BY <2>1, CountsTypedFrame, AcksTypedFrame, PollsTypedFrame, FlushTypedFrame,
        WorldTypedFrame, MarksArePastFrame, FlushingFrame, OrderedFrame, GrowingFrame DEF
        IInv, TypeOK
<1>n. Numbers
  BY NumbersHold DEF IInv
<1>t. hour \in Hours /\ sent \in [Nodes -> [Hours -> Nat]] /\ bucket \in [Nodes -> [Hours -> Nat]]
  BY DEF IInv, TypeOK, AgentsTyped, Bytes
<1>w. PICK now \in {hour, hour + 1} :
        /\ bucket' = [bucket EXCEPT ![i] = [evict(bucket[i], now) EXCEPT ![hour] = @ + 1]]
        /\ loses(i, evict(bucket[i], now))
  BY DEF Accumulate
<1> DEFINE kept == evict(bucket[i], now)
<1>k. /\ kept \in [Hours -> Nat] /\ kept[hour] = bucket[i][hour]
      /\ \A h \in Hours : kept[h] =< bucket[i][h] /\ kept[h] =< sent[i][h]
  <2>1. \A h \in Hours : kept[h] = IF h + Retention < now THEN 0 ELSE bucket[i][h]
    BY DEF evict
  <2>2. ~ (hour + Retention < now)
    BY <1>t, <1>n, CollectorAssumption DEF Numbers
  <2>3. kept \in [Hours -> Nat]
    BY <1>n DEF evict, Numbers
  <2>4. \A h \in Hours : kept[h] =< bucket[i][h] /\ bucket[i][h] =< sent[i][h]
    BY <2>1, <1>n DEF IInv, Buckets, Numbers
  <2>5. kept[hour] = bucket[i][hour]
    BY <2>1, <2>2, <1>t
  <2> HIDE DEF kept
  <2>6. \A h \in Hours : kept[h] =< sent[i][h]
    BY <2>3, <2>4, <1>n DEF Numbers
  <2> QED
    BY <2>3, <2>4, <2>5, <2>6
<1>b. bucket' = [bucket EXCEPT ![i] = [kept EXCEPT ![hour] = kept[hour] + 1]]
  BY <1>w
<1> HIDE DEF kept
<1>l. /\ lost' \in [Nodes -> Bytes]
      /\ \A k \in Nodes, h \in Hours : lost'[k][h] \in Nat /\ lost'[k][h] >= lost[k][h]
      /\ \A h \in Hours : h > file.through[i] /\ kept[h] < bucket[i][h] =>
            kept[h] + lost'[i][h] >= sent[i][h]
  <2>1. TypeOK /\ kept \in Bytes /\ loses(i, kept)
    BY <1>w, <1>k DEF IInv, Bytes, kept
  <2> QED
    BY <2>1, <1>k, LossIsRecorded
<1>e. \A k \in Nodes, h \in Hours :
        /\ k = i /\ h = hour => sent'[k][h] = sent[k][h] + 1 /\ bucket'[k][h] = bucket[k][h] + 1
        /\ k = i /\ h # hour => sent'[k][h] = sent[k][h] /\ bucket'[k][h] = kept[h]
        /\ k # i => sent'[k][h] = sent[k][h] /\ bucket'[k][h] = bucket[k][h]
        /\ sent'[k][h] >= sent[k][h]
  <2>1. sent' = [sent EXCEPT ![i][hour] = @ + 1]
    BY DEF Accumulate
  <2> QED
    BY <2>1, <1>b, <1>k, <1>t
<1>u. hour' = hour /\ answer' = answer /\ count' = count /\ through' = through /\ file' = file
      /\ doc' = doc /\ shown' = shown /\ removal' = removal /\ noWrite' = noWrite
      /\ pollPhase' = pollPhase /\ flushPhase' = flushPhase /\ acks' = acks
  BY DEF Accumulate
<1>p. \A k \in Nodes, h \in Hours : h < hour => sent'[k][h] = sent[k][h]
  BY <1>e, <1>t, <1>n, Constants DEF Numbers
<1>2. AgentsTyped'
  <2>1. sent' \in [Nodes -> [Hours -> Nat]]
    BY <1>t DEF Accumulate
  <2>2. bucket' \in [Nodes -> [Hours -> Nat]]
    BY <1>b, <1>k, <1>t
  <2> QED
    BY <2>1, <2>2, <1>l, <1>u DEF IInv, TypeOK, AgentsTyped, Bytes
<1>3. Buckets'
  BY <1>n, <1>e, <1>k, <1>u, <1>t, Constants DEF IInv, Buckets, Numbers
<1>4. Answers'
  BY <1>n, <1>e, <1>u, Constants DEF IInv, Answers, Numbers
<1>5. MemBelow'
  BY <1>n, <1>e, <1>u DEF IInv, MemBelow, Numbers
<1>6. FileBelow'
  BY <1>n, <1>e, <1>u DEF IInv, FileBelow, Numbers
<1>7. DocBelow'
  BY <1>n, <1>e, <1>u DEF IInv, DocBelow, Numbers
<1>8. ShownAfter'
  BY <1>n, <1>e, <1>u DEF IInv, ShownAfter, Numbers
<1>9. Held'
  <2> SUFFICES ASSUME NEW k \in Nodes, NEW h \in Hours, removal[k] = "in", h > file.through[k]
               PROVE  bucket'[k][h] + lost'[k][h] >= sent'[k][h]
    BY <1>u DEF Held
  <2>1. bucket[k][h] + lost[k][h] >= sent[k][h]
    BY DEF IInv, Held
  <2>2. CASE k # i \/ h = hour
    BY <2>1, <2>2, <1>n, <1>e, <1>l DEF Numbers
  <2>3. CASE k = i /\ h # hour
    <3>1. kept[h] \in Nat /\ kept[h] =< bucket[i][h]
      BY <1>k
    <3> QED
      BY <2>1, <2>3, <3>1, <1>n, <1>e, <1>l DEF Numbers
  <2> QED
    BY <2>2, <2>3
<1>10. Complete'
  <2> SUFFICES ASSUME NEW k \in Nodes, NEW g \in Hours, NEW h \in Hours,
                      removal[k] = "in", ~ noWrite, pollPhase[k] = "answered",
                      g > h, answer[k][g] > 0, h > through[k]
               PROVE  answer[k][h] + lost'[k][h] >= sent'[k][h]
    BY <1>u DEF Complete
  <2>1. answer[k][h] + lost[k][h] >= sent[k][h]
    BY DEF IInv, Complete
  <2>2. h < hour
    BY <1>n, Constants DEF IInv, Answers, Buckets, Numbers
  <2> QED
    BY <2>1, <2>2, <1>n, <1>p, <1>l DEF Numbers
<1>11. FileExact'
  BY <1>n, <1>p, <1>l, <1>u, Constants DEF IInv, FileExact, MarksArePast, Numbers
<1>12. DocExact'
  BY <1>n, <1>p, <1>l, <1>u, Constants DEF IInv, DocExact, MarksArePast, Numbers
<1>13. MemExact'
  BY <1>n, <1>p, <1>l, <1>u, Constants DEF IInv, MemExact, MarksArePast, Numbers
<1> QED
  BY <1>1, <1>2, <1>3, <1>4, <1>5, <1>6, <1>7, <1>8, <1>9, <1>10, <1>11, <1>12, <1>13 DEF IInv,
      TypeOK

\* HourPasses keeps the invariant.
LEMMA HourPassesKeeps ==
    ASSUME IInv, HourPasses PROVE IInv'
<1>1. CountsTyped' /\ AcksTyped' /\ PollsTyped' /\ FlushTyped' /\ WorldTyped' /\ MemBelow' /\
      FileBelow' /\ DocBelow' /\ ShownAfter' /\ Flushing' /\ Ordered' /\ Held' /\ Complete' /\
      FileExact' /\ DocExact' /\ MemExact' /\ Growing'
  <2>1. UNCHANGED <<lost, sent, bucket, acks, known, count, through, shown, retired, noWrite,
        diskThrough, src, acked, staleSeen, pollPhase, orphan, answer, pollMark, flushPhase,
        doc, jobs, orphans, asked, file, removal, upsets>>
    BY DEF HourPasses
  <2> QED
    BY <2>1, CountsTypedFrame, AcksTypedFrame, PollsTypedFrame, FlushTypedFrame,
        WorldTypedFrame, MemBelowFrame, FileBelowFrame, DocBelowFrame, ShownAfterFrame,
        FlushingFrame, OrderedFrame, HeldFrame, CompleteFrame, FileExactFrame,
        DocExactFrame, MemExactFrame, GrowingFrame DEF IInv, TypeOK
<1>2. AgentsTyped'
  <2>1. hour' \in Hours
    BY CollectorAssumption DEF IInv, TypeOK, AgentsTyped, Hours, HourPasses
  <2> QED
    BY <2>1 DEF IInv, TypeOK, AgentsTyped, HourPasses
<1>3. Buckets'
  BY CollectorAssumption DEF IInv, TypeOK, Buckets, AgentsTyped, Bytes, Hours, HourPasses
<1>4. MarksArePast'
  <2>1. \A m \in Nat : m < hour => m < hour'
    BY NumbersHold DEF IInv, Numbers, HourPasses
  <2>2. UNCHANGED <<through, diskThrough, pollMark, jobs, file, doc, acks>>
    BY DEF HourPasses
  <2>3. \A a \in acks : a.through \in Nat
    BY Constants DEF IInv, TypeOK, AgentsTyped, Ack
  <2> QED
    BY <2>1, <2>2, <2>3, NumbersHold DEF IInv, MarksArePast, Numbers
<1>5. Answers'
  BY CollectorAssumption DEF IInv, TypeOK, Answers, AgentsTyped, PollsTyped, Bytes, Hours, Zero,
      Buckets, HourPasses
<1> QED
  BY <1>1, <1>2, <1>3, <1>4, <1>5 DEF IInv, TypeOK

\* AckArrives keeps the invariant.
LEMMA AckArrivesKeeps ==
    ASSUME IInv, NEW a \in acks, AckArrives(a) PROVE IInv'
<1>1. CountsTyped' /\ AcksTyped' /\ PollsTyped' /\ FlushTyped' /\ WorldTyped' /\ Answers' /\
      MemBelow' /\ FileBelow' /\ DocBelow' /\ ShownAfter' /\ Flushing' /\ Complete' /\
      FileExact' /\ DocExact' /\ MemExact' /\ Growing'
  <2>1. UNCHANGED <<lost, hour, sent, known, count, through, shown, retired, noWrite, diskThrough,
        src, acked, staleSeen, pollPhase, orphan, answer, pollMark, flushPhase, doc, jobs,
        orphans, asked, file, removal, upsets>>
    BY DEF AckArrives
  <2> QED
    BY <2>1, CountsTypedFrame, AcksTypedFrame, PollsTypedFrame, FlushTypedFrame,
        WorldTypedFrame, AnswersFrame, MemBelowFrame, FileBelowFrame, DocBelowFrame,
        ShownAfterFrame, FlushingFrame, CompleteFrame, FileExactFrame, DocExactFrame,
        MemExactFrame, GrowingFrame DEF IInv, TypeOK
<1>n. Numbers
  BY NumbersHold DEF IInv
<1>e. \A k \in Nodes, h \in Hours :
        bucket'[k][h] = IF k = a.node /\ h =< a.through THEN 0 ELSE bucket[k][h]
  <2>1. bucket \in [Nodes -> [Hours -> Nat]]
    BY DEF IInv, TypeOK, AgentsTyped, Bytes
  <2> QED
    BY <2>1 DEF AckArrives, Drain
<1>u. lost' = lost /\ hour' = hour /\ sent' = sent /\ file' = file /\ removal' = removal
  BY DEF AckArrives
<1>t. a.through \in Nat /\ a.through < hour
  BY Constants DEF IInv, TypeOK, AgentsTyped, MarksArePast, Ack
<1>2. AgentsTyped'
  BY CollectorAssumption DEF IInv, TypeOK, AgentsTyped, Bytes, Hours, Marks, Ack, Drain,
      AckArrives
<1>3. Buckets'
  BY <1>n, <1>e, <1>u, <1>t, Constants DEF IInv, Buckets, Numbers
<1>4. MarksArePast'
  BY CollectorAssumption DEF IInv, TypeOK, MarksArePast, AgentsTyped, CountsTyped, AcksTyped,
      PollsTyped, FlushTyped, Doc, NoDoc, Marks, Hours, Ack, AckArrives, Drain
<1>5. Ordered'
  BY CollectorAssumption DEF IInv, TypeOK, Ordered, CountsTyped, AcksTyped, PollsTyped,
      FlushTyped, AgentsTyped, Doc, NoDoc, Marks, Ack, Flushing, AckArrives, Drain
<1>6. Held'
  <2>1. \A k \in Nodes : removal[k] = "in" /\ k = a.node => a.through =< file.through[k]
    BY DEF IInv, Ordered
  <2> QED
    BY <2>1, <1>n, <1>e, <1>u, <1>t, Constants DEF IInv, Held, Numbers
<1> QED
  BY <1>1, <1>2, <1>3, <1>4, <1>5, <1>6 DEF IInv, TypeOK

\* AgentRestarts keeps the invariant.
LEMMA AgentRestartsKeeps ==
    ASSUME IInv, NEW i \in Nodes, AgentRestarts(i) PROVE IInv'
<1>1. CountsTyped' /\ AcksTyped' /\ PollsTyped' /\ FlushTyped' /\ MarksArePast'
      /\ Answers' /\ MemBelow' /\ FileBelow' /\ DocBelow' /\ ShownAfter' /\ Flushing' /\
      Ordered' /\ Growing'
  <2>1. UNCHANGED <<hour, sent, acks, known, count, through, shown, retired, noWrite,
        diskThrough, src, acked, staleSeen, pollPhase, orphan, answer, pollMark, flushPhase,
        doc, jobs, orphans, asked, file, removal>>
    BY DEF AgentRestarts
  <2> QED
    BY <2>1, CountsTypedFrame, AcksTypedFrame, PollsTypedFrame, FlushTypedFrame,
        MarksArePastFrame, AnswersFrame, MemBelowFrame, FileBelowFrame,
        DocBelowFrame, ShownAfterFrame, FlushingFrame, OrderedFrame, GrowingFrame DEF IInv, TypeOK
<1>n. Numbers
  BY NumbersHold DEF IInv
<1>w. PICK b \in storeFiles(i) : bucket' = [bucket EXCEPT ![i] = b] /\ loses(i, b)
  BY DEF AgentRestarts
<1>b. b \in [Hours -> Nat] /\ \A h \in Hours : b[h] =< sent[i][h]
  <2>1. b \in [Hours -> UNION {0..sent[i][h] : h \in Hours}]
        /\ \A h \in Hours : b[h] =< sent[i][h]
    BY DEF storeFiles
  <2>2. UNION {0..sent[i][h] : h \in Hours} \subseteq Nat
    BY <1>n DEF Numbers
  <2> QED
    BY <2>1, <2>2
<1>l. /\ lost' \in [Nodes -> Bytes]
      /\ \A k \in Nodes, h \in Hours : lost'[k][h] \in Nat /\ lost'[k][h] >= lost[k][h]
      /\ \A h \in Hours : h > file.through[i] /\ b[h] < bucket[i][h] =>
            b[h] + lost'[i][h] >= sent[i][h]
  <2>1. TypeOK /\ b \in Bytes
    BY <1>b DEF IInv, Bytes
  <2> QED
    BY <2>1, <1>b, <1>w, LossIsRecorded
<1>t. bucket \in [Nodes -> [Hours -> Nat]]
  BY DEF IInv, TypeOK, AgentsTyped, Bytes
<1>e. \A k \in Nodes : bucket'[k] = IF k = i THEN b ELSE bucket[k]
  BY <1>w, <1>t
<1>u. hour' = hour /\ sent' = sent /\ file' = file /\ removal' = removal /\ answer' = answer
      /\ count' = count /\ through' = through /\ doc' = doc /\ noWrite' = noWrite
      /\ pollPhase' = pollPhase /\ flushPhase' = flushPhase /\ acks' = acks
  BY DEF AgentRestarts
<1>2. AgentsTyped'
  <2>1. bucket' \in [Nodes -> [Hours -> Nat]]
    BY <1>w, <1>b, <1>t
  <2> QED
    BY <2>1, <1>l, <1>u DEF IInv, TypeOK, AgentsTyped, Bytes
<1>3. WorldTyped'
  BY DEF IInv, TypeOK, WorldTyped, AgentRestarts, upset
<1>4. Buckets'
  BY <1>n, <1>b, <1>e, <1>u, Constants DEF IInv, Buckets, Numbers
<1>5. Held'
  <2> SUFFICES ASSUME NEW k \in Nodes, NEW h \in Hours, removal[k] = "in", h > file.through[k]
               PROVE  bucket'[k][h] + lost'[k][h] >= sent[k][h]
    BY <1>u DEF Held
  <2>1. bucket[k][h] + lost[k][h] >= sent[k][h]
    BY DEF IInv, Held
  <2>2. CASE k # i
    BY <2>1, <2>2, <1>n, <1>e, <1>l DEF Numbers
  <2>3. CASE k = i
    <3>1. b[h] \in Nat
      BY <1>b
    <3> QED
      BY <2>1, <2>3, <3>1, <1>n, <1>e, <1>l DEF Numbers
  <2> QED
    BY <2>2, <2>3
<1>6. Complete'
  BY <1>n, <1>l, <1>u, Constants DEF IInv, Complete, Numbers
<1>7. FileExact'
  BY <1>n, <1>l, <1>u, Constants DEF IInv, FileExact, Numbers
<1>8. DocExact'
  BY <1>n, <1>l, <1>u, Constants DEF IInv, DocExact, Numbers
<1>9. MemExact'
  BY <1>n, <1>l, <1>u, Constants DEF IInv, MemExact, Numbers
<1> QED
  BY <1>1, <1>2, <1>3, <1>4, <1>5, <1>6, <1>7, <1>8, <1>9 DEF IInv, TypeOK

\* PollBegin keeps the invariant.
LEMMA PollBeginKeeps ==
    ASSUME IInv, NEW i \in Nodes, PollBegin(i) PROVE IInv'
<1>1. AgentsTyped' /\ FlushTyped' /\ WorldTyped' /\ Buckets' /\ MarksArePast' /\ Answers' /\
      MemBelow' /\ FileBelow' /\ DocBelow' /\ ShownAfter' /\ Flushing' /\ Ordered' /\ Held' /\
      FileExact' /\ DocExact' /\ MemExact' /\ Growing'
  <2>1. UNCHANGED <<lost, hour, sent, bucket, acks, count, through, shown, retired, noWrite,
        diskThrough, answer, pollMark, flushPhase, doc, jobs, orphans, asked, file, removal,
        upsets>>
    BY DEF PollBegin
  <2> QED
    BY <2>1, AgentsTypedFrame, FlushTypedFrame, WorldTypedFrame, BucketsFrame,
        MarksArePastFrame, AnswersFrame, MemBelowFrame, FileBelowFrame, DocBelowFrame,
        ShownAfterFrame, FlushingFrame, OrderedFrame, HeldFrame, FileExactFrame,
        DocExactFrame, MemExactFrame, GrowingFrame DEF IInv, TypeOK
<1>2. CountsTyped'
  BY CollectorAssumption DEF IInv, TypeOK, CountsTyped, Bytes, Zero, Hours, Marks, Doc, NoDoc,
      PollBegin
<1>3. AcksTyped'
  BY CollectorAssumption DEF IInv, TypeOK, AcksTyped, Marks, Doc, NoDoc, PollBegin
<1>4. PollsTyped'
  BY CollectorAssumption DEF IInv, TypeOK, PollsTyped, Bytes, Zero, Hours, Marks, PollBegin
<1>5. Complete'
  <2>1. \A k \in Nodes : pollPhase'[k] = "answered" => pollPhase[k] = "answered"
    BY DEF IInv, TypeOK, PollsTyped, PollBegin
  <2>2. UNCHANGED <<lost, removal, noWrite, answer, through, sent>>
    BY DEF PollBegin
  <2> QED
    BY <2>1, <2>2 DEF IInv, Complete
<1> QED
  BY <1>1, <1>2, <1>3, <1>4, <1>5 DEF IInv, TypeOK

\* Answer keeps the invariant.
LEMMA AnswerKeeps ==
    ASSUME IInv, NEW i \in Nodes, Answer(i) PROVE IInv'
<1>1. AgentsTyped' /\ CountsTyped' /\ AcksTyped' /\ FlushTyped' /\ WorldTyped' /\ Buckets' /\
      MarksArePast' /\ MemBelow' /\ FileBelow' /\ DocBelow' /\ ShownAfter' /\ Flushing' /\
      Ordered' /\ Held' /\ FileExact' /\ DocExact' /\ MemExact' /\ Growing'
  <2>1. UNCHANGED <<lost, hour, sent, bucket, acks, known, count, through, shown, retired, noWrite,
        diskThrough, src, acked, staleSeen, pollMark, flushPhase, doc, jobs, orphans, asked,
        file, removal, upsets>>
    BY DEF Answer
  <2> QED
    BY <2>1, AgentsTypedFrame, CountsTypedFrame, AcksTypedFrame, FlushTypedFrame,
        WorldTypedFrame, BucketsFrame, MarksArePastFrame, MemBelowFrame, FileBelowFrame,
        DocBelowFrame, ShownAfterFrame, FlushingFrame, OrderedFrame, HeldFrame,
        FileExactFrame, DocExactFrame, MemExactFrame, GrowingFrame DEF IInv, TypeOK
<1>n. Numbers
  BY NumbersHold DEF IInv
<1>e. \A k \in Nodes :
        /\ k = i => answer'[k] = bucket[k]
        /\ k # i => answer'[k] = answer[k] /\ pollPhase'[k] = pollPhase[k]
  BY DEF IInv, TypeOK, PollsTyped, Answer
<1>u. lost' = lost /\ hour' = hour /\ sent' = sent /\ removal' = removal /\ noWrite' = noWrite
      /\ through' = through
  BY DEF Answer
<1>2. PollsTyped'
  <2>1. bucket[i] \in Bytes
    BY DEF IInv, TypeOK, AgentsTyped
  <2> QED
    BY <2>1 DEF IInv, TypeOK, PollsTyped, Answer
<1>3. Answers'
  BY <1>n, <1>e, <1>u, Constants DEF IInv, Answers, Buckets, Numbers
<1>4. Complete'
  <2>1. \A h \in Hours : removal[i] = "in" /\ ~ noWrite /\ h > through[i] =>
          bucket[i][h] + lost[i][h] >= sent[i][h]
    BY <1>n, Constants DEF IInv, Ordered, Held, Numbers
  <2> QED
    BY <2>1, <1>e, <1>u DEF IInv, Complete
<1> QED
  BY <1>1, <1>2, <1>3, <1>4 DEF IInv, TypeOK

\* PollFails keeps the invariant.
LEMMA PollFailsKeeps ==
    ASSUME IInv, NEW i \in Nodes, PollFails(i) PROVE IInv'
<1>1. AgentsTyped' /\ CountsTyped' /\ AcksTyped' /\ FlushTyped' /\ WorldTyped' /\ Buckets' /\
      MemBelow' /\ FileBelow' /\ DocBelow' /\ ShownAfter' /\ Flushing' /\ Held' /\ FileExact' /\
      DocExact' /\ MemExact' /\ Growing'
  <2>1. UNCHANGED <<lost, hour, sent, bucket, acks, known, count, through, shown, retired, noWrite,
        diskThrough, src, acked, staleSeen, flushPhase, doc, jobs, orphans, asked, file,
        removal, upsets>>
    BY DEF PollFails, pollEnds
  <2> QED
    BY <2>1, AgentsTypedFrame, CountsTypedFrame, AcksTypedFrame, FlushTypedFrame,
        WorldTypedFrame, BucketsFrame, MemBelowFrame, FileBelowFrame, DocBelowFrame,
        ShownAfterFrame, FlushingFrame, HeldFrame, FileExactFrame, DocExactFrame,
        MemExactFrame, GrowingFrame DEF IInv, TypeOK
<1>n. Numbers
  BY NumbersHold DEF IInv
<1>e. \A k \in Nodes :
        /\ k = i => answer'[k] = Zero /\ pollPhase'[k] = "idle" /\ pollMark'[k] = 0
        /\ k # i => answer'[k] = answer[k] /\ pollPhase'[k] = pollPhase[k]
                    /\ pollMark'[k] = pollMark[k]
  BY DEF IInv, TypeOK, PollsTyped, PollFails, pollEnds
<1>u. lost' = lost /\ hour' = hour /\ sent' = sent /\ removal' = removal /\ noWrite' = noWrite
      /\ through' = through
  BY DEF PollFails
<1>2. PollsTyped'
  BY Constants DEF IInv, TypeOK, PollsTyped, PollFails, pollEnds
<1>3. MarksArePast'
  BY CollectorAssumption DEF IInv, TypeOK, MarksArePast, AgentsTyped, CountsTyped, AcksTyped,
      PollsTyped, FlushTyped, Doc, NoDoc, Marks, Hours, Ack, PollFails, pollEnds
<1>4. Answers'
  BY <1>n, <1>e, <1>u, Constants DEF IInv, Answers, Numbers
<1>5. Ordered'
  BY CollectorAssumption DEF IInv, TypeOK, Ordered, CountsTyped, AcksTyped, PollsTyped,
      FlushTyped, AgentsTyped, Doc, NoDoc, Marks, Ack, Flushing, PollFails, pollEnds
<1>6. Complete'
  BY <1>n, <1>e, <1>u, Constants DEF IInv, Complete, Numbers
<1> QED
  BY <1>1, <1>2, <1>3, <1>4, <1>5, <1>6 DEF IInv, TypeOK

\* Fold keeps the invariant.
LEMMA FoldKeeps ==
    ASSUME IInv, NEW i \in Nodes, Fold(i) PROVE IInv'
<1>1. FlushTyped' /\ WorldTyped' /\ Buckets' /\ FileBelow' /\ DocBelow' /\ Flushing' /\ Held' /\
      FileExact' /\ DocExact'
  <2>1. UNCHANGED <<lost, hour, sent, bucket, noWrite, flushPhase, doc, jobs, orphans, asked, file,
        removal, upsets>>
    BY DEF Fold, add, pollEnds
  <2> QED
    BY <2>1, FlushTypedFrame, WorldTypedFrame, BucketsFrame, FileBelowFrame, DocBelowFrame,
        FlushingFrame, HeldFrame, FileExactFrame, DocExactFrame DEF IInv, TypeOK
<1>n. Numbers
  BY NumbersHold DEF IInv
<1> DEFINE Counted(h) == countable(answer[i], through[i], h)
<1>c. \A h \in Hours :
        Counted(h) <=> /\ answer[i][h] > 0 /\ h > through[i]
                       /\ \E g \in Hours : g > h /\ answer[i][g] > 0
  BY <1>n DEF countable, newest, Numbers
<1>m. PICK m \in Marks :
        /\ \/ m = through[i] /\ \A h \in Hours : ~ Counted(h)
           \/ m \in Hours /\ Counted(m) /\ \A h \in Hours : Counted(h) => h =< m
        /\ through' = [through EXCEPT ![i] = m]
  <2>1. PICK m \in Marks :
            markAfter(answer[i], through[i], m) /\ through' = [through EXCEPT ![i] = m]
    BY DEF Fold, add
  <2> QED
    BY <2>1 DEF markAfter
<1> HIDE DEF Counted
<1>l. m \in Nat /\ m >= through[i] /\ m < hour /\ \A h \in Hours : Counted(h) => h =< m
  BY <1>n, <1>m, <1>c, Constants DEF IInv, Answers, Buckets, MarksArePast, Numbers
<1>e. /\ through'[i] = m
      /\ \A k \in Nodes : k # i =>
            through'[k] = through[k] /\ count'[k] = count[k] /\ shown'[k] = shown[k]
  <2>1. through'[i] = m /\ \A k \in Nodes : k # i => through'[k] = through[k]
    BY <1>m DEF IInv, TypeOK, CountsTyped
  <2>2. \A k \in Nodes : k # i => count'[k] = count[k] /\ shown'[k] = shown[k]
    BY DEF IInv, TypeOK, CountsTyped, Fold, add
  <2> QED
    BY <2>1, <2>2
<1>d. \A h \in Hours :
        count'[i][h] = IF Counted(h) THEN count[i][h] + answer[i][h] ELSE count[i][h]
  BY DEF IInv, TypeOK, CountsTyped, Fold, add, Counted
<1>s. \A h \in Hours :
        shown'[i][h] = IF newest(answer[i], h) /\ h > through[i] THEN answer[i][h] ELSE 0
  BY DEF IInv, TypeOK, CountsTyped, Fold, add, showing
<1>p. /\ answer'[i] = Zero /\ pollPhase'[i] # "answered"
      /\ pollMark'[i] \in {0, diskThrough[i]}
      /\ \A k \in Nodes : k # i =>
            answer'[k] = answer[k] /\ pollPhase'[k] = pollPhase[k] /\ pollMark'[k] = pollMark[k]
  BY DEF IInv, TypeOK, PollsTyped, Fold, add, pollEnds
<1>a. acks' \subseteq acks \cup {[node |-> i, through |-> diskThrough[i], by |-> "poll"]}
  BY DEF Fold, add
<1>u. lost' = lost /\ hour' = hour /\ sent' = sent /\ file' = file /\ doc' = doc /\ jobs' = jobs
      /\ removal' = removal
      /\ noWrite' = noWrite /\ flushPhase' = flushPhase /\ retired' = retired
      /\ diskThrough' = diskThrough
  BY DEF Fold, add
<1>2. AgentsTyped'
  <2>1. [node |-> i, through |-> diskThrough[i], by |-> "poll"] \in Ack
    BY DEF IInv, TypeOK, AcksTyped, Ack
  <2> QED
    BY <2>1, <1>a DEF IInv, TypeOK, AgentsTyped, Fold, add
<1>3. CountsTyped'
  <2>1. through' \in [Nodes -> Marks]
    BY <1>m DEF IInv, TypeOK, CountsTyped
  <2>2. [h \in Hours |-> IF countable(answer[i], through[i], h) THEN count[i][h] + answer[i][h]
                         ELSE count[i][h]] \in Bytes
    BY <1>n DEF Numbers, Bytes
  <2>3. showing(answer[i], through[i]) \in Bytes
    BY <1>n DEF Numbers, Bytes, showing
  <2>4. count' \in [Nodes -> Bytes]
    BY <2>2 DEF IInv, TypeOK, CountsTyped, Fold, add
  <2>5. shown' \in [Nodes -> Bytes]
    BY <2>3 DEF IInv, TypeOK, CountsTyped, Fold, add
  <2> QED
    BY <2>1, <2>4, <2>5 DEF IInv, TypeOK, CountsTyped, Fold, add
<1>4. AcksTyped'
  BY CollectorAssumption DEF IInv, TypeOK, AcksTyped, Marks, Doc, NoDoc, Fold, add, pollEnds
<1>5. PollsTyped'
  <2>1. diskThrough[i] \in Marks
    BY DEF IInv, TypeOK, AcksTyped
  <2>2. pollMark' \in [Nodes -> Marks]
    BY <2>1, Constants DEF IInv, TypeOK, PollsTyped, Fold, add, pollEnds
  <2>3. answer' \in [Nodes -> Bytes]
    BY Constants DEF IInv, TypeOK, PollsTyped, Fold, add, pollEnds
  <2>4. orphan' \in [Nodes -> BOOLEAN]
    BY DEF IInv, TypeOK, PollsTyped, Fold, add, pollEnds
  <2>5. pollPhase' \in [Nodes -> {"idle", "asking", "answered", "acking"}]
    BY DEF IInv, TypeOK, PollsTyped, Fold, add, pollEnds
  <2> QED
    BY <2>2, <2>3, <2>4, <2>5 DEF PollsTyped
<1>6. MarksArePast'
  <2>1. \A k \in Nodes : through'[k] < hour
    BY <1>e, <1>l DEF IInv, MarksArePast
  <2>2. \A k \in Nodes : pollMark'[k] < hour
    <3>1. hour > 0
      BY <1>n, Constants DEF IInv, TypeOK, AgentsTyped
    <3> QED
      BY <3>1, <1>p, <1>n DEF IInv, MarksArePast, Numbers
  <2>3. \A b \in acks' : b.through < hour
    BY <1>a DEF IInv, MarksArePast
  <2> QED
    BY <2>1, <2>2, <2>3, <1>u DEF IInv, MarksArePast
<1>7. Answers'
  BY <1>n, <1>p, <1>u, Constants DEF IInv, Answers, Numbers
<1>8. MemBelow'
  <2>1. \A h \in Hours : count'[i][h] =< sent[i][h] /\ (h > m => count'[i][h] = 0)
    BY <1>n, <1>c, <1>d, <1>l, Constants DEF IInv, MemBelow, Answers, Numbers
  <2> QED
    BY <2>1, <1>e, <1>u DEF IInv, MemBelow
<1>9. ShownAfter'
  <2>1. \A h \in Hours : newest(answer[i], h) => ~ Counted(h) /\ \A g \in Hours : Counted(g) =>
          g < h
    BY <1>n, <1>c, Constants DEF newest, Numbers
  <2>2. \A h \in Hours : shown'[i][h] =< sent[i][h] /\ (h =< m => shown'[i][h] = 0)
    BY <2>1, <1>n, <1>s, <1>m, <1>l, Constants DEF IInv, Answers, Numbers
  <2> QED
    BY <2>2, <1>e, <1>u DEF IInv, ShownAfter
<1>10. Ordered'
  <2>1. \A b \in acks', k \in Nodes : removal[k] = "in" /\ b.node = k =>
          b.through =< file.through[k]
    BY <1>a DEF IInv, Ordered
  <2>2. \A k \in Nodes : removal[k] = "in" => pollMark'[k] =< file.through[k]
    BY <1>n, <1>p DEF IInv, Ordered, Numbers
  <2>3. \A k \in Nodes : removal[k] = "in" =>
          /\ ~ noWrite => file.through[k] =< through'[k]
          /\ flushPhase = "writing" =>
              file.through[k] =< doc.through[k] /\ doc.through[k] =< through'[k]
    BY <1>n, <1>e, <1>l DEF IInv, Ordered, Numbers
  <2> QED
    BY <2>1, <2>2, <2>3, <1>u DEF IInv, Ordered
<1>11. Complete'
  BY <1>e, <1>p, <1>u DEF IInv, Complete
<1>12. MemExact'
  <2>1. SUFFICES ASSUME ~ noWrite, removal[i] = "in", NEW h \in Hours, h =< m
                 PROVE  count'[i][h] + lost[i][h] >= sent[i][h]
    BY <1>e, <1>u DEF IInv, MemExact
  <2>2. CASE h =< through[i]
    BY <2>1, <2>2, <1>n, <1>d, Constants DEF IInv, MemExact, Numbers
  <2>3. CASE h > through[i]
    <3>1. m \in Hours /\ Counted(m)
      BY <2>1, <2>3, <1>m, <1>n, Constants DEF Numbers
    <3>2. PICK g \in Hours : g > m /\ answer[i][g] > 0
      BY <3>1, <1>c
    <3>3. g > h
      BY <2>1, <3>1, <3>2, Constants
    <3>4. answer[i][h] + lost[i][h] >= sent[i][h]
      BY <2>1, <2>3, <3>2, <3>3 DEF IInv, Complete, Fold
    <3>5. answer[i][h] > 0 => Counted(h)
      BY <2>3, <3>2, <3>3, <1>c
    <3> QED
      BY <3>4, <3>5, <1>d, <1>n DEF Numbers
  <2> QED
    BY <2>2, <2>3, <1>n, Constants DEF Numbers
<1>13. Growing'
  <2>1. \A k \in Nodes, h \in Hours : count'[k][h] \in Nat /\ count'[k][h] >= count[k][h]
    BY <1>n, <1>d, <1>e DEF Numbers
  <2> QED
    BY <2>1, <1>n, <1>u DEF IInv, Growing, Numbers
<1> QED
  BY <1>1, <1>2, <1>3, <1>4, <1>5, <1>6, <1>7, <1>8, <1>9, <1>10, <1>11, <1>12, <1>13 DEF IInv,
      TypeOK

\* FoldForgotten keeps the invariant.
LEMMA FoldForgottenKeeps ==
    ASSUME IInv, NEW i \in Nodes, FoldForgotten(i) PROVE IInv'
<1>1. AgentsTyped' /\ CountsTyped' /\ AcksTyped' /\ FlushTyped' /\ WorldTyped' /\ Buckets' /\
      MemBelow' /\ FileBelow' /\ DocBelow' /\ ShownAfter' /\ Flushing' /\ Held' /\ FileExact' /\
      DocExact' /\ MemExact' /\ Growing'
  <2>1. UNCHANGED <<lost, hour, sent, bucket, acks, known, count, through, shown, retired, noWrite,
        diskThrough, src, acked, staleSeen, flushPhase, doc, jobs, orphans, asked, file,
        removal, upsets>>
    BY DEF FoldForgotten, pollEnds
  <2> QED
    BY <2>1, AgentsTypedFrame, CountsTypedFrame, AcksTypedFrame, FlushTypedFrame,
        WorldTypedFrame, BucketsFrame, MemBelowFrame, FileBelowFrame, DocBelowFrame,
        ShownAfterFrame, FlushingFrame, HeldFrame, FileExactFrame, DocExactFrame,
        MemExactFrame, GrowingFrame DEF IInv, TypeOK
<1>n. Numbers
  BY NumbersHold DEF IInv
<1>e. \A k \in Nodes :
        /\ k = i => answer'[k] = Zero /\ pollPhase'[k] = "idle" /\ pollMark'[k] = 0
        /\ k # i => answer'[k] = answer[k] /\ pollPhase'[k] = pollPhase[k]
                    /\ pollMark'[k] = pollMark[k]
  BY DEF IInv, TypeOK, PollsTyped, FoldForgotten, pollEnds
<1>u. lost' = lost /\ hour' = hour /\ sent' = sent /\ removal' = removal /\ noWrite' = noWrite
      /\ through' = through
  BY DEF FoldForgotten
<1>2. PollsTyped'
  BY Constants DEF IInv, TypeOK, PollsTyped, FoldForgotten, pollEnds
<1>3. MarksArePast'
  BY CollectorAssumption DEF IInv, TypeOK, MarksArePast, AgentsTyped, CountsTyped, AcksTyped,
      PollsTyped, FlushTyped, Doc, NoDoc, Marks, Hours, Ack, FoldForgotten, pollEnds
<1>4. Answers'
  BY <1>n, <1>e, <1>u, Constants DEF IInv, Answers, Numbers
<1>5. Ordered'
  BY CollectorAssumption DEF IInv, TypeOK, Ordered, CountsTyped, AcksTyped, PollsTyped,
      FlushTyped, AgentsTyped, Doc, NoDoc, Marks, Ack, Flushing, FoldForgotten, pollEnds
<1>6. Complete'
  BY <1>n, <1>e, <1>u, Constants DEF IInv, Complete, Numbers
<1> QED
  BY <1>1, <1>2, <1>3, <1>4, <1>5, <1>6 DEF IInv, TypeOK

\* PollAcked keeps the invariant.
LEMMA PollAckedKeeps ==
    ASSUME IInv, NEW i \in Nodes, PollAcked(i) PROVE IInv'
<1>1. AgentsTyped' /\ CountsTyped' /\ FlushTyped' /\ WorldTyped' /\ Buckets' /\ MemBelow' /\
      FileBelow' /\ DocBelow' /\ ShownAfter' /\ Flushing' /\ Held' /\ FileExact' /\ DocExact' /\
      MemExact' /\ Growing'
  <2>1. UNCHANGED <<lost, hour, sent, bucket, acks, known, count, through, shown, retired, noWrite,
        flushPhase, doc, jobs, orphans, asked, file, removal, upsets>>
    BY DEF PollAcked, noteAck, pollEnds
  <2> QED
    BY <2>1, AgentsTypedFrame, CountsTypedFrame, FlushTypedFrame, WorldTypedFrame, BucketsFrame,
        MemBelowFrame, FileBelowFrame, DocBelowFrame, ShownAfterFrame, FlushingFrame,
        HeldFrame, FileExactFrame, DocExactFrame, MemExactFrame, GrowingFrame DEF IInv,
        TypeOK
<1>n. Numbers
  BY NumbersHold DEF IInv
<1>e. \A k \in Nodes :
        /\ k = i => answer'[k] = Zero /\ pollPhase'[k] = "idle" /\ pollMark'[k] = 0
        /\ k # i => answer'[k] = answer[k] /\ pollPhase'[k] = pollPhase[k]
                    /\ pollMark'[k] = pollMark[k]
  BY DEF IInv, TypeOK, PollsTyped, PollAcked, pollEnds
<1>u. lost' = lost /\ hour' = hour /\ sent' = sent /\ removal' = removal /\ noWrite' = noWrite
      /\ through' = through
  BY DEF PollAcked
<1>2. AcksTyped'
  <2>1. pollMark[i] \in Marks /\ \A x, y \in Marks : max(x, y) \in Marks
    BY DEF IInv, TypeOK, PollsTyped, FlushTyped, max
  <2> QED
    BY <2>1 DEF IInv, TypeOK, AcksTyped, PollAcked, noteAck
<1>3. PollsTyped'
  BY Constants DEF IInv, TypeOK, PollsTyped, PollAcked, pollEnds
<1>4. MarksArePast'
  BY CollectorAssumption DEF IInv, TypeOK, MarksArePast, AgentsTyped, CountsTyped, AcksTyped,
      PollsTyped, FlushTyped, Doc, NoDoc, Marks, Hours, Ack, PollAcked, noteAck, pollEnds, max
<1>5. Answers'
  BY <1>n, <1>e, <1>u, Constants DEF IInv, Answers, Numbers
<1>6. Ordered'
  BY CollectorAssumption DEF IInv, TypeOK, Ordered, CountsTyped, AcksTyped, PollsTyped,
      FlushTyped, AgentsTyped, Doc, NoDoc, Marks, Ack, Flushing, PollAcked, noteAck, pollEnds,
      max
<1>7. Complete'
  BY <1>n, <1>e, <1>u, Constants DEF IInv, Complete, Numbers
<1> QED
  BY <1>1, <1>2, <1>3, <1>4, <1>5, <1>6, <1>7 DEF IInv, TypeOK

\* PollAckFails keeps the invariant.
LEMMA PollAckFailsKeeps ==
    ASSUME IInv, NEW i \in Nodes, PollAckFails(i) PROVE IInv'
<1>1. AgentsTyped' /\ CountsTyped' /\ AcksTyped' /\ FlushTyped' /\ WorldTyped' /\ Buckets' /\
      MemBelow' /\ FileBelow' /\ DocBelow' /\ ShownAfter' /\ Flushing' /\ Held' /\ FileExact' /\
      DocExact' /\ MemExact' /\ Growing'
  <2>1. UNCHANGED <<lost, hour, sent, bucket, acks, known, count, through, shown, retired, noWrite,
        diskThrough, src, acked, staleSeen, flushPhase, doc, jobs, orphans, asked, file,
        removal, upsets>>
    BY DEF PollAckFails, pollEnds
  <2> QED
    BY <2>1, AgentsTypedFrame, CountsTypedFrame, AcksTypedFrame, FlushTypedFrame,
        WorldTypedFrame, BucketsFrame, MemBelowFrame, FileBelowFrame, DocBelowFrame,
        ShownAfterFrame, FlushingFrame, HeldFrame, FileExactFrame, DocExactFrame,
        MemExactFrame, GrowingFrame DEF IInv, TypeOK
<1>n. Numbers
  BY NumbersHold DEF IInv
<1>e. \A k \in Nodes :
        /\ k = i => answer'[k] = Zero /\ pollPhase'[k] = "idle" /\ pollMark'[k] = 0
        /\ k # i => answer'[k] = answer[k] /\ pollPhase'[k] = pollPhase[k]
                    /\ pollMark'[k] = pollMark[k]
  BY DEF IInv, TypeOK, PollsTyped, PollAckFails, pollEnds
<1>u. lost' = lost /\ hour' = hour /\ sent' = sent /\ removal' = removal /\ noWrite' = noWrite
      /\ through' = through
  BY DEF PollAckFails
<1>2. PollsTyped'
  BY Constants DEF IInv, TypeOK, PollsTyped, PollAckFails, pollEnds
<1>3. MarksArePast'
  BY CollectorAssumption DEF IInv, TypeOK, MarksArePast, AgentsTyped, CountsTyped, AcksTyped,
      PollsTyped, FlushTyped, Doc, NoDoc, Marks, Hours, Ack, PollAckFails, pollEnds
<1>4. Answers'
  BY <1>n, <1>e, <1>u, Constants DEF IInv, Answers, Numbers
<1>5. Ordered'
  BY CollectorAssumption DEF IInv, TypeOK, Ordered, CountsTyped, AcksTyped, PollsTyped,
      FlushTyped, AgentsTyped, Doc, NoDoc, Marks, Ack, Flushing, PollAckFails, pollEnds
<1>6. Complete'
  BY <1>n, <1>e, <1>u, Constants DEF IInv, Complete, Numbers
<1> QED
  BY <1>1, <1>2, <1>3, <1>4, <1>5, <1>6 DEF IInv, TypeOK

\* FlushBegin keeps the invariant.
LEMMA FlushBeginKeeps ==
    ASSUME IInv, FlushBegin PROVE IInv'
<1>1. AgentsTyped' /\ CountsTyped' /\ AcksTyped' /\ PollsTyped' /\ WorldTyped' /\ Buckets' /\
      Answers' /\ MemBelow' /\ FileBelow' /\ ShownAfter' /\ Held' /\ Complete' /\ FileExact' /\
      MemExact'
  <2>1. UNCHANGED <<lost, hour, sent, bucket, acks, known, count, through, shown, retired, noWrite,
        diskThrough, src, acked, staleSeen, pollPhase, orphan, answer, pollMark, file,
        removal, upsets>>
    BY DEF FlushBegin
  <2> QED
    BY <2>1, AgentsTypedFrame, CountsTypedFrame, AcksTypedFrame, PollsTypedFrame,
        WorldTypedFrame, BucketsFrame, AnswersFrame, MemBelowFrame, FileBelowFrame,
        ShownAfterFrame, HeldFrame, CompleteFrame, FileExactFrame, MemExactFrame DEF IInv,
        TypeOK
<1>e. /\ doc'.count = count /\ doc'.through = through /\ doc'.retired = retired
      /\ flushPhase' = "writing" /\ flushPhase = "idle" /\ ~ noWrite
  BY DEF FlushBegin, mayFlush
<1>u. lost' = lost /\ sent' = sent /\ count' = count /\ through' = through /\ retired' = retired /\ file' = file
      /\ removal' = removal /\ noWrite' = noWrite
  BY DEF FlushBegin
<1>2. FlushTyped'
  <2>1. [count |-> count, through |-> through, retired |-> retired] \in Doc
    BY DEF IInv, TypeOK, CountsTyped, Doc
  <2> QED
    BY <2>1 DEF IInv, TypeOK, FlushTyped, FlushBegin
<1>3. MarksArePast'
  BY CollectorAssumption DEF IInv, TypeOK, MarksArePast, AgentsTyped, CountsTyped, AcksTyped,
      PollsTyped, FlushTyped, Doc, NoDoc, Marks, Hours, Ack, FlushBegin, mayFlush
<1>4. DocBelow'
  BY <1>e, <1>u DEF IInv, MemBelow, DocBelow
<1>5. Flushing'
  BY CollectorAssumption DEF IInv, TypeOK, Flushing, CountsTyped, FlushTyped, FlushBegin,
      mayFlush
<1>6. Ordered'
  BY CollectorAssumption DEF IInv, TypeOK, Ordered, CountsTyped, AcksTyped, PollsTyped,
      FlushTyped, AgentsTyped, Doc, NoDoc, Marks, Ack, Flushing, FlushBegin, mayFlush
<1>7. DocExact'
  BY <1>e, <1>u DEF IInv, MemExact, DocExact
<1>8. Growing'
  <2>1. \A k \in Nodes, h \in Hours : count[k][h] + retired[k][h] =< count[k][h] + retired[k][h]
    BY NumbersHold DEF IInv, Numbers
  <2> QED
    BY <2>1, <1>e, <1>u DEF IInv, Growing
<1> QED
  BY <1>1, <1>2, <1>3, <1>4, <1>5, <1>6, <1>7, <1>8 DEF IInv, TypeOK

\* WriteFile keeps the invariant.
LEMMA WriteFileKeeps ==
    ASSUME IInv, WriteFile PROVE IInv'
<1>1. AgentsTyped' /\ CountsTyped' /\ AcksTyped' /\ PollsTyped' /\ WorldTyped' /\ Buckets' /\
      Answers' /\ MemBelow' /\ DocBelow' /\ ShownAfter' /\ Complete' /\ MemExact'
  <2>1. UNCHANGED <<lost, hour, sent, bucket, acks, known, count, through, shown, retired, noWrite,
        diskThrough, src, acked, staleSeen, pollPhase, orphan, answer, pollMark, doc, removal,
        upsets>>
    BY DEF WriteFile
  <2> QED
    BY <2>1, AgentsTypedFrame, CountsTypedFrame, AcksTypedFrame, PollsTypedFrame,
        WorldTypedFrame, BucketsFrame, AnswersFrame, MemBelowFrame, DocBelowFrame,
        ShownAfterFrame, CompleteFrame, MemExactFrame DEF IInv, TypeOK
<1>n. Numbers
  BY NumbersHold DEF IInv
<1>e. file' = doc /\ flushPhase = "writing" /\ flushPhase' = "marking" /\ ~ noWrite
  BY DEF IInv, Flushing, WriteFile
<1>u. lost' = lost /\ sent' = sent /\ bucket' = bucket /\ removal' = removal /\ noWrite' = noWrite
      /\ count' = count /\ retired' = retired
  BY DEF WriteFile
<1>2. FlushTyped'
  BY CollectorAssumption DEF IInv, TypeOK, FlushTyped, Doc, NoDoc, Bytes, Zero, Hours, Marks,
      WriteFile
<1>3. MarksArePast'
  BY CollectorAssumption DEF IInv, TypeOK, MarksArePast, AgentsTyped, CountsTyped, AcksTyped,
      PollsTyped, FlushTyped, Doc, NoDoc, Marks, Hours, Ack, WriteFile
<1>4. FileBelow'
  BY <1>e, <1>u DEF IInv, FileBelow, DocBelow
<1>5. Flushing'
  BY CollectorAssumption DEF IInv, TypeOK, Flushing, CountsTyped, FlushTyped, WriteFile
<1>6. Ordered'
  BY CollectorAssumption DEF IInv, TypeOK, Ordered, CountsTyped, AcksTyped, PollsTyped,
      FlushTyped, AgentsTyped, Doc, NoDoc, Marks, Ack, Flushing, WriteFile
<1>7. Held'
  BY <1>n, <1>e, <1>u, Constants DEF IInv, Held, Ordered, Numbers
<1>8. FileExact'
  BY <1>e, <1>u DEF IInv, FileExact, DocExact
<1>9. DocExact'
  BY CollectorAssumption DEF IInv, TypeOK, DocExact, FlushTyped, Doc, CountsTyped, AgentsTyped,
      Hours, Bytes, WriteFile
<1>10. Growing'
  BY <1>e, <1>u DEF IInv, Growing
<1> QED
  BY <1>1, <1>2, <1>3, <1>4, <1>5, <1>6, <1>7, <1>8, <1>9, <1>10 DEF IInv, TypeOK

\* WriteFails keeps the invariant.
LEMMA WriteFailsKeeps ==
    ASSUME IInv, WriteFails PROVE IInv'
<1>1. AgentsTyped' /\ CountsTyped' /\ AcksTyped' /\ PollsTyped' /\ WorldTyped' /\ Buckets' /\
      Answers' /\ MemBelow' /\ FileBelow' /\ ShownAfter' /\ Held' /\ Complete' /\ FileExact' /\
      MemExact'
  <2>1. UNCHANGED <<lost, hour, sent, bucket, acks, known, count, through, shown, retired, noWrite,
        diskThrough, src, acked, staleSeen, pollPhase, orphan, answer, pollMark, file,
        removal, upsets>>
    BY DEF WriteFails
  <2> QED
    BY <2>1, AgentsTypedFrame, CountsTypedFrame, AcksTypedFrame, PollsTypedFrame,
        WorldTypedFrame, BucketsFrame, AnswersFrame, MemBelowFrame, FileBelowFrame,
        ShownAfterFrame, HeldFrame, CompleteFrame, FileExactFrame, MemExactFrame DEF IInv,
        TypeOK
<1>2. FlushTyped'
  BY Constants DEF IInv, TypeOK, FlushTyped, WriteFails
<1>3. MarksArePast'
  BY CollectorAssumption DEF IInv, TypeOK, MarksArePast, AgentsTyped, CountsTyped, AcksTyped,
      PollsTyped, FlushTyped, Doc, NoDoc, Marks, Hours, Ack, WriteFails
<1>4. DocBelow'
  <2>1. doc' = NoDoc /\ sent' = sent
    BY DEF WriteFails
  <2> QED
    BY <2>1, NumbersHold, Constants DEF IInv, DocBelow, Numbers
<1>5. Flushing'
  BY CollectorAssumption DEF IInv, TypeOK, Flushing, CountsTyped, FlushTyped, WriteFails
<1>6. Ordered'
  BY CollectorAssumption DEF IInv, TypeOK, Ordered, CountsTyped, AcksTyped, PollsTyped,
      FlushTyped, AgentsTyped, Doc, NoDoc, Marks, Ack, Flushing, WriteFails
<1>7. DocExact'
  BY CollectorAssumption DEF IInv, TypeOK, DocExact, FlushTyped, Doc, CountsTyped, AgentsTyped,
      Hours, Bytes, WriteFails
<1>8. Growing'
  BY CollectorAssumption DEF IInv, TypeOK, Growing, CountsTyped, FlushTyped, Doc, Bytes, Hours,
      Zero, WriteFails
<1> QED
  BY <1>1, <1>2, <1>3, <1>4, <1>5, <1>6, <1>7, <1>8 DEF IInv, TypeOK

\* MarkWritten keeps the invariant.
LEMMA MarkWrittenKeeps ==
    ASSUME IInv, MarkWritten PROVE IInv'
<1>1. AgentsTyped' /\ CountsTyped' /\ PollsTyped' /\ WorldTyped' /\ Buckets' /\ Answers' /\
      MemBelow' /\ FileBelow' /\ ShownAfter' /\ Held' /\ Complete' /\ FileExact' /\ MemExact'
  <2>1. UNCHANGED <<lost, hour, sent, bucket, acks, known, count, through, shown, retired, noWrite,
        pollPhase, orphan, answer, pollMark, file, removal, upsets>>
    BY DEF MarkWritten
  <2> QED
    BY <2>1, AgentsTypedFrame, CountsTypedFrame, PollsTypedFrame, WorldTypedFrame, BucketsFrame,
        AnswersFrame, MemBelowFrame, FileBelowFrame, ShownAfterFrame, HeldFrame,
        CompleteFrame, FileExactFrame, MemExactFrame DEF IInv, TypeOK
<1>2. AcksTyped'
  <2>1. \A k \in Nodes : diskThrough[k] \in Marks /\ doc.through[k] \in Marks
    BY DEF IInv, TypeOK, AcksTyped, FlushTyped, Doc
  <2>2. \A k \in Nodes : marked(k) \in Marks
    BY <2>1 DEF marked, max
  <2> QED
    BY <2>2 DEF IInv, TypeOK, AcksTyped, MarkWritten
<1>3. FlushTyped'
  BY Constants DEF IInv, TypeOK, FlushTyped, MarkWritten
<1>4. MarksArePast'
  BY CollectorAssumption DEF IInv, TypeOK, MarksArePast, AgentsTyped, CountsTyped, AcksTyped,
      PollsTyped, FlushTyped, Doc, NoDoc, Marks, Hours, Ack, MarkWritten, marked, max
<1>5. DocBelow'
  <2>1. doc' = NoDoc /\ sent' = sent
    BY DEF MarkWritten
  <2> QED
    BY <2>1, NumbersHold, Constants DEF IInv, DocBelow, Numbers
<1>6. Flushing'
  BY CollectorAssumption DEF IInv, TypeOK, Flushing, CountsTyped, FlushTyped, MarkWritten,
      marked, max
<1>7. Ordered'
  BY CollectorAssumption DEF IInv, TypeOK, Ordered, CountsTyped, AcksTyped, PollsTyped,
      FlushTyped, AgentsTyped, Doc, NoDoc, Marks, Ack, Flushing, MarkWritten, marked, max
<1>8. DocExact'
  BY CollectorAssumption DEF IInv, TypeOK, DocExact, FlushTyped, Doc, CountsTyped, AgentsTyped,
      Hours, Bytes, MarkWritten, marked, max
<1>9. Growing'
  BY CollectorAssumption DEF IInv, TypeOK, Growing, CountsTyped, FlushTyped, Doc, Bytes, Hours,
      Zero, MarkWritten, marked, max
<1> QED
  BY <1>1, <1>2, <1>3, <1>4, <1>5, <1>6, <1>7, <1>8, <1>9 DEF IInv, TypeOK

\* ListDue keeps the invariant.
LEMMA ListDueKeeps ==
    ASSUME IInv, ListDue PROVE IInv'
<1>1. AgentsTyped' /\ CountsTyped' /\ AcksTyped' /\ PollsTyped' /\ WorldTyped' /\ Buckets' /\
      Answers' /\ MemBelow' /\ FileBelow' /\ DocBelow' /\ ShownAfter' /\ Held' /\ Complete' /\
      FileExact' /\ MemExact'
  <2>1. UNCHANGED <<lost, hour, sent, bucket, acks, known, count, through, shown, retired, noWrite,
        diskThrough, src, acked, staleSeen, pollPhase, orphan, answer, pollMark, doc, file,
        removal, upsets>>
    BY DEF ListDue
  <2> QED
    BY <2>1, AgentsTypedFrame, CountsTypedFrame, AcksTypedFrame, PollsTypedFrame,
        WorldTypedFrame, BucketsFrame, AnswersFrame, MemBelowFrame, FileBelowFrame,
        DocBelowFrame, ShownAfterFrame, HeldFrame, CompleteFrame, FileExactFrame,
        MemExactFrame DEF IInv, TypeOK
<1>2. FlushTyped'
  BY Constants DEF IInv, TypeOK, FlushTyped, AcksTyped, ListDue
<1>3. MarksArePast'
  BY CollectorAssumption DEF IInv, TypeOK, MarksArePast, AgentsTyped, CountsTyped, AcksTyped,
      PollsTyped, FlushTyped, Doc, NoDoc, Marks, Hours, Ack, ListDue
<1>4. Flushing'
  BY CollectorAssumption DEF IInv, TypeOK, Flushing, CountsTyped, FlushTyped, ListDue
<1>5. Ordered'
  BY CollectorAssumption DEF IInv, TypeOK, Ordered, CountsTyped, AcksTyped, PollsTyped,
      FlushTyped, AgentsTyped, Doc, NoDoc, Marks, Ack, Flushing, ListDue
<1>6. DocExact'
  BY CollectorAssumption DEF IInv, TypeOK, DocExact, FlushTyped, Doc, CountsTyped, AgentsTyped,
      Hours, Bytes, ListDue
<1>7. Growing'
  BY CollectorAssumption DEF IInv, TypeOK, Growing, CountsTyped, FlushTyped, Doc, Bytes, Hours,
      Zero, ListDue
<1> QED
  BY <1>1, <1>2, <1>3, <1>4, <1>5, <1>6, <1>7 DEF IInv, TypeOK

\* FlushAsks keeps the invariant.
LEMMA FlushAsksKeeps ==
    ASSUME IInv, NEW i \in Nodes, FlushAsks(i) PROVE IInv'
<1>1. CountsTyped' /\ AcksTyped' /\ PollsTyped' /\ WorldTyped' /\ Buckets' /\ Answers' /\
      MemBelow' /\ FileBelow' /\ DocBelow' /\ ShownAfter' /\ Flushing' /\ Held' /\ Complete' /\
      FileExact' /\ DocExact' /\ MemExact' /\ Growing'
  <2>1. UNCHANGED <<lost, hour, sent, bucket, known, count, through, shown, retired, noWrite,
        diskThrough, src, acked, staleSeen, pollPhase, orphan, answer, pollMark, flushPhase,
        doc, file, removal, upsets>>
    BY DEF FlushAsks
  <2> QED
    BY <2>1, CountsTypedFrame, AcksTypedFrame, PollsTypedFrame, WorldTypedFrame, BucketsFrame,
        AnswersFrame, MemBelowFrame, FileBelowFrame, DocBelowFrame, ShownAfterFrame,
        FlushingFrame, HeldFrame, CompleteFrame, FileExactFrame, DocExactFrame,
        MemExactFrame, GrowingFrame DEF IInv, TypeOK
<1>2. AgentsTyped'
  <2>1. [node |-> i, through |-> jobs[i], by |-> "flush"] \in Ack
    BY DEF IInv, TypeOK, FlushTyped, Ack
  <2> QED
    BY <2>1 DEF IInv, TypeOK, AgentsTyped, FlushAsks
<1>3. FlushTyped'
  BY CollectorAssumption DEF IInv, TypeOK, FlushTyped, Doc, NoDoc, Bytes, Zero, Hours, Marks,
      FlushAsks
<1>4. MarksArePast'
  BY CollectorAssumption DEF IInv, TypeOK, MarksArePast, AgentsTyped, CountsTyped, AcksTyped,
      PollsTyped, FlushTyped, Doc, NoDoc, Marks, Hours, Ack, FlushAsks
<1>5. Ordered'
  BY CollectorAssumption DEF IInv, TypeOK, Ordered, CountsTyped, AcksTyped, PollsTyped,
      FlushTyped, AgentsTyped, Doc, NoDoc, Marks, Ack, Flushing, FlushAsks
<1> QED
  BY <1>1, <1>2, <1>3, <1>4, <1>5 DEF IInv, TypeOK

\* FlushAcked keeps the invariant.
LEMMA FlushAckedKeeps ==
    ASSUME IInv, NEW i \in Nodes, FlushAcked(i) PROVE IInv'
<1>1. AgentsTyped' /\ CountsTyped' /\ PollsTyped' /\ WorldTyped' /\ Buckets' /\ Answers' /\
      MemBelow' /\ FileBelow' /\ DocBelow' /\ ShownAfter' /\ Flushing' /\ Held' /\ Complete' /\
      FileExact' /\ DocExact' /\ MemExact' /\ Growing'
  <2>1. UNCHANGED <<lost, hour, sent, bucket, acks, known, count, through, shown, retired, noWrite,
        pollPhase, orphan, answer, pollMark, flushPhase, doc, file, removal, upsets>>
    BY DEF FlushAcked, noteAck
  <2> QED
    BY <2>1, AgentsTypedFrame, CountsTypedFrame, PollsTypedFrame, WorldTypedFrame, BucketsFrame,
        AnswersFrame, MemBelowFrame, FileBelowFrame, DocBelowFrame, ShownAfterFrame,
        FlushingFrame, HeldFrame, CompleteFrame, FileExactFrame, DocExactFrame,
        MemExactFrame, GrowingFrame DEF IInv, TypeOK
<1>2. AcksTyped'
  <2>1. jobs[i] \in Marks /\ \A x, y \in Marks : max(x, y) \in Marks
    BY DEF IInv, TypeOK, PollsTyped, FlushTyped, max
  <2> QED
    BY <2>1 DEF IInv, TypeOK, AcksTyped, FlushAcked, noteAck
<1>3. FlushTyped'
  BY Constants DEF IInv, TypeOK, FlushTyped, FlushAcked
<1>4. MarksArePast'
  BY CollectorAssumption DEF IInv, TypeOK, MarksArePast, AgentsTyped, CountsTyped, AcksTyped,
      PollsTyped, FlushTyped, Doc, NoDoc, Marks, Hours, Ack, FlushAcked, noteAck, max
<1>5. Ordered'
  BY CollectorAssumption DEF IInv, TypeOK, Ordered, CountsTyped, AcksTyped, PollsTyped,
      FlushTyped, AgentsTyped, Doc, NoDoc, Marks, Ack, Flushing, FlushAcked, noteAck, max
<1> QED
  BY <1>1, <1>2, <1>3, <1>4, <1>5 DEF IInv, TypeOK

\* FlushAckFails keeps the invariant.
LEMMA FlushAckFailsKeeps ==
    ASSUME IInv, NEW i \in Nodes, FlushAckFails(i) PROVE IInv'
<1>1. AgentsTyped' /\ CountsTyped' /\ AcksTyped' /\ PollsTyped' /\ WorldTyped' /\ Buckets' /\
      Answers' /\ MemBelow' /\ FileBelow' /\ DocBelow' /\ ShownAfter' /\ Flushing' /\ Held' /\
      Complete' /\ FileExact' /\ DocExact' /\ MemExact' /\ Growing'
  <2>1. UNCHANGED <<lost, hour, sent, bucket, acks, known, count, through, shown, retired, noWrite,
        diskThrough, src, acked, staleSeen, pollPhase, orphan, answer, pollMark, flushPhase,
        doc, file, removal, upsets>>
    BY DEF FlushAckFails
  <2> QED
    BY <2>1, AgentsTypedFrame, CountsTypedFrame, AcksTypedFrame, PollsTypedFrame,
        WorldTypedFrame, BucketsFrame, AnswersFrame, MemBelowFrame, FileBelowFrame,
        DocBelowFrame, ShownAfterFrame, FlushingFrame, HeldFrame, CompleteFrame,
        FileExactFrame, DocExactFrame, MemExactFrame, GrowingFrame DEF IInv, TypeOK
<1>2. FlushTyped'
  BY Constants DEF IInv, TypeOK, FlushTyped, FlushAckFails
<1>3. MarksArePast'
  BY CollectorAssumption DEF IInv, TypeOK, MarksArePast, AgentsTyped, CountsTyped, AcksTyped,
      PollsTyped, FlushTyped, Doc, NoDoc, Marks, Hours, Ack, FlushAckFails
<1>4. Ordered'
  BY CollectorAssumption DEF IInv, TypeOK, Ordered, CountsTyped, AcksTyped, PollsTyped,
      FlushTyped, AgentsTyped, Doc, NoDoc, Marks, Ack, Flushing, FlushAckFails
<1> QED
  BY <1>1, <1>2, <1>3, <1>4 DEF IInv, TypeOK

\* FlushEnds keeps the invariant.
LEMMA FlushEndsKeeps ==
    ASSUME IInv, FlushEnds PROVE IInv'
<1>1. AgentsTyped' /\ CountsTyped' /\ AcksTyped' /\ PollsTyped' /\ WorldTyped' /\ Buckets' /\
      Answers' /\ MemBelow' /\ FileBelow' /\ DocBelow' /\ ShownAfter' /\ Held' /\ Complete' /\
      FileExact' /\ MemExact'
  <2>1. UNCHANGED <<lost, hour, sent, bucket, acks, known, count, through, shown, retired, noWrite,
        diskThrough, src, acked, staleSeen, pollPhase, orphan, answer, pollMark, doc, file,
        removal, upsets>>
    BY DEF FlushEnds
  <2> QED
    BY <2>1, AgentsTypedFrame, CountsTypedFrame, AcksTypedFrame, PollsTypedFrame,
        WorldTypedFrame, BucketsFrame, AnswersFrame, MemBelowFrame, FileBelowFrame,
        DocBelowFrame, ShownAfterFrame, HeldFrame, CompleteFrame, FileExactFrame,
        MemExactFrame DEF IInv, TypeOK
<1>2. FlushTyped'
  BY Constants DEF IInv, TypeOK, FlushTyped, FlushEnds
<1>3. MarksArePast'
  BY CollectorAssumption DEF IInv, TypeOK, MarksArePast, AgentsTyped, CountsTyped, AcksTyped,
      PollsTyped, FlushTyped, Doc, NoDoc, Marks, Hours, Ack, FlushEnds
<1>4. Flushing'
  BY CollectorAssumption DEF IInv, TypeOK, Flushing, CountsTyped, FlushTyped, FlushEnds
<1>5. Ordered'
  BY CollectorAssumption DEF IInv, TypeOK, Ordered, CountsTyped, AcksTyped, PollsTyped,
      FlushTyped, AgentsTyped, Doc, NoDoc, Marks, Ack, Flushing, FlushEnds
<1>6. DocExact'
  BY CollectorAssumption DEF IInv, TypeOK, DocExact, FlushTyped, Doc, CountsTyped, AgentsTyped,
      Hours, Bytes, FlushEnds
<1>7. Growing'
  BY CollectorAssumption DEF IInv, TypeOK, Growing, CountsTyped, FlushTyped, Doc, Bytes, Hours,
      Zero, FlushEnds
<1> QED
  BY <1>1, <1>2, <1>3, <1>4, <1>5, <1>6, <1>7 DEF IInv, TypeOK

\* ForgetNode keeps the invariant.
LEMMA ForgetNodeKeeps ==
    ASSUME IInv, NEW i \in Nodes, ForgetNode(i) PROVE IInv'
<1>1. AgentsTyped' /\ Buckets' /\ Answers' /\ FileBelow' /\ DocBelow' /\ Flushing'
  <2>1. UNCHANGED <<lost, hour, sent, bucket, acks, noWrite, answer, flushPhase, doc, file>>
    BY DEF ForgetNode, Forget
  <2> QED
    BY <2>1, AgentsTypedFrame, BucketsFrame, AnswersFrame, FileBelowFrame, DocBelowFrame,
        FlushingFrame DEF IInv, TypeOK
<1>n. Numbers
  BY NumbersHold DEF IInv
<1>e. \A k \in Nodes :
        /\ k = i =>
             count'[k] = Zero /\ through'[k] = 0 /\ shown'[k] = Zero /\ diskThrough'[k] = 0
                    /\ removal'[k] # "in"
        /\ k # i => count'[k] = count[k] /\ through'[k] = through[k] /\ shown'[k] = shown[k]
                    /\ diskThrough'[k] = diskThrough[k] /\ removal'[k] = removal[k]
  BY DEF IInv, TypeOK, CountsTyped, AcksTyped, WorldTyped, ForgetNode, Forget
<1>r. \A k \in Nodes, h \in Hours : count'[k][h] + retired'[k][h] = count[k][h] + retired[k][h]
  <2>1. retired' = [retired EXCEPT ![i] = [h \in Hours |-> retired[i][h] + count[i][h]]]
    BY DEF ForgetNode, Forget, retire, plus
  <2>2. \A h \in Hours : retired'[i][h] = retired[i][h] + count[i][h]
    BY <2>1 DEF IInv, TypeOK, CountsTyped
  <2>3. \A k \in Nodes : k # i => retired'[k] = retired[k]
    BY <2>1 DEF IInv, TypeOK, CountsTyped
  <2> QED
    BY <2>2, <2>3, <1>n, <1>e, Constants DEF Numbers
<1>u. lost' = lost /\ hour' = hour /\ sent' = sent /\ bucket' = bucket /\ file' = file /\ doc' = doc
      /\ jobs' = jobs
      /\ pollMark' = pollMark /\ acks' = acks /\ noWrite' = noWrite /\ flushPhase' = flushPhase
      /\ answer' = answer /\ pollPhase' = pollPhase
  BY DEF ForgetNode, Forget
<1>2. CountsTyped'
  BY CollectorAssumption DEF IInv, TypeOK, CountsTyped, Bytes, Zero, Hours, Marks, Doc, NoDoc,
      ForgetNode, Forget, retire, plus
<1>3. AcksTyped'
  BY CollectorAssumption DEF IInv, TypeOK, AcksTyped, Marks, Doc, NoDoc, ForgetNode, Forget,
      retire, plus
<1>4. PollsTyped'
  BY CollectorAssumption DEF IInv, TypeOK, PollsTyped, Bytes, Zero, Hours, Marks, ForgetNode,
      Forget, retire, plus
<1>5. FlushTyped'
  BY CollectorAssumption DEF IInv, TypeOK, FlushTyped, Doc, NoDoc, Bytes, Zero, Hours, Marks,
      ForgetNode, Forget, retire, plus
<1>6. WorldTyped'
  BY CollectorAssumption DEF IInv, TypeOK, WorldTyped, ForgetNode, Forget, retire, plus, upset
<1>7. MarksArePast'
  <2>1. \A k \in Nodes : through'[k] < hour /\ diskThrough'[k] < hour
    <3>1. hour > 0
      BY <1>n, Constants DEF IInv, TypeOK, AgentsTyped
    <3> QED
      BY <3>1, <1>n, <1>e DEF IInv, MarksArePast, Numbers
  <2> QED
    BY <2>1, <1>u DEF IInv, MarksArePast
<1>8. MemBelow'
  BY <1>n, <1>e, <1>u, Constants DEF IInv, MemBelow, Numbers
<1>9. ShownAfter'
  BY <1>n, <1>e, <1>u, Constants DEF IInv, ShownAfter, Numbers
<1>10. Ordered'
  BY <1>n, <1>e, <1>u, Constants DEF IInv, Ordered, Numbers
<1>11. Held'
  BY <1>n, <1>e, <1>u, Constants DEF IInv, Held, Numbers
<1>12. Complete'
  BY <1>n, <1>e, <1>u, Constants DEF IInv, Complete, Numbers
<1>13. FileExact'
  BY <1>n, <1>e, <1>u, Constants DEF IInv, FileExact, Numbers
<1>14. DocExact'
  BY <1>n, <1>e, <1>u, Constants DEF IInv, DocExact, Numbers
<1>15. MemExact'
  BY <1>n, <1>e, <1>u, Constants DEF IInv, MemExact, Numbers
<1>16. Growing'
  BY <1>r, <1>u DEF IInv, Growing
<1> QED
  BY <1>1, <1>2, <1>3, <1>4, <1>5, <1>6, <1>7, <1>8, <1>9, <1>10, <1>11, <1>12, <1>13, <1>14,
      <1>15, <1>16 DEF IInv, TypeOK

\* LoopEnded keeps the invariant.
LEMMA LoopEndedKeeps ==
    ASSUME IInv, NEW i \in Nodes, LoopEnded(i) PROVE IInv'
<1>1. AgentsTyped' /\ Buckets' /\ Answers' /\ FileBelow' /\ DocBelow' /\ Flushing'
  <2>1. UNCHANGED <<lost, hour, sent, bucket, acks, noWrite, answer, flushPhase, doc, file>>
    BY DEF LoopEnded, Forget
  <2> QED
    BY <2>1, AgentsTypedFrame, BucketsFrame, AnswersFrame, FileBelowFrame, DocBelowFrame,
        FlushingFrame DEF IInv, TypeOK
<1>n. Numbers
  BY NumbersHold DEF IInv
<1>e. \A k \in Nodes :
        /\ k = i =>
             count'[k] = Zero /\ through'[k] = 0 /\ shown'[k] = Zero /\ diskThrough'[k] = 0
                    /\ removal'[k] # "in"
        /\ k # i => count'[k] = count[k] /\ through'[k] = through[k] /\ shown'[k] = shown[k]
                    /\ diskThrough'[k] = diskThrough[k] /\ removal'[k] = removal[k]
  BY DEF IInv, TypeOK, CountsTyped, AcksTyped, WorldTyped, LoopEnded, Forget
<1>r. \A k \in Nodes, h \in Hours : count'[k][h] + retired'[k][h] = count[k][h] + retired[k][h]
  <2>1. retired' = [retired EXCEPT ![i] = [h \in Hours |-> retired[i][h] + count[i][h]]]
    BY DEF LoopEnded, Forget, retire, plus
  <2>2. \A h \in Hours : retired'[i][h] = retired[i][h] + count[i][h]
    BY <2>1 DEF IInv, TypeOK, CountsTyped
  <2>3. \A k \in Nodes : k # i => retired'[k] = retired[k]
    BY <2>1 DEF IInv, TypeOK, CountsTyped
  <2> QED
    BY <2>2, <2>3, <1>n, <1>e, Constants DEF Numbers
<1>u. lost' = lost /\ hour' = hour /\ sent' = sent /\ bucket' = bucket /\ file' = file /\ doc' = doc
      /\ jobs' = jobs
      /\ pollMark' = pollMark /\ acks' = acks /\ noWrite' = noWrite /\ flushPhase' = flushPhase
      /\ answer' = answer /\ pollPhase' = pollPhase
  BY DEF LoopEnded, Forget
<1>2. CountsTyped'
  BY CollectorAssumption DEF IInv, TypeOK, CountsTyped, Bytes, Zero, Hours, Marks, Doc, NoDoc,
      LoopEnded, Forget, retire, plus
<1>3. AcksTyped'
  BY CollectorAssumption DEF IInv, TypeOK, AcksTyped, Marks, Doc, NoDoc, LoopEnded, Forget,
      retire, plus
<1>4. PollsTyped'
  BY CollectorAssumption DEF IInv, TypeOK, PollsTyped, Bytes, Zero, Hours, Marks, LoopEnded,
      Forget, retire, plus
<1>5. FlushTyped'
  BY CollectorAssumption DEF IInv, TypeOK, FlushTyped, Doc, NoDoc, Bytes, Zero, Hours, Marks,
      LoopEnded, Forget, retire, plus
<1>6. WorldTyped'
  BY CollectorAssumption DEF IInv, TypeOK, WorldTyped, LoopEnded, Forget, retire, plus
<1>7. MarksArePast'
  <2>1. \A k \in Nodes : through'[k] < hour /\ diskThrough'[k] < hour
    <3>1. hour > 0
      BY <1>n, Constants DEF IInv, TypeOK, AgentsTyped
    <3> QED
      BY <3>1, <1>n, <1>e DEF IInv, MarksArePast, Numbers
  <2> QED
    BY <2>1, <1>u DEF IInv, MarksArePast
<1>8. MemBelow'
  BY <1>n, <1>e, <1>u, Constants DEF IInv, MemBelow, Numbers
<1>9. ShownAfter'
  BY <1>n, <1>e, <1>u, Constants DEF IInv, ShownAfter, Numbers
<1>10. Ordered'
  BY <1>n, <1>e, <1>u, Constants DEF IInv, Ordered, Numbers
<1>11. Held'
  BY <1>n, <1>e, <1>u, Constants DEF IInv, Held, Numbers
<1>12. Complete'
  BY <1>n, <1>e, <1>u, Constants DEF IInv, Complete, Numbers
<1>13. FileExact'
  BY <1>n, <1>e, <1>u, Constants DEF IInv, FileExact, Numbers
<1>14. DocExact'
  BY <1>n, <1>e, <1>u, Constants DEF IInv, DocExact, Numbers
<1>15. MemExact'
  BY <1>n, <1>e, <1>u, Constants DEF IInv, MemExact, Numbers
<1>16. Growing'
  BY <1>r, <1>u DEF IInv, Growing
<1> QED
  BY <1>1, <1>2, <1>3, <1>4, <1>5, <1>6, <1>7, <1>8, <1>9, <1>10, <1>11, <1>12, <1>13, <1>14,
      <1>15, <1>16 DEF IInv, TypeOK

\* Restart keeps the invariant.
LEMMA RestartKeeps ==
    ASSUME IInv, NEW newer \in BOOLEAN, Restart(newer) PROVE IInv'
<1>1. AgentsTyped' /\ Buckets' /\ FileBelow'
  <2>1. UNCHANGED <<lost, hour, sent, bucket, acks, file>>
    BY DEF Restart
  <2> QED
    BY <2>1, AgentsTypedFrame, BucketsFrame, FileBelowFrame DEF IInv, TypeOK
<1>n. Numbers
  BY NumbersHold DEF IInv
<1>e. /\ noWrite' = newer /\ flushPhase' = "idle" /\ doc' = NoDoc
      /\ newer => count' = NoDoc.count /\ through' = NoDoc.through /\ retired' = NoDoc.retired
                  /\ diskThrough' = NoDoc.through
      /\ ~ newer => count' = file.count /\ through' = file.through /\ retired' = file.retired
                    /\ diskThrough' = file.through
      /\ \A k \in Nodes : removal'[k] = "in" => removal[k] = "in"
  BY DEF IInv, TypeOK, WorldTyped, Restart, decodeDoc, upset
<1>u. lost' = lost /\ hour' = hour /\ sent' = sent /\ file' = file /\ bucket' = bucket /\ acks' = acks
  BY DEF Restart
<1>z. \A k \in Nodes : /\ answer'[k] = Zero /\ shown'[k] = Zero /\ pollPhase'[k] = "idle"
                       /\ pollMark'[k] = 0 /\ jobs'[k] = 0
  BY DEF Restart
<1>t. file \in Doc /\ NoDoc \in Doc
  BY Constants DEF IInv, TypeOK, FlushTyped
<1>2. CountsTyped'
  <2>1. count' \in [Nodes -> Bytes] /\ through' \in [Nodes -> Marks]
        /\ retired' \in [Nodes -> Bytes]
    BY <1>e, <1>t DEF Doc
  <2>2. known' \in [Nodes -> BOOLEAN] /\ shown' \in [Nodes -> Bytes] /\ noWrite' \in BOOLEAN
    BY Constants DEF Restart, decodeDoc
  <2> QED
    BY <2>1, <2>2 DEF CountsTyped
<1>3. AcksTyped'
  <2>1. diskThrough' \in [Nodes -> Marks]
    BY <1>e, <1>t DEF Doc
  <2> QED
    BY <2>1, Constants DEF AcksTyped, Restart, decodeDoc
<1>4. PollsTyped'
  BY CollectorAssumption
  DEF IInv, TypeOK, PollsTyped, Bytes, Zero, Hours, Marks, Restart, decodeDoc
<1>5. FlushTyped'
  BY <1>t, Constants DEF FlushTyped, Restart, decodeDoc
<1>6. WorldTyped'
  BY CollectorAssumption DEF IInv, TypeOK, WorldTyped, Restart, decodeDoc, upset
<1>7. MarksArePast'
  <2>1. hour > 0
    BY Constants DEF IInv, TypeOK, AgentsTyped
  <2> QED
    BY <2>1, <1>e, <1>u, <1>z, Constants DEF IInv, MarksArePast
<1>8. Answers'
  BY <1>n, <1>u, <1>z, Constants DEF Answers, Numbers
<1>9. MemBelow'
  BY <1>n, <1>e, <1>u, Constants DEF IInv, MemBelow, FileBelow, Numbers
<1>10. DocBelow'
  BY <1>n, <1>e, <1>u, Constants DEF DocBelow, Numbers
<1>11. ShownAfter'
  BY <1>n, <1>u, <1>z, Constants DEF ShownAfter, Numbers
<1>12. Flushing'
  BY <1>e DEF Flushing
<1>13. Ordered'
  BY <1>n, <1>e, <1>u, <1>z, Constants DEF IInv, Ordered, Numbers
<1>14. Held'
  BY <1>e, <1>u DEF IInv, Held
<1>15. Complete'
  BY <1>z DEF Complete
<1>16. FileExact'
  BY <1>e, <1>u DEF IInv, FileExact
<1>17. DocExact'
  BY <1>e DEF DocExact
<1>18. MemExact'
  BY <1>e, <1>u DEF IInv, MemExact, FileExact
<1>19. Growing'
  <2>1. \A k \in Nodes, h \in Hours :
          file.count[k][h] + file.retired[k][h] =< file.count[k][h] + file.retired[k][h]
    BY <1>n DEF Numbers
  <2> QED
    BY <2>1, <1>e, <1>u DEF Growing
<1> QED
  BY <1>1, <1>2, <1>3, <1>4, <1>5, <1>6, <1>7, <1>8, <1>9, <1>10, <1>11, <1>12, <1>13, <1>14,
      <1>15, <1>16, <1>17, <1>18, <1>19 DEF IInv, TypeOK

\* A hub without a file starts in the invariant.
LEMMA InitHolds == ASSUME Init PROVE IInv
<1>1. TypeOK
  <2>1. AgentsTyped
    BY Constants, CollectorAssumption DEF Init, AgentsTyped, Hours
  <2>2. CountsTyped /\ AcksTyped
    BY Constants DEF Init, CountsTyped, AcksTyped
  <2>3. PollsTyped /\ FlushTyped /\ WorldTyped
    BY Constants DEF Init, PollsTyped, FlushTyped, WorldTyped
  <2> QED
    BY <2>1, <2>2, <2>3 DEF TypeOK
<1>2. Buckets /\ Answers /\ MemBelow /\ ShownAfter /\ Held /\ Complete /\ MemExact
  BY Constants DEF Init, Buckets, Answers, MemBelow, ShownAfter, Held, Complete, MemExact
<1>3. MarksArePast /\ FileBelow /\ DocBelow /\ Flushing /\ Ordered /\ FileExact /\ DocExact
  BY Constants
  DEF Init, MarksArePast, FileBelow, DocBelow, Flushing, Ordered, FileExact, DocExact
<1>4. Growing
  BY Constants DEF Init, Growing
<1> QED
  BY <1>1, <1>2, <1>3, <1>4 DEF IInv

\* The invariant is inductive: every action of the collector, of the agents, of
\* the manager and of the disk keeps it.
THEOREM Inductive == IInv /\ [Next]_vars => IInv'
<1> SUFFICES ASSUME IInv, [Next]_vars PROVE IInv'
  OBVIOUS
<1>1. CASE UNCHANGED vars
  BY <1>1, AgentsTypedFrame, CountsTypedFrame, AcksTypedFrame, PollsTypedFrame, FlushTypedFrame,
     WorldTypedFrame, BucketsFrame, MarksArePastFrame, AnswersFrame, MemBelowFrame,
     FileBelowFrame,
     DocBelowFrame, ShownAfterFrame, FlushingFrame, OrderedFrame, HeldFrame, CompleteFrame,
     FileExactFrame, DocExactFrame, MemExactFrame, GrowingFrame DEF vars, IInv, TypeOK
<1>2. CASE \/ HourPasses \/ FlushBegin \/ WriteFile \/ WriteFails \/ MarkWritten \/ ListDue
           \/ FlushEnds
  BY <1>2, HourPassesKeeps, FlushBeginKeeps, WriteFileKeeps, WriteFailsKeeps, MarkWrittenKeeps,
     ListDueKeeps, FlushEndsKeeps
<1>3. CASE \E newer \in BOOLEAN : Restart(newer)
  BY <1>3, RestartKeeps
<1>4. CASE \E a \in acks : AckArrives(a)
  BY <1>4, AckArrivesKeeps
<1>5. ASSUME NEW i \in Nodes,
             \/ Accumulate(i) \/ AgentRestarts(i) \/ PollBegin(i) \/ Answer(i) \/ PollFails(i)
             \/ Fold(i) \/ FoldForgotten(i) \/ PollAcked(i) \/ PollAckFails(i)
             \/ FlushAsks(i) \/ FlushAcked(i) \/ FlushAckFails(i)
             \/ ForgetNode(i) \/ LoopEnded(i)
      PROVE  IInv'
  BY <1>5, AccumulateKeeps, AgentRestartsKeeps, PollBeginKeeps, AnswerKeeps, PollFailsKeeps,
     FoldKeeps, FoldForgottenKeeps, PollAckedKeeps, PollAckFailsKeeps, FlushAsksKeeps,
     FlushAckedKeeps, FlushAckFailsKeeps, ForgetNodeKeeps, LoopEndedKeeps
<1> QED
  BY <1>1, <1>2, <1>3, <1>4, <1>5 DEF Next

\* The inductive invariant holds throughout.
THEOREM Invariance == Spec => []IInv
<1>1. Init => IInv
  BY InitHolds
<1> QED
  BY <1>1, Inductive, PTL DEF Spec

----------------------------------------------------------------------------
(* What follows *)

\* Marks and counts have their types throughout.
THEOREM Typed == Spec => []TypeOK
<1>1. IInv => TypeOK
  BY DEF IInv
<1> QED
  BY <1>1, Invariance, PTL

\* The history of every node, in memory and in the file, is what the node moved up
\* to the mark, short at most of what its agent lost: foldLocked never counts a
\* bucket that still grows or one twice and passes over none that is there,
\* whatever is late, evicted or restarted.
THEOREM Exact == Spec => []CountedExactly
<1>1. IInv => CountedExactly
  <2> SUFFICES ASSUME IInv, NEW i \in Nodes, removal[i] = "in"
               PROVE  /\ ExactThrough(file.count[i], file.through[i], i)
                      /\ ~ noWrite => ExactThrough(count[i], through[i], i)
    BY DEF CountedExactly
  <2>1. Numbers
    BY NumbersHold DEF IInv
  <2>2. ExactThrough(file.count[i], file.through[i], i)
    BY <2>1, Constants DEF IInv, ExactThrough, FileExact, FileBelow, Numbers
  <2>3. ~ noWrite => ExactThrough(count[i], through[i], i)
    BY <2>1, Constants DEF IInv, ExactThrough, MemExact, MemBelow, Numbers
  <2> QED
    BY <2>2, <2>3
<1> QED
  BY <1>1, Invariance, PTL

\* Flush tells an agent to drop only what the file holds, so a byte is always at
\* the agent or in the file, unless the agent lost it by itself.
THEOREM Durable == Spec => []NothingLost
<1>1. IInv => NothingLost
  <2> SUFFICES ASSUME IInv, NEW i \in Nodes, NEW h \in Hours, removal[i] = "in"
               PROVE  \/ bucket[i][h] + lost[i][h] >= sent[i][h]
                      \/ file.count[i][h] + lost[i][h] >= sent[i][h]
    BY DEF NothingLost
  <2>1. CASE h =< file.through[i]
    BY <2>1 DEF IInv, FileExact
  <2>2. CASE h > file.through[i]
    BY <2>2 DEF IInv, Held
  <2> QED
    BY <2>1, <2>2, NumbersHold, Constants DEF IInv, Numbers
<1> QED
  BY <1>1, Invariance, PTL

\* The page and the limits never see more than was moved: the bucket that is
\* shown as it grows is never one that is counted.
THEOREM Overshown == Spec => []NeverOvershown
<1>1. IInv => NeverOvershown
  <2> SUFFICES ASSUME IInv, NEW i \in Nodes, NEW h \in Hours
               PROVE  count[i][h] + shown[i][h] =< sent[i][h]
    BY DEF NeverOvershown
  <2>1. Numbers
    BY NumbersHold DEF IInv
  <2>2. CASE h =< through[i]
    BY <2>1, <2>2 DEF IInv, MemBelow, ShownAfter, Numbers
  <2>3. CASE h > through[i]
    BY <2>1, <2>3 DEF IInv, MemBelow, ShownAfter, Numbers
  <2> QED
    BY <2>1, <2>2, <2>3, Constants DEF Numbers
<1> QED
  BY <1>1, Invariance, PTL

\* No step, not the removal of a node, a failed write or a restart, makes the
\* totals of the file smaller.
THEOREM GivenBack == Spec => NeverGivenBack
<1>1. ASSUME IInv, [Next]_vars PROVE [KeptTotals]_vars
  <2>1. CASE WriteFile
    BY <1>1, <2>1, NumbersHold DEF IInv, Growing, Numbers, WriteFile, KeptTotals
  <2>2. CASE file' = file
    BY <1>1, <2>2, NumbersHold DEF IInv, Numbers, KeptTotals
  <2>3. Next => WriteFile \/ file' = file
    BY
    DEF Next, Accumulate, HourPasses, AckArrives, AgentRestarts, PollBegin, Answer, PollFails,
       Fold, FoldForgotten, PollAcked, PollAckFails, FlushBegin, WriteFails, MarkWritten,
       ListDue,
       FlushAsks, FlushAcked, FlushAckFails, FlushEnds, ForgetNode, LoopEnded, Restart
  <2> QED
    BY <1>1, <2>1, <2>2, <2>3 DEF vars
<1> QED
  BY <1>1, Invariance, PTL DEF Spec, NeverGivenBack
============================================================================
