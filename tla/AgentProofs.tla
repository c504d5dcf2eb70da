---- MODULE AgentProofs ----
\* Theorems of the node agent's two parts: TrafficStore and XrayManager.  The parts share no
\* state; each theorem is of the specification of one.
\*
\* The traffic buffer: the agent counts no byte twice, and while Xray and the agent keep
\* running it misses none.  CountedOnce is not inductive: it says nothing of the bytes the
\* collector is about to count.  NotTwice adds them (ahead), which takes the baseline of the
\* collector and that of the store to agree between two rounds (Baselines), or a restart
\* would bring an old one back.
\*
\* The supervisor: a process is started only by who finds none present (Start, Restart) or
\* by the watch goroutine of the process m.cmd names, whose process is gone: so OneProcess
\* is inductive by itself.  That a Stop sticks needs two more facts: who waits inside Stop
\* keeps m.mu and the flag stays up meanwhile (Holder), and once the Stop has returned the
\* flag stays up as long as nobody asks for Xray (Rests).
EXTENDS TrafficStore, XrayManager, WellFoundedInduction, TLAPS

\* The collector's baseline is the store's between two rounds, and what it was answered
\* once the difference is taken.
Baselines ==
  /\ delta # 0 => cpc = "diffed"
  /\ cpc \in {"idle", "queried"} => baseline = storeBase
  /\ cpc \in {"diffed", "stored"} => baseline = current

\* What the rounds to come would count if nothing more was sent.
ahead ==
  IF cpc = "queried" THEN diff(baseline, current) + diff(current, counter)
                     ELSE diff(baseline, counter)

NotTwice == clean => counted + ahead <= sent

NotMissed ==
  xrayStarts = 0 /\ crashes = 0 =>
    /\ counted = baseline /\ baseline <= counter
    /\ cpc = "queried" => baseline <= current /\ current <= counter

StoreInv == TypeOK /\ Baselines /\ NotTwice /\ NotMissed

----------------------------------------------------------------------------
\* Sums of buckets.

\* A set with 0 and the successor of each of its members holds every natural number.
LEMMA SetInduction ==
    ASSUME NEW P \in SUBSET Nat, 0 \in P, \A n \in P : n + 1 \in P
    PROVE  P = Nat
  <1> DEFINE R == OpToRel(<, Nat)
             T == Nat \ P
  <1> SUFFICES ASSUME T # {} PROVE FALSE
    OBVIOUS
  <1>1. IsWellFoundedOn(R, Nat)
    BY NatLessThanWellFounded
  <1>2. T \in SUBSET Nat
    OBVIOUS
  <1>3. PICK m \in T : \A x \in T : ~ (<<x, m>> \in R)
    <2> HIDE DEF R, T
    <2> QED
      BY <1>1, <1>2, WFMin
  <1>4. \A x \in T : ~ (x < m)
    BY <1>3 DEF OpToRel
  <1>5. m \in Nat /\ m # 0
    OBVIOUS
  <1>6. m - 1 \in Nat /\ (m - 1) + 1 = m /\ m - 1 < m
    BY <1>5
  <1>7. m - 1 \in P
    BY <1>4, <1>6
  <1> QED
    BY <1>6, <1>7

\* The same up to a bound.
LEMMA HourInduction ==
    ASSUME NEW P, 0 \in P, \A h \in 1..MaxHour : h - 1 \in P => h \in P
    PROVE  Hours \subseteq P
  <1> DEFINE Q == {n \in Nat : n <= MaxHour => n \in P}
  <1>1. Q \in SUBSET Nat /\ 0 \in Q
    OBVIOUS
  <1>2. ASSUME NEW n \in Q PROVE n + 1 \in Q
    <2>1. n \in Nat /\ n + 1 \in Nat /\ (n + 1) - 1 = n
      OBVIOUS
    <2> SUFFICES ASSUME n + 1 <= MaxHour PROVE n + 1 \in P
      BY <2>1
    <2>2. n <= MaxHour /\ n + 1 \in 1..MaxHour
      BY <2>1, BoundsAreNumbers
    <2> QED
      BY <2>1, <2>2
  <1>3. Q = Nat
    <2> HIDE DEF Q
    <2> QED
      BY <1>1, <1>2, SetInduction
  <1>4. ASSUME NEW h \in Hours PROVE h \in P
    <2>1. h \in Nat /\ h <= MaxHour
      BY BoundsAreNumbers DEF Hours
    <2> QED
      BY <1>3, <2>1
  <1> QED
    BY <1>4

\* The recursive definition of the subtotals has a solution: one for the hours up to k
\* extends to one for the hours up to k + 1.
LEMMA SubtotalsDef ==
    ASSUME NEW b
    PROVE  subtotals(b) =
             [h \in Hours |-> IF h = 0 THEN b[0] ELSE subtotals(b)[h - 1] + b[h]]
  <1> DEFINE Sums(g, k) == g = [h \in 0..k |-> IF h = 0 THEN b[0] ELSE g[h - 1] + b[h]]
             P == {k \in Nat : \E g : Sums(g, k)}
  <1>1. 0 \in P
    <2>1. Sums([h \in 0..0 |-> b[0]], 0)
      OBVIOUS
    <2> QED
      BY <2>1
  <1>2. ASSUME NEW k \in P PROVE k + 1 \in P
    <2>1. PICK g : Sums(g, k)
      OBVIOUS
    <2>2. \A h \in 0..k : g[h] = IF h = 0 THEN b[0] ELSE g[h - 1] + b[h]
      <3>1. ASSUME NEW f, f = [h \in 0..k |-> IF h = 0 THEN b[0] ELSE g[h - 1] + b[h]]
            PROVE  \A h \in 0..k : f[h] = IF h = 0 THEN b[0] ELSE g[h - 1] + b[h]
        BY <3>1, Zenon
      <3> QED
        BY <2>1, <3>1
    <2> DEFINE f == [h \in 0..(k + 1) |-> IF h = k + 1 THEN g[k] + b[k + 1] ELSE g[h]]
    <2>3. ASSUME NEW h \in 0..(k + 1)
          PROVE  f[h] = IF h = 0 THEN b[0] ELSE f[h - 1] + b[h]
      <3>1. k \in Nat /\ h \in Nat
        OBVIOUS
      <3>2. CASE h = k + 1
        <4>1. h # 0 /\ h - 1 = k /\ k # k + 1 /\ k \in 0..(k + 1)
          BY <3>1, <3>2
        <4> QED
          BY <3>2, <4>1
      <3>3. CASE h # k + 1
        <4>1. h \in 0..k /\ (h # 0 => h - 1 \in 0..(k + 1) /\ h - 1 # k + 1)
          BY <3>1, <3>3
        <4> QED
          BY <2>2, <3>3, <4>1
      <3> QED
        BY <3>2, <3>3
    <2>4. Sums(f, k + 1)
      BY <2>3
    <2> HIDE DEF f, Sums
    <2> QED
      BY <2>4
  <1>3. P = Nat
    <2>1. P \in SUBSET Nat
      OBVIOUS
    <2> HIDE DEF P
    <2> QED
      BY <1>1, <1>2, <2>1, SetInduction
  <1>4. \E g : Sums(g, MaxHour)
    BY <1>3, BoundsAreNumbers
  <1> QED
    BY <1>4, Zenon DEF subtotals, Hours

LEMMA Subtotals ==
    ASSUME NEW b \in Buckets
    PROVE  /\ subtotals(b)[0] = b[0]
           /\ \A h \in 1..MaxHour : subtotals(b)[h] = subtotals(b)[h - 1] + b[h]
           /\ \A h \in Hours : subtotals(b)[h] \in Nat
           /\ total(b) \in Nat
  <1> DEFINE s == subtotals(b)
             P == {h \in Hours : s[h] \in Nat}
  <1>1. \A h \in Hours : s[h] = IF h = 0 THEN b[0] ELSE s[h - 1] + b[h]
    <2>1. ASSUME NEW f, f = [h \in Hours |-> IF h = 0 THEN b[0] ELSE f[h - 1] + b[h]]
          PROVE  \A h \in Hours : f[h] = IF h = 0 THEN b[0] ELSE f[h - 1] + b[h]
      BY <2>1, Zenon
    <2> HIDE DEF s
    <2>2. s = [h \in Hours |-> IF h = 0 THEN b[0] ELSE s[h - 1] + b[h]]
      BY SubtotalsDef, Zenon DEF s
    <2> QED
      BY <2>1, <2>2
  <1> HIDE DEF s
  <1>2. 0 \in Hours /\ MaxHour \in Hours /\ \A h \in 1..MaxHour : h \in Hours /\ h # 0
    BY BoundsAreNumbers DEF Hours
  <1>3. s[0] = b[0] /\ \A h \in 1..MaxHour : s[h] = s[h - 1] + b[h]
    BY <1>1, <1>2
  <1>4. \A h \in Hours : b[h] \in Nat
    BY DEF Buckets
  <1>5. 0 \in P /\ \A h \in 1..MaxHour : h - 1 \in P => h \in P
    BY <1>2, <1>3, <1>4
  <1>6. Hours \subseteq P
    <2> HIDE DEF P
    <2> QED
      BY <1>5, HourInduction
  <1> QED
    BY <1>2, <1>3, <1>6 DEF s, total

\* Buckets that are the sum of two hold as much as the two.
LEMMA TotalAdds ==
    ASSUME NEW a \in Buckets, NEW b \in Buckets, NEW c \in Buckets,
           \A h \in Hours : c[h] = a[h] + b[h]
    PROVE  total(c) = total(a) + total(b)
  <1> DEFINE P == {h \in Hours : subtotals(c)[h] = subtotals(a)[h] + subtotals(b)[h]}
  <1>1. 0 \in Hours /\ MaxHour \in Hours
        /\ \A h \in 1..MaxHour : h \in Hours /\ h - 1 \in Hours
    BY BoundsAreNumbers DEF Hours
  <1>2. 0 \in P
    BY <1>1, Subtotals
  <1>3. ASSUME NEW h \in 1..MaxHour, h - 1 \in P PROVE h \in P
    <2>1. /\ subtotals(a)[h] = subtotals(a)[h - 1] + a[h]
          /\ subtotals(b)[h] = subtotals(b)[h - 1] + b[h]
          /\ subtotals(c)[h] = subtotals(c)[h - 1] + c[h]
      BY Subtotals
    <2>2. /\ subtotals(a)[h - 1] \in Nat /\ subtotals(b)[h - 1] \in Nat
          /\ a[h] \in Nat /\ b[h] \in Nat
      BY <1>1, Subtotals DEF Buckets
    <2>3. subtotals(c)[h - 1] = subtotals(a)[h - 1] + subtotals(b)[h - 1]
      BY <1>3
    <2> QED
      BY <1>1, <2>1, <2>2, <2>3
  <1>4. Hours \subseteq P
    <2> HIDE DEF P
    <2> QED
      BY <1>2, <1>3, HourInduction
  <1> QED
    BY <1>1, <1>4 DEF total

\* One bucket holds what is in it.
LEMMA TotalOfOne ==
    ASSUME NEW k \in Hours, NEW d \in Nat
    PROVE  total([h \in Hours |-> IF h = k THEN d ELSE 0]) = d
  <1> DEFINE b == [h \in Hours |-> IF h = k THEN d ELSE 0]
             P == {h \in Hours : subtotals(b)[h] = IF h < k THEN 0 ELSE d}
  <1>1. /\ 0 \in Hours /\ MaxHour \in Hours /\ k \in Nat /\ k <= MaxHour
        /\ \A h \in 1..MaxHour : h \in Hours /\ h - 1 \in Hours
    BY BoundsAreNumbers DEF Hours
  <1>2. b \in Buckets
    BY DEF Buckets
  <1>3. \A h \in Hours : b[h] = IF h = k THEN d ELSE 0
    OBVIOUS
  <1> HIDE DEF b
  <1>4. 0 \in P
    BY <1>1, <1>2, <1>3, Subtotals
  <1>5. ASSUME NEW h \in 1..MaxHour, h - 1 \in P PROVE h \in P
    <2>1. subtotals(b)[h] = subtotals(b)[h - 1] + b[h] /\ h \in Nat /\ h # 0
      BY <1>2, Subtotals
    <2>2. subtotals(b)[h - 1] = IF h - 1 < k THEN 0 ELSE d
      BY <1>5
    <2> QED
      BY <1>1, <1>3, <2>1, <2>2
  <1>6. Hours \subseteq P
    <2> HIDE DEF P
    <2> QED
      BY <1>4, <1>5, HourInduction
  <1>7. subtotals(b)[MaxHour] = d
    BY <1>1, <1>6
  <1> QED
    BY <1>7 DEF total, b

LEMMA TotalOfNone == Empty \in Buckets /\ total(Empty) = 0
  <1>1. 0 \in Hours
    BY BoundsAreNumbers DEF Hours
  <1>2. Empty = [h \in Hours |-> IF h = 0 THEN 0 ELSE 0]
    BY DEF Empty
  <1> QED
    BY <1>1, <1>2, TotalOfOne DEF Empty, Buckets

----------------------------------------------------------------------------
\* Types.

LEMMA InitTyped == Init => TypeOK
  <1> SUFFICES ASSUME Init PROVE TypeOK
    OBVIOUS
  <1>1. 0 \in Hours
    BY BoundsAreNumbers DEF Hours
  <1> QED
    BY <1>1, TotalOfNone DEF Init, TypeOK

LEMMA LoadedTyped == TypeOK => loaded \in Doc
  BY TotalOfNone DEF TypeOK, loaded, Doc

LEMMA CollectorTyped ==
    ASSUME TypeOK, Move \/ HourPasses \/ XrayRestarts \/ Collect
    PROVE  TypeOK'
  <1>1. CASE Move \/ HourPasses \/ XrayRestarts
    BY <1>1, BoundsAreNumbers
    DEF TypeOK, Hours, Move, HourPasses, XrayRestarts, collector, store, flushing, disk, counts
  <1>2. CASE QueryStats \/ Diff \/ SetBaseline
    BY <1>2 DEF TypeOK, QueryStats, Diff, SetBaseline, diff, store, flushing, disk, counts
  <1>3. CASE Accumulate
    <2> DEFINE put == [buckets EXCEPT ![hour] = @ + delta]
               old == [h \in Hours |-> IF expired(h) THEN put[h] ELSE 0]
               kept == [h \in Hours |-> IF expired(h) THEN 0 ELSE put[h]]
    <2>1. put \in Buckets
      BY DEF TypeOK, Buckets
    <2>2. old \in Buckets /\ kept \in Buckets
      BY <2>1 DEF Buckets
    <2>3. total(old) \in Nat
      BY <2>2, Subtotals
    <2>4. (buckets' = buckets /\ gone' = gone) \/ (buckets' = kept /\ gone' = gone + total(old))
      BY <1>3 DEF Accumulate
    <2>5. buckets' \in Buckets /\ gone' \in Nat
      <3> HIDE DEF put, old, kept
      <3> QED
        BY <2>2, <2>3, <2>4 DEF TypeOK
    <2> QED
      BY <1>3, <2>5 DEF TypeOK, Accumulate, flushing, disk, counts
  <1> QED
    BY <1>1, <1>2, <1>3 DEF Collect

LEMMA FlushTyped ==
    ASSUME TypeOK, NEW f \in Flushers, Flush(f) \/ FlushFails(f)
    PROVE  TypeOK'
  <1>1. CASE ReadBaseline(f)
    BY <1>1 DEF TypeOK, ReadBaseline, collector, store, disk, counts
  <1>2. CASE OpenTmp(f)
    BY <1>2 DEF TypeOK, OpenTmp, collector, store, counts
  <1>3. CASE WriteTmp(f)
    <2>1. document(f) \in Doc
      BY DEF TypeOK, document, Doc
    <2>2. PICK d \in {document(f), Torn} : content' = [content EXCEPT ![fd[f]] = d]
      BY <1>3 DEF WriteTmp
    <2>3. content' \in [Inodes -> Doc \cup {Torn}]
      <3>1. d \in Doc \cup {Torn} /\ content \in [Inodes -> Doc \cup {Torn}]
        BY <2>1, <2>2 DEF TypeOK
      <3> HIDE DEF Doc
      <3> QED
        BY <2>2, <3>1
    <2> QED
      BY <1>3, <2>3 DEF TypeOK, WriteTmp, collector, store, counts
  <1>4. ASSUME flushEnds(f)
        PROVE  /\ fpc' \in [Flushers -> {"idle", "due", "read", "ready", "open", "written"}]
               /\ snapshot' \in [Flushers -> Buckets]
               /\ snapBase' \in [Flushers -> Nat]
               /\ fd' \in [Flushers -> Inodes \cup {NoInode}]
    BY <1>4, TotalOfNone DEF TypeOK, flushEnds
  <1>5. CASE Rename(f)
    BY <1>4, <1>5 DEF TypeOK, Rename, collector, store, disk, counts
  <1>6. CASE FlushFails(f)
    BY <1>4, <1>6 DEF TypeOK, FlushFails, collector, store, disk
  <1> QED
    BY <1>1, <1>2, <1>3, <1>5, <1>6 DEF Flush

LEMMA OthersTyped ==
    ASSUME TypeOK, FlushLoop \/ DrainFlushes \/ Crash \/ \E through \in Hours : Drain(through)
    PROVE  TypeOK'
  <1>1. CASE FlushLoop \/ DrainFlushes
    BY <1>1 DEF TypeOK, FlushLoop, DrainFlushes, Flushers, collector, store, disk, counts
  <1>2. ASSUME NEW through \in Hours, Drain(through) PROVE TypeOK'
    <2> DEFINE out == [h \in Hours |-> IF h <= through THEN buckets[h] ELSE 0]
    <2>1. out \in Buckets /\ buckets' \in Buckets
      BY <1>2 DEF TypeOK, Buckets, Drain
    <2>2. total(out) \in Nat
      BY <2>1, Subtotals
    <2>3. gone' = gone + total(out)
      BY <1>2 DEF Drain
    <2>4. gone' \in Nat
      <3> HIDE DEF out
      <3> QED
        BY <2>2, <2>3 DEF TypeOK
    <2> QED
      BY <1>2, <2>1, <2>4 DEF TypeOK, Drain, Flushers, collector, disk
  <1>3. CASE Crash
    <2>1. loaded.buckets \in Buckets /\ loaded.base \in Nat
      BY LoadedTyped DEF Doc
    <2> QED
      BY <1>3, <2>1, TotalOfNone DEF TypeOK, Crash, restored, settled, agrees, disk
  <1> QED
    BY <1>1, <1>2, <1>3

----------------------------------------------------------------------------
\* The invariant.

LEMMA Differences ==
    ASSUME NEW p \in Nat, NEW c \in Nat
    PROVE  diff(p, c) \in Nat /\ diff(p, 0) = 0
  BY DEF diff

LEMMA Room ==
    ASSUME NEW a \in Nat, NEW b \in Nat, NEW c \in Nat, NEW d \in Nat, a + b <= c
    PROVE  /\ d <= b => a + d <= c
           /\ d <= b + 1 => a + d <= c + 1
  OBVIOUS

LEMMA InitStore == Init => StoreInv
  <1> SUFFICES ASSUME Init PROVE StoreInv
    OBVIOUS
  <1>1. counted = 0 /\ ahead = 0
    BY TotalOfNone DEF Init, counted, ahead, diff
  <1> QED
    BY <1>1, InitTyped DEF Init, StoreInv, Baselines, NotTwice, NotMissed

\* A step that leaves the collector, the buckets' sum and the counters alone.
LEMMA StoreFrame ==
    ASSUME StoreInv, TypeOK', counted' = counted,
           UNCHANGED <<sent, counter, collector, storeBase, clean, xrayStarts, crashes>>
    PROVE  StoreInv'
  BY DEF StoreInv, Baselines, NotTwice, NotMissed, ahead, diff, collector

LEMMA OutsideStep ==
    ASSUME StoreInv, Move \/ HourPasses \/ XrayRestarts
    PROVE  StoreInv'
  <1>1. TypeOK'
    BY CollectorTyped DEF StoreInv
  <1>2. counted' = counted /\ counted \in Nat
    <2>1. total(buckets) \in Nat
      BY Subtotals DEF StoreInv, TypeOK
    <2>2. UNCHANGED <<buckets, gone, delta>>
      BY DEF Move, HourPasses, XrayRestarts, collector, store
    <2> QED
      BY <2>1, <2>2 DEF StoreInv, TypeOK, counted
  <1>3. Baselines'
    BY DEF StoreInv, Baselines, Move, HourPasses, XrayRestarts, collector, store
  <1>4. CASE HourPasses
    BY <1>1, <1>2, <1>4, StoreFrame DEF HourPasses, store, counts
  <1>5. CASE Move
    <2>1. ahead' <= ahead + 1 /\ ahead \in Nat /\ ahead' \in Nat
      BY <1>1, <1>5 DEF StoreInv, TypeOK, ahead, diff, Move, collector
    <2>2. NotTwice'
      <3>1. /\ clean' = clean /\ (clean => counted + ahead <= sent) /\ sent \in Nat
            /\ sent' = sent + 1
        BY <1>5 DEF StoreInv, TypeOK, NotTwice, Move
      <3> QED
        BY <1>2, <2>1, <3>1, Room DEF NotTwice
    <2>3. NotMissed'
      BY <1>2, <1>5 DEF StoreInv, TypeOK, NotMissed, Move, collector, counts
    <2> QED
      BY <1>1, <1>3, <2>2, <2>3 DEF StoreInv
  <1>6. CASE XrayRestarts
    <2>1. ahead' <= ahead /\ ahead \in Nat /\ ahead' \in Nat
      BY <1>1, <1>6 DEF StoreInv, TypeOK, ahead, diff, XrayRestarts, collector
    <2>2. NotTwice'
      <3>1. /\ clean' = clean /\ (clean => counted + ahead <= sent) /\ sent \in Nat
            /\ sent' = sent
        BY <1>6 DEF StoreInv, TypeOK, NotTwice, XrayRestarts
      <3> QED
        BY <1>2, <2>1, <3>1, Room DEF NotTwice
    <2>3. NotMissed'
      BY <1>6 DEF StoreInv, TypeOK, NotMissed, XrayRestarts
    <2> QED
      BY <1>1, <1>3, <2>2, <2>3 DEF StoreInv
  <1> QED
    BY <1>4, <1>5, <1>6

LEMMA CollectStep ==
    ASSUME StoreInv, Collect
    PROVE  StoreInv'
  <1>1. TypeOK'
    BY CollectorTyped DEF StoreInv
  <1>2. total(buckets) \in Nat
    BY Subtotals DEF StoreInv, TypeOK
  <1>3. CASE QueryStats
    <2>1. counted' = counted
      BY <1>3 DEF QueryStats, counted, store
    <2>2. ahead' = ahead
      BY <1>3 DEF StoreInv, TypeOK, QueryStats, ahead, diff
    <2> QED
      BY <1>1, <1>3, <2>1, <2>2
      DEF StoreInv, TypeOK, Baselines, NotTwice, NotMissed, QueryStats, store, counts
  <1>4. CASE Diff
    <2>1. delta = 0
      BY <1>4 DEF StoreInv, Baselines, Diff
    <2>2. counted' = counted + diff(baseline, current) /\ counted \in Nat
      BY <1>2, <1>4, <2>1 DEF StoreInv, TypeOK, Diff, counted, diff, store
    <2>3. ahead = diff(baseline, current) + ahead' /\ ahead' \in Nat
          /\ diff(baseline, current) \in Nat
      BY <1>4 DEF StoreInv, TypeOK, Diff, ahead, diff
    <2>4. NotTwice'
      BY <1>4, <2>2, <2>3 DEF StoreInv, TypeOK, NotTwice, Diff
    <2>5. NotMissed'
      BY <1>4, <2>2 DEF StoreInv, TypeOK, NotMissed, Diff, diff, counts
    <2>6. Baselines'
      BY <1>4 DEF Baselines, Diff
    <2> QED
      BY <1>1, <2>4, <2>5, <2>6 DEF StoreInv
  <1>5. CASE Accumulate
    <2>1. counted' = counted
      <3> DEFINE put == [buckets EXCEPT ![hour] = @ + delta]
                 one == [h \in Hours |-> IF h = hour THEN delta ELSE 0]
                 old == [h \in Hours |-> IF expired(h) THEN put[h] ELSE 0]
                 kept == [h \in Hours |-> IF expired(h) THEN 0 ELSE put[h]]
      <3>1. /\ put \in Buckets /\ \A h \in Hours : put[h] = buckets[h] + one[h]
            /\ one \in Buckets /\ buckets \in Buckets
        BY DEF StoreInv, TypeOK, Buckets
      <3>2. total(put) = total(buckets) + total(one)
        <4> HIDE DEF put, one
        <4> QED
          BY <3>1, TotalAdds
      <3>3. total(one) = delta
        BY TotalOfOne DEF StoreInv, TypeOK
      <3>4. old \in Buckets /\ kept \in Buckets /\ \A h \in Hours : put[h] = old[h] + kept[h]
        <4> HIDE DEF put
        <4> QED
          BY <3>1 DEF Buckets
      <3>5. total(put) = total(old) + total(kept)
        <4> HIDE DEF put, old, kept
        <4> QED
          BY <3>1, <3>4, TotalAdds
      <3>6. total(old) \in Nat /\ total(kept) \in Nat
        <4> HIDE DEF old, kept
        <4> QED
          BY <3>4, Subtotals
      <3>7. \/ delta = 0 /\ buckets' = buckets /\ gone' = gone
            \/ buckets' = kept /\ gone' = gone + total(old)
        BY <1>5 DEF Accumulate
      <3>8. delta' = 0 /\ delta \in Nat /\ gone \in Nat
        BY <1>5 DEF StoreInv, TypeOK, Accumulate
      <3>9. CASE delta = 0 /\ buckets' = buckets /\ gone' = gone
        BY <3>8, <3>9 DEF counted
      <3>10. CASE buckets' = kept /\ gone' = gone + total(old)
        <4>1. total(buckets)' = total(kept)
          BY <3>10 DEF total, subtotals
        <4>2. gone' = gone + total(old)
          BY <3>10
        <4> HIDE DEF put, one, old, kept
        <4> QED
          BY <1>2, <3>2, <3>3, <3>5, <3>6, <3>8, <4>1, <4>2 DEF counted
      <3> QED
        BY <3>7, <3>9, <3>10
    <2>2. ahead' = ahead
      BY <1>5 DEF Accumulate, ahead, diff
    <2> QED
      BY <1>1, <1>5, <2>1, <2>2
      DEF StoreInv, Baselines, NotTwice, NotMissed, Accumulate, counts
  <1>6. CASE SetBaseline
    <2>1. counted' = counted /\ ahead' = ahead
      BY <1>6 DEF SetBaseline, counted, ahead, diff
    <2> QED
      BY <1>1, <1>6, <2>1
      DEF StoreInv, Baselines, NotTwice, NotMissed, SetBaseline, counts
  <1> QED
    BY <1>3, <1>4, <1>5, <1>6 DEF Collect

LEMMA FlushStep ==
    ASSUME StoreInv,
           \/ FlushLoop \/ DrainFlushes
           \/ \E through \in Hours : Drain(through)
           \/ \E f \in Flushers : Flush(f) \/ FlushFails(f)
    PROVE  StoreInv'
  <1>1. TypeOK'
    BY FlushTyped, OthersTyped DEF StoreInv
  <1>2. CASE FlushLoop \/ DrainFlushes \/ \E f \in Flushers : Flush(f) \/ FlushFails(f)
    <2>1. UNCHANGED <<sent, counter, collector, store, clean, xrayStarts, crashes>>
      BY <1>2
      DEF FlushLoop, DrainFlushes, Flush, ReadBaseline, OpenTmp, WriteTmp, Rename, FlushFails,
          counts
    <2>2. counted' = counted
      BY <2>1 DEF counted, collector, store
    <2> QED
      BY <1>1, <2>1, <2>2, StoreFrame DEF store
  <1>3. ASSUME NEW through \in Hours, Drain(through) PROVE StoreInv'
    <2> DEFINE out == [h \in Hours |-> IF h <= through THEN buckets[h] ELSE 0]
               kept == [h \in Hours |-> IF h <= through THEN 0 ELSE buckets[h]]
    <2>1. /\ out \in Buckets /\ kept \in Buckets /\ buckets \in Buckets
          /\ \A h \in Hours : buckets[h] = out[h] + kept[h]
      BY DEF StoreInv, TypeOK, Buckets
    <2>2. total(buckets) = total(out) + total(kept) /\ total(out) \in Nat /\ total(kept) \in Nat
      <3> HIDE DEF out, kept
      <3> QED
        BY <2>1, TotalAdds, Subtotals
    <2>3. buckets' = kept /\ gone' = gone + total(out)
          /\ UNCHANGED <<sent, counter, collector, storeBase, clean, xrayStarts, crashes>>
      BY <1>3 DEF Drain
    <2>4. counted' = counted
      <3>1. total(buckets)' = total(kept)
        BY <2>3 DEF total, subtotals
      <3> HIDE DEF out, kept
      <3> QED
        BY <2>2, <2>3, <3>1 DEF StoreInv, TypeOK, counted, collector
    <2> QED
      BY <1>1, <2>3, <2>4, StoreFrame
  <1> QED
    BY <1>2, <1>3

LEMMA CrashStep ==
    ASSUME StoreInv, Crash
    PROVE  StoreInv'
  <1>1. TypeOK'
    BY OthersTyped DEF StoreInv
  <1>2. Baselines' /\ NotMissed'
    BY DEF StoreInv, TypeOK, Baselines, NotMissed, Crash, restored
  <1>3. ASSUME clean' PROVE (counted + ahead <= sent)'
    <2>1. clean /\ cpc = "idle" /\ agrees
      BY <1>3 DEF Crash, settled, StoreInv, TypeOK
    <2>2. [buckets |-> buckets, base |-> storeBase] # Torn
      BY TornIsNoDocument DEF StoreInv, TypeOK, Doc
    <2>3. loaded = [buckets |-> buckets, base |-> storeBase]
      BY <2>1, <2>2 DEF agrees, loaded
    <2>4. delta = 0 /\ baseline = storeBase
      BY <2>1 DEF StoreInv, Baselines
    <2>5. buckets' = buckets /\ baseline' = baseline /\ delta' = 0 /\ gone' = gone
          /\ sent' = sent /\ cpc' = "idle" /\ counter' \in {counter, 0}
      BY <2>3, <2>4 DEF Crash, restored
    <2>6. counted' = counted
      BY <2>4, <2>5 DEF counted
    <2>7. ahead' <= ahead /\ ahead \in Nat /\ ahead' \in Nat
      <3>1. ahead = diff(baseline, counter) /\ ahead' = diff(baseline, counter')
        BY <2>1, <2>5 DEF ahead, diff
      <3>2. baseline \in Nat /\ counter \in Nat /\ counter' \in {counter, 0}
        BY <2>5 DEF StoreInv, TypeOK
      <3>3. diff(baseline, counter) \in Nat /\ diff(baseline, 0) = 0
        BY <3>2, Differences
      <3>4. CASE counter' = counter
        BY <3>1, <3>3, <3>4
      <3>5. CASE counter' = 0
        BY <3>1, <3>3, <3>5
      <3> QED
        BY <3>2, <3>4, <3>5
    <2>8. counted \in Nat
      BY Subtotals DEF StoreInv, TypeOK, counted
    <2>9. counted + ahead <= sent /\ sent \in Nat
      BY <2>1 DEF StoreInv, TypeOK, NotTwice
    <2> QED
      BY <2>5, <2>6, <2>7, <2>8, <2>9, Room
  <1> QED
    BY <1>1, <1>2, <1>3 DEF StoreInv, NotTwice

\* The strengthened invariant holds in every state of every behaviour.
THEOREM StoreInvariance == Spec => []StoreInv
  <1>1. StoreInv /\ UNCHANGED vars => StoreInv'
    <2> SUFFICES ASSUME StoreInv, UNCHANGED vars PROVE StoreInv'
      OBVIOUS
    <2>1. TypeOK'
      BY DEF StoreInv, TypeOK, vars, collector, store, flushing, disk, counts
    <2>2. counted' = counted
      BY DEF counted, vars, collector, store
    <2> QED
      BY <2>1, <2>2, StoreFrame DEF vars, store, counts
  <1>2. StoreInv /\ [Next]_vars => StoreInv'
    BY <1>1, OutsideStep, CollectStep, FlushStep, CrashStep DEF Next
  <1> QED
    BY InitStore, <1>2, PTL DEF Spec

\* Types: no difference is negative, and the file holds a whole document or is torn.
THEOREM Typed == Spec => []TypeOK
  <1>1. StoreInv => TypeOK
    BY DEF StoreInv
  <1> QED
    BY <1>1, StoreInvariance, PTL

\* For any hours, retention and numbers of restarts, acknowledgements, failed writes and
\* files, no byte is counted twice, and none is missed while Xray and the agent run.
THEOREM Once == Spec => []CountedOnce
  <1>1. StoreInv => CountedOnce
    <2> SUFFICES ASSUME StoreInv PROVE CountedOnce
      OBVIOUS
    <2>1. counted \in Nat /\ ahead \in Nat
      BY Subtotals DEF StoreInv, TypeOK, counted, ahead, diff
    <2> QED
      BY <2>1 DEF StoreInv, TypeOK, NotTwice, NotMissed, CountedOnce
  <1> QED
    BY <1>1, StoreInvariance, PTL

----------------------------------------------------------------------------
\* The supervisor of Xray.

Holder ==
  \A c \in Callers :
    /\ call[c].at \in {"signal", "wait"} => mu = c /\ stopped
    /\ call[c].at \in {"begin", "fresh"} => call[c].op = "restart"

Rests == quiet => stopped /\ NoRestart

XrayInv == XrayTypeOK /\ OneProcess /\ Holder /\ Rests

(* At the start there is no process and no caller inside Stop.             *)
THEOREM XrayInitHolds == XrayInit => XrayInv
<1> SUFFICES ASSUME XrayInit PROVE XrayInv
  OBVIOUS
<1>1. Idle \in Calls /\ Idle.at = "idle"
  BY DEF Idle, Calls
<1>2. XrayTypeOK
  <2>1. history \in 0 .. MaxRestarts
    BY MaxRestartsAssumption DEF XrayInit
  <2>2. call \in [Callers -> Calls]
    BY <1>1 DEF XrayInit
  <2> QED BY <2>1, <2>2 DEF XrayInit, XrayTypeOK
<1>3. OneProcess /\ Rests
  BY DEF XrayInit, OneProcess, Rests, Present
<1>4. Holder
  BY <1>1 DEF XrayInit, Holder
<1> QED BY <1>2, <1>3, <1>4 DEF XrayInv

------------------------------------------------------------------------------
(***************************************************************************)
(* What startLocked does, for a caller that leaves the watch table w.       *)
(***************************************************************************)
Places == {"off", "wait", "exited", "limit", "delay", "start"}

\* startLocked keeps the types of what it writes.
LEMMA StartTyped ==
  ASSUME XrayTypeOK, NEW w \in [Procs -> Places], NEW down \in BOOLEAN, startLocked(w, down)
  PROVE  /\ proc' \in [Procs -> {"gone", "alive", "killed", "zombie"}]
         /\ cmd' \in Procs \cup {None, Unstarted}
         /\ stopped' \in BOOLEAN
         /\ watch' \in [Procs -> Places]
         /\ lastStart' \in {"none", "ok", "failed"}
<1>1. CASE StartFails(w) /\ stopped' = down
  BY <1>1 DEF StartFails, XrayTypeOK
<1>2. ASSUME NEW p \in Procs, StartWorks(p, w), stopped' = FALSE
      PROVE  /\ proc' \in [Procs -> {"gone", "alive", "killed", "zombie"}]
             /\ cmd' \in Procs \cup {None, Unstarted}
             /\ stopped' \in BOOLEAN
             /\ watch' \in [Procs -> Places]
             /\ lastStart' \in {"none", "ok", "failed"}
  BY <1>2 DEF StartWorks, XrayTypeOK, Places
<1> QED BY <1>1, <1>2 DEF startLocked

\* With no process present, what startLocked starts is the only one.
LEMMA StartAlone ==
  ASSUME XrayTypeOK, NEW w \in [Procs -> Places], NEW down, startLocked(w, down),
         \A p \in Procs : ~Present(p)
  PROVE  OneProcess'
<1>1. CASE StartFails(w)
  BY <1>1 DEF StartFails, OneProcess, Present
<1>2. ASSUME NEW p \in Procs, StartWorks(p, w)
      PROVE  OneProcess'
  BY <1>2 DEF StartWorks, OneProcess, Present, XrayTypeOK
<1> QED BY <1>1, <1>2 DEF startLocked

\* When a watch goroutine is past Wait and m.cmd is still its process, none is present.
LEMMA NonePresent ==
  ASSUME OneProcess, NEW p \in Procs, watch[p] # "wait", cmd = p
  PROVE  \A q \in Procs : ~Present(q)
BY DEF OneProcess

------------------------------------------------------------------------------
(***************************************************************************)
(* Types.                                                                   *)
(***************************************************************************)
\* What the end of a Stop writes keeps its type.
LEMMA StopReturnsTyped ==
  ASSUME XrayTypeOK, NEW c \in Callers, StopReturns(c)
  PROVE  mu' \in Callers \cup {Nobody} /\ call' \in [Callers -> Calls] /\ quiet' \in BOOLEAN
<1>1. Idle \in Calls
  BY DEF Idle, Calls
<1>2. NoRestart \in BOOLEAN
  BY DEF NoRestart
<1>3. [call EXCEPT ![c].at = "fresh"] \in [Callers -> Calls]
  BY DEF XrayTypeOK, Calls
<1> QED BY <1>1, <1>2, <1>3 DEF StopReturns, XrayTypeOK

\* Every step keeps the types.
LEMMA TypeKept ==
  ASSUME XrayTypeOK, [XrayNext]_xrayVars
  PROVE  XrayTypeOK'
<1> USE MaxRestartsAssumption
<1>1. CASE AttemptExpires
  BY <1>1 DEF AttemptExpires, XrayTypeOK, mgr, ghst
<1>2. CASE OtherComesOrGoes
  BY <1>2 DEF OtherComesOrGoes, XrayTypeOK, mgr, ghst
<1>3. ASSUME NEW p \in Procs, Exits(p) \/ Watch(p)
      PROVE  XrayTypeOK'
  <2>1. CASE Exits(p)
    BY <2>1 DEF Exits, XrayTypeOK, mgr, ghst
  <2>2. CASE WatchReaps(p)
    BY <2>2 DEF WatchReaps, XrayTypeOK, mgr, ghst
  <2>3. CASE WatchChecks(p)
    BY <2>3 DEF WatchChecks, WatchDone, XrayTypeOK, mgr, ghst
  <2>4. CASE WatchAsksLimit(p)
    BY <2>4 DEF WatchAsksLimit, WatchDone, canRestart, XrayTypeOK, mgr, ghst
  <2>5. CASE WatchWakes(p)
    BY <2>5 DEF WatchWakes, WatchDone, XrayTypeOK, mgr, ghst
  <2>6. CASE WatchRestarts(p)
    <3> DEFINE w == [watch EXCEPT ![p] = "off"]
    <3>1. w \in [Procs -> Places] /\ stopped \in BOOLEAN
      BY DEF XrayTypeOK, Places
    <3>2. CASE Superseded(p)
      BY <2>6, <3>2 DEF WatchRestarts, XrayTypeOK
    <3>3. CASE ~Superseded(p)
      <4>1. startLocked(w, stopped)
        BY <2>6, <3>3 DEF WatchRestarts
      <4> HIDE DEF w
      <4> QED BY <2>6, <3>1, <4>1, StartTyped DEF WatchRestarts, XrayTypeOK, Places
    <3> QED BY <3>2, <3>3
  <2> QED BY <1>3, <2>1, <2>2, <2>3, <2>4, <2>5, <2>6 DEF Watch
<1>4. ASSUME NEW c \in Callers, Start(c) \/ Stop(c) \/ Restart(c) \/ Proceed(c)
      PROVE  XrayTypeOK'
  <2>0. watch \in [Procs -> Places] /\ stopped \in BOOLEAN
    BY DEF XrayTypeOK, Places
  <2>1. CASE Start(c)
    <3>1. CASE isRunning
      BY <2>1, <3>1 DEF Start, XrayTypeOK
    <3>2. CASE ~isRunning
      <4>1. startLocked(watch, stopped)
        BY <2>1, <3>2 DEF Start
      <4> QED BY <2>0, <2>1, <4>1, StartTyped DEF Start, XrayTypeOK, Places
    <3> QED BY <3>1, <3>2
  <2>2. CASE Stop(c)
    BY <2>2 DEF Stop, StopBegins, XrayTypeOK, Calls
  <2>3. CASE Restart(c)
    <3>1. [op |-> "restart", at |-> "begin"] \in Calls
      BY DEF Calls
    <3>2. history' \in 0 .. MaxRestarts
      BY <2>3 DEF Restart, canRestart, XrayTypeOK
    <3>3. call' \in [Callers -> Calls] /\ quiet' \in BOOLEAN
      BY <2>3, <3>1 DEF Restart, XrayTypeOK
    <3> QED BY <2>3, <3>2, <3>3 DEF Restart, XrayTypeOK, mgr
  <2>4. CASE StopSignals(c)
    <3>1. CASE Present(cmd)
      BY <2>4, <3>1 DEF StopSignals, XrayTypeOK, Calls, mgr
    <3>2. CASE ~Present(cmd)
      BY <2>4, <3>2, StopReturnsTyped DEF StopSignals, XrayTypeOK, mgr
    <3> QED BY <3>1, <3>2
  <2>5. CASE StopPkills(c)
    BY <2>5, StopReturnsTyped DEF StopPkills, XrayTypeOK, mgr
  <2>6. CASE StopSeesExit(c)
    BY <2>6, StopReturnsTyped DEF StopSeesExit, XrayTypeOK, mgr
  <2>7. CASE StopTimesOut(c)
    BY <2>7, StopReturnsTyped DEF StopTimesOut, XrayTypeOK, mgr
  <2>8. CASE RestartStops(c)
    <3>1. [op |-> "restart", at |-> "signal"] \in Calls
      BY DEF Calls
    <3>2. [call EXCEPT ![c].at = "fresh"] \in [Callers -> Calls]
      BY DEF XrayTypeOK, Calls
    <3> QED BY <2>8, <3>1, <3>2 DEF RestartStops, StopBegins, XrayTypeOK, ghst
  <2>9. CASE RestartStarts(c)
    <3>1. wchan' \in [Procs -> {"none", "current", "open", "closed"}]
      BY <2>9 DEF RestartStarts, XrayTypeOK
    <3>2. call' \in [Callers -> Calls]
      BY <2>9 DEF RestartStarts, XrayTypeOK, Calls, Idle
    <3>3. CASE isRunning
      BY <2>9, <3>1, <3>2, <3>3 DEF RestartStarts, XrayTypeOK
    <3>4. CASE ~isRunning
      <4>1. startLocked(watch, FALSE)
        BY <2>9, <3>4 DEF RestartStarts
      <4> QED BY <2>0, <2>9, <3>1, <3>2, <4>1, StartTyped DEF RestartStarts, XrayTypeOK, Places
    <3> QED BY <3>3, <3>4
  <2> QED BY <1>4, <2>1, <2>2, <2>3, <2>4, <2>5, <2>6, <2>7, <2>8, <2>9 DEF Proceed
<1>5. CASE UNCHANGED xrayVars
  BY <1>5 DEF xrayVars, XrayTypeOK
<1> QED BY <1>1, <1>2, <1>3, <1>4, <1>5 DEF XrayNext

------------------------------------------------------------------------------
(***************************************************************************)
(* One process.                                                             *)
(***************************************************************************)
\* Every step keeps one process at most.
LEMMA OneProcessKept ==
  ASSUME XrayInv, [XrayNext]_xrayVars
  PROVE  OneProcess'
<1> USE DEF XrayInv
<1>0. watch \in [Procs -> Places]
  BY DEF XrayTypeOK, Places
<1>1. CASE AttemptExpires \/ OtherComesOrGoes \/ UNCHANGED xrayVars
  BY <1>1 DEF AttemptExpires, OtherComesOrGoes, OneProcess, Present, mgr, xrayVars
<1>2. ASSUME NEW p \in Procs, Exits(p) \/ Watch(p)
      PROVE  OneProcess'
  <2>1. CASE Exits(p) \/ WatchReaps(p)
    BY <2>1 DEF Exits, WatchReaps, OneProcess, Present, XrayTypeOK, mgr
  <2>2. CASE WatchChecks(p) \/ WatchAsksLimit(p) \/ WatchWakes(p)
    BY <2>2
    DEF WatchChecks, WatchAsksLimit, WatchWakes, WatchDone, OneProcess, Present, XrayTypeOK, mgr
  <2>3. CASE WatchRestarts(p)
    <3>1. CASE Superseded(p)
      BY <2>3, <3>1 DEF WatchRestarts, OneProcess, Present, XrayTypeOK
    <3>2. CASE ~Superseded(p)
      <4> DEFINE w == [watch EXCEPT ![p] = "off"]
      <4>1. startLocked(w, stopped) /\ w \in [Procs -> Places]
        BY <1>0, <2>3, <3>2 DEF WatchRestarts, Places
      <4>2. \A q \in Procs : ~Present(q)
        BY <2>3, <3>2, NonePresent DEF WatchRestarts, Superseded
      <4> HIDE DEF w
      <4> QED BY <4>1, <4>2, StartAlone
    <3> QED BY <3>1, <3>2
  <2> QED BY <1>2, <2>1, <2>2, <2>3 DEF Watch
<1>3. ASSUME NEW c \in Callers, Start(c) \/ Stop(c) \/ Restart(c) \/ Proceed(c)
      PROVE  OneProcess'
  <2>1. CASE Start(c)
    <3>1. CASE isRunning
      BY <2>1, <3>1 DEF Start, OneProcess, Present
    <3>2. CASE ~isRunning
      BY <1>0, <2>1, <3>2, StartAlone DEF Start, isRunning
    <3> QED BY <3>1, <3>2
  <2>2. CASE RestartStarts(c)
    <3>1. CASE isRunning
      BY <2>2, <3>1 DEF RestartStarts, OneProcess, Present
    <3>2. CASE ~isRunning
      BY <1>0, <2>2, <3>2, StartAlone DEF RestartStarts, isRunning
    <3> QED BY <3>1, <3>2
  <2>3. CASE Stop(c) \/ Restart(c) \/ RestartStops(c)
    BY <2>3 DEF Stop, Restart, RestartStops, OneProcess, Present, mgr
  <2>4. CASE StopSignals(c) \/ StopPkills(c) \/ StopSeesExit(c)
    BY <2>4 DEF StopSignals, StopPkills, StopSeesExit, OneProcess, Present, mgr
  <2>5. CASE StopTimesOut(c)
    BY <2>5 DEF StopTimesOut, OneProcess, Present, XrayTypeOK, mgr
  <2> QED BY <1>3, <2>1, <2>2, <2>3, <2>4, <2>5 DEF Proceed
<1> QED BY <1>1, <1>2, <1>3 DEF XrayNext

------------------------------------------------------------------------------
(***************************************************************************)
(* The lock and the flag.                                                   *)
(***************************************************************************)
\* While somebody is inside Stop nobody else takes the lock.
LEMMA LockedOut ==
  ASSUME XrayInv, mu = Nobody, NEW c \in Callers
  PROVE  call[c].at \notin {"signal", "wait"}
BY NobodyAssumption DEF XrayInv, Holder

\* Steps of the watch goroutines and of the environment leave calls, lock and
\* quiet alone; what they start, they start with the flag down.
LEMMA WatchFrame ==
  ASSUME XrayInv, NEW p \in Procs, Exits(p) \/ Watch(p)
  PROVE  /\ UNCHANGED <<mu, call, quiet>>
         /\ UNCHANGED stopped \/ (mu = Nobody /\ ~stopped)
<1>1. CASE Exits(p) \/ WatchReaps(p) \/ WatchChecks(p) \/ WatchAsksLimit(p) \/ WatchWakes(p)
  BY <1>1 DEF Exits, WatchReaps, WatchChecks, WatchAsksLimit, WatchWakes, mgr, ghst
<1>2. CASE WatchRestarts(p)
  BY <1>2 DEF WatchRestarts, Superseded
<1> QED BY <1>1, <1>2 DEF Watch

\* The last step of a Stop.
LEMMA StopReturnsKeeps ==
  ASSUME XrayInv, NEW c \in Callers, StopReturns(c), call[c].at \in {"signal", "wait"},
         UNCHANGED stopped
  PROVE  Holder' /\ Rests'
<1> USE DEF XrayInv
<1>1. Idle.at = "idle" /\ Idle.op = "none"
  BY DEF Idle
<1>2. \A d \in Callers : d # c => call[d].at \notin {"signal", "wait"}
  BY DEF Holder
<1>3. stopped
  BY DEF Holder
<1>4. CASE call[c].op = "restart"
  <2>1. call' = [call EXCEPT ![c].at = "fresh"] /\ quiet' = quiet
    BY <1>4 DEF StopReturns
  <2>2. \A d \in Callers : /\ d # c => call'[d] = call[d]
                           /\ call'[c].at = "fresh" /\ call'[c].op = "restart"
    BY <1>4, <2>1 DEF XrayTypeOK, Calls
  <2>3. Holder'
    BY <1>2, <2>2 DEF Holder
  <2>4. ~quiet
    BY <1>4 DEF Rests, NoRestart
  <2> QED BY <2>1, <2>3, <2>4 DEF Rests
<1>5. CASE call[c].op # "restart"
  <2>1. call' = [call EXCEPT ![c] = Idle] /\ quiet' = NoRestart
    BY <1>5 DEF StopReturns
  <2>2. \A d \in Callers : d # c => call'[d] = call[d]
    BY <2>1 DEF XrayTypeOK
  <2>3. call'[c] = Idle
    BY <2>1 DEF XrayTypeOK
  <2>4. Holder'
    BY <1>1, <1>2, <2>2, <2>3 DEF Holder
  <2>5. NoRestart => NoRestart'
    BY <1>1, <2>2, <2>3 DEF NoRestart
  <2> QED BY <1>3, <2>1, <2>4, <2>5 DEF Rests
<1> QED BY <1>4, <1>5

\* One caller's entry of the table changes from outside Stop.
LEMMA CallChanges ==
  ASSUME XrayInv, mu = Nobody, NEW c \in Callers, NEW r \in Calls,
         call' = [call EXCEPT ![c] = r],
         r.at \in {"signal", "wait"} => mu' = c /\ stopped',
         r.at \in {"begin", "fresh"} => r.op = "restart"
  PROVE  Holder'
<1>1. \A d \in Callers : call'[d] = IF d = c THEN r ELSE call[d]
  BY DEF XrayInv, XrayTypeOK
<1> QED BY <1>1, LockedOut DEF XrayInv, Holder

\* Every step keeps the lock with who is inside Stop, and the flag up after it.
LEMMA HolderRestsKept ==
  ASSUME XrayInv, [XrayNext]_xrayVars
  PROVE  Holder' /\ Rests'
<1> USE DEF XrayInv
<1>1. CASE AttemptExpires \/ OtherComesOrGoes \/ UNCHANGED xrayVars
  BY <1>1 DEF AttemptExpires, OtherComesOrGoes, Holder, Rests, NoRestart, mgr, ghst, xrayVars
<1>2. ASSUME NEW p \in Procs, Exits(p) \/ Watch(p)
      PROVE  Holder' /\ Rests'
  <2>1. UNCHANGED <<mu, call, quiet>>
    BY <1>2, WatchFrame
  <2>2. CASE UNCHANGED stopped
    BY <2>1, <2>2 DEF Holder, Rests, NoRestart
  <2>3. CASE mu = Nobody /\ ~stopped
    BY <2>1, <2>3, LockedOut DEF Holder, Rests, NoRestart
  <2> QED BY <1>2, <2>2, <2>3, WatchFrame
<1>3. ASSUME NEW c \in Callers, Start(c) \/ Stop(c) \/ Restart(c) \/ Proceed(c)
      PROVE  Holder' /\ Rests'
  <2>0. Idle \in Calls /\ Idle.at = "idle" /\ Idle.op = "none"
    BY DEF Idle, Calls
  <2>1. CASE Start(c)
    <3>1. mu = Nobody /\ UNCHANGED <<mu, call>> /\ ~quiet'
      BY <2>1 DEF Start
    <3> QED BY <3>1, LockedOut DEF Holder, Rests
  <2>2. CASE Stop(c)
    <3> DEFINE r == [op |-> "stop", at |-> "signal"]
    <3>1. r \in Calls /\ r.at = "signal" /\ r.op = "stop"
      BY DEF Calls
    <3>2. mu = Nobody /\ mu' = c /\ stopped' /\ quiet' = quiet /\ call' = [call EXCEPT ![c] = r]
      BY <2>2 DEF Stop, StopBegins
    <3> HIDE DEF r
    <3>3. Holder'
      BY <3>1, <3>2, CallChanges
    <3>4. NoRestart => NoRestart'
      BY <3>1, <3>2 DEF NoRestart, XrayTypeOK
    <3> QED BY <3>2, <3>3, <3>4 DEF Rests
  <2>3. CASE Restart(c)
    <3> DEFINE r == [op |-> "restart", at |-> "begin"]
    <3>1. r \in Calls /\ r.at = "begin" /\ r.op = "restart"
      BY DEF Calls
    <3>2. mu = Nobody /\ ~quiet' /\ call' = [call EXCEPT ![c] = r]
      BY <2>3 DEF Restart
    <3> HIDE DEF r
    <3> QED BY <3>1, <3>2, CallChanges DEF Rests
  <2>4. CASE StopSignals(c)
    <3>1. CASE Present(cmd)
      <4>1. call' = [call EXCEPT ![c].at = "wait"] /\ UNCHANGED <<mu, quiet, stopped>>
        BY <2>4, <3>1 DEF StopSignals, mgr
      <4>2. /\ \A d \in Callers : d # c => call'[d] = call[d]
            /\ call'[c].at = "wait" /\ call'[c].op = call[c].op
        BY <4>1 DEF XrayTypeOK, Calls
      <4>3. call[c].at = "signal"
        BY <2>4 DEF StopSignals
      <4> QED BY <4>1, <4>2, <4>3 DEF Holder, Rests, NoRestart
    <3>2. CASE ~Present(cmd)
      BY <2>4, <3>2, StopReturnsKeeps DEF StopSignals, mgr
    <3> QED BY <3>1, <3>2
  <2>5. CASE StopPkills(c) \/ StopSeesExit(c) \/ StopTimesOut(c)
    BY <2>5, StopReturnsKeeps DEF StopPkills, StopSeesExit, StopTimesOut, mgr
  <2>6. CASE RestartStops(c)
    <3>1. call[c].op = "restart" /\ mu = Nobody /\ quiet' = quiet
      BY <2>6 DEF RestartStops, Holder, ghst
    <3>2. ~quiet
      BY <3>1 DEF Rests, NoRestart
    <3>3. CASE StopBegins(c, "restart")
      <4> DEFINE r == [op |-> "restart", at |-> "signal"]
      <4>1. r \in Calls /\ r.at = "signal" /\ r.op = "restart"
        BY DEF Calls
      <4>2. mu' = c /\ stopped' /\ call' = [call EXCEPT ![c] = r]
        BY <3>3 DEF StopBegins
      <4> HIDE DEF r
      <4> QED BY <3>1, <3>2, <4>1, <4>2, CallChanges DEF Rests
    <3>4. CASE call' = [call EXCEPT ![c].at = "fresh"] /\ UNCHANGED <<stopped, mu>>
      <4>1. /\ \A d \in Callers : d # c => call'[d] = call[d]
            /\ call'[c].at = "fresh" /\ call'[c].op = "restart"
        BY <3>1, <3>4 DEF XrayTypeOK, Calls
      <4> QED BY <3>1, <3>2, <3>4, <4>1 DEF Holder, Rests
    <3> QED BY <2>6, <3>3, <3>4 DEF RestartStops
  <2>7. CASE RestartStarts(c)
    <3>1. call[c].op = "restart" /\ mu = Nobody /\ quiet' = quiet
          /\ call' = [call EXCEPT ![c] = Idle]
      BY <2>7 DEF RestartStarts, Holder
    <3>2. ~quiet
      BY <3>1 DEF Rests, NoRestart
    <3> QED BY <2>0, <3>1, <3>2, CallChanges DEF Rests
  <2> QED BY <1>3, <2>1, <2>2, <2>3, <2>4, <2>5, <2>6, <2>7 DEF Proceed
<1> QED BY <1>1, <1>2, <1>3 DEF XrayNext

------------------------------------------------------------------------------
\* XrayInv is an invariant of the supervisor, whatever the interleaving.
THEOREM Invariance == XraySpec => []XrayInv
<1>1. XrayInv /\ [XrayNext]_xrayVars => XrayInv'
  BY TypeKept, OneProcessKept, HolderRestsKept DEF XrayInv
<1> QED BY <1>1, XrayInitHolds, PTL DEF XraySpec

\* Every variable keeps its type; the restart history never outgrows maxRestarts
\* (canRestart).
THEOREM XrayTyped == XraySpec => []XrayTypeOK
BY Invariance, PTL DEF XrayInv

\* However crashes, the watchdog and concurrent Start, Stop and Restart calls
\* interleave, at most one Xray exists, m.cmd names it and a watch waits for it.
THEOREM Single == XraySpec => []OneProcess
BY Invariance, PTL DEF XrayInv

\* After a Stop of something running has returned nothing starts Xray until Start or
\* Restart is called, also no watch goroutine that was waiting out its delay.
THEOREM Sticks == XraySpec => StopSticks
<1>1. XrayInv /\ [XrayNext]_xrayVars => [quiet /\ quiet' => ~ComesUp]_xrayVars
  <2> SUFFICES ASSUME XrayInv, XrayNext, quiet, quiet'
               PROVE  ~ComesUp
    BY DEF xrayVars
  <2> USE DEF XrayInv
  <2>1. stopped /\ NoRestart
    BY DEF Rests
  <2>2. CASE AttemptExpires \/ OtherComesOrGoes
    BY <2>2 DEF AttemptExpires, OtherComesOrGoes, ComesUp
  <2>3. ASSUME NEW p \in Procs, Exits(p) \/ Watch(p)
        PROVE  ~ComesUp
    <3>1. CASE Exits(p) \/ WatchReaps(p)
      BY <3>1 DEF Exits, WatchReaps, ComesUp, XrayTypeOK
    <3>2. CASE WatchChecks(p) \/ WatchAsksLimit(p) \/ WatchWakes(p)
      BY <3>2 DEF WatchChecks, WatchAsksLimit, WatchWakes, ComesUp
    <3>3. CASE WatchRestarts(p)
      BY <2>1, <3>3 DEF WatchRestarts, Superseded, ComesUp
    <3> QED BY <2>3, <3>1, <3>2, <3>3 DEF Watch
  <2>4. ASSUME NEW c \in Callers, Start(c) \/ Stop(c) \/ Restart(c) \/ Proceed(c)
        PROVE  ~ComesUp
    <3>1. CASE Start(c) \/ Restart(c)
      BY <3>1 DEF Start, Restart
    <3>2. CASE Stop(c) \/ RestartStops(c) \/ StopSignals(c) \/ StopPkills(c) \/ StopSeesExit(c)
      BY <3>2 DEF Stop, RestartStops, StopSignals, StopPkills, StopSeesExit, ComesUp
    <3>3. CASE StopTimesOut(c)
      BY <3>3 DEF StopTimesOut, ComesUp, XrayTypeOK
    <3>4. CASE RestartStarts(c)
      BY <2>1, <3>4 DEF RestartStarts, Holder, NoRestart
    <3> QED BY <2>4, <3>1, <3>2, <3>3, <3>4 DEF Proceed
  <2> QED BY <2>2, <2>3, <2>4 DEF XrayNext
<1> QED BY <1>1, Invariance, PTL DEF XraySpec, StopSticks
====
