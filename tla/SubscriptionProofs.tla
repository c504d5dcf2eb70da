---- MODULE SubscriptionProofs ----
\* Proofs about one subscription's life: for any panel calls that may overlap, any finite
\* set of artifacts, any dates, limits and traffic, and any number of faults.
\*
\* The argument.  A call is a sequence of effects, of which only the set that is still to
\* come matters (todo), with one exception: a read comes last, so a call that is about to
\* read has nothing to write (Quiet).  Whatever overlaps or fails, calls keep that shape
\* and hold at most one write that decides about the status (Shaped).  While there is no
\* trouble one call at most is past its reads (Exclusive).  AccessFollowsStatus speaks of
\* a state of rest and is lost in the middle of every call, so it is strengthened to
\* Settled: if the others have nothing to write, what a call has still to do takes the
\* status and every artifact the same way.  The calls that write back or judge a row they
\* read need that the row is still the one in the table (RowsKept).  BanKept follows a
\* ban from its write to the pause and an unban from its write to the resumption, and
\* PauseKept says what may be pending against a subscription that is paused.
EXTENDS Subscription, SequenceTheorems, FiniteSetTheorems, TLAPS

\* What a call has still to do.
todo(c) == ToSet(call[c])

\* What a call goes by: the reads, and the date it judges.
asks(e) == e.op \in {"read", "judge"}

\* The writes that decide about the status.
Deciding == {"status", "pause", "resume", "save"}

\* Nothing to write, for now.
Quiet(c) == \A e \in todo(c) : e.op = "read"
OthersQuiet(c) == \A d \in All \ {c} : Quiet(d)

SweepEffects ==
  {Read("expired"), Read("exhausted"), UpdateStatus("expired"), UpdateStatus("traffic_exhausted")}
  \cup {Flip(a, FALSE) : a \in Artifacts}

\* A panel's call asks once, at its end; the sweep writes before it reads on.
AsksLast(s) == \A i \in DOMAIN s : asks(s[i]) => i = Len(s)
ReadsLast(s) == \A i, j \in DOMAIN s : i < j /\ s[i].op = "read" => s[j].op = "read"

\* What a call holds: one decision at most, a row only beside the date that is written
\* with it, and a ban or its lifting only with the list that follows.
Formed(T) ==
  /\ \A e, f \in T : e.op \in Deciding /\ f.op \in Deciding => e = f
  /\ (\E e \in T : e.op \in {"judge", "save"}) => \A f \in T : f.op \in {"end", "judge", "save"}
  /\ Read("banned") \in T => T \subseteq {Ban(TRUE), Read("banned")}
  /\ Read("unbanned") \in T => T \subseteq {Ban(FALSE), Read("unbanned")}
  /\ Read("resumed") \in T => T \subseteq {Read("resumed")}
  /\ Ban(TRUE) \in T => Read("banned") \in T
  /\ Ban(FALSE) \in T => Read("unbanned") \in T

\* Holds whatever overlaps or fails.
Shaped ==
  /\ \A c \in Callers : AsksLast(call[c])
  /\ ReadsLast(call["sweep"]) /\ todo("sweep") \subseteq SweepEffects
  /\ \A c \in All : Formed(todo(c))

\* One call at a time has something to write, and one panel call at a time is in progress.
Exclusive ==
  \A c, d \in All : c # d => /\ Quiet(c) \/ Quiet(d)
                             /\ c \in Callers /\ d \in Callers => call[c] = <<>> \/ call[d] = <<>>

makesActive(e) ==
  \/ e.op = "resume"
  \/ e.op = "status" /\ e.to = "active"
  \/ e.op = "save" /\ e.row.status = "active"

\* Effects T take the status and every artifact the same way: to active and open, or
\* neither.  What T does not touch is there already.
LeadsAt(T, on, status, open) ==
  /\ \A e \in T : e.op \in Deciding => (makesActive(e) <=> on)
  /\ (\A e \in T : e.op \notin Deciding) => ((status = "active") <=> on)
  /\ \A a \in Artifacts :
       /\ \A e \in T : e.op = "access" /\ e.artifact = a => e.on = on
       /\ (\A e \in T : ~(e.op = "access" /\ e.artifact = a)) => (open[a] <=> on)

Leads(T, on) == LeadsAt(T, on, sub.status, access)

\* A call that nobody disturbs ends with the status and the access together.
Settled ==
  \A c \in All : OthersQuiet(c) => \E on \in BOOLEAN : Leads(todo(c), on)

\* A row that was read to be judged or written back has not changed since.
RowsKept ==
  \A c \in All : \A e \in todo(c) : e.op \in {"judge", "save"} =>
    e.row.status = sub.status /\ e.row.reason = sub.reason

\* What undoes a pause of the ban.
lifts(e) == e.op = "resume" \/ e \in {Read("unbanned"), Read("resumed")}

\* A subscription the ban paused is paused with that reason; a pause for the ban is under
\* way only while the ban stands; once the ban is lifted the resumption is under way.
BanKept ==
  /\ pausedByBan => sub.status = "paused" /\ sub.reason = "ban"
  /\ \A c \in All : Pause("ban") \in todo(c) => banned
  /\ \A c \in All : Read("banned") \in todo(c) => banned \/ Ban(TRUE) \in todo(c)
  /\ pausedByBan /\ ~banned => \E c \in Callers : \E e \in todo(c) : lifts(e)

\* Against a paused subscription only a cancellation, an admin's call or the end of the
\* ban that paused it is under way.
PauseKept ==
  \A c \in All : \A e \in todo(c) :
    /\ e.op = "status" => e.to = "cancelled" \/ sub.status # "paused"
    /\ e \in {Read("resumed"), Resume("unban")} => sub.status # "paused" \/ sub.reason = "ban"

AllCalm == Exclusive /\ Settled /\ RowsKept /\ BanKept /\ PauseKept

Calm == ~trouble => AllCalm

SubInv == TypeOK /\ Shaped /\ Calm

----------------------------------------------------------------------------
\* Sequences of effects and the sets of what they hold.

\* The empty call has nothing to do.
LEMMA ToSetEmpty == ToSet(<<>>) = {}
BY DEF ToSet

\* A call of one effect.
LEMMA ToSetOne ==
  ASSUME NEW x
  PROVE  ToSet(<<x>>) = {x}
BY DEF ToSet

\* A call of two.
LEMMA ToSetTwo ==
  ASSUME NEW x, NEW y
  PROVE  ToSet(<<x, y>>) = {x, y}
BY DEF ToSet

\* Calls in sequence have to do what each of them has.
LEMMA ToSetConcat ==
  ASSUME NEW s \in Seq(Effects), NEW t \in Seq(Effects)
  PROVE  /\ s \o t \in Seq(Effects)
         /\ ToSet(s \o t) = ToSet(s) \cup ToSet(t)
<1>1. /\ s \o t \in Seq(Effects)
      /\ Len(s \o t) = Len(s) + Len(t)
      /\ \A i \in 1..Len(s) + Len(t) :
           (s \o t)[i] = IF i <= Len(s) THEN s[i] ELSE t[i - Len(s)]
  BY ConcatProperties
<1>2. /\ Len(s) \in Nat /\ DOMAIN s = 1..Len(s)
      /\ Len(t) \in Nat /\ DOMAIN t = 1..Len(t)
      /\ DOMAIN (s \o t) = 1..Len(s \o t)
  BY <1>1, LenProperties
<1>3. ASSUME NEW x \in ToSet(s \o t)
      PROVE  x \in ToSet(s) \cup ToSet(t)
  <2>1. PICK i \in 1..Len(s) + Len(t) : x = (s \o t)[i]
    BY <1>1, <1>2, <1>3 DEF ToSet
  <2>2. CASE i <= Len(s)
    BY <2>1, <2>2, <1>1, <1>2 DEF ToSet
  <2>3. CASE i > Len(s)
    <3>1. i - Len(s) \in 1..Len(t) /\ x = t[i - Len(s)]
      BY <2>1, <2>3, <1>1, <1>2
    <3> QED BY <3>1, <1>2 DEF ToSet
  <2> QED BY <2>2, <2>3, <1>2
<1>4. ASSUME NEW x \in ToSet(s)
      PROVE  x \in ToSet(s \o t)
  <2>1. PICK i \in 1..Len(s) : x = s[i]
    BY <1>2, <1>4 DEF ToSet
  <2>2. i \in 1..Len(s) + Len(t) /\ (s \o t)[i] = x
    BY <2>1, <1>1, <1>2
  <2> QED BY <2>2, <1>1, <1>2 DEF ToSet
<1>5. ASSUME NEW x \in ToSet(t)
      PROVE  x \in ToSet(s \o t)
  <2>1. PICK i \in 1..Len(t) : x = t[i]
    BY <1>2, <1>5 DEF ToSet
  <2>2. i + Len(s) \in 1..Len(s) + Len(t) /\ (s \o t)[i + Len(s)] = x
    BY <2>1, <1>1, <1>2
  <2> QED BY <2>2, <1>1, <1>2 DEF ToSet
<1> QED BY <1>1, <1>3, <1>4, <1>5

\* What a call has to do is its next effect and what comes after it.
LEMMA ToSetTail ==
  ASSUME NEW s \in Seq(Effects), s # <<>>
  PROVE  /\ Head(s) \in Effects /\ Tail(s) \in Seq(Effects)
         /\ ToSet(s) = {Head(s)} \cup ToSet(Tail(s))
         /\ Len(s) \in Nat \ {0} /\ Len(Tail(s)) = Len(s) - 1
         /\ DOMAIN s = 1..Len(s) /\ DOMAIN Tail(s) = 1..Len(s) - 1
         /\ Head(s) = s[1]
         /\ \A i \in DOMAIN Tail(s) : Tail(s)[i] = s[i + 1]
<1>1. /\ Head(s) \in Effects /\ Tail(s) \in Seq(Effects)
      /\ Len(Tail(s)) = Len(s) - 1
      /\ \A i \in 1..Len(Tail(s)) : Tail(s)[i] = s[i + 1]
  BY HeadTailProperties
<1>2. Len(s) \in Nat \ {0} /\ DOMAIN s = 1..Len(s) /\ DOMAIN Tail(s) = 1..Len(Tail(s))
  BY <1>1, LenProperties, EmptySeq
<1>3. Head(s) = s[1]
  OBVIOUS
<1>4. ASSUME NEW x \in ToSet(s)
      PROVE  x \in {Head(s)} \cup ToSet(Tail(s))
  <2>1. PICK i \in 1..Len(s) : x = s[i]
    BY <1>2, <1>4 DEF ToSet
  <2>2. CASE i = 1
    BY <2>1, <2>2, <1>3
  <2>3. CASE i # 1
    <3>1. i - 1 \in 1..Len(Tail(s)) /\ Tail(s)[i - 1] = s[i]
      BY <2>1, <2>3, <1>1, <1>2
    <3> QED BY <3>1, <2>1, <1>2 DEF ToSet
  <2> QED BY <2>2, <2>3
<1>5. ASSUME NEW x \in {Head(s)} \cup ToSet(Tail(s))
      PROVE  x \in ToSet(s)
  <2>1. CASE x = Head(s)
    BY <2>1, <1>2, <1>3 DEF ToSet
  <2>2. CASE x \in ToSet(Tail(s))
    <3>1. PICK i \in 1..Len(Tail(s)) : x = Tail(s)[i]
      BY <2>2, <1>2 DEF ToSet
    <3>2. i + 1 \in 1..Len(s) /\ x = s[i + 1]
      BY <3>1, <1>1, <1>2
    <3> QED BY <3>2, <1>2 DEF ToSet
  <2> QED BY <1>5, <2>1, <2>2
<1> QED BY <1>1, <1>2, <1>3, <1>4, <1>5

\* Every artifact turned one way.
AllFlips(on) == {Flip(a, on) : a \in Artifacts}

\* setTunnelAccess flips every artifact once, in some order.
LEMMA TunnelAccess ==
  ASSUME NEW on \in BOOLEAN
  PROVE  /\ setTunnelAccess(on) \in Seq(Effects)
         /\ ToSet(setTunnelAccess(on)) = AllFlips(on)
<1> DEFINE n == Cardinality(Artifacts)
           order == SetToSeq(Artifacts)
<1>1. n \in Nat
  BY ArtifactsFinite, FS_CardinalityType
<1>2. IsFiniteSet(1..n) /\ Cardinality(1..n) = n
  BY <1>1, FS_Interval
<1>3. ExistsBijection(1..n, Artifacts)
  BY <1>2, ArtifactsFinite, FS_SameCardinalityBij
<1>4. \E f \in [1..n -> Artifacts] : IsInjective(f)
  BY <1>3 DEF ExistsBijection, Bijection, Injection
<1>5. order \in [1..n -> Artifacts] /\ IsInjective(order)
  BY <1>4 DEF SetToSeq
<1>6. order \in Injection(1..n, Artifacts)
  BY <1>5 DEF Injection
<1>7. order \in Surjection(1..n, Artifacts)
  BY <1>6, <1>2, ArtifactsFinite, FS_Injection
<1>8. \A a \in Artifacts : \E i \in 1..n : order[i] = a
  BY <1>7 DEF Surjection
<1>9. setTunnelAccess(on) = [i \in 1..n |-> Flip(order[i], on)]
  BY <1>5 DEF setTunnelAccess
<1> HIDE DEF n, order
<1>10. \A i \in 1..n : Flip(order[i], on) \in Effects
  BY <1>5 DEF Flip, Effects
<1>11. setTunnelAccess(on) \in Seq(Effects)
  BY <1>1, <1>9, <1>10
<1>12. ToSet(setTunnelAccess(on)) = AllFlips(on)
  BY <1>5, <1>8, <1>9 DEF ToSet, AllFlips
<1> QED BY <1>11, <1>12
----------------------------------------------------------------------------
\* What a call has to do, when it is made and after each of its steps.

\* Writes of dates, limits and counters.
Plain == {e \in Effects : e.op \in {"end", "limit", "extend", "used"}}

\* The effects by name are effects.
LEMMA EffectsNamed ==
  /\ \A w \in {"banned", "unbanned", "resumed", "expired", "exhausted"} : Read(w) \in Effects
  /\ \A s \in Statuses \ {"paused"} : UpdateStatus(s) \in Effects
  /\ \A r \in {"admin", "ban"} : Pause(r) \in Effects
  /\ \A b \in {"admin", "unban"} : Resume(b) \in Effects
  /\ \A b \in BOOLEAN : Ban(b) \in Effects
  /\ \A a \in Artifacts, b \in BOOLEAN : Flip(a, b) \in Effects
  /\ \A t \in 0..MaxTime : [op |-> "end", to |-> t] \in Effects
  /\ \A l \in 0..MaxLimit : [op |-> "limit", to |-> l] \in Effects
  /\ [op |-> "extend"] \in Effects /\ [op |-> "used"] \in Effects
  /\ \A r \in Rows : [op |-> "save", row |-> r] \in Effects
                     /\ [op |-> "judge", row |-> r] \in Effects
<1>1. \A w \in {"banned", "unbanned", "resumed", "expired", "exhausted"} : Read(w) \in Effects
  BY DEF Effects, Read
<1>2. \A s \in Statuses \ {"paused"} : UpdateStatus(s) \in Effects
  BY DEF Effects, UpdateStatus
<1>3. \A r \in {"admin", "ban"} : Pause(r) \in Effects
  BY DEF Effects, Pause
<1>4. \A b \in {"admin", "unban"} : Resume(b) \in Effects
  BY DEF Effects, Resume
<1>5. \A b \in BOOLEAN : Ban(b) \in Effects
  BY DEF Effects, Ban
<1>6. \A a \in Artifacts, b \in BOOLEAN : Flip(a, b) \in Effects
  BY DEF Effects, Flip
<1>7. /\ \A t \in 0..MaxTime : [op |-> "end", to |-> t] \in Effects
      /\ \A l \in 0..MaxLimit : [op |-> "limit", to |-> l] \in Effects
      /\ [op |-> "extend"] \in Effects /\ [op |-> "used"] \in Effects
  BY DEF Effects
<1>8. \A r \in Rows : [op |-> "save", row |-> r] \in Effects
                      /\ [op |-> "judge", row |-> r] \in Effects
  BY DEF Effects
<1> QED BY <1>1, <1>2, <1>3, <1>4, <1>5, <1>6, <1>7, <1>8

\* A call with nothing to look up.
LEMMA NoQuestion ==
  ASSUME NEW s \in Seq(Effects), \A e \in ToSet(s) : ~asks(e)
  PROVE  AsksLast(s) /\ ReadsLast(s)
BY DEF ToSet, AsksLast, ReadsLast, asks

\* Work: at most one write that decides about the status, flips and plain writes.
Work(T, d, on) == T \subseteq Plain \cup {d} \cup AllFlips(on)

\* Work has the shape of a call and asks nothing.
LEMMA WorkFormed ==
  ASSUME NEW T, NEW d \in Effects, NEW on, Work(T, d, on),
         d.op \in Deciding \ {"save"}
  PROVE  /\ Formed(T)
         /\ \A e \in T : ~asks(e) /\ e.op \notin {"ban", "save"}
         /\ \A e \in T : e.op \in Deciding => e = d
<1>1. \A e \in T : \/ e.op \in {"end", "limit", "extend", "used", "access"}
                   \/ e = d
  BY DEF Work, Plain, AllFlips, Flip
<1>2. \A e \in T : e.op \in {"end", "limit", "extend", "used", "access", "status", "pause", "resume"}
  BY <1>1 DEF Deciding
<1>3. \A e \in T : e.op \in Deciding => e = d
  BY <1>1 DEF Deciding
<1>4. /\ \A w : Read(w) \notin T
      /\ \A b : Ban(b) \notin T
  BY <1>2 DEF Read, Ban
<1>5. Formed(T)
  BY <1>2, <1>3, <1>4 DEF Formed
<1> QED BY <1>2, <1>3, <1>5 DEF asks

\* Work that flips everything the way its decision goes brings the two together.
LEMMA WorkLeads ==
  ASSUME NEW T, NEW d \in Effects, NEW on \in BOOLEAN, Work(T, d, on),
         d \in T, d.op \in Deciding, AllFlips(on) \subseteq T,
         makesActive(d) <=> on
  PROVE  Leads(T, on)
<1>1. \A e \in T : e.op \in Deciding => e = d
  BY DEF Work, Plain, AllFlips, Flip, Deciding
<1>2. \A e \in T : e.op = "access" => e \in AllFlips(on)
  BY DEF Work, Plain, Deciding
<1>3. \A e \in T : e.op = "access" => e.on = on
  BY <1>2 DEF AllFlips, Flip
<1>4. \A a \in Artifacts : \E e \in T : e.op = "access" /\ e.artifact = a
  <2> TAKE a \in Artifacts
  <2>1. Flip(a, on) \in T
    BY DEF AllFlips
  <2>2. Flip(a, on).op = "access" /\ Flip(a, on).artifact = a
    BY DEF Flip
  <2> QED BY <2>1, <2>2
<1> QED BY <1>1, <1>3, <1>4 DEF Leads, LeadsAt

\* Nothing about the status or the access to come: the two are together now.
LEMMA RestLeads ==
  ASSUME NEW T, \A e \in T : e.op \notin Deciding \cup {"access"},
         NEW on \in BOOLEAN
  PROVE  Leads(T, on) <=> /\ (sub.status = "active") <=> on
                          /\ \A a \in Artifacts : access[a] <=> on
BY DEF Leads, LeadsAt

----------------------------------------------------------------------------
\* The calls of the panel.

\* Whatever a new call is to do in a state that has the access follow the status: it is
\* well formed, and keeps the two together.
Sound(s) ==
  LET T == ToSet(s) IN
  /\ \E on \in BOOLEAN : Leads(T, on)
  /\ \A e \in T : e.op \in {"judge", "save"} =>
       e.row.status = sub.status /\ e.row.reason = sub.reason
  /\ Pause("ban") \in T => banned
  /\ Read("banned") \in T => banned \/ Ban(TRUE) \in T
  /\ \A e \in T :
       /\ e.op = "status" => e.to = "cancelled" \/ sub.status # "paused"
       /\ e \in {Read("resumed"), Resume("unban")} => sub.status # "paused" \/ sub.reason = "ban"

\* A call has the shape Shaped asks for.
WellMade(s) == s \in Seq(Effects) /\ AsksLast(s) /\ Formed(ToSet(s))

\* The access follows the status.
Follows == \A a \in Artifacts : access[a] <=> (sub.status = "active")

\* A call that works towards a decision.
LEMMA WorkMade ==
  ASSUME NEW s \in Seq(Effects), NEW d \in Effects, NEW on \in BOOLEAN,
         Work(ToSet(s), d, on), d.op \in Deciding \ {"save"}
  PROVE  WellMade(s) /\ \A e \in ToSet(s) : ~asks(e)
BY WorkFormed, NoQuestion DEF WellMade

\* Work that flips everything the way its decision goes is sound if its decision is.
LEMMA WorkSound ==
  ASSUME NEW s, NEW d \in Effects, NEW on \in BOOLEAN,
         Work(ToSet(s), d, on), d.op \in Deciding \ {"save"},
         d \in ToSet(s), AllFlips(on) \subseteq ToSet(s), makesActive(d) <=> on,
         d = Pause("ban") => banned,
         d.op = "status" => d.to = "cancelled" \/ sub.status # "paused",
         d = Resume("unban") => sub.status # "paused" \/ sub.reason = "ban"
  PROVE  Sound(s)
<1> DEFINE T == ToSet(s)
<1>1. /\ \A e \in T : ~asks(e) /\ e.op \notin {"ban", "save"}
      /\ \A e \in T : e.op \in Deciding => e = d
  BY WorkFormed
<1>2. Leads(T, on)
  BY WorkLeads
<1> HIDE DEF T
<1>3. \A w : Read(w) \notin T
  BY <1>1 DEF Read, asks
<1>4. \A e \in T : e.op \notin {"judge", "save"}
  BY <1>1 DEF asks
<1>5. Pause("ban") \in T => banned
  BY <1>1 DEF Pause, Deciding
<1>6. \A e \in T : e.op = "status" => e.to = "cancelled" \/ sub.status # "paused"
  BY <1>1 DEF Deciding
<1>7. \A e \in T : e \in {Read("resumed"), Resume("unban")} => sub.status # "paused" \/ sub.reason = "ban"
  <2> TAKE e \in T
  <2>1. CASE e = Resume("unban")
    <3>1. e.op = "resume"
      BY <2>1 DEF Resume
    <3> QED BY <1>1, <2>1, <3>1 DEF Deciding
  <2> QED BY <2>1, <1>3
<1> QED BY <1>2, <1>3, <1>4, <1>5, <1>6, <1>7 DEF Sound, T

\* Plain writes.
LEMMA PlainMade ==
  ASSUME NEW s \in Seq(Effects), ToSet(s) \subseteq Plain
  PROVE  /\ WellMade(s)
         /\ Follows => Sound(s)
<1> DEFINE T == ToSet(s)
<1>1. \A e \in T : e.op \in {"end", "limit", "extend", "used"}
  BY DEF Plain
<1> HIDE DEF T
<1>2. /\ \A w : Read(w) \notin T
      /\ \A b : Ban(b) \notin T
      /\ \A r : Pause(r) \notin T
      /\ \A b : Resume(b) \notin T
  BY <1>1 DEF Read, Ban, Pause, Resume
<1>3. Formed(T)
  BY <1>1, <1>2 DEF Formed, Deciding
<1>4. AsksLast(s)
  BY <1>1, NoQuestion DEF asks, T
<1>5. ASSUME Follows PROVE \E on \in BOOLEAN : Leads(T, on)
  <2>1. \A e \in T : e.op \notin Deciding \cup {"access"}
    BY <1>1 DEF Deciding
  <2>2. Leads(T, sub.status = "active")
    BY <2>1, <1>5, RestLeads DEF Follows
  <2> QED BY <2>2
<1> QED BY <1>1, <1>2, <1>3, <1>4, <1>5 DEF WellMade, Sound, T

\* The parts calls are made of.
LEMMA Single ==
  ASSUME NEW x \in Effects
  PROVE  <<x>> \in Seq(Effects) /\ ToSet(<<x>>) = {x}
<1>1. <<x>> \in Seq(Effects)
  OBVIOUS
<1> QED BY <1>1, ToSetOne

\* One effect before or after a call.
LEMMA Prefixed ==
  ASSUME NEW x \in Effects, NEW s \in Seq(Effects)
  PROVE  /\ <<x>> \o s \in Seq(Effects) /\ ToSet(<<x>> \o s) = {x} \cup ToSet(s)
         /\ s \o <<x>> \in Seq(Effects) /\ ToSet(s \o <<x>>) = {x} \cup ToSet(s)
<1>1. <<x>> \in Seq(Effects) /\ ToSet(<<x>>) = {x}
  BY Single
<1>2. <<x>> \o s \in Seq(Effects) /\ ToSet(<<x>> \o s) = ToSet(<<x>>) \cup ToSet(s)
  BY <1>1, ToSetConcat
<1>3. s \o <<x>> \in Seq(Effects) /\ ToSet(s \o <<x>>) = ToSet(s) \cup ToSet(<<x>>)
  BY <1>1, ToSetConcat
<1> QED BY <1>1, <1>2, <1>3

\* reactivateSubscription: the status, then every artifact on.
LEMMA Reactivate ==
  /\ reactivateSubscription \in Seq(Effects)
  /\ ToSet(reactivateSubscription) = {UpdateStatus("active")} \cup AllFlips(TRUE)
<1>1. UpdateStatus("active") \in Effects
  BY EffectsNamed DEF Statuses
<1> QED BY <1>1, TunnelAccess, Prefixed DEF reactivateSubscription

\* deactivateOnNodes: every artifact off, then the status.
LEMMA Deactivate ==
  ASSUME NEW status \in Statuses \ {"paused"}
  PROVE  /\ deactivateOnNodes(status) \in Seq(Effects)
         /\ ToSet(deactivateOnNodes(status)) = {UpdateStatus(status)} \cup AllFlips(FALSE)
<1>1. UpdateStatus(status) \in Effects
  BY EffectsNamed
<1>2. setTunnelAccess(FALSE) \in Seq(Effects) /\ ToSet(setTunnelAccess(FALSE)) = AllFlips(FALSE)
  BY TunnelAccess
<1> QED BY <1>1, <1>2, Prefixed DEF deactivateOnNodes

\* PauseSubscriptionFor: every artifact off, then the pause.
LEMMA PauseFor ==
  ASSUME NEW reason \in {"admin", "ban"}
  PROVE  /\ PauseSubscriptionFor(reason) \in Seq(Effects)
         /\ ToSet(PauseSubscriptionFor(reason)) = {Pause(reason)} \cup AllFlips(FALSE)
<1>1. Pause(reason) \in Effects
  BY EffectsNamed
<1>2. setTunnelAccess(FALSE) \in Seq(Effects) /\ ToSet(setTunnelAccess(FALSE)) = AllFlips(FALSE)
  BY TunnelAccess
<1> QED BY <1>1, <1>2, Prefixed DEF PauseSubscriptionFor

\* ResumeSubscription of one that has not expired: the resumption, then every artifact on.
LEMMA ResumeFor ==
  ASSUME NEW by \in {"admin", "unban"}, ~IsExpired(sub)
  PROVE  /\ ResumeSubscription(by) \in Seq(Effects)
         /\ ToSet(ResumeSubscription(by)) = {Resume(by)} \cup AllFlips(TRUE)
<1>1. Resume(by) \in Effects
  BY EffectsNamed
<1>2. setTunnelAccess(TRUE) \in Seq(Effects) /\ ToSet(setTunnelAccess(TRUE)) = AllFlips(TRUE)
  BY TunnelAccess
<1> QED BY <1>1, <1>2, Prefixed DEF ResumeSubscription

\* Nothing to do.
LEMMA NothingMade ==
  /\ WellMade(<<>>)
  /\ Follows => Sound(<<>>)
<1>1. <<>> \in Seq(Effects) /\ ToSet(<<>>) \subseteq Plain
  BY EmptySeq, ToSetEmpty
<1> QED BY <1>1, PlainMade

\* A write of the status with everything flipped one way.
LEMMA StatusMade ==
  ASSUME NEW s \in Seq(Effects), NEW status \in Statuses \ {"paused"},
         ToSet(s) \subseteq Plain \cup {UpdateStatus(status)} \cup AllFlips(status = "active")
  PROVE  /\ WellMade(s) /\ \A e \in ToSet(s) : ~asks(e)
         /\ {UpdateStatus(status)} \cup AllFlips(status = "active") \subseteq ToSet(s)
              /\ (status = "cancelled" \/ sub.status # "paused")
            => Sound(s)
<1> DEFINE d == UpdateStatus(status)
           on == status = "active"
<1>1. d \in Effects /\ d.op = "status" /\ d.to = status
  BY EffectsNamed DEF UpdateStatus
<1>2. makesActive(d) <=> on
  BY <1>1 DEF makesActive
<1>3. d.op \in Deciding \ {"save"} /\ on \in BOOLEAN
  BY <1>1 DEF Deciding
<1>4. d # Pause("ban") /\ d # Resume("unban")
  BY <1>1 DEF Pause, Resume
<1>5. Work(ToSet(s), d, on)
  BY DEF Work
<1>6. WellMade(s) /\ \A e \in ToSet(s) : ~asks(e)
  <2> HIDE DEF d, on
  <2> QED BY <1>1, <1>3, <1>5, WorkMade
<1>7. ASSUME {d} \cup AllFlips(on) \subseteq ToSet(s), status = "cancelled" \/ sub.status # "paused"
      PROVE  Sound(s)
  <2>1. d.op = "status" => d.to = "cancelled" \/ sub.status # "paused"
    BY <1>1, <1>7
  <2>2. d \in ToSet(s) /\ AllFlips(on) \subseteq ToSet(s)
    BY <1>7
  <2> HIDE DEF d, on
  <2> QED BY <2>1, <2>2, <1>1, <1>2, <1>3, <1>4, <1>5, WorkSound
<1> QED BY <1>6, <1>7

\* A pause is sound; for the ban, while the ban stands.
LEMMA PauseMade ==
  ASSUME NEW reason \in {"admin", "ban"}
  PROVE  LET s == PauseSubscriptionFor(reason) IN
         /\ WellMade(s) /\ \A e \in ToSet(s) : ~asks(e)
         /\ (reason = "ban" => banned) => Sound(s)
<1> DEFINE s == PauseSubscriptionFor(reason)
           d == Pause(reason)
<1>1. d \in Effects /\ d.op = "pause" /\ d.reason = reason
  BY EffectsNamed DEF Pause
<1>2. s \in Seq(Effects) /\ ToSet(s) = {d} \cup AllFlips(FALSE)
  BY PauseFor
<1>3. ~makesActive(d) /\ d.op \in Deciding \ {"save"}
  BY <1>1 DEF makesActive, Deciding
<1>4. (d = Pause("ban") => reason = "ban") /\ d # Resume("unban") /\ d.op # "status"
  BY <1>1 DEF Pause, Resume
<1> HIDE DEF s, d
<1>5. Work(ToSet(s), d, FALSE)
  BY <1>2 DEF Work
<1>6. WellMade(s) /\ \A e \in ToSet(s) : ~asks(e)
  BY <1>1, <1>2, <1>3, <1>5, WorkMade
<1>7. ASSUME reason = "ban" => banned PROVE Sound(s)
  <2>1. makesActive(d) <=> FALSE
    BY <1>3
  <2>2. d \in ToSet(s) /\ AllFlips(FALSE) \subseteq ToSet(s)
    BY <1>2
  <2> QED BY <2>1, <2>2, <1>1, <1>3, <1>4, <1>5, <1>7, WorkSound
<1>8. WellMade(s) /\ (\A e \in ToSet(s) : ~asks(e)) /\ ((reason = "ban" => banned) => Sound(s))
  BY <1>6, <1>7
<1> QED BY <1>8 DEF s

\* A resumption is sound; after an unban, unless an admin paused it.
LEMMA ResumeMade ==
  ASSUME NEW by \in {"admin", "unban"}
  PROVE  LET s == ResumeSubscription(by) IN
         /\ WellMade(s) /\ \A e \in ToSet(s) : ~asks(e)
         /\ Follows /\ (by = "unban" => sub.status # "paused" \/ sub.reason = "ban") => Sound(s)
<1> DEFINE s == ResumeSubscription(by)
           d == Resume(by)
<1>1. CASE IsExpired(sub)
  <2>1. s = <<>> /\ ToSet(s) = {}
    BY <1>1, ToSetEmpty DEF ResumeSubscription
  <2> QED BY <2>1, NothingMade
<1>2. CASE ~IsExpired(sub)
  <2>1. d \in Effects /\ d.op = "resume" /\ d.by = by
    BY EffectsNamed DEF Resume
  <2>2. s \in Seq(Effects) /\ ToSet(s) = {d} \cup AllFlips(TRUE)
    BY <1>2, ResumeFor
  <2>3. makesActive(d) /\ d.op \in Deciding \ {"save"}
    BY <2>1 DEF makesActive, Deciding
  <2>4. d # Pause("ban") /\ (d = Resume("unban") => by = "unban") /\ d.op # "status"
    BY <2>1 DEF Pause, Resume
  <2> HIDE DEF s, d
  <2>5. Work(ToSet(s), d, TRUE)
    BY <2>2 DEF Work
  <2>6. WellMade(s) /\ \A e \in ToSet(s) : ~asks(e)
    BY <2>1, <2>2, <2>3, <2>5, WorkMade
  <2>7. ASSUME by = "unban" => sub.status # "paused" \/ sub.reason = "ban" PROVE Sound(s)
    <3>1. makesActive(d) <=> TRUE
      BY <2>3
    <3>2. d \in ToSet(s) /\ AllFlips(TRUE) \subseteq ToSet(s)
      BY <2>2
    <3> QED BY <3>1, <3>2, <2>1, <2>3, <2>4, <2>5, <2>7, WorkSound
  <2>8. /\ WellMade(s) /\ \A e \in ToSet(s) : ~asks(e)
        /\ Follows /\ (by = "unban" => sub.status # "paused" \/ sub.reason = "ban") => Sound(s)
    BY <2>6, <2>7
  <2> QED BY <2>8 DEF s
<1> QED BY <1>1, <1>2

\* The ban and its lifting: the write, then the list.
LEMMA BanMade ==
  ASSUME NEW to \in BOOLEAN, NEW what \in {"banned", "unbanned"},
         what = IF to THEN "banned" ELSE "unbanned"
  PROVE  /\ WellMade(<<Ban(to), Read(what)>>)
         /\ Follows => Sound(<<Ban(to), Read(what)>>)
<1> DEFINE s == <<Ban(to), Read(what)>>
           T == {Ban(to), Read(what)}
<1>1. Ban(to) \in Effects /\ Read(what) \in Effects
  BY EffectsNamed
<1>2. s \in Seq(Effects) /\ ToSet(s) = T
  BY <1>1, ToSetTwo
<1>3. /\ Ban(to).op = "ban" /\ Ban(to).to = to
      /\ Read(what).op = "read" /\ Read(what).of = what
  BY DEF Ban, Read
<1>4. AsksLast(s)
  BY <1>3 DEF AsksLast, asks
<1>5. \A e \in T : e.op \in {"ban", "read"}
  BY <1>3
<1>6. /\ Read("resumed") \notin T
      /\ Read("banned") \in T <=> to
      /\ Read("unbanned") \in T <=> ~to
      /\ Ban(TRUE) \in T <=> to
      /\ Ban(FALSE) \in T <=> ~to
  BY DEF Ban, Read
<1>7. Formed(T)
  <2> USE DEF Formed
  <2>1. CASE to
    BY <2>1, <1>5, <1>6 DEF Deciding
  <2>2. CASE ~to
    BY <2>2, <1>5, <1>6 DEF Deciding
  <2> QED BY <2>1, <2>2
<1>8. ASSUME Follows PROVE Sound(s)
  <2>1. \A e \in T : e.op \notin Deciding \cup {"access"}
    BY <1>5 DEF Deciding
  <2>2. Leads(T, sub.status = "active")
    <3> HIDE DEF T
    <3> QED BY <2>1, <1>8, RestLeads DEF Follows
  <2>3. Pause("ban") \notin T /\ Resume("unban") \notin T
    BY <1>5 DEF Pause, Resume
  <2> HIDE DEF T
  <2>4. \A e \in T : e.op # "status" /\ e.op \notin {"judge", "save"}
    BY <1>5
  <2>5. \A e \in T : e \notin {Read("resumed"), Resume("unban")}
    BY <1>6, <2>3
  <2>6. (sub.status = "active") \in BOOLEAN
    OBVIOUS
  <2> HIDE DEF s
  <2> QED BY <2>2, <2>3, <2>4, <2>5, <2>6, <1>2, <1>6 DEF Sound
<1> QED BY <1>2, <1>4, <1>7, <1>8 DEF WellMade

\* The new date is written, then judged with the row that was read.
LEMMA EndDateMade ==
  ASSUME TypeOK, NEW end \in 0..MaxTime
  PROVE  /\ WellMade(SetCustomEndDate(end))
         /\ Follows => Sound(SetCustomEndDate(end))
<1> DEFINE row == [sub EXCEPT !.end = end]
           w == [op |-> "end", to |-> end]
           j == [op |-> "judge", row |-> row]
           T == {w, j}
           s == <<w, j>>
<1>1. row \in Rows /\ row.status = sub.status /\ row.reason = sub.reason
  BY DEF TypeOK, Rows
<1>2. w \in Effects /\ w.op = "end"
  BY EffectsNamed
<1>3. j \in Effects /\ j.op = "judge" /\ j.row = row
  BY <1>1, EffectsNamed
<1>4. s = SetCustomEndDate(end)
  BY DEF SetCustomEndDate
<1> HIDE DEF w, j
<1>5. s \in Seq(Effects) /\ ToSet(s) = T
  BY <1>2, <1>3, ToSetTwo
<1>6. AsksLast(s)
  BY <1>2, <1>3 DEF AsksLast, asks
<1>7. \A e \in T : e.op \in {"end", "judge"}
  BY <1>2, <1>3
<1>8. /\ \A x : Read(x) \notin T
      /\ \A b : Ban(b) \notin T
      /\ \A r : Pause(r) \notin T
      /\ \A b : Resume(b) \notin T
  BY <1>7 DEF Read, Ban, Pause, Resume
<1>9. \A e \in T : e.op = "judge" => e.row.status = sub.status /\ e.row.reason = sub.reason
  BY <1>1, <1>2, <1>3
<1> HIDE DEF T
<1>10. Formed(T)
  BY <1>7, <1>8 DEF Formed, Deciding
<1>11. ASSUME Follows PROVE Sound(s)
  <2>1. \A e \in T : e.op \notin Deciding \cup {"access"}
    BY <1>7 DEF Deciding
  <2>2. Leads(T, sub.status = "active")
    BY <2>1, <1>11, RestLeads DEF Follows
  <2>3. (sub.status = "active") \in BOOLEAN
    OBVIOUS
  <2> HIDE DEF s
  <2> QED BY <2>2, <2>3, <1>5, <1>7, <1>8, <1>9 DEF Sound
<1>12. WellMade(s) /\ (Follows => Sound(s))
  BY <1>5, <1>6, <1>10, <1>11 DEF WellMade
<1> QED BY <1>4, <1>12

\* The row is written back as it was read.
LEMMA SaveMade ==
  ASSUME TypeOK
  PROVE  /\ WellMade(RegenerateSubscriptionKey)
         /\ Follows => Sound(RegenerateSubscriptionKey)
<1> DEFINE w == [op |-> "save", row |-> sub]
           T == {w}
           s == <<w>>
<1>1. w \in Effects /\ w.op = "save" /\ w.row = sub
  BY EffectsNamed DEF TypeOK
<1>2. s = RegenerateSubscriptionKey
  BY DEF RegenerateSubscriptionKey
<1> HIDE DEF w
<1>3. s \in Seq(Effects) /\ ToSet(s) = T
  BY <1>1, Single
<1>4. \A e \in T : e = w /\ e.op = "save"
  BY <1>1
<1>5. AsksLast(s)
  BY <1>3, <1>4, NoQuestion DEF asks
<1>6. /\ \A x : Read(x) \notin T
      /\ \A b : Ban(b) \notin T
      /\ \A r : Pause(r) \notin T
      /\ \A b : Resume(b) \notin T
  BY <1>4 DEF Read, Ban, Pause, Resume
<1>7. w \in T
  OBVIOUS
<1> HIDE DEF T
<1>8. Formed(T)
  BY <1>4, <1>6 DEF Formed
<1>9. ASSUME Follows PROVE Sound(s)
  <2>1. makesActive(w) <=> sub.status = "active"
    BY <1>1 DEF makesActive
  <2>2. Leads(T, sub.status = "active")
    BY <2>1, <1>4, <1>7, <1>1, <1>9 DEF Leads, LeadsAt, Follows, Deciding
  <2>3. (sub.status = "active") \in BOOLEAN
    OBVIOUS
  <2> HIDE DEF s
  <2> QED BY <2>2, <2>3, <1>1, <1>3, <1>4, <1>6 DEF Sound
<1>10. WellMade(s) /\ (Follows => Sound(s))
  BY <1>3, <1>5, <1>8, <1>9 DEF WellMade
<1> QED BY <1>2, <1>10

\* One account is made.
LEMMA AssignMade ==
  ASSUME NEW s \in AssignToInbound
  PROVE  /\ WellMade(s)
         /\ Follows /\ sub.status = "active" => Sound(s)
<1>1. PICK a \in Artifacts : s = <<Flip(a, TRUE)>>
  BY DEF AssignToInbound
<1> DEFINE w == Flip(a, TRUE)
           T == {w}
<1>2. w \in Effects /\ w.op = "access" /\ w.artifact = a /\ w.on = TRUE
  BY EffectsNamed DEF Flip
<1> HIDE DEF w
<1>3. s = <<w>>
  BY <1>1 DEF w
<1>4. s \in Seq(Effects) /\ ToSet(s) = T
  BY <1>2, <1>3, Single
<1>5. \A e \in T : e = w /\ e.op = "access"
  BY <1>2
<1>6. AsksLast(s)
  BY <1>4, <1>5, NoQuestion DEF asks
<1>7. /\ \A x : Read(x) \notin T
      /\ \A b : Ban(b) \notin T
      /\ \A r : Pause(r) \notin T
      /\ \A b : Resume(b) \notin T
  BY <1>5 DEF Read, Ban, Pause, Resume
<1> HIDE DEF T
<1>8. Formed(T)
  BY <1>5, <1>7 DEF Formed, Deciding
<1>9. ASSUME Follows, sub.status = "active" PROVE Sound(s)
  <2>1. Leads(T, TRUE)
    BY <1>2, <1>5, <1>9 DEF Leads, LeadsAt, Follows, Deciding
  <2> QED BY <2>1, <1>4, <1>5, <1>7 DEF Sound
<1> QED BY <1>4, <1>6, <1>8, <1>9 DEF WellMade

\* SetCustomDataLimit: frees a subscription the new limit leaves data, repairs an active one.
LEMMA DataLimitMade ==
  ASSUME TypeOK, NEW limit \in 0..MaxLimit
  PROVE  /\ WellMade(SetCustomDataLimit(limit))
         /\ Follows => Sound(SetCustomDataLimit(limit))
<1> DEFINE w == [op |-> "limit", to |-> limit]
           s == SetCustomDataLimit(limit)
           freed == sub.status = "traffic_exhausted" /\ (limit = 0 \/ limit > sub.used)
<1>1. w \in Effects /\ w.op = "limit" /\ w \in Plain
  BY EffectsNamed DEF Plain
<1>2. CASE freed
  <2>1. s = <<w>> \o reactivateSubscription
    BY <1>2 DEF SetCustomDataLimit
  <2> HIDE DEF w, s
  <2>2. s \in Seq(Effects) /\ ToSet(s) = {w} \cup {UpdateStatus("active")} \cup AllFlips(TRUE)
    <3>1. reactivateSubscription \in Seq(Effects)
      BY Reactivate
    <3>2. s \in Seq(Effects) /\ ToSet(s) = {w} \cup ToSet(reactivateSubscription)
      BY <2>1, <1>1, <3>1, Prefixed
    <3> QED BY <3>2, Reactivate
  <2>3. "active" \in Statuses \ {"paused"} /\ (("active" = "active") = TRUE)
    BY DEF Statuses
  <2>4. sub.status # "paused"
    BY <1>2
  <2>5. /\ ToSet(s) \subseteq Plain \cup {UpdateStatus("active")} \cup AllFlips("active" = "active")
        /\ {UpdateStatus("active")} \cup AllFlips("active" = "active") \subseteq ToSet(s)
    BY <2>2, <2>3, <1>1
  <2>6. WellMade(s) /\ Sound(s)
    BY <2>2, <2>3, <2>4, <2>5, StatusMade
  <2> QED BY <2>6 DEF s
<1>3. CASE ~freed /\ sub.status = "active"
  <2>1. s = <<w>> \o setTunnelAccess(TRUE)
    BY <1>3 DEF SetCustomDataLimit
  <2> HIDE DEF w, s
  <2>2. setTunnelAccess(TRUE) \in Seq(Effects) /\ ToSet(setTunnelAccess(TRUE)) = AllFlips(TRUE)
    BY TunnelAccess
  <2>3. s \in Seq(Effects) /\ ToSet(s) = {w} \cup AllFlips(TRUE)
    BY <2>1, <2>2, <1>1, Prefixed
  <2> DEFINE d == UpdateStatus("active")
             T == ToSet(s)
  <2>4. d \in Effects /\ d.op \in Deciding \ {"save"} /\ d.op = "status" /\ makesActive(d)
    BY EffectsNamed DEF UpdateStatus, Statuses, Deciding, makesActive
  <2> HIDE DEF d
  <2>5. Work(ToSet(s), d, TRUE)
    BY <2>3, <1>1 DEF Work
  <2>6. WellMade(s) /\ \A e \in T : ~asks(e)
    BY <2>3, <2>4, <2>5, WorkMade
  <2>7. \A e \in T : e.op \in {"limit", "access"}
    BY <2>3, <1>1 DEF AllFlips, Flip
  <2>8. \A e \in T : e.op = "access" => e.on = TRUE
    BY <2>3, <1>1 DEF AllFlips, Flip
  <2>9. /\ \A x : Read(x) \notin T
        /\ \A r : Pause(r) \notin T
        /\ \A b : Resume(b) \notin T
    BY <2>7 DEF Read, Pause, Resume
  <2> HIDE DEF T
  <2>10. ASSUME Follows PROVE Leads(T, TRUE)
    BY <2>7, <2>8, <2>10, <1>3 DEF Leads, LeadsAt, Follows, Deciding
  <2>11. WellMade(s) /\ (Follows => Sound(s))
    BY <2>6, <2>7, <2>9, <2>10 DEF Sound, T
  <2> QED BY <2>11 DEF s
<1>4. CASE ~freed /\ sub.status # "active"
  <2>1. s = <<w>> \o <<>>
    BY <1>4 DEF SetCustomDataLimit
  <2> HIDE DEF w, s
  <2>2. <<>> \in Seq(Effects)
    BY EmptySeq
  <2>3. s \in Seq(Effects) /\ ToSet(s) = {w} \cup ToSet(<<>>)
    BY <2>1, <2>2, <1>1, Prefixed
  <2>4. WellMade(s) /\ (Follows => Sound(s))
    BY <2>3, <1>1, ToSetEmpty, PlainMade
  <2> QED BY <2>4 DEF s
<1> QED BY <1>2, <1>3, <1>4

\* AddData: a new limit, or nothing to do.
LEMMA AddDataMade ==
  ASSUME TypeOK
  PROVE  /\ WellMade(AddData)
         /\ Follows => Sound(AddData)
<1>1. CASE sub.limit = 0
  BY <1>1, NothingMade DEF AddData
<1>2. CASE sub.limit # 0
  <2>1. sub.limit \in 0..MaxLimit
    BY DEF TypeOK, Rows
  <2>2. atMost(sub.limit + 1, MaxLimit) \in 0..MaxLimit
    BY <2>1, SubscriptionBounds DEF atMost
  <2> QED BY <1>2, <2>2, DataLimitMade DEF AddData
<1> QED BY <1>1, <1>2

\* ExtendSubscription: the date, and active again if it was active or expired.
LEMMA ExtendMade ==
  ASSUME TypeOK
  PROVE  /\ WellMade(ExtendSubscription)
         /\ Follows => Sound(ExtendSubscription)
<1> DEFINE w == [op |-> "extend"]
           s == ExtendSubscription
<1>1. w \in Effects /\ w \in Plain
  BY EffectsNamed DEF Plain
<1>2. CASE sub.status \in {"expired", "active"}
  <2>1. s = <<w>> \o reactivateSubscription
    BY <1>2 DEF ExtendSubscription
  <2> HIDE DEF w, s
  <2>2. s \in Seq(Effects) /\ ToSet(s) = {w} \cup {UpdateStatus("active")} \cup AllFlips(TRUE)
    <3>1. reactivateSubscription \in Seq(Effects)
      BY Reactivate
    <3>2. s \in Seq(Effects) /\ ToSet(s) = {w} \cup ToSet(reactivateSubscription)
      BY <2>1, <1>1, <3>1, Prefixed
    <3> QED BY <3>2, Reactivate
  <2>3. "active" \in Statuses \ {"paused"} /\ (("active" = "active") = TRUE)
    BY DEF Statuses
  <2>4. sub.status # "paused"
    BY <1>2
  <2>5. /\ ToSet(s) \subseteq Plain \cup {UpdateStatus("active")} \cup AllFlips("active" = "active")
        /\ {UpdateStatus("active")} \cup AllFlips("active" = "active") \subseteq ToSet(s)
    BY <2>2, <2>3, <1>1
  <2>6. WellMade(s) /\ Sound(s)
    BY <2>2, <2>3, <2>4, <2>5, StatusMade
  <2> QED BY <2>6 DEF s
<1>3. CASE sub.status \notin {"expired", "active"}
  <2>1. s = <<w>>
    BY <1>3 DEF ExtendSubscription
  <2> HIDE DEF w, s
  <2>2. s \in Seq(Effects) /\ ToSet(s) = {w}
    BY <2>1, <1>1, Single
  <2>3. WellMade(s) /\ (Follows => Sound(s))
    BY <2>2, <1>1, PlainMade
  <2> QED BY <2>3 DEF s
<1> QED BY <1>2, <1>3

\* Cancel is sound whatever the status.
LEMMA CancelMade == WellMade(Cancel) /\ Sound(Cancel)
<1>1. "cancelled" \in Statuses \ {"paused"} /\ (("cancelled" = "active") = FALSE)
  BY DEF Statuses
<1>2. Cancel \in Seq(Effects) /\ ToSet(Cancel) = {UpdateStatus("cancelled")} \cup AllFlips(FALSE)
  BY <1>1, Deactivate DEF Cancel
<1>3. /\ ToSet(Cancel) \subseteq Plain \cup {UpdateStatus("cancelled")} \cup AllFlips("cancelled" = "active")
      /\ {UpdateStatus("cancelled")} \cup AllFlips("cancelled" = "active") \subseteq ToSet(Cancel)
  BY <1>1, <1>2
<1> QED BY <1>1, <1>2, <1>3, StatusMade

\* ResetDataUsed leaves the status alone.
LEMMA ResetMade ==
  /\ WellMade(ResetDataUsed)
  /\ Follows => Sound(ResetDataUsed)
<1>1. [op |-> "used"] \in Effects /\ [op |-> "used"] \in Plain
  BY EffectsNamed DEF Plain
<1>2. ResetDataUsed \in Seq(Effects) /\ ToSet(ResetDataUsed) \subseteq Plain
  BY <1>1, Single DEF ResetDataUsed
<1> QED BY <1>2, PlainMade

\* Every call of the panel is well made, and sound where the access follows the status.
LEMMA RequestMade ==
  ASSUME TypeOK, NEW s \in Requests
  PROVE  /\ WellMade(s)
         /\ Follows /\ ~loose(s) => Sound(s)
<1>1. CASE \E l \in 0..MaxLimit : s = SetCustomDataLimit(l)
  BY <1>1, DataLimitMade
<1>2. CASE \E e \in 0..MaxTime : s = SetCustomEndDate(e)
  BY <1>2, EndDateMade
<1>3. CASE s = AddData
  BY <1>3, AddDataMade
<1>4. CASE s = ResetDataUsed
  BY <1>4, ResetMade
<1>5. CASE s = Cancel
  BY <1>5, CancelMade
<1>6. CASE s = ExtendSubscription
  BY <1>6, ExtendMade
<1>7. CASE s = PauseSubscriptionFor("admin")
  BY <1>7, PauseMade
<1>8. CASE s = ResumeSubscription("admin")
  BY <1>8, ResumeMade
<1>9. CASE s = BanUser
  BY <1>9, BanMade DEF BanUser
<1>10. CASE s = UnbanUser
  BY <1>10, BanMade DEF UnbanUser
<1>11. CASE s = RegenerateSubscriptionKey
  BY <1>11, SaveMade
<1>12. CASE s \in AssignToInbound
  BY <1>12, AssignMade DEF loose
<1> QED BY <1>1, <1>2, <1>3, <1>4, <1>5, <1>6, <1>7, <1>8, <1>9, <1>10, <1>11, <1>12 DEF Requests

----------------------------------------------------------------------------
\* What a call goes on with after a read.

\* What SetCustomEndDate does after the date is written, sound if the row is still as it was read.
LEMMA JudgedMade ==
  ASSUME NEW row
  PROVE  /\ WellMade(judged(row)) /\ \A e \in ToSet(judged(row)) : ~asks(e)
         /\ Follows /\ row.status = sub.status => Sound(judged(row))
<1> DEFINE s == judged(row)
<1>0. /\ {"active", "expired", "traffic_exhausted"} \subseteq Statuses \ {"paused"}
      /\ ("active" = "active") = TRUE
      /\ ("expired" = "active") = FALSE
      /\ ("traffic_exhausted" = "active") = FALSE
  BY DEF Statuses
<1>1. CASE IsExpired(row) /\ row.status = "active"
  <2> DEFINE d == UpdateStatus("expired")
  <2>1. s = <<d>> \o setTunnelAccess(FALSE)
    BY <1>1 DEF judged
  <2>2. d \in Effects
    BY <1>0, EffectsNamed
  <2>3. setTunnelAccess(FALSE) \in Seq(Effects) /\ ToSet(setTunnelAccess(FALSE)) = AllFlips(FALSE)
    BY TunnelAccess
  <2> HIDE DEF s, d
  <2>4. s \in Seq(Effects) /\ ToSet(s) = {d} \cup AllFlips(FALSE)
    BY <2>1, <2>2, <2>3, Prefixed
  <2>5. /\ ToSet(s) \subseteq Plain \cup {UpdateStatus("expired")} \cup AllFlips("expired" = "active")
        /\ {UpdateStatus("expired")} \cup AllFlips("expired" = "active") \subseteq ToSet(s)
    BY <2>4, <1>0 DEF d
  <2>6. /\ WellMade(s) /\ \A e \in ToSet(s) : ~asks(e)
        /\ sub.status # "paused" => Sound(s)
    BY <2>4, <2>5, <1>0, StatusMade
  <2>7. row.status = sub.status => sub.status # "paused"
    BY <1>1
  <2> QED BY <2>6, <2>7 DEF s
<1>2. CASE ~IsExpired(row) /\ row.status = "expired" /\ IsDataExhausted(row)
  <2> DEFINE d == UpdateStatus("traffic_exhausted")
  <2>1. s = <<d>>
    BY <1>2 DEF judged
  <2>2. d \in Effects /\ d.op = "status" /\ d.to = "traffic_exhausted"
    BY <1>0, EffectsNamed DEF UpdateStatus
  <2> HIDE DEF s, d
  <2>3. s \in Seq(Effects) /\ ToSet(s) = {d}
    BY <2>1, <2>2, Single
  <2>4. ToSet(s) \subseteq Plain \cup {UpdateStatus("traffic_exhausted")}
                           \cup AllFlips("traffic_exhausted" = "active")
    BY <2>3 DEF d
  <2>5. WellMade(s) /\ \A e \in ToSet(s) : ~asks(e)
    BY <2>3, <2>4, <1>0, StatusMade
  <2>6. ASSUME Follows, row.status = sub.status PROVE Sound(s)
    <3>1. ~makesActive(d) /\ sub.status = "expired"
      BY <2>2, <2>6, <1>2 DEF makesActive
    <3>2. \A a \in Artifacts : ~access[a]
      BY <2>6, <3>1 DEF Follows
    <3>3. \A e \in ToSet(s) : e = d /\ e.op = "status"
      BY <2>2, <2>3
    <3>4. Leads(ToSet(s), FALSE)
      BY <2>3, <3>1, <3>2, <3>3, <2>2 DEF Leads, LeadsAt, Deciding
    <3>5. /\ \A w : Read(w) \notin ToSet(s)
          /\ \A b : Pause(b) \notin ToSet(s)
          /\ \A b : Resume(b) \notin ToSet(s)
      BY <3>3 DEF Read, Pause, Resume
    <3> QED BY <3>1, <3>3, <3>4, <3>5 DEF Sound
  <2> QED BY <2>5, <2>6 DEF s
<1>3. CASE ~IsExpired(row) /\ row.status = "expired" /\ ~IsDataExhausted(row)
  <2>1. s = reactivateSubscription
    BY <1>3 DEF judged
  <2>2. s \in Seq(Effects) /\ ToSet(s) = {UpdateStatus("active")} \cup AllFlips(TRUE)
    BY <2>1, Reactivate
  <2> HIDE DEF s
  <2>3. /\ ToSet(s) \subseteq Plain \cup {UpdateStatus("active")} \cup AllFlips("active" = "active")
        /\ {UpdateStatus("active")} \cup AllFlips("active" = "active") \subseteq ToSet(s)
    BY <2>2, <1>0
  <2>4. /\ WellMade(s) /\ \A e \in ToSet(s) : ~asks(e)
        /\ sub.status # "paused" => Sound(s)
    BY <2>2, <2>3, <1>0, StatusMade
  <2>5. row.status = sub.status => sub.status # "paused"
    BY <1>3
  <2> QED BY <2>4, <2>5 DEF s
<1>4. CASE ~(IsExpired(row) /\ row.status = "active") /\ ~(~IsExpired(row) /\ row.status = "expired")
  <2>1. s = <<>> /\ ToSet(s) = {}
    BY <1>4, ToSetEmpty DEF judged
  <2> QED BY <2>1, NothingMade
<1> QED BY <1>1, <1>2, <1>3, <1>4

\* A read of the row that leads to another one.
LEMMA ReadAgain ==
  /\ WellMade(<<Read("resumed")>>)
  /\ Follows /\ (sub.status # "paused" \/ sub.reason = "ban") => Sound(<<Read("resumed")>>)
<1> DEFINE w == Read("resumed")
           s == <<w>>
           T == {w}
<1>1. w \in Effects /\ w.op = "read" /\ w.of = "resumed"
  BY EffectsNamed DEF Read
<1>2. s \in Seq(Effects) /\ ToSet(s) = T
  BY <1>1, Single
<1>3. AsksLast(s)
  BY DEF AsksLast
<1>4. \A e \in T : e.op = "read"
  BY <1>1
<1>5. Read("banned") \notin T /\ Read("unbanned") \notin T
  BY DEF Read
<1>6. /\ \A b : Pause(b) \notin T
      /\ \A b : Ban(b) \notin T
  BY <1>4 DEF Pause, Ban
<1>7. Formed(T)
  BY <1>4, <1>5, <1>6 DEF Formed, Deciding
<1>8. ASSUME Follows, sub.status # "paused" \/ sub.reason = "ban" PROVE Sound(s)
  <2> HIDE DEF T, s
  <2>1. \A e \in T : e.op \notin Deciding \cup {"access"}
    BY <1>4 DEF Deciding
  <2>2. Leads(T, sub.status = "active")
    BY <2>1, <1>8, RestLeads DEF Follows
  <2>3. (sub.status = "active") \in BOOLEAN
    OBVIOUS
  <2> QED BY <2>2, <2>3, <1>2, <1>4, <1>5, <1>6, <1>8 DEF Sound
<1> QED BY <1>2, <1>3, <1>7, <1>8 DEF WellMade

\* Either nothing more is asked, or the unban reads the row once more.
LEMMA FoundMade ==
  ASSUME NEW e \in Effects, asks(e)
  PROVE  /\ WellMade(Found(e))
         /\ (\A f \in ToSet(Found(e)) : ~asks(f)) \/ (e = Read("unbanned") /\ Found(e) = <<Read("resumed")>>)
         /\ /\ Follows /\ ~handsOver(e)
            /\ e.op = "judge" => e.row.status = sub.status
            /\ e = Read("banned") => banned
            /\ e = Read("resumed") => sub.status # "paused" \/ sub.reason = "ban"
            => Sound(Found(e))
<1>0. /\ {"active", "expired", "traffic_exhausted"} \subseteq Statuses \ {"paused"}
      /\ ("expired" = "active") = FALSE
      /\ ("traffic_exhausted" = "active") = FALSE
  BY DEF Statuses
<1>1. CASE e.op = "judge"
  <2>1. Found(e) = judged(e.row)
    BY <1>1 DEF Found
  <2> QED BY <1>1, <2>1, JudgedMade
<1>2. CASE e.op = "read" /\ e.of = "banned"
  <2>1. Found(e) = pauseActive
    BY <1>2 DEF Found
  <2>2. e = Read("banned")
    BY <1>2 DEF Effects, Read
  <2>3. CASE sub.status = "active"
    BY <2>1, <2>2, <2>3, PauseMade DEF pauseActive
  <2>4. CASE sub.status # "active"
    BY <2>1, <2>4, NothingMade, ToSetEmpty DEF pauseActive
  <2> QED BY <2>3, <2>4
<1>3. CASE e.op = "read" /\ e.of = "unbanned"
  <2>1. Found(e) = resumePaused
    BY <1>3 DEF Found
  <2>2. e = Read("unbanned")
    BY <1>3 DEF Effects, Read
  <2>3. CASE ~resumesOnUnban
    <3>1. resumePaused = <<>>
      BY <2>3 DEF resumePaused
    <3> QED BY <2>1, <3>1, NothingMade, ToSetEmpty
  <2>4. CASE resumesOnUnban /\ IsExpired(sub)
    <3> DEFINE d == Resume("unban")
               s == <<d>>
    <3>1. resumePaused = s
      BY <2>4 DEF resumePaused
    <3>2. d \in Effects /\ d.op = "resume"
      BY EffectsNamed DEF Resume
    <3>3. s \in Seq(Effects) /\ ToSet(s) = {d}
      BY <3>2, Single
    <3>4. d.op \in Deciding \ {"save"} /\ Work(ToSet(s), d, TRUE)
      BY <3>2, <3>3 DEF Deciding, Work
    <3>5. WellMade(s) /\ \A f \in ToSet(s) : ~asks(f)
      <4> HIDE DEF d, s
      <4> QED BY <3>2, <3>3, <3>4, WorkMade
    <3>6. handsOver(e)
      BY <1>3, <2>4 DEF handsOver
    <3> QED BY <2>1, <3>1, <3>5, <3>6
  <2>5. CASE resumesOnUnban /\ ~IsExpired(sub)
    <3>1. resumePaused = <<Read("resumed")>>
      BY <2>5 DEF resumePaused
    <3>2. sub.reason = "ban"
      BY <2>5 DEF resumesOnUnban
    <3> QED BY <2>1, <2>2, <3>1, <3>2, ReadAgain
  <2> QED BY <2>3, <2>4, <2>5
<1>4. CASE e.op = "read" /\ e.of = "resumed"
  <2>1. Found(e) = ResumeSubscription("unban")
    BY <1>4 DEF Found
  <2>2. e = Read("resumed")
    BY <1>4 DEF Effects, Read
  <2> QED BY <2>1, <2>2, ResumeMade
<1>5. ASSUME NEW status \in {"expired", "traffic_exhausted"}, NEW listed \in BOOLEAN,
             listed => sub.status = "active",
             Found(e) = IF listed THEN deactivateOnNodes(status) ELSE <<>>
      PROVE  /\ WellMade(Found(e)) /\ \A f \in ToSet(Found(e)) : ~asks(f)
             /\ Follows => Sound(Found(e))
  <2>1. CASE listed
    <3> DEFINE s == deactivateOnNodes(status)
    <3>1. s \in Seq(Effects) /\ ToSet(s) = {UpdateStatus(status)} \cup AllFlips(FALSE)
      BY <1>0, <1>5, Deactivate
    <3>2. (status = "active") = FALSE /\ status \in Statuses \ {"paused"}
      BY <1>0, <1>5
    <3> HIDE DEF s
    <3>3. /\ ToSet(s) \subseteq Plain \cup {UpdateStatus(status)} \cup AllFlips(status = "active")
          /\ {UpdateStatus(status)} \cup AllFlips(status = "active") \subseteq ToSet(s)
      BY <3>1, <3>2
    <3>4. WellMade(s) /\ (\A f \in ToSet(s) : ~asks(f)) /\ (sub.status # "paused" => Sound(s))
      BY <3>1, <3>2, <3>3, StatusMade
    <3>5. sub.status # "paused" /\ Found(e) = deactivateOnNodes(status)
      BY <2>1, <1>5
    <3> QED BY <3>4, <3>5 DEF s
  <2>2. CASE ~listed
    BY <2>2, <1>5, NothingMade, ToSetEmpty
  <2> QED BY <2>1, <2>2
<1>6. CASE e.op = "read" /\ e.of = "expired"
  <2>1. Found(e) = IF ListExpired THEN deactivateOnNodes("expired") ELSE <<>>
    BY <1>6 DEF Found
  <2>2. ListExpired \in BOOLEAN /\ (ListExpired => sub.status = "active")
    BY DEF ListExpired
  <2> HIDE DEF ListExpired
  <2> QED BY <2>1, <2>2, <1>5
<1>7. CASE e.op = "read" /\ e.of = "exhausted"
  <2>1. Found(e) = IF ListDataExhausted THEN deactivateOnNodes("traffic_exhausted") ELSE <<>>
    BY <1>7 DEF Found
  <2>2. ListDataExhausted \in BOOLEAN /\ (ListDataExhausted => sub.status = "active")
    BY DEF ListDataExhausted
  <2> QED BY <2>1, <2>2, <1>5
<1>8. e.op = "read" => e.of \in {"banned", "unbanned", "resumed", "expired", "exhausted"}
  BY DEF Effects
<1> QED BY <1>1, <1>2, <1>3, <1>4, <1>6, <1>7, <1>8 DEF asks

----------------------------------------------------------------------------
\* The shape of the calls in progress.

\* What the sweep finds keeps it to its own effects.
LEMMA SweepFound ==
  ASSUME NEW e \in SweepEffects, asks(e)
  PROVE  ToSet(Found(e)) \subseteq SweepEffects
<1>1. /\ e.op = "read" /\ e.of \in {"expired", "exhausted"}
  BY DEF SweepEffects, asks, Read, UpdateStatus, Flip
<1>2. {"expired", "traffic_exhausted"} \subseteq Statuses \ {"paused"}
  BY DEF Statuses
<1>3. Found(e) \in {<<>>, deactivateOnNodes("expired"), deactivateOnNodes("traffic_exhausted")}
  BY <1>1 DEF Found
<1>4. /\ ToSet(deactivateOnNodes("expired")) = {UpdateStatus("expired")} \cup AllFlips(FALSE)
      /\ ToSet(deactivateOnNodes("traffic_exhausted")) = {UpdateStatus("traffic_exhausted")} \cup AllFlips(FALSE)
  BY <1>2, Deactivate
<1>5. AllFlips(FALSE) \subseteq SweepEffects
  BY DEF AllFlips, SweepEffects
<1>6. {UpdateStatus("expired"), UpdateStatus("traffic_exhausted")} \subseteq SweepEffects
  BY DEF SweepEffects
<1> QED BY <1>3, <1>4, <1>5, <1>6, ToSetEmpty

\* Effects of the sweep with one decision have the shape of a call.
LEMMA SweepFormed ==
  ASSUME NEW T \in SUBSET SweepEffects,
         \A e, f \in T : e.op \in Deciding /\ f.op \in Deciding => e = f
  PROVE  Formed(T)
<1>1. \A e \in T : e.op \in {"read", "status", "access"}
  BY DEF SweepEffects, Read, UpdateStatus, Flip
<1>2. \A b : Ban(b) \notin T
  BY <1>1 DEF Ban
<1>3. \A w \in {"banned", "unbanned", "resumed"} : Read(w) \notin T
  BY DEF SweepEffects, Read, UpdateStatus, Flip
<1> QED BY <1>1, <1>2, <1>3 DEF Formed

\* The rest of a call has the shape of a call.
LEMMA TailFormed ==
  ASSUME NEW s \in Seq(Effects), s # <<>>, Formed(ToSet(s)), ~asks(Head(s))
  PROVE  Formed(ToSet(Tail(s)))
<1> DEFINE T == ToSet(s)
           U == ToSet(Tail(s))
           h == Head(s)
<1>1. T = {h} \cup U
  BY ToSetTail
<1>2. \A w : h # Read(w)
  BY DEF asks, Read
<1> HIDE DEF T, U, h
<1>3. U \subseteq T /\ \A w : Read(w) \in T => Read(w) \in U
  BY <1>1, <1>2
<1>4. Formed(T)
  BY DEF T
<1>5. Formed(U)
  BY <1>3, <1>4 DEF Formed
<1> QED BY <1>5 DEF U

\* The rest of a call still asks last; after a question nothing is left, after a read only reads.
LEMMA TailOrder ==
  ASSUME NEW s \in Seq(Effects), s # <<>>
  PROVE  /\ AsksLast(s) => AsksLast(Tail(s)) /\ (asks(Head(s)) => Tail(s) = <<>>)
         /\ ReadsLast(s) => /\ ReadsLast(Tail(s))
                            /\ Head(s).op = "read" => \A e \in ToSet(Tail(s)) : e.op = "read"
<1> DEFINE t == Tail(s)
           n == Len(s)
<1>1. /\ t \in Seq(Effects) /\ n \in Nat \ {0} /\ Len(t) = n - 1
      /\ DOMAIN s = 1..n /\ DOMAIN t = 1..n - 1
      /\ Head(s) = s[1]
      /\ \A i \in DOMAIN t : t[i] = s[i + 1]
  BY ToSetTail
<1> HIDE DEF t, n
<1>2. ASSUME AsksLast(s) PROVE AsksLast(t)
  <2> SUFFICES ASSUME NEW i \in DOMAIN t, asks(t[i]) PROVE i = Len(t)
    BY DEF AsksLast
  <2>1. i + 1 \in DOMAIN s /\ asks(s[i + 1])
    BY <1>1
  <2>2. i + 1 = n
    BY <2>1, <1>2 DEF AsksLast, n
  <2> QED BY <2>2, <1>1
<1>3. ASSUME AsksLast(s), asks(Head(s)) PROVE t = <<>>
  <2>1. 1 = n
    BY <1>1, <1>3 DEF AsksLast, n
  <2> QED BY <2>1, <1>1, EmptySeq
<1>4. ASSUME ReadsLast(s) PROVE ReadsLast(t)
  <2> SUFFICES ASSUME NEW i \in DOMAIN t, NEW j \in DOMAIN t, i < j, t[i].op = "read"
               PROVE  t[j].op = "read"
    BY DEF ReadsLast
  <2>1. i + 1 \in DOMAIN s /\ j + 1 \in DOMAIN s /\ i + 1 < j + 1 /\ s[i + 1].op = "read"
    BY <1>1
  <2>2. s[j + 1].op = "read"
    BY <2>1, <1>4 DEF ReadsLast
  <2> QED BY <2>2, <1>1
<1>5. ASSUME ReadsLast(s), Head(s).op = "read", NEW e \in ToSet(t) PROVE e.op = "read"
  <2>1. PICK i \in DOMAIN t : e = t[i]
    BY <1>5 DEF ToSet
  <2>2. 1 \in DOMAIN s /\ i + 1 \in DOMAIN s /\ 1 < i + 1 /\ s[1].op = "read"
    BY <1>1, <1>5
  <2>3. s[i + 1].op = "read"
    BY <2>2, <1>5 DEF ReadsLast
  <2> QED BY <2>1, <2>3, <1>1
<1> QED BY <1>2, <1>3, <1>4, <1>5 DEF t

\* Writes before reads.
LEMMA WritesThenReads ==
  ASSUME NEW s \in Seq(Effects), NEW t \in Seq(Effects),
         \A e \in ToSet(s) : ~asks(e), \A e \in ToSet(t) : e.op = "read"
  PROVE  ReadsLast(s \o t)
<1>1. /\ Len(s \o t) = Len(s) + Len(t)
      /\ \A i \in 1..Len(s) + Len(t) :
           (s \o t)[i] = IF i <= Len(s) THEN s[i] ELSE t[i - Len(s)]
  BY ConcatProperties
<1>2. /\ Len(s) \in Nat /\ DOMAIN s = 1..Len(s)
      /\ Len(t) \in Nat /\ DOMAIN t = 1..Len(t)
      /\ DOMAIN (s \o t) = 1..Len(s) + Len(t)
  BY <1>1, LenProperties, ToSetConcat
<1>3. \A i \in DOMAIN s : s[i].op # "read"
  BY DEF ToSet, asks
<1>4. \A i \in DOMAIN t : t[i].op = "read"
  BY DEF ToSet
<1> SUFFICES ASSUME NEW i \in DOMAIN (s \o t), NEW j \in DOMAIN (s \o t), i < j,
                    (s \o t)[i].op = "read"
             PROVE  (s \o t)[j].op = "read"
  BY DEF ReadsLast
<1>5. ~(i <= Len(s))
  BY <1>1, <1>2, <1>3
<1>6. j - Len(s) \in DOMAIN t /\ (s \o t)[j] = t[j - Len(s)]
  BY <1>1, <1>2, <1>5
<1> QED BY <1>4, <1>6

\* A call is replaced by another of the right shape.
LEMMA ShapedStep ==
  ASSUME call \in [All -> Seq(Effects)], Shaped, NEW c \in All, NEW s \in Seq(Effects),
         call' = [call EXCEPT ![c] = s],
         c \in Callers => AsksLast(s),
         c = "sweep" => ReadsLast(s) /\ ToSet(s) \subseteq SweepEffects,
         Formed(ToSet(s))
  PROVE  /\ call' \in [All -> Seq(Effects)]
         /\ Shaped'
         /\ todo(c)' = ToSet(s)
         /\ \A d \in All \ {c} : todo(d)' = todo(d) /\ call'[d] = call[d]
<1>1. call' \in [All -> Seq(Effects)]
  OBVIOUS
<1>2. /\ call'[c] = s
      /\ \A d \in All \ {c} : call'[d] = call[d]
  OBVIOUS
<1>3. /\ todo(c)' = ToSet(s)
      /\ \A d \in All \ {c} : todo(d)' = todo(d)
  BY <1>2 DEF todo
<1>4. ASSUME NEW d \in Callers PROVE AsksLast(call'[d])
  BY <1>2 DEF Shaped, All
<1>5. ReadsLast(call'["sweep"]) /\ todo("sweep")' \subseteq SweepEffects
  BY <1>2, <1>3 DEF Shaped, All
<1>6. ASSUME NEW d \in All PROVE Formed(todo(d)')
  BY <1>3 DEF Shaped
<1>7. \A d \in All : Formed(todo(d)') <=> Formed(todo(d))'
  BY DEF Formed, Read, Ban
<1>8. Shaped'
  BY <1>4, <1>5, <1>6, <1>7 DEF Shaped, AsksLast, ReadsLast, asks, SweepEffects, Read, UpdateStatus, Flip
<1> QED BY <1>1, <1>2, <1>3, <1>8

\* A step that is not a read goes on with the rest of the call.
LEMMA TailStep ==
  ASSUME call \in [All -> Seq(Effects)], Shaped, NEW c \in All, call[c] # <<>>,
         ~asks(Head(call[c])), call' = [call EXCEPT ![c] = Tail(@)]
  PROVE  /\ call' \in [All -> Seq(Effects)]
         /\ Shaped'
         /\ Head(call[c]) \in Effects
         /\ todo(c) = {Head(call[c])} \cup todo(c)'
         /\ \A d \in All \ {c} : todo(d)' = todo(d) /\ call'[d] = call[d]
<1> DEFINE s == call[c]
           t == Tail(s)
<1>1. s \in Seq(Effects) /\ s # <<>>
  OBVIOUS
<1>2. Head(s) \in Effects /\ t \in Seq(Effects) /\ ToSet(s) = {Head(s)} \cup ToSet(t)
  BY <1>1, ToSetTail
<1>3. Formed(ToSet(t))
  BY <1>1, TailFormed DEF Shaped, todo
<1>4. c \in Callers => AsksLast(t)
  BY <1>1, TailOrder DEF Shaped
<1>5. c = "sweep" => ReadsLast(t) /\ ToSet(t) \subseteq SweepEffects
  BY <1>1, <1>2, TailOrder DEF Shaped, todo
<1>6. call' = [call EXCEPT ![c] = t]
  OBVIOUS
<1> HIDE DEF t
<1>7. /\ call' \in [All -> Seq(Effects)] /\ Shaped'
      /\ todo(c)' = ToSet(t)
      /\ \A d \in All \ {c} : todo(d)' = todo(d) /\ call'[d] = call[d]
  BY <1>2, <1>3, <1>4, <1>5, <1>6, ShapedStep
<1> QED BY <1>2, <1>7 DEF todo

\* The sweep at its reads.
OnlyReads(T) == T \subseteq {Read("expired"), Read("exhausted")}

\* The reads of the sweep.
LEMMA SweepReads ==
  ASSUME NEW T \in SUBSET SweepEffects, \A e \in T : e.op = "read"
  PROVE  OnlyReads(T)
BY DEF SweepEffects, OnlyReads, UpdateStatus, Flip

\* A read goes on with what was found: the last thing a panel's call asks.
LEMMA ReadStep ==
  ASSUME call \in [All -> Seq(Effects)], Shaped, NEW c \in All, Reads(c)
  PROVE  LET e == Head(call[c]) IN
         /\ call' \in [All -> Seq(Effects)]
         /\ Shaped'
         /\ e \in Effects /\ asks(e) /\ e \in todo(c)
         /\ c \in Callers => todo(c) = {e} /\ todo(c)' = ToSet(Found(e))
         /\ c = "sweep" => \E T : /\ OnlyReads(T) /\ todo(c) = {e} \cup T
                                  /\ e.op = "read" /\ e \in SweepEffects
                                  /\ todo(c)' = ToSet(Found(e)) \cup T
         /\ \A d \in All \ {c} : todo(d)' = todo(d) /\ call'[d] = call[d]
<1> DEFINE s == call[c]
           t == Tail(s)
           e == Head(s)
           f == Found(e)
           n == f \o t
<1>1. s \in Seq(Effects) /\ s # <<>>
  BY DEF Reads
<1>2. e \in Effects /\ t \in Seq(Effects) /\ ToSet(s) = {e} \cup ToSet(t)
  BY <1>1, ToSetTail
<1>3. asks(e)
  BY DEF Reads, asks
<1>4. f \in Seq(Effects) /\ AsksLast(f) /\ Formed(ToSet(f))
  BY <1>2, <1>3, FoundMade DEF WellMade
<1>5. call' = [call EXCEPT ![c] = n]
  BY DEF Reads
<1>6. CASE c \in Callers
  <2>1. t = <<>>
    BY <1>1, <1>3, <1>6, TailOrder DEF Shaped
  <2>2. n = f
    BY <2>1, <1>4, ConcatEmptySeq
  <2>3. c # "sweep"
    BY <1>6, SubscriptionBounds
  <2>4. ToSet(s) = {e}
    BY <2>1, <1>2, ToSetEmpty
  <2> HIDE DEF s, t, e, f, n
  <2>5. /\ call' \in [All -> Seq(Effects)] /\ Shaped'
        /\ todo(c)' = ToSet(f)
        /\ \A d \in All \ {c} : todo(d)' = todo(d) /\ call'[d] = call[d]
    BY <2>2, <2>3, <1>4, <1>5, ShapedStep
  <2> QED BY <2>3, <2>4, <2>5, <1>2, <1>3 DEF s, e, f, todo
<1>7. CASE c = "sweep"
  <2>1. ToSet(s) \subseteq SweepEffects /\ ReadsLast(s)
    BY <1>7 DEF Shaped, todo
  <2>2. e \in SweepEffects /\ e.op = "read"
    BY <2>1, <1>2, <1>3 DEF SweepEffects, asks, Read, UpdateStatus, Flip
  <2>3. \A x \in ToSet(t) : x.op = "read"
    BY <2>1, <2>2, <1>1, TailOrder
  <2>4. OnlyReads(ToSet(t)) /\ ToSet(t) \subseteq SweepEffects
    BY <2>1, <2>3, <1>2, SweepReads
  <2>5. ToSet(f) \subseteq SweepEffects
    BY <2>2, <1>3, SweepFound
  <2>6. e # Read("unbanned")
    BY <2>2 DEF SweepEffects, Read, UpdateStatus, Flip
  <2>7. \A x \in ToSet(f) : ~asks(x)
    BY <2>6, <1>2, <1>3, FoundMade
  <2> HIDE DEF s, t, e, f
  <2>8. n \in Seq(Effects) /\ ToSet(n) = ToSet(f) \cup ToSet(t)
    BY <1>2, <1>4, ToSetConcat
  <2>9. ReadsLast(n)
    BY <2>3, <2>7, <1>2, <1>4, WritesThenReads
  <2>10. \A x, y \in ToSet(n) : x.op \in Deciding /\ y.op \in Deciding => x = y
    BY <2>3, <2>8, <1>4 DEF Formed, Deciding
  <2>11. ToSet(n) \subseteq SweepEffects
    BY <2>4, <2>5, <2>8
  <2>12. Formed(ToSet(n))
    BY <2>10, <2>11, SweepFormed
  <2>13. c \notin Callers
    BY <1>7, SubscriptionBounds
  <2> HIDE DEF n
  <2>14. /\ call' \in [All -> Seq(Effects)] /\ Shaped'
         /\ todo(c)' = ToSet(n)
         /\ \A d \in All \ {c} : todo(d)' = todo(d) /\ call'[d] = call[d]
    BY <2>8, <2>9, <2>11, <2>12, <2>13, <1>5, ShapedStep
  <2>15. todo(c) = {e} \cup ToSet(t) /\ todo(c)' = ToSet(f) \cup ToSet(t)
    BY <2>8, <2>14, <1>2 DEF todo, s
  <2> QED BY <2>2, <2>4, <2>13, <2>14, <2>15, <1>2, <1>3 DEF s, e, f
<1> QED BY <1>6, <1>7 DEF All

\* The row after a write is a row.
LEMMA WrittenTyped ==
  ASSUME TypeOK, NEW e \in Effects,
         e.op \in {"status", "pause", "resume", "end", "extend", "limit", "used", "save"}
  PROVE  /\ Written(e) \in Rows
         /\ e.op = "status" => Written(e).status = e.to /\ Written(e).reason = sub.reason
         /\ e.op = "pause" => /\ Written(e).status = "paused"
                              /\ sub.status = "paused" => Written(e) = sub
                              /\ sub.status # "paused" => Written(e).reason = e.reason
         /\ e.op = "resume" => Written(e).status = "active"
         /\ e.op = "save" => Written(e) = e.row
         /\ e.op \notin Deciding => Written(e).status = sub.status /\ Written(e).reason = sub.reason
<1> USE DEF Written
<1>0. sub \in Rows
  BY DEF TypeOK
<1>1. CASE e.op = "status"
  <2>1. e.to \in Statuses \ {"paused"}
    BY <1>1 DEF Effects
  <2> QED BY <1>0, <1>1, <2>1 DEF Rows, Deciding
<1>2. CASE e.op = "pause"
  <2>1. e.reason \in {"admin", "ban"}
    BY <1>2 DEF Effects
  <2> QED BY <1>0, <1>2, <2>1 DEF Rows, Deciding, paused, Statuses
<1>3. CASE e.op = "resume"
  BY <1>0, <1>3 DEF Rows, Deciding, Statuses
<1>4. CASE e.op = "end"
  <2>1. e.to \in 0..MaxTime
    BY <1>4 DEF Effects
  <2> QED BY <1>0, <1>4, <2>1 DEF Rows, Deciding
<1>5. CASE e.op = "extend"
  <2>1. sub.end \in 0..MaxTime
    BY <1>0 DEF Rows
  <2>2. atMost(sub.end + 1, MaxTime) \in 0..MaxTime
    BY <2>1, SubscriptionBounds DEF atMost
  <2> QED BY <1>0, <1>5, <2>2 DEF Rows, Deciding
<1>6. CASE e.op = "limit"
  <2>1. e.to \in 0..MaxLimit
    BY <1>6 DEF Effects
  <2> QED BY <1>0, <1>6, <2>1 DEF Rows, Deciding
<1>7. CASE e.op = "used"
  <2>1. 0 \in 0..MaxUsed
    BY SubscriptionBounds
  <2> QED BY <1>0, <1>7, <2>1 DEF Rows, Deciding
<1>8. CASE e.op = "save"
  <2>1. e.row \in Rows
    BY <1>8 DEF Effects
  <2> QED BY <1>8, <2>1 DEF Deciding
<1> QED BY <1>1, <1>2, <1>3, <1>4, <1>5, <1>6, <1>7, <1>8

\* Types and shapes, whatever overlaps and fails.
LEMMA TypeAndShape ==
  ASSUME TypeOK, Shaped, [Next]_vars
  PROVE  TypeOK' /\ Shaped'
<1>0. /\ call \in [All -> Seq(Effects)]
      /\ sub \in Rows /\ access \in [Artifacts -> BOOLEAN] /\ banned \in BOOLEAN
      /\ now \in 0..MaxTime /\ faults \in 0..MaxFaults
      /\ pausedByBan \in BOOLEAN /\ trouble \in BOOLEAN
  BY DEF TypeOK
<1>1. ASSUME NEW c \in Callers, Begin(c)
      PROVE  TypeOK' /\ Shaped'
  <2>1. PICK s \in Requests \ {<<>>} : call' = [call EXCEPT ![c] = s] /\ trouble' \in BOOLEAN
    BY <1>1, <1>0 DEF Begin, Busy, loose
  <2>2. s \in Seq(Effects) /\ AsksLast(s) /\ Formed(ToSet(s))
    BY <2>1, RequestMade DEF WellMade
  <2>3. c \in All /\ c # "sweep"
    BY <1>1, SubscriptionBounds DEF All
  <2>4. call' \in [All -> Seq(Effects)] /\ Shaped'
    BY <2>1, <2>2, <2>3, <1>0, ShapedStep
  <2> QED BY <2>1, <2>4, <1>0, <1>1 DEF Begin, TypeOK, Rows
<1>2. ASSUME Sweep
      PROVE  TypeOK' /\ Shaped'
  <2> DEFINE s == <<Read("expired"), Read("exhausted")>>
  <2>1. Read("expired") \in Effects /\ Read("exhausted") \in Effects
    BY EffectsNamed
  <2>2. s \in Seq(Effects) /\ ToSet(s) = {Read("expired"), Read("exhausted")}
    BY <2>1, ToSetTwo
  <2>3. \A e \in ToSet(s) : e.op = "read"
    BY <2>2 DEF Read
  <2>4. ToSet(s) \subseteq SweepEffects
    BY <2>2 DEF SweepEffects
  <2>5. Formed(ToSet(s))
    BY <2>3, <2>4, SweepFormed DEF Deciding
  <2>6. ReadsLast(s)
    BY DEF ReadsLast, Read
  <2>7. "sweep" \in All /\ "sweep" \notin Callers
    BY SubscriptionBounds DEF All
  <2>8. call' = [call EXCEPT !["sweep"] = s]
    BY <1>2 DEF Sweep
  <2> HIDE DEF s
  <2>9. call' \in [All -> Seq(Effects)] /\ Shaped'
    BY <2>2, <2>4, <2>5, <2>6, <2>7, <2>8, <1>0, ShapedStep
  <2> QED BY <2>9, <1>0, <1>2 DEF Sweep, TypeOK, Rows
<1>3. ASSUME NEW c \in All, Reads(c)
      PROVE  TypeOK' /\ Shaped'
  <2>1. call' \in [All -> Seq(Effects)] /\ Shaped'
    BY <1>0, <1>3, ReadStep
  <2>2. trouble' \in BOOLEAN
    BY <1>0, <1>3 DEF Reads, handsOver, Busy
  <2> QED BY <2>1, <2>2, <1>0, <1>3 DEF Reads, TypeOK, Rows
<1>4. ASSUME NEW c \in All, Writes(c)
      PROVE  TypeOK' /\ Shaped'
  <2> DEFINE e == Head(call[c])
  <2>1. ~asks(e)
    BY <1>4 DEF Writes, asks
  <2>2. call' \in [All -> Seq(Effects)] /\ Shaped' /\ e \in Effects
    BY <2>1, <1>0, <1>4, TailStep DEF Writes
  <2>3. sub' = Written(e) /\ Written(e) \in Rows
    BY <2>2, <1>4, WrittenTyped DEF Writes
  <2>4. pausedByBan' \in BOOLEAN
    BY <1>4 DEF Writes
  <2> HIDE DEF e
  <2> QED BY <2>2, <2>3, <2>4, <1>0, <1>4 DEF Writes, TypeOK, Rows
<1>5. ASSUME NEW c \in All, Flips(c)
      PROVE  TypeOK' /\ Shaped'
  <2> DEFINE e == Head(call[c])
  <2>1. ~asks(e) /\ e.op = "access"
    BY <1>5 DEF Flips, asks
  <2>2. call' \in [All -> Seq(Effects)] /\ Shaped' /\ e \in Effects
    BY <2>1, <1>0, <1>5, TailStep DEF Flips
  <2>3. e.artifact \in Artifacts /\ e.on \in BOOLEAN
    BY <2>1, <2>2 DEF Effects
  <2>4. access' \in [Artifacts -> BOOLEAN]
    BY <2>3, <1>0, <1>5 DEF Flips
  <2> QED BY <2>2, <2>4, <1>0, <1>5 DEF Flips, TypeOK, Rows
<1>6. ASSUME NEW c \in All, Bans(c)
      PROVE  TypeOK' /\ Shaped'
  <2> DEFINE e == Head(call[c])
  <2>1. ~asks(e) /\ e.op = "ban"
    BY <1>6 DEF Bans, asks
  <2>2. call' \in [All -> Seq(Effects)] /\ Shaped' /\ e \in Effects
    BY <2>1, <1>0, <1>6, TailStep DEF Bans
  <2>3. banned' \in BOOLEAN
    BY <2>1, <2>2, <1>6 DEF Effects, Bans
  <2> QED BY <2>2, <2>3, <1>0, <1>6 DEF Bans, TypeOK, Rows
<1>7. ASSUME NEW c \in All, Fails(c)
      PROVE  TypeOK' /\ Shaped'
  <2> DEFINE s == call[c]
             t == IF Head(s).op = "access" \/ c = "sweep" THEN Tail(s) ELSE <<>>
  <2>1. s \in Seq(Effects) /\ s # <<>> /\ call' = [call EXCEPT ![c] = t]
    BY <1>0, <1>7 DEF Fails
  <2>2. call' \in [All -> Seq(Effects)] /\ Shaped'
    <3>1. CASE ~(Head(s).op = "access" \/ c = "sweep")
      <4>1. t = <<>> /\ c # "sweep"
        BY <3>1
      <4>2. <<>> \in Seq(Effects) /\ AsksLast(<<>>) /\ Formed(ToSet(<<>>))
        BY NothingMade DEF WellMade
      <4> HIDE DEF t
      <4> QED BY <4>1, <4>2, <2>1, <1>0, ShapedStep
    <3>2. CASE c = "sweep"
      <4>1. ToSet(s) \subseteq SweepEffects /\ ReadsLast(s) /\ Formed(ToSet(s))
        BY <3>2 DEF Shaped, todo
      <4>2. Tail(s) \in Seq(Effects) /\ ToSet(Tail(s)) \subseteq ToSet(s) /\ ReadsLast(Tail(s))
        BY <2>1, <4>1, ToSetTail, TailOrder
      <4>3. \A e, f \in ToSet(Tail(s)) : e.op \in Deciding /\ f.op \in Deciding => e = f
        BY <4>1, <4>2 DEF Formed
      <4>4. ToSet(Tail(s)) \subseteq SweepEffects
        BY <4>1, <4>2
      <4>5. Formed(ToSet(Tail(s)))
        BY <4>3, <4>4, SweepFormed
      <4>6. c \notin Callers /\ t = Tail(s)
        BY <3>2, SubscriptionBounds
      <4> HIDE DEF s, t
      <4> QED BY <4>2, <4>4, <4>5, <4>6, <2>1, <1>0, ShapedStep
    <3>3. CASE Head(s).op = "access"
      <4>1. ~asks(Head(s)) /\ t = Tail(s)
        BY <3>3 DEF asks
      <4>2. call' = [call EXCEPT ![c] = Tail(@)]
        BY <4>1, <2>1
      <4> QED BY <4>1, <4>2, <2>1, <1>0, TailStep
    <3> QED BY <3>1, <3>2, <3>3
  <2>3. faults' \in 0..MaxFaults /\ trouble' \in BOOLEAN
    BY <1>0, <1>7, SubscriptionBounds DEF Fails
  <2> QED BY <2>2, <2>3, <1>0, <1>7 DEF Fails, TypeOK, Rows
<1>8. ASSUME HubDies
      PROVE  TypeOK' /\ Shaped'
  <2>1. call' = [c \in All |-> <<>>]
    BY <1>8 DEF HubDies
  <2>2. <<>> \in Seq(Effects) /\ AsksLast(<<>>) /\ Formed(ToSet(<<>>))
    BY NothingMade DEF WellMade
  <2>3. call' \in [All -> Seq(Effects)]
    BY <2>1, <2>2
  <2>4. \A c \in All : call'[c] = <<>> /\ todo(c)' = {}
    BY <2>1, ToSetEmpty DEF todo
  <2>5. "sweep" \in All /\ Callers \subseteq All
    BY DEF All
  <2>6. \A c \in Callers : AsksLast(call[c])'
    BY <2>4, <2>5 DEF AsksLast
  <2>7. ReadsLast(call["sweep"])' /\ todo("sweep")' = {}
    BY <2>4, <2>5 DEF ReadsLast
  <2>8. \A c \in All : Formed(todo(c))'
    BY <2>4 DEF Formed
  <2>9. Shaped'
    BY <2>6, <2>7, <2>8 DEF Shaped
  <2>10. faults' \in 0..MaxFaults /\ trouble' \in BOOLEAN
    BY <1>0, <1>8, SubscriptionBounds DEF HubDies
  <2> QED BY <2>3, <2>9, <2>10, <1>0, <1>8 DEF HubDies, TypeOK, Rows
<1>9. ASSUME UNCHANGED call
      PROVE  Shaped'
  BY <1>9 DEF Shaped, todo, AsksLast, ReadsLast, Formed, asks, SweepEffects, Read, Ban, UpdateStatus, Flip
<1>10. ASSUME TimePasses
       PROVE  TypeOK' /\ Shaped'
  <2>1. now' \in 0..MaxTime
    BY <1>0, <1>10, SubscriptionBounds DEF TimePasses
  <2> QED BY <2>1, <1>0, <1>9, <1>10 DEF TimePasses, TypeOK, Rows
<1>11. ASSUME AddUsageDelta
       PROVE  TypeOK' /\ Shaped'
  <2>1. sub.used \in 0..MaxUsed /\ sub.used < MaxUsed
    BY <1>0, <1>11 DEF AddUsageDelta, Rows
  <2>2. sub.used + 1 \in 0..MaxUsed
    BY <2>1, SubscriptionBounds
  <2>3. sub' \in Rows
    BY <2>2, <1>0, <1>11 DEF AddUsageDelta, Rows
  <2> QED BY <2>3, <1>0, <1>9, <1>11 DEF AddUsageDelta, TypeOK, Rows
<1>12. ASSUME UNCHANGED vars
       PROVE  TypeOK' /\ Shaped'
  BY <1>0, <1>9, <1>12 DEF vars, TypeOK, Rows
<1> QED BY <1>1, <1>2, <1>3, <1>4, <1>5, <1>6, <1>7, <1>8, <1>10, <1>11, <1>12 DEF Next, Steps

----------------------------------------------------------------------------
\* While nothing overlaps.

\* A call at a read has only reads left.
LEMMA AtRead ==
  ASSUME call \in [All -> Seq(Effects)], Shaped, NEW c \in All
  PROVE  Quiet(c) <=> (call[c] = <<>> \/ Head(call[c]).op = "read")
<1> DEFINE s == call[c]
<1>1. s \in Seq(Effects)
  OBVIOUS
<1>2. CASE s = <<>>
  BY <1>2, ToSetEmpty DEF Quiet, todo
<1>3. CASE s # <<>>
  <2>1. ToSet(s) = {Head(s)} \cup ToSet(Tail(s))
    BY <1>1, <1>3, ToSetTail
  <2>2. ASSUME Head(s).op = "read" PROVE \A e \in ToSet(Tail(s)) : e.op = "read"
    <3>1. CASE c \in Callers
      <4>1. Tail(s) = <<>>
        BY <1>1, <1>3, <2>2, <3>1, TailOrder DEF Shaped, asks
      <4> QED BY <4>1, ToSetEmpty
    <3>2. CASE c = "sweep"
      BY <1>1, <1>3, <2>2, <3>2, TailOrder DEF Shaped
    <3> QED BY <3>1, <3>2 DEF All
  <2> QED BY <1>3, <2>1, <2>2 DEF Quiet, todo
<1> QED BY <1>2, <1>3

\* Busy is what Exclusive forbids.
LEMMA NotBusy ==
  ASSUME call \in [All -> Seq(Effects)], Shaped, NEW c \in All, ~Busy(c)
  PROVE  /\ OthersQuiet(c)
         /\ \A d \in All \ {c} : c \in Callers /\ d \in Callers => call[d] = <<>>
<1>1. ASSUME NEW d \in All \ {c} PROVE call[d] = <<>> \/ Head(call[d]).op = "read"
  BY DEF Busy
<1>2. ASSUME NEW d \in All \ {c} PROVE Quiet(d)
  BY <1>1, AtRead
<1>3. ASSUME NEW d \in All \ {c}, c \in Callers, d \in Callers PROVE call[d] = <<>>
  BY <1>3 DEF Busy
<1> QED BY <1>2, <1>3 DEF OthersQuiet

\* With nothing about the status or the access under way the access follows the status.
LEMMA FollowsAtRest ==
  ASSUME Settled, NEW c \in All, OthersQuiet(c),
         \A e \in todo(c) : e.op \notin Deciding \cup {"access"}
  PROVE  Follows
<1>1. PICK on \in BOOLEAN : Leads(todo(c), on)
  BY DEF Settled
<1>2. (sub.status = "active") <=> on
  BY <1>1, RestLeads
<1>3. \A a \in Artifacts : access[a] <=> on
  BY <1>1, RestLeads
<1> QED BY <1>2, <1>3 DEF Follows

\* The state after a step by c.
LEMMA ExclusiveKept ==
  ASSUME Exclusive, NEW c \in All,
         \A d \in All \ {c} : todo(d)' = todo(d) /\ call'[d] = call[d],
         OthersQuiet(c) \/ Quiet(c)',
         \A d \in All \ {c} : c \in Callers /\ d \in Callers => call[d] = <<>>
  PROVE  Exclusive'
<1>1. \A d \in All \ {c} : Quiet(d)' <=> Quiet(d)
  BY DEF Quiet
<1> SUFFICES ASSUME NEW x \in All, NEW y \in All, x # y
             PROVE  /\ Quiet(x)' \/ Quiet(y)'
                    /\ x \in Callers /\ y \in Callers => call'[x] = <<>> \/ call'[y] = <<>>
  BY DEF Exclusive
<1>2. CASE x = c
  BY <1>1, <1>2 DEF OthersQuiet
<1>3. CASE y = c
  BY <1>1, <1>3 DEF OthersQuiet
<1>4. CASE x # c /\ y # c
  BY <1>1, <1>4 DEF Exclusive
<1> QED BY <1>2, <1>3, <1>4

\* The same for any status and access.
LEMMA RestLeadsAt ==
  ASSUME NEW T, \A e \in T : e.op \notin Deciding \cup {"access"},
         NEW on \in BOOLEAN, NEW status, NEW open
  PROVE  LeadsAt(T, on, status, open) <=> /\ (status = "active") <=> on
                                          /\ \A a \in Artifacts : open[a] <=> on
BY DEF LeadsAt

\* Settled needs to be shown for the call that makes the step only.
LEMMA SettledKept ==
  ASSUME NEW c \in All,
         \A d \in All \ {c} : todo(d)' = todo(d),
         OthersQuiet(c) => \E on \in BOOLEAN : LeadsAt(todo(c)', on, sub'.status, access'),
         \/ OthersQuiet(c)
         \/ Settled /\ Quiet(c) /\ Quiet(c)' /\ sub'.status = sub.status /\ access' = access
  PROVE  Settled'
<1>1. \A d \in All \ {c} : Quiet(d)' <=> Quiet(d)
  BY DEF Quiet
<1> SUFFICES ASSUME NEW x \in All, OthersQuiet(x)'
             PROVE  \E on \in BOOLEAN : LeadsAt(todo(x)', on, sub'.status, access')
  BY DEF Settled, Leads
<1>2. CASE x = c
  BY <1>1, <1>2 DEF OthersQuiet
<1>3. CASE x # c /\ OthersQuiet(c)
  <2>1. Quiet(c)' /\ Quiet(x)'
    BY <1>1, <1>3 DEF OthersQuiet
  <2>2. /\ \A e \in todo(c)' : e.op \notin Deciding \cup {"access"}
        /\ \A e \in todo(x)' : e.op \notin Deciding \cup {"access"}
    BY <2>1 DEF Quiet, Deciding
  <2>3. PICK on \in BOOLEAN : LeadsAt(todo(c)', on, sub'.status, access')
    BY <1>3
  <2>4. (sub'.status = "active" <=> on) /\ \A a \in Artifacts : access'[a] <=> on
    BY <2>2, <2>3 DEF LeadsAt
  <2>5. LeadsAt(todo(x)', on, sub'.status, access')
    BY <2>2, <2>4, RestLeadsAt
  <2> QED BY <2>5
<1>4. CASE x # c /\ Settled /\ Quiet(c) /\ Quiet(c)' /\ sub'.status = sub.status /\ access' = access
  <2>1. OthersQuiet(x)
    BY <1>1, <1>4 DEF OthersQuiet
  <2>2. \E on \in BOOLEAN : LeadsAt(todo(x), on, sub.status, access)
    BY <2>1, <1>4 DEF Settled, Leads
  <2> QED BY <2>2, <1>4
<1> QED BY <1>2, <1>3, <1>4

\* While a call writes, the others are at most about to read.
LEMMA WriterAlone ==
  ASSUME call \in [All -> Seq(Effects)], Shaped, Exclusive, NEW c \in All, call[c] # <<>>,
         Head(call[c]).op # "read"
  PROVE  /\ OthersQuiet(c)
         /\ \A d \in All \ {c} : c \in Callers /\ d \in Callers => call[d] = <<>>
<1>1. ~Quiet(c)
  BY AtRead
<1> QED BY <1>1 DEF Exclusive, OthersQuiet

\* A write of the row.
LEMMA WriteCalm ==
  ASSUME TypeOK, Shaped, AllCalm, NEW c \in All, Writes(c)
  PROVE  AllCalm'
<1> DEFINE e == Head(call[c])
           T == todo(c)
           U == todo(c)'
<1>0. /\ call \in [All -> Seq(Effects)] /\ sub \in Rows /\ access \in [Artifacts -> BOOLEAN]
      /\ banned \in BOOLEAN /\ pausedByBan \in BOOLEAN
  BY DEF TypeOK
<1>1. /\ call[c] # <<>>
      /\ e.op \in {"status", "pause", "resume", "end", "extend", "limit", "used", "save"}
      /\ sub' = Written(e) /\ access' = access /\ banned' = banned
      /\ pausedByBan' = (sub'.status = "paused" /\
           (pausedByBan \/ (sub.status = "active" /\ e.op = "pause" /\ e.reason = "ban")))
      /\ call' = [call EXCEPT ![c] = Tail(@)]
  BY DEF Writes
<1>2. ~asks(e)
  BY <1>1 DEF asks
<1>3. /\ e \in Effects /\ T = {e} \cup U
      /\ \A d \in All \ {c} : todo(d)' = todo(d) /\ call'[d] = call[d]
  BY <1>0, <1>1, <1>2, TailStep
<1>4. /\ OthersQuiet(c)
      /\ \A d \in All \ {c} : c \in Callers /\ d \in Callers => call[d] = <<>>
  BY <1>0, <1>1, WriterAlone DEF AllCalm
<1>5. /\ e.op = "status" => sub'.status = e.to /\ sub'.reason = sub.reason
      /\ e.op = "pause" => /\ sub'.status = "paused"
                           /\ sub.status = "paused" => sub' = sub
                           /\ sub.status # "paused" => sub'.reason = e.reason
      /\ e.op = "resume" => sub'.status = "active"
      /\ e.op = "save" => sub' = e.row
      /\ e.op \notin Deciding => sub'.status = sub.status /\ sub'.reason = sub.reason
  BY <1>1, <1>3, WrittenTyped
<1>6. Formed(T) /\ \A d \in All \ {c} : \A f \in todo(d)' : f \in todo(d) /\ f.op = "read"
  BY <1>3, <1>4 DEF Shaped, OthersQuiet, Quiet
<1>7. c = "sweep" => e \in SweepEffects
  BY <1>3 DEF Shaped
<1>8. e.op = "status" => e.to \in Statuses \ {"paused"}
  BY <1>3 DEF Effects
<1>9. e.op = "save" => e.row.status = sub.status /\ e.row.reason = sub.reason
  BY <1>3 DEF AllCalm, RowsKept
<1> HIDE DEF e, T, U
<1>10. Exclusive'
  BY <1>3, <1>4, ExclusiveKept DEF AllCalm
<1>11. Settled'
  <2>1. PICK on \in BOOLEAN : LeadsAt(T, on, sub.status, access)
    BY <1>4 DEF AllCalm, Settled, Leads, T
  <2>2. e.op \in Deciding => (sub'.status = "active" <=> makesActive(e))
    BY <1>1, <1>5 DEF makesActive, Deciding
  <2>3. e.op # "access"
    BY <1>1
  <2>4. e.op \notin Deciding => sub'.status = sub.status
    BY <1>5
  <2>5. LeadsAt(U, on, sub'.status, access)
    <3>1. LeadsAt({e} \cup U, on, sub.status, access)
      BY <2>1, <1>3
    <3>2. \A f \in U : f.op \in Deciding => (makesActive(f) <=> on)
      BY <3>1 DEF LeadsAt
    <3>3. (\A f \in U : f.op \notin Deciding) => (sub'.status = "active" <=> on)
      <4>1. CASE e.op \in Deciding
        BY <3>1, <4>1, <2>2 DEF LeadsAt
      <4>2. CASE e.op \notin Deciding
        BY <3>1, <4>2, <2>4 DEF LeadsAt
      <4> QED BY <4>1, <4>2
    <3>4. ASSUME NEW a \in Artifacts
          PROVE  /\ \A f \in U : f.op = "access" /\ f.artifact = a => f.on = on
                 /\ (\A f \in U : ~(f.op = "access" /\ f.artifact = a)) => (access[a] <=> on)
      BY <3>1, <2>3 DEF LeadsAt
    <3> QED BY <3>2, <3>3, <3>4 DEF LeadsAt
  <2> QED BY <2>5, <1>1, <1>3, <1>4, SettledKept DEF U
<1>12. RowsKept'
  <2> SUFFICES ASSUME NEW d \in All, NEW f \in todo(d)', f.op \in {"judge", "save"}
               PROVE  f.row.status = sub'.status /\ f.row.reason = sub'.reason
    BY DEF RowsKept
  <2>1. d = c /\ f \in T
    BY <1>3, <1>6 DEF U
  <2>2. e.op \in {"end", "judge", "save"}
    BY <2>1, <1>3, <1>6 DEF Formed
  <2>3. sub'.status = sub.status /\ sub'.reason = sub.reason
    BY <2>2, <1>1, <1>5, <1>9 DEF Deciding
  <2>4. f.row.status = sub.status /\ f.row.reason = sub.reason
    BY <2>1 DEF AllCalm, RowsKept, T
  <2> QED BY <2>3, <2>4
<1>13. BanKept'
  <2>1. ASSUME pausedByBan' PROVE sub'.status = "paused" /\ sub'.reason = "ban"
    <3>1. CASE pausedByBan
      <4>1. sub.status = "paused" /\ sub.reason = "ban" /\ sub'.status = "paused"
        BY <3>1, <2>1, <1>1 DEF AllCalm, BanKept
      <4>2. e.op = "status" => FALSE
        BY <4>1, <1>5, <1>8
      <4>3. e.op = "resume" => FALSE
        BY <4>1, <1>5
      <4> QED BY <4>1, <4>2, <4>3, <1>1, <1>5, <1>9 DEF Deciding
    <3>2. CASE ~pausedByBan
      BY <3>2, <2>1, <1>1, <1>5
    <3> QED BY <3>1, <3>2
  <2>2. ASSUME NEW d \in All, Pause("ban") \in todo(d)' PROVE banned'
    <3>1. Pause("ban") \in todo(d)
      BY <2>2, <1>3 DEF T, U
    <3> QED BY <3>1, <1>1 DEF AllCalm, BanKept
  <2>3. ASSUME NEW d \in All, Read("banned") \in todo(d)' PROVE banned' \/ Ban(TRUE) \in todo(d)'
    <3>1. Read("banned") \in todo(d)
      BY <2>3, <1>3 DEF T, U
    <3>2. banned \/ Ban(TRUE) \in todo(d)
      BY <3>1 DEF AllCalm, BanKept
    <3>3. e # Ban(TRUE)
      BY <1>1 DEF Ban
    <3> QED BY <3>2, <3>3, <1>1, <1>3 DEF T, U
  <2>4. ASSUME pausedByBan', ~banned' PROVE \E d \in Callers : \E f \in todo(d)' : lifts(f)
    <3>1. ~banned /\ sub'.status = "paused"
      BY <2>4, <1>1
    <3>2. pausedByBan
      <4> SUFFICES ASSUME ~pausedByBan PROVE FALSE
        OBVIOUS
      <4>1. e.op = "pause" /\ e.reason = "ban"
        BY <2>4, <1>1
      <4>2. e = Pause("ban")
        BY <4>1, <1>3 DEF Effects, Pause
      <4> QED BY <4>2, <3>1, <1>3 DEF AllCalm, BanKept, T
    <3>3. PICK d \in Callers : \E f \in todo(d) : lifts(f)
      BY <3>1, <3>2 DEF AllCalm, BanKept
    <3>6. PICK f \in todo(d) : lifts(f)
      BY <3>3
    <3>4. f # e
      <4>1. e.op # "resume"
        BY <3>1, <1>5
      <4>2. e # Read("unbanned") /\ e # Read("resumed")
        BY <1>2 DEF asks, Read
      <4> QED BY <3>6, <4>1, <4>2 DEF lifts
    <3>5. f \in todo(d)'
      BY <3>6, <3>4, <1>3 DEF T, U, All
    <3> QED BY <3>6, <3>5
  <2> QED BY <2>1, <2>2, <2>3, <2>4 DEF BanKept, lifts, Pause, Read, Ban
<1>14. PauseKept'
  <2> SUFFICES ASSUME NEW d \in All, NEW f \in todo(d)'
               PROVE  /\ f.op = "status" => f.to = "cancelled" \/ sub'.status # "paused"
                      /\ f \in {Read("resumed"), Resume("unban")} =>
                           sub'.status # "paused" \/ sub'.reason = "ban"
    BY DEF PauseKept, Read, Resume
  <2>0. f \in todo(d)
    BY <1>3 DEF T, U
  <2>1. /\ f.op = "status" => f.to = "cancelled" \/ sub.status # "paused"
        /\ f \in {Read("resumed"), Resume("unban")} => sub.status # "paused" \/ sub.reason = "ban"
    BY <2>0 DEF AllCalm, PauseKept
  <2>2. CASE d = c /\ e.op \in Deciding
    <3>1. f \in T /\ e \in T
      BY <2>0, <2>2, <1>3 DEF T
    <3>2. f.op \in Deciding => f = e
      BY <3>1, <2>2, <1>6 DEF Formed
    <3>3. f # Read("resumed")
      <4>1. f = Read("resumed") => e = Read("resumed")
        BY <3>1, <1>6 DEF Formed
      <4> QED BY <4>1, <1>2 DEF asks, Read
    <3>4. f = Resume("unban") => e.op = "resume"
      BY <3>2 DEF Resume, Deciding
    <3>5. f.op = "status" => e.op = "status"
      BY <3>2 DEF Deciding
    <3> QED BY <3>3, <3>4, <3>5, <1>5, <1>8
  <2>3. CASE e.op \notin Deciding
    BY <2>1, <2>3, <1>5
  <2>4. CASE d # c /\ e.op \in Deciding
    <3>1. f.op = "read" /\ f # Resume("unban")
      BY <2>4, <1>6 DEF Resume
    <3>2. ASSUME f = Read("resumed") PROVE sub'.status # "paused"
      <4>1. d # "sweep"
        BY <2>0, <3>2 DEF Shaped, SweepEffects, Read, UpdateStatus, Flip
      <4>2. d \in Callers /\ call[d] # <<>>
        BY <4>1, <2>0, ToSetEmpty DEF All, todo
      <4>3. c = "sweep"
        BY <4>2, <2>4, <1>4 DEF All
      <4>4. e.op = "status"
        BY <4>3, <2>4, <1>7 DEF SweepEffects, Read, UpdateStatus, Flip, Deciding
      <4> QED BY <4>4, <1>5, <1>8
    <3> QED BY <3>1, <3>2
  <2> QED BY <2>2, <2>3, <2>4
<1> QED BY <1>10, <1>11, <1>12, <1>13, <1>14 DEF AllCalm

\* An artifact is turned on or off.
LEMMA FlipCalm ==
  ASSUME TypeOK, Shaped, AllCalm, NEW c \in All, Flips(c)
  PROVE  AllCalm'
<1> DEFINE e == Head(call[c])
           T == todo(c)
           U == todo(c)'
<1>0. call \in [All -> Seq(Effects)] /\ access \in [Artifacts -> BOOLEAN]
  BY DEF TypeOK
<1>1. /\ call[c] # <<>> /\ e.op = "access"
      /\ access' = [access EXCEPT ![e.artifact] = e.on]
      /\ sub' = sub /\ banned' = banned /\ pausedByBan' = pausedByBan
      /\ call' = [call EXCEPT ![c] = Tail(@)]
  BY DEF Flips
<1>2. ~asks(e)
  BY <1>1 DEF asks
<1>3. /\ e \in Effects /\ T = {e} \cup U
      /\ \A d \in All \ {c} : todo(d)' = todo(d) /\ call'[d] = call[d]
  BY <1>0, <1>1, <1>2, TailStep
<1>4. /\ OthersQuiet(c)
      /\ \A d \in All \ {c} : c \in Callers /\ d \in Callers => call[d] = <<>>
  BY <1>0, <1>1, WriterAlone DEF AllCalm
<1>5. e.artifact \in Artifacts /\ e.on \in BOOLEAN
  BY <1>1, <1>3 DEF Effects
<1>6. \A d \in All : todo(d)' \subseteq todo(d)
  BY <1>3
<1> HIDE DEF e, T, U
<1>7. Exclusive'
  BY <1>3, <1>4, ExclusiveKept DEF AllCalm
<1>8. Settled'
  <2>1. PICK on \in BOOLEAN : LeadsAt({e} \cup U, on, sub.status, access)
    BY <1>3, <1>4 DEF AllCalm, Settled, Leads, T
  <2>2. LeadsAt(U, on, sub'.status, access')
    <3>1. \A f \in U : f.op \in Deciding => (makesActive(f) <=> on)
      BY <2>1 DEF LeadsAt
    <3>2. (\A f \in U : f.op \notin Deciding) => (sub'.status = "active" <=> on)
      BY <2>1, <1>1 DEF LeadsAt, Deciding
    <3>3. ASSUME NEW a \in Artifacts
          PROVE  \A f \in U : f.op = "access" /\ f.artifact = a => f.on = on
      BY <2>1 DEF LeadsAt
    <3>4. ASSUME NEW a \in Artifacts, \A f \in U : ~(f.op = "access" /\ f.artifact = a)
          PROVE  access'[a] <=> on
      <4>1. CASE e.artifact = a
        <5>1. e.on = on
          BY <4>1, <2>1, <1>1 DEF LeadsAt
        <5> QED BY <5>1, <4>1, <1>0, <1>1
      <4>2. CASE e.artifact # a
        <5>1. access[a] <=> on
          BY <4>2, <3>4, <2>1 DEF LeadsAt
        <5> QED BY <5>1, <4>2, <1>0, <1>1
      <4> QED BY <4>1, <4>2
    <3> QED BY <3>1, <3>2, <3>3, <3>4 DEF LeadsAt
  <2> QED BY <2>2, <1>3, <1>4, SettledKept DEF U
<1>9. RowsKept'
  BY <1>1, <1>6 DEF AllCalm, RowsKept
<1>10. BanKept'
  <2>1. /\ \A d \in All : Pause("ban") \in todo(d)' => banned
        /\ pausedByBan => sub.status = "paused" /\ sub.reason = "ban"
    BY <1>6 DEF AllCalm, BanKept
  <2>2. ASSUME NEW d \in All, Read("banned") \in todo(d)' PROVE banned \/ Ban(TRUE) \in todo(d)'
    <3>1. banned \/ Ban(TRUE) \in todo(d)
      BY <2>2, <1>6 DEF AllCalm, BanKept
    <3>2. e # Ban(TRUE)
      BY <1>1 DEF Ban
    <3>3. CASE d = c
      BY <3>1, <3>2, <3>3, <1>3 DEF T, U
    <3>4. CASE d # c
      BY <3>1, <3>4, <1>3
    <3> QED BY <3>3, <3>4
  <2>3. ASSUME pausedByBan, ~banned PROVE \E d \in Callers : \E f \in todo(d)' : lifts(f)
    <3>1. PICK d \in Callers : \E f \in todo(d) : lifts(f)
      BY <2>3 DEF AllCalm, BanKept
    <3>2. PICK f \in todo(d) : lifts(f)
      BY <3>1
    <3>3. ~lifts(e)
      BY <1>1 DEF lifts, Read
    <3> QED BY <3>2, <3>3, <1>3 DEF T, U, All
  <2> QED BY <2>1, <2>2, <2>3, <1>1 DEF BanKept, lifts, Pause, Read, Ban
<1>11. PauseKept'
  BY <1>1, <1>6 DEF AllCalm, PauseKept, Read, Resume
<1> QED BY <1>7, <1>8, <1>9, <1>10, <1>11 DEF AllCalm

\* The owner is banned, or is no more.
LEMMA BanCalm ==
  ASSUME TypeOK, Shaped, AllCalm, NEW c \in All, Bans(c)
  PROVE  AllCalm'
<1> DEFINE e == Head(call[c])
           T == todo(c)
           U == todo(c)'
<1>0. call \in [All -> Seq(Effects)] /\ access \in [Artifacts -> BOOLEAN]
  BY DEF TypeOK
<1>1. /\ call[c] # <<>> /\ e.op = "ban" /\ banned' = e.to
      /\ sub' = sub /\ access' = access /\ pausedByBan' = pausedByBan
      /\ call' = [call EXCEPT ![c] = Tail(@)]
  BY DEF Bans
<1>2. ~asks(e)
  BY <1>1 DEF asks
<1>3. /\ e \in Effects /\ T = {e} \cup U
      /\ \A d \in All \ {c} : todo(d)' = todo(d) /\ call'[d] = call[d]
  BY <1>0, <1>1, <1>2, TailStep
<1>4. /\ OthersQuiet(c)
      /\ \A d \in All \ {c} : c \in Callers /\ d \in Callers => call[d] = <<>>
  BY <1>0, <1>1, WriterAlone DEF AllCalm
<1>5. (e.to = TRUE /\ e = Ban(TRUE)) \/ (e.to = FALSE /\ e = Ban(FALSE))
  BY <1>1, <1>3 DEF Effects, Ban
<1>6. \A d \in All : todo(d)' \subseteq todo(d)
  BY <1>3
<1>7. c \in Callers
  <2>1. c = "sweep" => e \in SweepEffects
    BY <1>3 DEF Shaped
  <2> QED BY <2>1, <1>1 DEF All, SweepEffects, Read, UpdateStatus, Flip
<1>8. Formed(T)
  BY DEF Shaped
<1> HIDE DEF e, T, U
<1>9. Exclusive'
  BY <1>3, <1>4, ExclusiveKept DEF AllCalm
<1>10. Settled'
  <2>1. PICK on \in BOOLEAN : LeadsAt({e} \cup U, on, sub.status, access)
    BY <1>3, <1>4 DEF AllCalm, Settled, Leads, T
  <2>2. LeadsAt(U, on, sub'.status, access')
    <3>1. e.op \notin Deciding /\ e.op # "access"
      BY <1>1 DEF Deciding
    <3> QED BY <2>1, <3>1, <1>1 DEF LeadsAt
  <2> QED BY <2>2, <1>3, <1>4, SettledKept DEF U
<1>11. RowsKept'
  BY <1>1, <1>6 DEF AllCalm, RowsKept
<1>12. BanKept'
  <2>0. pausedByBan => sub.status = "paused" /\ sub.reason = "ban"
    BY DEF AllCalm, BanKept
  <2>1. CASE e.to = TRUE
    BY <2>0, <2>1, <1>1 DEF BanKept
  <2>2. CASE e.to = FALSE /\ e = Ban(FALSE)
    <3>1. Read("unbanned") \in T /\ T \subseteq {Ban(FALSE), Read("unbanned")}
      BY <2>2, <1>3, <1>8 DEF Formed
    <3>2. Read("unbanned") \in U
      BY <3>1, <1>1, <1>3 DEF Read
    <3>3. ASSUME NEW d \in All PROVE Pause("ban") \notin todo(d)' /\ Read("banned") \notin todo(d)'
      <4>1. CASE d = c
        BY <3>1, <4>1, <1>3 DEF U, Pause, Ban, Read
      <4>2. CASE d # c /\ d \in Callers
        BY <4>2, <1>3, <1>4, <1>7, ToSetEmpty DEF todo
      <4>3. CASE d = "sweep"
        <5>1. todo(d)' \subseteq SweepEffects
          BY <4>3, <1>6 DEF Shaped
        <5> QED BY <5>1 DEF SweepEffects, Pause, Read, UpdateStatus, Flip
      <4> QED BY <4>1, <4>2, <4>3 DEF All
    <3>4. lifts(Read("unbanned"))
      BY DEF lifts
    <3>5. \E d \in Callers : \E f \in todo(d)' : lifts(f)
      BY <3>2, <3>4, <1>7 DEF U
    <3> QED BY <2>0, <3>3, <3>5, <1>1 DEF BanKept, lifts, Pause, Read, Ban
  <2> QED BY <2>1, <2>2, <1>5
<1>13. PauseKept'
  BY <1>1, <1>6 DEF AllCalm, PauseKept, Read, Resume
<1> QED BY <1>9, <1>10, <1>11, <1>12, <1>13 DEF AllCalm

\* The sweep's reads still to come change nothing.
LEMMA ReadsAdded ==
  ASSUME NEW s, NEW f, NEW T, OnlyReads(T), ToSet(s) = ToSet(f) \cup T, Sound(f)
  PROVE  Sound(s)
<1>1. \A e \in T : e.op = "read" /\ e.of \in {"expired", "exhausted"}
  BY DEF OnlyReads, Read
<1>2. /\ Pause("ban") \notin T /\ Read("banned") \notin T
      /\ Read("resumed") \notin T /\ Resume("unban") \notin T
  BY <1>1 DEF Pause, Read, Resume
<1>3. PICK on \in BOOLEAN : LeadsAt(ToSet(f), on, sub.status, access)
  BY DEF Sound, Leads
<1>4. LeadsAt(ToSet(s), on, sub.status, access)
  BY <1>1, <1>3 DEF LeadsAt, Deciding
<1>5. \A e \in ToSet(s) : e \in ToSet(f) \/ e \in T
  OBVIOUS
<1> QED BY <1>1, <1>2, <1>4, <1>5 DEF Sound, Leads

\* A call that is sound where the access follows the status takes the place of another.
LEMMA NewCalm ==
  ASSUME AllCalm, NEW c \in All, OthersQuiet(c),
         \A d \in All \ {c} : c \in Callers /\ d \in Callers => call[d] = <<>>,
         NEW s, Sound(s), todo(c)' = ToSet(s),
         \A d \in All \ {c} : todo(d)' = todo(d) /\ call'[d] = call[d],
         UNCHANGED <<sub, access, banned, pausedByBan>>,
         pausedByBan /\ c \in Callers /\ (\E e \in todo(c) : lifts(e)) => \E f \in ToSet(s) : lifts(f)
  PROVE  AllCalm'
<1>1. Exclusive'
  BY ExclusiveKept DEF AllCalm
<1>2. Settled'
  <2>1. PICK on \in BOOLEAN : LeadsAt(ToSet(s), on, sub.status, access)
    BY DEF Sound, Leads
  <2>2. LeadsAt(todo(c)', on, sub'.status, access')
    BY <2>1
  <2> QED BY <2>2, SettledKept
<1>3. RowsKept'
  <2> SUFFICES ASSUME NEW d \in All, NEW f \in todo(d)', f.op \in {"judge", "save"}
               PROVE  f.row.status = sub.status /\ f.row.reason = sub.reason
    BY DEF RowsKept
  <2>1. CASE d = c
    BY <2>1 DEF Sound
  <2>2. CASE d # c
    BY <2>2 DEF AllCalm, RowsKept
  <2> QED BY <2>1, <2>2
<1>4. BanKept'
  <2>1. ASSUME NEW d \in All
        PROVE  /\ Pause("ban") \in todo(d)' => banned
               /\ Read("banned") \in todo(d)' => banned \/ Ban(TRUE) \in todo(d)'
    <3>1. CASE d = c
      BY <3>1 DEF Sound
    <3>2. CASE d # c
      BY <3>2 DEF AllCalm, BanKept
    <3> QED BY <3>1, <3>2
  <2>2. ASSUME pausedByBan, ~banned PROVE \E d \in Callers : \E f \in todo(d)' : lifts(f)
    <3>1. PICK d \in Callers : \E f \in todo(d) : lifts(f)
      BY <2>2 DEF AllCalm, BanKept
    <3>2. CASE d = c
      BY <2>2, <3>1, <3>2
    <3>3. CASE d # c
      BY <3>1, <3>3 DEF All
    <3> QED BY <3>2, <3>3
  <2>3. pausedByBan => sub.status = "paused" /\ sub.reason = "ban"
    BY DEF AllCalm, BanKept
  <2> QED BY <2>1, <2>2, <2>3 DEF BanKept, lifts, Pause, Read, Ban
<1>5. PauseKept'
  <2> SUFFICES ASSUME NEW d \in All, NEW f \in todo(d)'
               PROVE  /\ f.op = "status" => f.to = "cancelled" \/ sub.status # "paused"
                      /\ f \in {Read("resumed"), Resume("unban")} =>
                           sub.status # "paused" \/ sub.reason = "ban"
    BY DEF PauseKept, Read, Resume
  <2>1. CASE d = c
    BY <2>1 DEF Sound
  <2>2. CASE d # c
    BY <2>2 DEF AllCalm, PauseKept
  <2> QED BY <2>1, <2>2
<1> QED BY <1>1, <1>2, <1>3, <1>4, <1>5 DEF AllCalm

\* A call of the panel begins.
LEMMA BeginCalm ==
  ASSUME TypeOK, Shaped, AllCalm, NEW c \in Callers, Begin(c), ~trouble'
  PROVE  AllCalm'
<1>1. PICK s \in Requests \ {<<>>} : /\ call' = [call EXCEPT ![c] = s]
                                     /\ trouble' = (trouble \/ Busy(c) \/ loose(s))
  BY DEF Begin
<1>2. /\ call[c] = <<>> /\ c \in All /\ c # "sweep" /\ call \in [All -> Seq(Effects)]
      /\ ~Busy(c) /\ ~loose(s)
  BY <1>1, SubscriptionBounds DEF Begin, All, TypeOK
<1>3. /\ OthersQuiet(c)
      /\ \A d \in All \ {c} : c \in Callers /\ d \in Callers => call[d] = <<>>
  BY <1>2, NotBusy
<1>4. todo(c) = {}
  BY <1>2, ToSetEmpty DEF todo
<1>5. Follows
  BY <1>2, <1>3, <1>4, FollowsAtRest DEF AllCalm
<1>6. s \in Seq(Effects) /\ AsksLast(s) /\ Formed(ToSet(s)) /\ Sound(s)
  BY <1>1, <1>2, <1>5, RequestMade DEF WellMade
<1>7. /\ todo(c)' = ToSet(s)
      /\ \A d \in All \ {c} : todo(d)' = todo(d) /\ call'[d] = call[d]
  BY <1>1, <1>2, <1>6, ShapedStep
<1>8. UNCHANGED <<sub, access, banned, pausedByBan>>
  BY DEF Begin
<1> QED BY <1>2, <1>3, <1>4, <1>6, <1>7, <1>8, NewCalm

\* A call goes on with what it read.
LEMMA ReadCalm ==
  ASSUME TypeOK, Shaped, AllCalm, NEW c \in All, Reads(c), ~trouble'
  PROVE  AllCalm'
<1> DEFINE e == Head(call[c])
           f == Found(e)
<1>0. call \in [All -> Seq(Effects)]
  BY DEF TypeOK
<1>1. /\ e \in Effects /\ asks(e) /\ e \in todo(c)
      /\ c \in Callers => todo(c) = {e} /\ todo(c)' = ToSet(f)
      /\ c = "sweep" => \E T : /\ OnlyReads(T) /\ todo(c) = {e} \cup T
                               /\ e.op = "read" /\ e \in SweepEffects
                               /\ todo(c)' = ToSet(f) \cup T
      /\ \A d \in All \ {c} : todo(d)' = todo(d) /\ call'[d] = call[d]
  BY <1>0, ReadStep
<1>2. /\ UNCHANGED <<sub, access, banned, pausedByBan>> /\ call[c] # <<>>
      /\ f # <<>> => ~Busy(c)
      /\ ~handsOver(e)
  BY DEF Reads
<1>3. ASSUME NEW x \in todo(c) PROVE x.op \in {"read", "judge"}
  <2>1. CASE c \in Callers
    BY <1>1, <1>3, <2>1 DEF asks
  <2>2. CASE c = "sweep"
    <3>1. PICK T : OnlyReads(T) /\ todo(c) = {e} \cup T
      BY <1>1, <2>2
    <3> QED BY <1>1, <1>3, <3>1 DEF asks, OnlyReads, Read
  <2> QED BY <2>1, <2>2 DEF All
<1>4. \A x \in todo(c) : x.op \notin Deciding \cup {"access"}
  BY <1>3 DEF Deciding
<1>5. e.op = "judge" => e.row.status = sub.status
  BY <1>1 DEF AllCalm, RowsKept
<1>6. e = Read("banned") => banned
  <2> SUFFICES ASSUME e = Read("banned"), ~banned PROVE FALSE
    OBVIOUS
  <2>1. Ban(TRUE) \in todo(c)
    BY <1>1 DEF AllCalm, BanKept
  <2> QED BY <2>1, <1>3 DEF Ban
<1>7. e = Read("resumed") => sub.status # "paused" \/ sub.reason = "ban"
  BY <1>1 DEF AllCalm, PauseKept
\* What the ban paused, its lifting goes on with.
<1>8. ASSUME pausedByBan, c \in Callers, \E x \in todo(c) : lifts(x)
      PROVE  \E x \in ToSet(f) : lifts(x)
  <2>1. lifts(e)
    BY <1>1, <1>8
  <2>2. e \in {Read("unbanned"), Read("resumed")}
    BY <2>1, <1>1 DEF lifts, asks
  <2>3. sub.status = "paused" /\ sub.reason = "ban"
    BY <1>8 DEF AllCalm, BanKept
  <2>4. ~IsExpired(sub)
    BY <2>2, <1>2 DEF handsOver, Read
  <2>5. CASE e = Read("unbanned")
    <3>1. f = <<Read("resumed")>>
      BY <2>3, <2>4, <2>5 DEF Found, Read, resumePaused, resumesOnUnban
    <3> QED BY <3>1, ToSetOne DEF lifts
  <2>6. CASE e = Read("resumed")
    <3>1. f = ResumeSubscription("unban")
      BY <2>6 DEF Found, Read
    <3>2. Resume("unban") \in ToSet(f)
      BY <3>1, <2>4, ResumeFor
    <3> QED BY <3>2 DEF lifts, Resume
  <2> QED BY <2>2, <2>5, <2>6
<1> HIDE DEF f
<1>9. CASE f # <<>>
  <2>1. /\ OthersQuiet(c)
        /\ \A d \in All \ {c} : c \in Callers /\ d \in Callers => call[d] = <<>>
    BY <1>0, <1>2, <1>9, NotBusy
  <2>2. Follows
    BY <2>1, <1>4, FollowsAtRest DEF AllCalm
  <2>3. Sound(f)
    BY <2>2, <1>1, <1>2, <1>5, <1>6, <1>7, FoundMade DEF f
  <2>4. CASE c \in Callers
    BY <2>1, <2>3, <2>4, <1>1, <1>2, <1>8, NewCalm
  <2>5. CASE c = "sweep"
    <3>1. PICK T : OnlyReads(T) /\ todo(c)' = ToSet(f) \cup T
      BY <1>1, <2>5
    <3>2. todo(c)' = ToSet(call'[c])
      BY DEF todo
    <3>3. Sound(call'[c])
      BY <2>3, <3>1, <3>2, ReadsAdded
    <3>4. c \notin Callers
      BY <2>5, SubscriptionBounds
    <3> QED BY <2>1, <3>2, <3>3, <3>4, <1>1, <1>2, NewCalm
  <2> QED BY <2>4, <2>5 DEF All
<1>10. CASE f = <<>>
  <2>1. todo(c)' \subseteq todo(c) /\ Quiet(c)'
    <3>0. ToSet(f) = {}
      BY <1>10, ToSetEmpty
    <3>1. CASE c \in Callers
      BY <3>0, <3>1, <1>1 DEF Quiet
    <3>2. CASE c = "sweep"
      <4>1. PICK T : OnlyReads(T) /\ todo(c) = {e} \cup T /\ todo(c)' = ToSet(f) \cup T
        BY <1>1, <3>2
      <4> QED BY <3>0, <4>1 DEF OnlyReads, Read, Quiet
    <3> QED BY <3>1, <3>2 DEF All
  <2>2. \A d \in All : todo(d)' \subseteq todo(d)
    BY <2>1, <1>1
  <2>3. \A d \in All \ {c} : c \in Callers /\ d \in Callers => call[d] = <<>>
    BY <1>2 DEF AllCalm, Exclusive
  <2>4. Exclusive'
    BY <2>1, <2>3, <1>1, ExclusiveKept DEF AllCalm
  <2>5. Settled'
    <3>1. ASSUME OthersQuiet(c)
          PROVE  \E on \in BOOLEAN : LeadsAt(todo(c)', on, sub'.status, access')
      <4>1. PICK on \in BOOLEAN : LeadsAt(todo(c), on, sub.status, access)
        BY <3>1 DEF AllCalm, Settled, Leads
      <4>2. LeadsAt(todo(c)', on, sub.status, access)
        BY <4>1, <2>1, <1>4 DEF LeadsAt
      <4> QED BY <4>2, <1>2
    <3>2. OthersQuiet(c) \/ Quiet(c)
      BY DEF AllCalm, Exclusive, OthersQuiet
    <3> QED BY <2>1, <3>1, <3>2, <1>1, <1>2, SettledKept DEF AllCalm
  <2>6. RowsKept'
    BY <2>2, <1>2 DEF AllCalm, RowsKept
  <2>7. BanKept'
    <3>1. \A d \in All : Pause("ban") \in todo(d)' => banned
      BY <2>2 DEF AllCalm, BanKept
    <3>2. ASSUME NEW d \in All, Read("banned") \in todo(d)' PROVE banned \/ Ban(TRUE) \in todo(d)'
      <4>1. banned \/ Ban(TRUE) \in todo(d)
        BY <2>2, <3>2 DEF AllCalm, BanKept
      <4>2. Ban(TRUE) \notin todo(c)
        BY <1>3 DEF Ban
      <4> QED BY <4>1, <4>2, <1>1
    <3>3. ASSUME pausedByBan, ~banned PROVE \E d \in Callers : \E x \in todo(d)' : lifts(x)
      <4>1. PICK d \in Callers : \E x \in todo(d) : lifts(x)
        BY <3>3 DEF AllCalm, BanKept
      <4>2. d # c
        BY <3>3, <4>1, <1>8, <1>10, ToSetEmpty
      <4> QED BY <4>1, <4>2, <1>1 DEF All
    <3>4. pausedByBan => sub.status = "paused" /\ sub.reason = "ban"
      BY DEF AllCalm, BanKept
    <3> QED BY <3>1, <3>2, <3>3, <3>4, <1>2 DEF BanKept, lifts, Pause, Read, Ban
  <2>8. PauseKept'
    BY <2>2, <1>2 DEF AllCalm, PauseKept, Read, Resume
  <2> QED BY <2>4, <2>5, <2>6, <2>7, <2>8 DEF AllCalm
<1> QED BY <1>9, <1>10

\* The sweep begins: it has nothing to write yet.
LEMMA SweepCalm ==
  ASSUME TypeOK, Shaped, AllCalm, Sweep
  PROVE  AllCalm'
<1> DEFINE c == "sweep"
           s == <<Read("expired"), Read("exhausted")>>
<1>1. /\ call[c] = <<>> /\ call' = [call EXCEPT ![c] = s]
      /\ UNCHANGED <<sub, access, banned, pausedByBan>>
      /\ call \in [All -> Seq(Effects)] /\ c \in All /\ c \notin Callers
  BY SubscriptionBounds DEF Sweep, TypeOK, All
<1>2. ToSet(s) = {Read("expired"), Read("exhausted")}
  BY ToSetTwo
<1> HIDE DEF s, c
<1>3. /\ todo(c) = {} /\ todo(c)' = ToSet(s)
      /\ \A d \in All \ {c} : todo(d)' = todo(d) /\ call'[d] = call[d]
  BY <1>1, ToSetEmpty DEF todo
<1>4. /\ \A x \in todo(c)' : x.op = "read" /\ x.of \in {"expired", "exhausted"}
      /\ Quiet(c) /\ Quiet(c)'
  BY <1>2, <1>3 DEF Quiet, Read
<1>5. \A x \in todo(c)' : x.op \notin Deciding \cup {"access"}
  BY <1>4 DEF Deciding
<1>6. Exclusive'
  BY <1>1, <1>3, <1>4, ExclusiveKept DEF AllCalm
<1>7. Settled'
  <2>1. ASSUME OthersQuiet(c)
        PROVE  \E on \in BOOLEAN : LeadsAt(todo(c)', on, sub'.status, access')
    <3>1. PICK on \in BOOLEAN : LeadsAt(todo(c), on, sub.status, access)
      BY <2>1, <1>1 DEF AllCalm, Settled, Leads
    <3>2. LeadsAt(todo(c)', on, sub.status, access)
      BY <3>1, <1>3, <1>5 DEF LeadsAt
    <3> QED BY <3>2, <1>1
  <2> QED BY <2>1, <1>1, <1>3, <1>4, SettledKept DEF AllCalm
<1>8. ASSUME NEW x \in todo(c)'
      PROVE  /\ x.op \notin {"judge", "save", "status"} /\ x # Pause("ban") /\ x # Read("banned")
             /\ x # Read("resumed") /\ x # Resume("unban")
  BY <1>4, <1>8 DEF Pause, Read, Resume
<1>9. RowsKept'
  <2> SUFFICES ASSUME NEW d \in All, NEW f \in todo(d)', f.op \in {"judge", "save"}
               PROVE  f.row.status = sub.status /\ f.row.reason = sub.reason
    BY <1>1 DEF RowsKept
  <2>1. d # c
    BY <1>8
  <2> QED BY <2>1, <1>3 DEF AllCalm, RowsKept
<1>10. BanKept'
  <2>1. ASSUME NEW d \in All
        PROVE  /\ Pause("ban") \in todo(d)' => banned
               /\ Read("banned") \in todo(d)' => banned \/ Ban(TRUE) \in todo(d)'
    <3>1. CASE d = c
      BY <3>1, <1>8
    <3>2. CASE d # c
      BY <3>2, <1>3 DEF AllCalm, BanKept
    <3> QED BY <3>1, <3>2
  <2>2. ASSUME pausedByBan, ~banned PROVE \E d \in Callers : \E f \in todo(d)' : lifts(f)
    <3>1. PICK d \in Callers : \E f \in todo(d) : lifts(f)
      BY <2>2 DEF AllCalm, BanKept
    <3> QED BY <3>1, <1>1, <1>3 DEF All
  <2>3. pausedByBan => sub.status = "paused" /\ sub.reason = "ban"
    BY DEF AllCalm, BanKept
  <2> QED BY <2>1, <2>2, <2>3, <1>1 DEF BanKept, lifts, Pause, Read, Ban
<1>11. PauseKept'
  <2> SUFFICES ASSUME NEW d \in All, NEW f \in todo(d)'
               PROVE  /\ f.op = "status" => f.to = "cancelled" \/ sub.status # "paused"
                      /\ f \in {Read("resumed"), Resume("unban")} =>
                           sub.status # "paused" \/ sub.reason = "ban"
    BY <1>1 DEF PauseKept, Read, Resume
  <2>1. CASE d = c
    BY <2>1, <1>8
  <2>2. CASE d # c
    BY <2>2, <1>3 DEF AllCalm, PauseKept
  <2> QED BY <2>1, <2>2
<1> QED BY <1>6, <1>7, <1>9, <1>10, <1>11 DEF AllCalm

\* The calls and what they are about stay as they are.
LEMMA SameCalm ==
  ASSUME AllCalm, UNCHANGED <<call, access, banned, pausedByBan>>,
         sub'.status = sub.status, sub'.reason = sub.reason
  PROVE  AllCalm'
<1>1. \A c \in All : todo(c)' = todo(c)
  BY DEF todo
<1>2. \A c \in All : Quiet(c)' <=> Quiet(c)
  BY <1>1 DEF Quiet
<1>3. Exclusive'
  BY <1>2 DEF AllCalm, Exclusive
<1>4. Settled'
  <2> SUFFICES ASSUME NEW c \in All, OthersQuiet(c)'
               PROVE  \E on \in BOOLEAN : LeadsAt(todo(c)', on, sub'.status, access')
    BY DEF Settled, Leads
  <2>1. OthersQuiet(c)
    BY <1>2 DEF OthersQuiet
  <2>2. \E on \in BOOLEAN : LeadsAt(todo(c), on, sub.status, access)
    BY <2>1 DEF AllCalm, Settled, Leads
  <2> QED BY <2>2, <1>1
<1>5. RowsKept'
  BY <1>1 DEF AllCalm, RowsKept
<1>6. BanKept'
  <2>1. pausedByBan /\ ~banned => \E c \in Callers : \E e \in todo(c)' : lifts(e)
    BY <1>1 DEF AllCalm, BanKept, All
  <2> QED BY <2>1, <1>1 DEF AllCalm, BanKept, lifts, Pause, Read, Ban
<1>7. PauseKept'
  BY <1>1 DEF AllCalm, PauseKept, Read, Resume
<1> QED BY <1>3, <1>4, <1>5, <1>6, <1>7 DEF AllCalm

\* The invariant holds at the start.
LEMMA SubInit == Init => SubInv
<1> SUFFICES ASSUME Init PROVE SubInv
  OBVIOUS
<1>1. \A c \in All : call[c] = <<>> /\ todo(c) = {}
  BY ToSetEmpty DEF Init, todo
<1>2. TypeOK
  <2>1. <<>> \in Seq(Effects)
    BY EmptySeq
  <2>2. call \in [All -> Seq(Effects)]
    BY <2>1 DEF Init
  <2>3. /\ sub.status = "active" /\ sub.reason = "" /\ sub.used = 0
        /\ sub \in [status : {"active"}, reason : {""}, end : 0..MaxTime, used : {0},
                    limit : 0..MaxLimit]
    BY DEF Init
  <2>4. 0 \in 0..MaxUsed /\ 0 \in 0..MaxTime /\ 0 \in 0..MaxFaults
    BY SubscriptionBounds
  <2>5. sub \in Rows
    BY <2>3, <2>4 DEF Rows, Statuses
  <2> QED BY <2>2, <2>4, <2>5 DEF Init, TypeOK
<1>3. Shaped
  <2>1. "sweep" \in All /\ Callers \subseteq All
    BY DEF All
  <2>2. Formed({})
    BY DEF Formed
  <2>3. AsksLast(<<>>) /\ ReadsLast(<<>>)
    BY DEF AsksLast, ReadsLast
  <2> QED BY <2>1, <2>2, <2>3, <1>1 DEF Shaped
<1>4. Exclusive
  BY <1>1 DEF Exclusive, Quiet
<1>5. Settled
  <2>1. sub.status = "active" /\ \A a \in Artifacts : access[a]
    BY DEF Init
  <2>2. \A c \in All : LeadsAt(todo(c), TRUE, sub.status, access)
    BY <2>1, <1>1 DEF LeadsAt
  <2> QED BY <2>2 DEF Settled, Leads
<1>6. RowsKept /\ PauseKept
  BY <1>1 DEF RowsKept, PauseKept
<1>7. BanKept
  BY <1>1 DEF BanKept, Init
<1> QED BY <1>2, <1>3, <1>4, <1>5, <1>6, <1>7 DEF SubInv, Calm, AllCalm

\* No step without trouble disturbs the calm.
LEMMA CalmStep ==
  ASSUME TypeOK, Shaped, Calm, [Next]_vars
  PROVE  Calm'
<1> SUFFICES ASSUME ~trouble' PROVE AllCalm'
  BY DEF Calm, AllCalm
<1>1. ASSUME NEW c \in Callers, Begin(c) PROVE AllCalm'
  <2>1. ~trouble
    BY <1>1 DEF Begin
  <2> QED BY <2>1, <1>1, BeginCalm DEF Calm, AllCalm
<1>2. ASSUME Sweep PROVE AllCalm'
  <2>1. ~trouble
    BY <1>2 DEF Sweep
  <2> QED BY <2>1, <1>2, SweepCalm DEF Calm, AllCalm
<1>3. ASSUME NEW c \in All, Reads(c) PROVE AllCalm'
  <2>1. ~trouble
    BY <1>3 DEF Reads
  <2> QED BY <2>1, <1>3, ReadCalm DEF Calm, AllCalm
<1>4. ASSUME NEW c \in All, Writes(c) PROVE AllCalm'
  <2>1. ~trouble
    BY <1>4 DEF Writes
  <2> QED BY <2>1, <1>4, WriteCalm DEF Calm, AllCalm
<1>5. ASSUME NEW c \in All, Flips(c) PROVE AllCalm'
  <2>1. ~trouble
    BY <1>5 DEF Flips
  <2> QED BY <2>1, <1>5, FlipCalm DEF Calm, AllCalm
<1>6. ASSUME NEW c \in All, Bans(c) PROVE AllCalm'
  <2>1. ~trouble
    BY <1>6 DEF Bans
  <2> QED BY <2>1, <1>6, BanCalm DEF Calm, AllCalm
<1>7. ASSUME NEW c \in All, Fails(c) PROVE AllCalm'
  BY <1>7 DEF Fails
<1>8. ASSUME HubDies PROVE AllCalm'
  <2>1. ~trouble /\ \A c \in All : call[c] = <<>>
    BY <1>8 DEF HubDies
  <2>2. call \in [All -> Seq(Effects)] /\ call' = [c \in All |-> <<>>]
    BY <1>8 DEF HubDies, TypeOK
  <2>3. call' = call
    BY <2>1, <2>2
  <2> QED BY <2>1, <2>3, <1>8, SameCalm DEF HubDies, Calm, AllCalm
<1>9. ASSUME TimePasses PROVE AllCalm'
  BY <1>9, SameCalm DEF TimePasses, Calm, AllCalm
<1>10. ASSUME AddUsageDelta PROVE AllCalm'
  <2>1. sub'.status = sub.status /\ sub'.reason = sub.reason
    BY <1>10 DEF AddUsageDelta, TypeOK, Rows
  <2> QED BY <2>1, <1>10, SameCalm DEF AddUsageDelta, Calm, AllCalm
<1>11. ASSUME UNCHANGED vars PROVE AllCalm'
  BY <1>11, SameCalm DEF vars, Calm, AllCalm
<1> QED BY <1>1, <1>2, <1>3, <1>4, <1>5, <1>6, <1>7, <1>8, <1>9, <1>10, <1>11 DEF Next, Steps

\* The inductive invariant: TypeOK, the shape of the calls and, without trouble, the calm.
THEOREM SubscriptionInvariance == Spec => []SubInv
<1>1. Init => SubInv
  BY SubInit
<1>2. SubInv /\ [Next]_vars => SubInv'
  BY TypeAndShape, CalmStep DEF SubInv
<1> QED BY <1>1, <1>2, PTL DEF Spec

\* The row, the access and every effect under way stay in their types; a paused row says who
\* paused it, also when a row that was read is written back (subscription_repository.go).
THEOREM SubscriptionTyped == Spec => []TypeOK
<1>1. SubInv => TypeOK
  BY DEF SubInv
<1> QED BY <1>1, SubscriptionInvariance, PTL

\* With no overlap and no fault, between calls an active subscription lets the user in
\* everywhere and one that is not active nowhere (setTunnelAccess, tunnel_access.go).
THEOREM AccessFollows == Spec => []AccessFollowsStatus
<1>1. SubInv => AccessFollowsStatus
  <2> SUFFICES ASSUME SubInv, AtRest, ~trouble
               PROVE  \A a \in Artifacts : access[a] <=> (sub.status = "active")
    BY DEF AccessFollowsStatus
  <2>1. "sweep" \in All /\ \A c \in All : todo(c) = {}
    BY ToSetEmpty DEF All, AtRest, todo
  <2>2. OthersQuiet("sweep")
    BY <2>1 DEF OthersQuiet, Quiet
  <2>3. Settled
    BY DEF SubInv, Calm, AllCalm
  <2>4. Follows
    BY <2>1, <2>2, <2>3, FollowsAtRest
  <2> QED BY <2>4 DEF Follows
<1> QED BY <1>1, SubscriptionInvariance, PTL

\* With no overlap and no fault, BanUser and UnbanUser cancel out: a ban that was lifted
\* leaves nothing paused (UpdateStatusWithPauseReason keeps the first reason).
THEOREM BanUndone == Spec => []BanIsUndone
<1>1. SubInv => BanIsUndone
  <2> SUFFICES ASSUME SubInv, AtRest, ~trouble, ~banned, pausedByBan
               PROVE  FALSE
    BY DEF BanIsUndone
  <2>1. \A c \in All : todo(c) = {}
    BY ToSetEmpty DEF AtRest, todo
  <2>2. PICK c \in Callers : \E e \in todo(c) : lifts(e)
    BY DEF SubInv, Calm, AllCalm, BanKept
  <2> QED BY <2>1, <2>2 DEF All
<1> QED BY <1>1, SubscriptionInvariance, PTL

\* What an admin paused goes on only by an admin's resumption, or is cancelled: no unban, no
\* sweep, no limit and no date takes it out of the pause.
THEOREM AdminPause == Spec => AdminPauseHolds
<1> DEFINE Held == sub.status = "paused" /\ sub.reason = "admin" /\ ~pausedByBan /\ ~trouble =>
                     \/ sub'.status \in {"paused", "cancelled"}
                     \/ \E c \in Callers : call[c] # <<>> /\ Head(call[c]) = Resume("admin")
<1>1. SubInv /\ [Next]_vars => [Held]_vars
  <2> SUFFICES ASSUME SubInv, Next, sub.status = "paused", sub.reason = "admin", ~trouble,
                      sub'.status \notin {"paused", "cancelled"}
               PROVE  \E c \in Callers : call[c] # <<>> /\ Head(call[c]) = Resume("admin")
    OBVIOUS
  <2>1. sub' # sub
    OBVIOUS
  <2>2. ~AddUsageDelta
    BY DEF AddUsageDelta, SubInv, TypeOK, Rows
  <2>3. PICK c \in All : Writes(c)
    BY <2>1, <2>2 DEF Next, Steps, Begin, Sweep, Reads, Flips, Bans, Fails, HubDies, TimePasses
  <2> DEFINE e == Head(call[c])
  <2>4. /\ call[c] # <<>> /\ sub' = Written(e)
        /\ e.op \in {"status", "pause", "resume", "end", "extend", "limit", "used", "save"}
    BY <2>3 DEF Writes
  <2>5. call[c] \in Seq(Effects) /\ e \in Effects /\ e \in todo(c)
    BY <2>4, ToSetTail DEF SubInv, TypeOK, todo
  <2>6. /\ e.op = "status" => sub'.status = e.to
        /\ e.op = "pause" => sub'.status = "paused"
        /\ e.op = "save" => sub' = e.row
        /\ e.op \notin Deciding => sub'.status = sub.status
    BY <2>4, <2>5, WrittenTyped DEF SubInv
  <2>7. /\ e.op = "status" => e.to = "cancelled"
        /\ e # Resume("unban")
    BY <2>5 DEF SubInv, Calm, AllCalm, PauseKept
  <2>8. e.op = "save" => e.row.status = sub.status
    BY <2>5 DEF SubInv, Calm, AllCalm, RowsKept
  <2>9. e.op = "resume"
    BY <2>4, <2>6, <2>7, <2>8 DEF Deciding
  <2>10. e = Resume("admin")
    BY <2>5, <2>7, <2>9 DEF Effects, Resume
  <2>11. c # "sweep"
    BY <2>5, <2>9 DEF SubInv, Shaped, SweepEffects, Read, UpdateStatus, Flip
  <2> QED BY <2>4, <2>10, <2>11 DEF All
<1> QED BY <1>1, SubscriptionInvariance, PTL DEF Spec, AdminPauseHolds
====
