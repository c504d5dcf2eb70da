---- MODULE Subscription ----
\* One subscription through its life: the panel's calls that change it
\* (src/internal/subscription/usecase/subscription_usage.go, subscription_lifecycle.go,
\* src/internal/admin/usecase/admin_subscriptions.go, admin_users.go) and the scheduler's
\* expiry sweep, against the access it gives: its Xray accounts, WireGuard peers and
\* tunnels, which setTunnelAccess turns on and off one after the other.
\*
\* Every call reads the row, goes by what it read, and makes one write after the other
\* with nothing to keep others out.
EXTENDS Naturals, Sequences, FiniteSets, SequencesExt

CONSTANTS
  Artifacts,   \* what setTunnelAccess flips: the accounts, the peers, the tunnels
  Callers,     \* panel calls that may run at the same time
  MaxTime,     \* bound: the clock; an end date this late never comes
  MaxUsed,     \* bound: traffic counted
  MaxLimit,    \* bound: data limits; 0 is unlimited
  MaxFaults    \* bound: writes that fail and deaths of the hub

ASSUME ArtifactsFinite == IsFiniteSet(Artifacts)
ASSUME SubscriptionBounds ==
  /\ "sweep" \notin Callers
  /\ MaxTime \in Nat /\ MaxUsed \in Nat /\ MaxLimit \in Nat /\ MaxFaults \in Nat

VARIABLES
  sub,          \* the row of the subscriptions table
  access,       \* artifact -> whether it lets the user in
  banned,       \* users.is_banned of the owner
  now,          \* the clock
  call,         \* caller -> the effects its call still has to bring about
  pausedByBan,  \* a ban paused the subscription, which is paused since
  trouble,      \* calls overlapped, something failed, or a call left the two apart
  faults

vars == <<sub, access, banned, now, call, pausedByBan, trouble, faults>>

Statuses == {"active", "paused", "expired", "cancelled", "traffic_exhausted"}
\* A paused subscription says who paused it.
Rows ==
  {row \in [status : Statuses, reason : {"", "admin", "ban"}, end : 0..MaxTime,
            used : 0..MaxUsed, limit : 0..MaxLimit] :
     row.status = "paused" => row.reason # ""}

IsExpired(row) == row.end < now
IsDataExhausted(row) == row.limit # 0 /\ row.used >= row.limit

All == Callers \cup {"sweep"}

Init ==
  /\ sub \in [status : {"active"}, reason : {""}, end : 0..MaxTime, used : {0},
              limit : 0..MaxLimit]
  /\ access = [a \in Artifacts |-> TRUE]
  /\ banned = FALSE /\ now = 0
  /\ call = [c \in All |-> <<>>]
  /\ pausedByBan = FALSE /\ trouble = FALSE /\ faults = 0

----------------------------------------------------------------------------
\* Effects: the writes of the repository, and the reads between them.

Effects ==
  [op : {"read"}, of : {"banned", "unbanned", "resumed", "expired", "exhausted"}]
  \cup [op : {"judge", "save"}, row : Rows]
  \cup [op : {"status"}, to : Statuses \ {"paused"}]
  \cup [op : {"pause"}, reason : {"admin", "ban"}]
  \cup [op : {"resume"}, by : {"admin", "unban"}]
  \cup [op : {"end"}, to : 0..MaxTime]
  \cup [op : {"limit"}, to : 0..MaxLimit]
  \cup [op : {"extend", "used"}]
  \cup [op : {"access"}, artifact : Artifacts, on : BOOLEAN]
  \cup [op : {"ban"}, to : BOOLEAN]

Read(what) == [op |-> "read", of |-> what]
UpdateStatus(s) == [op |-> "status", to |-> s]
Pause(reason) == [op |-> "pause", reason |-> reason]
Resume(by) == [op |-> "resume", by |-> by]
Ban(to) == [op |-> "ban", to |-> to]
Flip(a, on) == [op |-> "access", artifact |-> a, on |-> on]
setTunnelAccess(on) ==
  LET order == SetToSeq(Artifacts)
  IN  [i \in DOMAIN order |-> Flip(order[i], on)]

\* UpdateStatusWithPauseReason: whoever paused first keeps the pause.
\* (mutant of paused: the last one keeps it)
pausedLast(reason) == [sub EXCEPT !.status = "paused", !.reason = reason]
paused(reason) ==
  IF sub.status = "paused" THEN sub ELSE [sub EXCEPT !.status = "paused", !.reason = reason]

atMost(n, bound) == IF n > bound THEN bound ELSE n

\* The row after a write.
Written(e) ==
  CASE e.op = "status" -> [sub EXCEPT !.status = e.to]
    [] e.op = "pause" -> paused(e.reason)
    [] e.op = "resume" -> [sub EXCEPT !.status = "active", !.reason = ""]
    [] e.op = "end" -> [sub EXCEPT !.end = e.to]
    [] e.op = "extend" -> [sub EXCEPT !.end = atMost(@ + 1, MaxTime)]
    [] e.op = "limit" -> [sub EXCEPT !.limit = e.to]
    [] e.op = "used" -> [sub EXCEPT !.used = 0]
    [] e.op = "save" -> e.row

----------------------------------------------------------------------------
\* What the calls do, from the row they read.

\* Status first, then the access; to revoke, access first, then the status.
reactivateSubscription == <<UpdateStatus("active")>> \o setTunnelAccess(TRUE)
deactivateOnNodes(status) == setTunnelAccess(FALSE) \o <<UpdateStatus(status)>>

SetCustomDataLimit(limit) ==
  <<[op |-> "limit", to |-> limit]>>
  \o (IF sub.status = "traffic_exhausted" /\ (limit = 0 \/ limit > sub.used)
      THEN reactivateSubscription
      ELSE IF sub.status = "active" THEN setTunnelAccess(TRUE) ELSE <<>>)

AddData ==
  IF sub.limit = 0 THEN <<>> ELSE SetCustomDataLimit(atMost(sub.limit + 1, MaxLimit))

\* The date is written first; whether it has passed is judged afterwards.
SetCustomEndDate(end) ==
  <<[op |-> "end", to |-> end], [op |-> "judge", row |-> [sub EXCEPT !.end = end]]>>

judged(row) ==
  CASE IsExpired(row) /\ row.status = "active" ->
         <<UpdateStatus("expired")>> \o setTunnelAccess(FALSE)
    [] ~IsExpired(row) /\ row.status = "expired" /\ IsDataExhausted(row) ->
         <<UpdateStatus("traffic_exhausted")>>
    [] ~IsExpired(row) /\ row.status = "expired" /\ ~IsDataExhausted(row) ->
         reactivateSubscription
    [] OTHER -> <<>>

ResetDataUsed == <<[op |-> "used"]>>

Cancel == deactivateOnNodes("cancelled")

\* (mutant of ExtendSubscription: only the date and the status)
ExtendWithoutAccess ==
  IF sub.status \in {"expired", "active"}
  THEN <<[op |-> "extend"], UpdateStatus("active")>> ELSE <<[op |-> "extend"]>>
ExtendSubscription ==
  IF sub.status \in {"expired", "active"}
  THEN <<[op |-> "extend"]>> \o reactivateSubscription ELSE <<[op |-> "extend"]>>

PauseSubscriptionFor(reason) == setTunnelAccess(FALSE) \o <<Pause(reason)>>

ResumeSubscription(by) ==
  IF IsExpired(sub) THEN <<>> ELSE <<Resume(by)>> \o setTunnelAccess(TRUE)

\* The ban is written, then the owner's subscriptions are listed.
BanUser == <<Ban(TRUE), Read("banned")>>
pauseActive == IF sub.status = "active" THEN PauseSubscriptionFor("ban") ELSE <<>>

\* One that has expired goes back to active without access, for the sweep to find it.
UnbanUser == <<Ban(FALSE), Read("unbanned")>>
\* (mutant of resumesOnUnban: whoever paused it)
resumesOnUnbanAll == sub.status = "paused"
resumesOnUnban == sub.status = "paused" /\ sub.reason = "ban"
resumePaused ==
  CASE ~resumesOnUnban -> <<>>
    [] resumesOnUnban /\ IsExpired(sub) -> <<Resume("unban")>>
    [] resumesOnUnban /\ ~IsExpired(sub) -> <<Read("resumed")>>

\* AssignToInbound makes an account that is active whatever the subscription is;
\* RegenerateSubscriptionKey writes every column of the row it read.
AssignToInbound == {<<Flip(a, TRUE)>> : a \in Artifacts}
RegenerateSubscriptionKey == <<[op |-> "save", row |-> sub]>>

\* The panel's calls.
Requests ==
  {SetCustomDataLimit(l) : l \in 0..MaxLimit} \cup {SetCustomEndDate(e) : e \in 0..MaxTime}
  \cup {AddData, ResetDataUsed, Cancel, ExtendSubscription, PauseSubscriptionFor("admin"),
        ResumeSubscription("admin"), BanUser, UnbanUser, RegenerateSubscriptionKey}
  \cup AssignToInbound

----------------------------------------------------------------------------

\* Two panel calls in progress overlap; the sweep, only while it has something to write.
Busy(c) ==
  \E d \in All \ {c} :
    call[d] # <<>> /\ (Head(call[d]).op # "read" \/ {c, d} \subseteq Callers)

\* An account is made for a subscription that lets nobody in.
loose(todo) == todo \in AssignToInbound /\ sub.status # "active"

Begin(c) ==
  /\ call[c] = <<>>
  /\ \E todo \in Requests \ {<<>>} :
       /\ call' = [call EXCEPT ![c] = todo]
       /\ trouble' = (trouble \/ Busy(c) \/ loose(todo))
  /\ UNCHANGED <<sub, access, banned, now, pausedByBan, faults>>

\* The sweep lists the active subscriptions whose date has passed and revokes them, then
\* those whose data is used up.
Sweep ==
  /\ call["sweep"] = <<>>
  /\ call' = [call EXCEPT !["sweep"] = <<Read("expired"), Read("exhausted")>>]
  /\ UNCHANGED <<sub, access, banned, now, pausedByBan, trouble, faults>>

ListExpired == sub.status = "active" /\ IsExpired(sub)
\* (mutant of ListDataExhausted: more than the limit)
ListDataExceeded == sub.status = "active" /\ sub.limit # 0 /\ sub.used > sub.limit
ListDataExhausted == sub.status = "active" /\ sub.limit # 0 /\ sub.used >= sub.limit

\* What follows from a read.
Found(e) ==
  CASE e.op = "judge" -> judged(e.row)
    [] e.op = "read" /\ e.of = "banned" -> pauseActive
    [] e.op = "read" /\ e.of = "unbanned" -> resumePaused
    [] e.op = "read" /\ e.of = "resumed" -> ResumeSubscription("unban")
    [] e.op = "read" /\ e.of = "expired" ->
         IF ListExpired THEN deactivateOnNodes("expired") ELSE <<>>
    [] e.op = "read" /\ e.of = "exhausted" ->
         IF ListDataExhausted THEN deactivateOnNodes("traffic_exhausted") ELSE <<>>

\* An unban that finds the subscription expired leaves it without access or paused.
handsOver(e) == e.op = "read" /\ e.of \in {"unbanned", "resumed"} /\ IsExpired(sub)

Reads(c) ==
  LET e == Head(call[c]) IN
  /\ call[c] # <<>> /\ e.op \in {"read", "judge"}
  /\ call' = [call EXCEPT ![c] = Found(e) \o Tail(@)]
  /\ trouble' = (trouble \/ (Found(e) # <<>> /\ Busy(c)) \/ handsOver(e))
  /\ UNCHANGED <<sub, access, banned, now, pausedByBan, faults>>

Writes(c) ==
  LET e == Head(call[c]) IN
  /\ call[c] # <<>>
  /\ e.op \in {"status", "pause", "resume", "end", "extend", "limit", "used", "save"}
  /\ sub' = Written(e)
  /\ pausedByBan' = (sub'.status = "paused" /\
                     (pausedByBan \/ (sub.status = "active" /\ e.op = "pause" /\ e.reason = "ban")))
  /\ call' = [call EXCEPT ![c] = Tail(@)]
  /\ UNCHANGED <<access, banned, now, trouble, faults>>

Flips(c) ==
  LET e == Head(call[c]) IN
  /\ call[c] # <<>> /\ e.op = "access"
  /\ access' = [access EXCEPT ![e.artifact] = e.on]
  /\ call' = [call EXCEPT ![c] = Tail(@)]
  /\ UNCHANGED <<sub, banned, now, pausedByBan, trouble, faults>>

Bans(c) ==
  LET e == Head(call[c]) IN
  /\ call[c] # <<>> /\ e.op = "ban"
  /\ banned' = e.to
  /\ call' = [call EXCEPT ![c] = Tail(@)]
  /\ UNCHANGED <<sub, access, now, pausedByBan, trouble, faults>>

Steps(c) == Reads(c) \/ Writes(c) \/ Flips(c) \/ Bans(c)

\* Access that cannot be flipped is logged and the call goes on; a panel call whose other
\* write fails returns, the sweep goes on.
Fails(c) ==
  /\ call[c] # <<>> /\ faults < MaxFaults /\ faults' = faults + 1
  /\ call' = [call EXCEPT ![c] = IF Head(@).op = "access" \/ c = "sweep" THEN Tail(@) ELSE <<>>]
  /\ trouble' = TRUE
  /\ UNCHANGED <<sub, access, banned, now, pausedByBan>>

\* The hub dies and starts again.
HubDies ==
  /\ faults < MaxFaults /\ faults' = faults + 1
  /\ call' = [c \in All |-> <<>>]
  /\ trouble' = (trouble \/ \E c \in All : call[c] # <<>>)
  /\ UNCHANGED <<sub, access, banned, now, pausedByBan>>

TimePasses ==
  /\ now < MaxTime /\ now' = now + 1
  /\ UNCHANGED <<sub, access, banned, call, pausedByBan, trouble, faults>>

\* Traffic is counted, also for a while after the access is gone.
AddUsageDelta ==
  /\ sub.used < MaxUsed /\ sub' = [sub EXCEPT !.used = @ + 1]
  /\ UNCHANGED <<access, banned, now, call, pausedByBan, trouble, faults>>

Next ==
  \/ \E c \in Callers : Begin(c)
  \/ Sweep
  \/ \E c \in All : Steps(c) \/ Fails(c)
  \/ HubDies \/ TimePasses \/ AddUsageDelta

\* Calls go on, and the scheduler runs the sweep again and again.
Fairness ==
  /\ \A c \in All : WF_vars(Steps(c))
  /\ WF_vars(Sweep)

Spec == Init /\ [][Next]_vars

LiveSpec == Spec /\ Fairness

----------------------------------------------------------------------------

TypeOK ==
  /\ sub \in Rows
  /\ access \in [Artifacts -> BOOLEAN]
  /\ banned \in BOOLEAN /\ now \in 0..MaxTime /\ faults \in 0..MaxFaults
  /\ pausedByBan \in BOOLEAN /\ trouble \in BOOLEAN
  /\ call \in [All -> Seq(Effects)]

AtRest == \A c \in All : call[c] = <<>>

\* Whatever sequence of calls, sweeps, traffic and time, with nothing overlapping: a
\* subscription that is active lets the user in everywhere, one that is not lets the user
\* in nowhere ("revoke this subscription" means all of it, tunnel_access.go:20-30).
AccessFollowsStatus ==
  AtRest /\ ~trouble => \A a \in Artifacts : access[a] <=> (sub.status = "active")

\* A ban that was lifted leaves no subscription paused, also when an admin paused it once
\* more in between (subscription_repository.go:175-183).
BanIsUndone == AtRest /\ ~trouble /\ ~banned => ~pausedByBan

\* What an admin paused, only an admin's call lets go on: no unban, no sweep, no new limit
\* or date.
AdminPauseHolds ==
  [][sub.status = "paused" /\ sub.reason = "admin" /\ ~pausedByBan /\ ~trouble =>
       \/ sub'.status \in {"paused", "cancelled"}
       \/ \E c \in Callers : call[c] # <<>> /\ Head(call[c]) = Resume("admin")]_vars

\* A subscription does not stay active past its date or its data, whatever overlaps or
\* fails: the sweep comes again.
ExpiryIsEnforced ==
  sub.status = "active" /\ (IsExpired(sub) \/ IsDataExhausted(sub))
    ~> ~(sub.status = "active" /\ (IsExpired(sub) \/ IsDataExhausted(sub)))
====
