---- MODULE ProvisioningProofs ----
\* Theorems of the provisioning queue, for any inbounds, credentials, numbers of calls and
\* retries and sizes of a batch: in an orderly history (calls one after the other, the pass
\* not in between, nothing failed) the queue delivers what the accounts table says.
\*
\* QueueDelivers speaks of the moment when nothing is under way.  The invariant says who is
\* responsible for an inbound at every other moment: the last task of the call that is under
\* way (Delivers), or else the last row that is due, or else the task in the worker's hand,
\* or else the running Xray itself (Leaves).  For this to survive the worker's steps its
\* copies have to be the first rows of the queue (Fetched), and its place has to fit its
\* task (AtTask).  A push reads the row in the middle of a call: the row may differ from what
\* the call will leave only on the inbound of the newest task, which is then still to come
\* (RowFollows).
EXTENDS Provisioning, SequenceTheorems, TLAPS

\* Account calls made one after the other, nothing failed, the node is there and the
\* subscription grants access.
Orderly == trouble = Calm /\ faults = 0 /\ node = "active" /\ subscriber.granted

\* No account is parked in an orderly history.
OrderlyStatuses == Statuses \ {"pending_provision"}
OrderlyRows == {row \in Rows : row.status \in OrderlyStatuses}
RowOps == {"create", "save", "status", "inbound", "delete"}
TaskOps == {"add", "addNew", "remove"}

\* The effects of the calls on an account.
OrderlyEffects ==
  [op : {"create", "save"}, row : OrderlyRows]
  \cup [op : {"status"}, to : OrderlyStatuses]
  \cup [op : {"inbound", "remove"}, inbound : Inbounds]
  \cup [op : {"add", "addNew"}, inbound : Inbounds, cred : Creds]
  \cup [op : {"delete"}]

OrderlyTasks ==
  {t \in Tasks : (t.type = "REMOVE_USER") <=> (t.cred = None)}

\* The steps at which the worker has a task in hand.
InHand == {"act", "stale", "readd", "push", "pushing"}
acting == worker.pc \in InHand

DueRows == [task : OrderlyTasks, fetched : BOOLEAN]

OrderlyTypes ==
  /\ account \in OrderlyRows
  /\ due \in Seq(DueRows) /\ later = EmptyBag
  /\ worker \in [batch : Seq(OrderlyTasks), pc : {"idle", "next"} \cup InHand]
  /\ push.users \in Users
  /\ file \in Users /\ running \in Users
  /\ DOMAIN call = Callers

\* The worker's copies are of the first rows that are due, in their order; the row of the
\* task in hand has left the table.
Fetched ==
  LET n == IF acting THEN Len(worker.batch) - 1 ELSE Len(worker.batch)
      shift == IF acting THEN 1 ELSE 0
  IN  /\ (worker.pc = "idle") <=> (worker.batch = <<>>)
      /\ n <= Len(due)
      /\ \A j \in 1..n : due[j].task = worker.batch[j + shift]
      /\ worker.pc # "idle" => \A j \in DOMAIN due : due[j].fetched <=> j <= n

\* Where the worker stands says which task it has in hand.
AtTask ==
  /\ worker.pc \in {"stale", "readd"} => Task.type = "ADD_USER" /\ Task.inbound \in HotInbounds
  /\ worker.pc \in {"push", "pushing"} => Task.inbound \notin HotInbounds
  /\ worker.pc = "readd" => running[Task.inbound] = None

\* The rows for an inbound that wait.
waiting(i) == {j \in DOMAIN due : due[j].task.inbound = i}

\* What the tasks and the worker's push leave on an inbound: what the last task says, or
\* what is there already.
Leaves(i, user) ==
  /\ \A j \in waiting(i) : (\A m \in waiting(i) : m <= j) => due[j].task.cred = user
  /\ waiting(i) = {} =>
       IF acting /\ Task.inbound = i THEN Task.cred = user
       ELSE running[i] = user /\ (worker.pc = "pushing" => push.users[i] = user)

\* The users a row puts on the node.
usersOf(row) ==
  [i \in Inbounds |-> IF row.status = "active" /\ row.inbound = i THEN row.cred ELSE None]

\* The row as a call leaves it.
final(s) ==
  IF Len(s) >= 1 /\ s[1].op \in RowOps THEN Written(s[1])
  ELSE IF Len(s) >= 2 /\ s[2].op \in RowOps THEN Written(s[2])
  ELSE account

\* A call writes the row once: first, or at the end and after one task.
Formed(s) ==
  /\ s \in Seq(OrderlyEffects)
  /\ \A k \in DOMAIN s : s[k].op \in RowOps =>
       k = 1 \/ (k = 2 /\ Len(s) = 2 /\ s[1].op \in TaskOps)

tasksOn(s, i) == {k \in DOMAIN s : s[k].op \in TaskOps /\ s[k].inbound = i}

\* The tasks a call has still to queue, and those before them, leave what its row says.
Delivers(s) ==
  \A i \in HotInbounds :
    /\ \A k \in tasksOn(s, i) :
         (\A m \in tasksOn(s, i) : m <= k) => TaskFor(s[k]).cred = usersOf(final(s))[i]
    /\ tasksOn(s, i) = {} => Leaves(i, usersOf(final(s))[i])

\* The last task of all is for this inbound.
LastFor(i) ==
  IF due = <<>> THEN acting => Task.inbound = i ELSE due[Len(due)].task.inbound = i

\* A row that changes after its task was queued changes before any other task comes.
RowFollows(s) ==
  \A i \in HotInbounds :
    tasksOn(s, i) = {} /\ usersOf(final(s))[i] # ListActive[i] =>
      LastFor(i) /\ \A k \in DOMAIN s : s[k].op \notin TaskOps

\* An orderly call, or the deletion of the node.
CallKept(s) ==
  \/ s # <<>> /\ s[1].op = "uninstall"
  \/ Formed(s) /\ Delivers(s) /\ RowFollows(s)

OneCall == \A c, d \in Callers : call[c] # <<>> /\ call[d] # <<>> => c = d

CallsKept ==
  /\ OneCall
  /\ Calling = {} => Delivers(<<>>)
  /\ \A c \in Callers : call[c] # <<>> => CallKept(call[c])

\* In an orderly history the pass runs alone, and goes by the rows there are.
PassAlone ==
  tick # idleTick =>
    /\ tick = [pc |-> tick.pc, auth |-> tick.auth, left |-> tick.left] /\ tick.pc # "idle"
    /\ Calling = {} /\ ~Queued
    /\ IF tick.pc = "pushing" THEN push.users = ListActive ELSE tick.auth = ListActive
    /\ tick.pc = "ghost" => tick.auth[Head(tick.left)] = None

AllOrderly == OrderlyTypes /\ Fetched /\ AtTask /\ CallsKept /\ PassAlone

Counts ==
  /\ trouble \in Calm..Disordered /\ faults \in Nat
  /\ node \in {"active", "uninstalled", "deleted"}
  /\ faults = 0 => subscriber.granted

ProvInv == Counts /\ (Orderly => AllOrderly)

----------------------------------------------------------------------------
\* Disorder stays.

\* A step leaves the counts in their ranges and puts nothing in order again.
LEMMA CountsStep ==
  ASSUME Counts, [Next]_vars
  PROVE  Counts' /\ (Orderly' => Orderly)
<1> USE DEF Counts, Orderly, Calm, Mixed, Disordered, AtLeast
<1>1. ASSUME NEW c \in Callers, Begin(c) PROVE Counts' /\ (Orderly' => Orderly)
  BY <1>1 DEF Begin
<1>2. ASSUME NEW c \in Callers, CallSteps(c) PROVE Counts' /\ (Orderly' => Orderly)
  BY <1>2 DEF CallSteps, WriteRow, Enqueue, CancelTasksForNode, NodeGone
<1>3. ASSUME NEW c \in Callers, EnqueueFails(c) PROVE Counts' /\ (Orderly' => Orderly)
  BY <1>3 DEF EnqueueFails, Fault
<1>4. ASSUME WorkerSteps PROVE Counts' /\ (Orderly' => Orderly)
  <2>1. CASE processBatch \/ MarkProcessing \/ removeStaleUser
    BY <2>1 DEF processBatch, MarkProcessing, removeStaleUser
  <2>2. CASE NodeMissing
    BY <2>2 DEF NodeMissing, MarkSuccess, MarkFailed
  <2>3. CASE addUserToXray \/ addUserAgain \/ removeUserFromXray
    BY <2>3 DEF addUserToXray, addUserAgain, removeUserFromXray, MarkSuccess
  <2>4. CASE WorkerTakesApplyMu \/ WorkerPushes
    BY <2>4 DEF WorkerTakesApplyMu, WorkerPushes, MarkSuccess, MarkFailed
  <2> QED BY <1>4, <2>1, <2>2, <2>3, <2>4 DEF WorkerSteps
<1>5. ASSUME MarkProcessingFails \/ TaskFails \/ MarkFails PROVE Counts' /\ (Orderly' => Orderly)
  BY <1>5 DEF MarkProcessingFails, TaskFails, MarkFails, MarkFailed, Fault
<1>6. ASSUME NEW t, Due(t) PROVE Counts' /\ (Orderly' => Orderly)
  BY <1>6 DEF Due
<1>7. ASSUME TickSteps PROVE Counts' /\ (Orderly' => Orderly)
  BY <1>7 DEF TickSteps, TickUnchanged, TickTakesApplyMu, TickPushes, ListUsers, ReconcileUser
<1>8. ASSUME TickFails \/ XrayRestarts \/ SubscriptionEnds \/ HubDies
      PROVE Counts' /\ (Orderly' => Orderly)
  <2>1. CASE TickFails
    BY <2>1 DEF TickFails, Fault
  <2>2. CASE XrayRestarts
    BY <2>2 DEF XrayRestarts, Fault
  <2>3. CASE SubscriptionEnds
    BY <2>3 DEF SubscriptionEnds, Fault
  <2>4. CASE HubDies
    BY <2>4 DEF HubDies, Fault
  <2> QED BY <1>8, <2>1, <2>2, <2>3, <2>4
<1>9. ASSUME UNCHANGED vars PROVE Counts' /\ (Orderly' => Orderly)
  BY <1>9 DEF vars
<1> QED BY <1>1, <1>2, <1>3, <1>4, <1>5, <1>6, <1>7, <1>8, <1>9 DEF Next

\* What fails is no orderly step.
LEMMA FaultsDisorder ==
  ASSUME Counts, Orderly, Fault
  PROVE  ~ Orderly'
BY DEF Counts, Orderly, Fault

----------------------------------------------------------------------------
\* Sequences.

\* The rest of a sequence.
LEMMA Rest ==
  ASSUME NEW S, NEW s \in Seq(S), s # <<>>
  PROVE  /\ Head(s) = s[1] /\ s[1] \in S /\ Tail(s) \in Seq(S)
         /\ Len(s) \in Nat \ {0} /\ Len(Tail(s)) = Len(s) - 1
         /\ DOMAIN s = 1..Len(s) /\ DOMAIN Tail(s) = 1..Len(s) - 1
         /\ \A j \in 1..Len(s) - 1 : Tail(s)[j] = s[j + 1]
         /\ (Len(s) = 1) <=> (Tail(s) = <<>>)
<1>1. /\ Head(s) \in S /\ Tail(s) \in Seq(S)
      /\ Len(Tail(s)) = Len(s) - 1
      /\ \A i \in 1..Len(Tail(s)) : Tail(s)[i] = s[i + 1]
  BY HeadTailProperties
<1>2. Len(s) \in Nat \ {0} /\ DOMAIN s = 1..Len(s) /\ DOMAIN Tail(s) = 1..Len(Tail(s))
  BY <1>1, LenProperties, EmptySeq
<1>3. Head(s) = s[1]
  OBVIOUS
<1>4. (Len(Tail(s)) = 0) <=> (Tail(s) = <<>>)
  BY <1>1, EmptySeq
<1> QED BY <1>1, <1>2, <1>3, <1>4

\* A sequence with one more at its end.
LEMMA OneMore ==
  ASSUME NEW S, NEW s \in Seq(S), NEW e \in S
  PROVE  /\ Append(s, e) \in Seq(S) /\ Append(s, e) # <<>>
         /\ Len(s) \in Nat /\ Len(Append(s, e)) = Len(s) + 1
         /\ DOMAIN s = 1..Len(s) /\ DOMAIN Append(s, e) = 1..Len(s) + 1
         /\ \A j \in 1..Len(s) : Append(s, e)[j] = s[j]
         /\ Append(s, e)[Len(s) + 1] = e
BY AppendProperties, LenProperties

\* Without its first element a sequence is its rest.
LEMMA WithoutFirst ==
  ASSUME NEW S, NEW s \in Seq(S), s # <<>>
  PROVE  RemoveAt(s, 1) = Tail(s)
<1>1. SubSeq(s, 1, 0) = <<>>
  OBVIOUS
<1>2. Len(s) \in Nat
  BY LenProperties
<1> QED BY <1>1, <1>2 DEF RemoveAt

\* A function on the first numbers is a sequence.
LEMMA AsSequence ==
  ASSUME NEW S, NEW n \in Nat, NEW f \in [1..n -> S]
  PROVE  f \in Seq(S) /\ Len(f) = n /\ DOMAIN f = 1..n
OBVIOUS

\* What a sequence holds.
LEMMA Holds ==
  ASSUME NEW S, NEW s \in Seq(S)
  PROVE  Len(s) \in Nat /\ DOMAIN s = 1..Len(s) /\ \A j \in DOMAIN s : s[j] \in S
BY LenProperties, ElementOfSeq

----------------------------------------------------------------------------
\* What a call comes to depends on the row, the queue, the worker and the node.

\* The row at the end of a call.
LEMMA SameFinal ==
  ASSUME UNCHANGED account, NEW s
  PROVE  final(s)' = final(s)
BY DEF final, Written, Alive

\* Nobody of whom a call speaks has moved.
LEMMA SameLeaves ==
  ASSUME UNCHANGED <<due, worker, running>>, worker.pc = "pushing" => push' = push
  PROVE  /\ \A i, v : Leaves(i, v)' <=> Leaves(i, v)
         /\ \A i : LastFor(i)' <=> LastFor(i)
BY DEF Leaves, LastFor, waiting, acting, Task

\* A call is kept when the row is the same and every inbound is left as it was.
LEMMA StillKept ==
  ASSUME UNCHANGED account, NEW s, CallKept(s),
         \A i \in HotInbounds : \A v : Leaves(i, v) => Leaves(i, v)',
         \A i : LastFor(i) => LastFor(i)'
  PROVE  CallKept(s)'
<1>1. final(s)' = final(s) /\ ListActive' = ListActive
  BY SameFinal DEF ListActive
<1>2. ASSUME Formed(s), Delivers(s), RowFollows(s)
      PROVE  Formed(s)' /\ Delivers(s)' /\ RowFollows(s)'
  <2>1. Formed(s)'
    BY <1>2 DEF Formed
  <2>2. Delivers(s)'
    BY <1>1, <1>2 DEF Delivers
  <2>3. RowFollows(s)'
    BY <1>1, <1>2 DEF RowFollows
  <2> QED BY <2>1, <2>2, <2>3
<1> QED BY <1>2 DEF CallKept

\* The same of all calls.
LEMMA StillCalls ==
  ASSUME CallsKept, UNCHANGED <<account, call>>,
         \A i \in HotInbounds : \A v : Leaves(i, v) => Leaves(i, v)',
         \A i : LastFor(i) => LastFor(i)'
  PROVE  CallsKept'
<1>1. OneCall' /\ (Calling' = Calling)
  BY DEF CallsKept, OneCall, Calling
<1>2. ASSUME Calling = {} PROVE Delivers(<<>>)'
  <2>1. final(<<>>)' = final(<<>>)
    BY SameFinal
  <2>2. Delivers(<<>>)
    BY <1>2 DEF CallsKept
  <2> QED BY <2>1, <2>2 DEF Delivers
<1>3. ASSUME NEW c \in Callers, call'[c] # <<>> PROVE CallKept(call[c])'
  <2>1. CallKept(call[c]) /\ call' = call
    BY <1>3 DEF CallsKept
  <2> DEFINE s == call[c]
  <2>2. \A t : t = s => CallKept(t)'
    BY <2>1, StillKept
  <2> QED BY <2>1, <2>2 DEF CallKept, Formed, Delivers, RowFollows
<1> QED BY <1>1, <1>2, <1>3 DEF CallsKept

\* The worker is busy or a row waits: then the pass is not running.
LEMMA PassIdle ==
  ASSUME PassAlone, Queued \/ Calling # {}
  PROVE  tick = idleTick
BY DEF PassAlone

----------------------------------------------------------------------------
\* The worker.

\* Where the worker goes when a task is done.
LEMMA TaskDone ==
  ASSUME OrderlyTypes, Fetched, acting
  PROVE  /\ worker.batch # <<>> /\ Task \in OrderlyTasks
         /\ NextTask \in [batch : Seq(OrderlyTasks), pc : {"idle", "next"}]
         /\ NextTask.batch = Tail(worker.batch)
         /\ NextTask.pc = IF Tail(worker.batch) = <<>> THEN "idle" ELSE "next"
<1>1. worker.batch \in Seq(OrderlyTasks) /\ worker.batch # <<>>
  BY DEF OrderlyTypes, Fetched, acting, InHand
<1>2. /\ worker.batch[1] \in OrderlyTasks /\ Tail(worker.batch) \in Seq(OrderlyTasks)
      /\ (Len(worker.batch) = 1) <=> (Tail(worker.batch) = <<>>)
  BY <1>1, Rest
<1> QED BY <1>1, <1>2 DEF Task, NextTask

\* The queue and the worker's copies agree once it goes on.
LEMMA FetchedOn ==
  ASSUME OrderlyTypes, Fetched, acting, worker' = NextTask, UNCHANGED due
  PROVE  Fetched' /\ ~ acting'
<1>1. /\ worker.batch # <<>> /\ worker'.batch = Tail(worker.batch)
      /\ worker'.pc = IF Tail(worker.batch) = <<>> THEN "idle" ELSE "next"
      /\ worker.batch \in Seq(OrderlyTasks)
  BY TaskDone DEF OrderlyTypes
<1>2. /\ Len(worker.batch) \in Nat \ {0} /\ Len(Tail(worker.batch)) = Len(worker.batch) - 1
      /\ \A j \in 1..Len(worker.batch) - 1 : Tail(worker.batch)[j] = worker.batch[j + 1]
  BY <1>1, Rest
<1>3. ~ acting'
  BY <1>1 DEF acting, InHand
<1>4. worker.pc # "idle"
  BY DEF acting, InHand
<1> QED BY <1>1, <1>2, <1>3, <1>4 DEF Fetched

\* A worker that stays with its task keeps its copies.
LEMMA FetchedStays ==
  ASSUME OrderlyTypes, Fetched, acting, NEW pc \in InHand, GoTo(pc), UNCHANGED due
  PROVE  /\ Fetched' /\ acting' /\ Task' = Task
         /\ worker' \in [batch : Seq(OrderlyTasks), pc : InHand]
         /\ worker'.pc = pc
<1>1. worker' = [worker EXCEPT !.pc = pc]
  BY DEF GoTo
<1>2. worker'.batch = worker.batch /\ worker'.pc = pc /\ pc # "idle" /\ worker.pc # "idle"
  BY <1>1 DEF OrderlyTypes, acting, InHand
<1>3. acting'
  BY <1>2 DEF acting
<1> QED BY <1>1, <1>2, <1>3 DEF Fetched, OrderlyTypes, Task

\* A step of a worker that has a task in hand, and goes on to the next or stays with it:
\* everything but the calls.
LEMMA WorkerKeeps ==
  ASSUME AllOrderly, acting, UNCHANGED <<account, due, later, call, tick>>,
         \/ worker' = NextTask
         \/ \E pc \in InHand : GoTo(pc),
         push'.users \in Users, file' \in Users, running' \in Users
  PROVE  OrderlyTypes' /\ Fetched' /\ PassAlone'
<1>1. OrderlyTypes /\ Fetched /\ PassAlone
  BY DEF AllOrderly
<1>2. Fetched' /\ worker' \in [batch : Seq(OrderlyTasks), pc : {"idle", "next"} \cup InHand]
  <2>1. CASE worker' = NextTask
    BY <1>1, <2>1, FetchedOn, TaskDone
  <2>2. CASE \E pc \in InHand : GoTo(pc)
    BY <1>1, <2>2, FetchedStays
  <2> QED BY <2>1, <2>2
<1>3. tick' = idleTick /\ idleTick' = idleTick
  <2>1. worker # idleWorker
    BY DEF acting, InHand, idleWorker
  <2> QED BY <1>1, <2>1, PassIdle DEF Queued, idleTick, NoUsers
<1> QED BY <1>1, <1>2, <1>3 DEF OrderlyTypes, PassAlone

\* A task whose work is done leaves its user where it said.
LEMMA DoneLeaves ==
  ASSUME OrderlyTypes, Fetched, acting, worker' = NextTask, UNCHANGED due,
         NEW i \in HotInbounds, NEW v, Leaves(i, v),
         Task.inbound = i => running'[i] = Task.cred,
         Task.inbound # i /\ running[i] = v /\ (worker.pc = "pushing" => push.users[i] = v) =>
           running'[i] = v
  PROVE  Leaves(i, v)'
<1>1. ~ acting' /\ worker'.pc # "pushing"
  BY FetchedOn DEF acting, InHand
<1>2. waiting(i)' = waiting(i)
  BY DEF waiting
<1> QED BY <1>1, <1>2 DEF Leaves

\* The last task of all is still that.
LEMMA DoneLast ==
  ASSUME OrderlyTypes, Fetched, acting, worker' = NextTask, UNCHANGED due
  PROVE  \A i : LastFor(i) => LastFor(i)'
BY FetchedOn DEF LastFor

\* A task in hand is not done yet.
LEMMA StaysLeaves ==
  ASSUME OrderlyTypes, Fetched, acting, NEW pc \in InHand, GoTo(pc), UNCHANGED due,
         NEW i \in HotInbounds, NEW v, Leaves(i, v),
         Task.inbound # i => running'[i] = running[i],
         pc = "pushing" => worker.pc = "pushing" /\ push' = push
  PROVE  Leaves(i, v)'
<1>1. acting' /\ Task' = Task /\ worker'.pc = pc
  BY FetchedStays
<1>2. waiting(i)' = waiting(i)
  BY DEF waiting
<1> QED BY <1>1, <1>2 DEF Leaves

\* And is still in hand.
LEMMA StaysLast ==
  ASSUME OrderlyTypes, Fetched, acting, NEW pc \in InHand, GoTo(pc), UNCHANGED due
  PROVE  \A i : LastFor(i) => LastFor(i)'
BY FetchedStays DEF LastFor

\* What the calls of the agent make of the running users.
LEMMA AgentCalls ==
  ASSUME OrderlyTypes, NEW i \in Inbounds, NEW k \in Creds \cup {None}
  PROVE  /\ Added(i, k) \in Users /\ Removed(i) \in Users
         /\ \A j \in Inbounds \ {i} : Added(i, k)[j] = running[j] /\ Removed(i)[j] = running[j]
         /\ Removed(i)[i] = None
         /\ Added(i, k)[i] = IF running[i] = None THEN k ELSE running[i]
BY DEF OrderlyTypes, Added, Removed, Users

\* The worker is done with its task.
LEMMA Finishes ==
  ASSUME AllOrderly, acting, worker' = NextTask, UNCHANGED <<account, due, later, call, tick>>,
         push'.users \in Users, file' \in Users, running' \in Users,
         \A i \in HotInbounds :
           /\ Task.inbound = i => running'[i] = Task.cred
           /\ Task.inbound # i /\ worker.pc # "pushing" => running'[i] = running[i]
           /\ Task.inbound # i /\ worker.pc = "pushing" => running'[i] \in {running[i], push.users[i]}
  PROVE  AllOrderly'
<1>1. OrderlyTypes /\ Fetched /\ CallsKept
  BY DEF AllOrderly
<1>2. OrderlyTypes' /\ Fetched' /\ PassAlone'
  BY WorkerKeeps
<1>3. ~ acting'
  BY <1>1, FetchedOn
<1>4. AtTask'
  BY <1>3 DEF AtTask, acting, InHand
<1>5. ASSUME NEW i \in HotInbounds, NEW v, Leaves(i, v) PROVE Leaves(i, v)'
  <2>1. Task.inbound # i /\ running[i] = v /\ (worker.pc = "pushing" => push.users[i] = v) =>
          running'[i] = v
    OBVIOUS
  <2>2. Task.inbound = i => running'[i] = Task.cred
    OBVIOUS
  <2> QED BY <1>1, <1>5, <2>1, <2>2, DoneLeaves
<1>6. \A i : LastFor(i) => LastFor(i)'
  BY <1>1, DoneLast
<1>7. CallsKept'
  BY <1>1, <1>5, <1>6, StillCalls
<1> QED BY <1>2, <1>4, <1>7 DEF AllOrderly

\* The worker goes on with its task.
LEMMA Continues ==
  ASSUME AllOrderly, acting, NEW pc \in InHand, GoTo(pc), pc # "pushing",
         UNCHANGED <<account, due, later, call, tick>>,
         push'.users \in Users, file' \in Users, running' \in Users,
         \A i \in HotInbounds : Task.inbound # i => running'[i] = running[i],
         AtTask'
  PROVE  AllOrderly'
<1>1. OrderlyTypes /\ Fetched /\ CallsKept
  BY DEF AllOrderly
<1>2. OrderlyTypes' /\ Fetched' /\ PassAlone'
  BY WorkerKeeps
<1>3. ASSUME NEW i \in HotInbounds, NEW v, Leaves(i, v) PROVE Leaves(i, v)'
  BY <1>1, <1>3, StaysLeaves
<1>4. \A i : LastFor(i) => LastFor(i)'
  BY <1>1, StaysLast
<1>5. CallsKept'
  BY <1>1, <1>3, <1>4, StillCalls
<1> QED BY <1>2, <1>5 DEF AllOrderly

\* The task in hand, and the running users after the next call to the agent.
LEMMA InHandTask ==
  ASSUME AllOrderly, acting
  PROVE  /\ Task \in Tasks /\ Task.inbound \in Inbounds /\ Task.cred \in Creds \cup {None}
         /\ (Task.type = "REMOVE_USER") <=> (Task.cred = None)
         /\ Task.type \in {"ADD_USER", "REMOVE_USER"}
         /\ Called \in Users
         /\ \A i \in Inbounds \ {Task.inbound} : Called[i] = running[i]
<1>1. OrderlyTypes /\ Fetched
  BY DEF AllOrderly
<1>2. Task \in OrderlyTasks
  BY <1>1, TaskDone
<1>3. /\ Task \in Tasks /\ Task.inbound \in Inbounds /\ Task.cred \in Creds \cup {None}
      /\ (Task.type = "REMOVE_USER") <=> (Task.cred = None)
      /\ Task.type \in {"ADD_USER", "REMOVE_USER"}
  BY <1>2 DEF OrderlyTasks, Tasks
<1>4. /\ Added(Task.inbound, Task.cred) \in Users /\ Removed(Task.inbound) \in Users
      /\ \A j \in Inbounds \ {Task.inbound} :
           Added(Task.inbound, Task.cred)[j] = running[j] /\ Removed(Task.inbound)[j] = running[j]
  BY <1>1, <1>3, AgentCalls
<1>5. Called \in Users
  BY <1>1, <1>4 DEF Called, OrderlyTypes
<1>6. \A i \in Inbounds \ {Task.inbound} : Called[i] = running[i]
  BY <1>4 DEF Called
<1> QED BY <1>3, <1>5, <1>6

\* The inbounds the agent adds users to by API are among the node's.
LEMMA HotAreInbounds == HotInbounds \subseteq Inbounds
BY ProvisioningBounds

\* addUserToXray: the user is added, or is there already, or the protocol cannot.
LEMMA AddHolds ==
  ASSUME AllOrderly, addUserToXray
  PROVE  AllOrderly'
<1> USE HotAreInbounds
<1>1. /\ acting /\ worker.pc = "act" /\ Task.type = "ADD_USER" /\ running' = Called
      /\ UNCHANGED <<account, due, later, call, tick, file, push>>
  BY DEF addUserToXray, acting, InHand, MarkSuccess
<1>2. /\ Task.inbound \in Inbounds /\ Task.cred \in Creds /\ Called \in Users
      /\ \A i \in Inbounds \ {Task.inbound} : Called[i] = running[i]
  BY <1>1, InHandTask
<1>3. OrderlyTypes /\ Fetched
  BY DEF AllOrderly
<1>4. push'.users \in Users /\ file' \in Users /\ running' \in Users
  BY <1>1, <1>2, <1>3 DEF OrderlyTypes
<1>5. Task.inbound \in HotInbounds =>
        Called[Task.inbound] = IF running[Task.inbound] = None THEN Task.cred ELSE running[Task.inbound]
  BY <1>1, <1>2, <1>3, AgentCalls DEF Called
<1>6. CASE Task.inbound \in HotInbounds /\ ~ mustReplace
  <2>1. worker' = NextTask
    BY <1>6 DEF addUserToXray, MarkSuccess
  <2>2. running'[Task.inbound] = Task.cred
    BY <1>1, <1>5, <1>6 DEF mustReplace
  <2> QED BY <1>1, <1>2, <1>4, <2>1, <2>2, Finishes
<1>7. CASE Task.inbound \in HotInbounds /\ mustReplace
  <2>1. GoTo("stale") /\ "stale" \in InHand
    BY <1>7 DEF addUserToXray, InHand
  <2>2. Task' = Task /\ worker'.pc = "stale"
    BY <1>1, <1>3, <2>1, FetchedStays
  <2>3. AtTask'
    BY <1>1, <1>7, <2>2 DEF AtTask
  <2> QED BY <1>1, <1>2, <1>4, <2>1, <2>3, Continues
<1>8. CASE Task.inbound \notin HotInbounds
  <2>1. GoTo("push") /\ "push" \in InHand
    BY <1>8 DEF addUserToXray, InHand
  <2>2. Task' = Task /\ worker'.pc = "push"
    BY <1>1, <1>3, <2>1, FetchedStays
  <2>3. AtTask'
    BY <1>8, <2>2 DEF AtTask
  <2> QED BY <1>1, <1>2, <1>4, <2>1, <2>3, Continues
<1> QED BY <1>6, <1>7, <1>8

\* removeStaleUser: the user is gone, the task is still to do.
LEMMA RemoveStaleHolds ==
  ASSUME AllOrderly, removeStaleUser
  PROVE  AllOrderly'
<1> USE HotAreInbounds
<1>1. /\ acting /\ worker.pc = "stale" /\ running' = Called
      /\ GoTo("readd") /\ "readd" \in InHand
      /\ UNCHANGED <<account, due, later, call, tick, file, push>>
  BY DEF removeStaleUser, acting, InHand
<1>2. /\ Task.inbound \in Inbounds /\ Called \in Users
      /\ \A i \in Inbounds \ {Task.inbound} : Called[i] = running[i]
  BY <1>1, InHandTask
<1>3. OrderlyTypes /\ Fetched /\ AtTask
  BY DEF AllOrderly
<1>4. push'.users \in Users /\ file' \in Users /\ running' \in Users
  BY <1>1, <1>2, <1>3 DEF OrderlyTypes
<1>5. running'[Task.inbound] = None
  BY <1>1, <1>2, <1>3, AgentCalls DEF Called
<1>6. Task' = Task /\ worker'.pc = "readd"
  BY <1>1, <1>3, FetchedStays
<1>7. AtTask'
  BY <1>1, <1>3, <1>5, <1>6 DEF AtTask
<1> QED BY <1>1, <1>2, <1>4, <1>7, Continues

\* addUserAgain: nobody has added the user in between.
LEMMA AddAgainHolds ==
  ASSUME AllOrderly, addUserAgain
  PROVE  AllOrderly'
<1> USE HotAreInbounds
<1>1. /\ acting /\ worker.pc = "readd" /\ running' = Called /\ worker' = NextTask
      /\ UNCHANGED <<account, due, later, call, tick, file, push>>
  BY DEF addUserAgain, acting, InHand, MarkSuccess
<1>2. /\ Task.inbound \in Inbounds /\ Called \in Users /\ Task.cred \in Creds \cup {None}
      /\ \A i \in Inbounds \ {Task.inbound} : Called[i] = running[i]
  BY <1>1, InHandTask
<1>3. OrderlyTypes /\ AtTask
  BY DEF AllOrderly
<1>4. push'.users \in Users /\ file' \in Users /\ running' \in Users
  BY <1>1, <1>2, <1>3 DEF OrderlyTypes
<1>5. Task.type = "ADD_USER" /\ Task.inbound \in HotInbounds /\ running[Task.inbound] = None
  BY <1>1, <1>3 DEF AtTask
<1>6. running'[Task.inbound] = Task.cred
  BY <1>1, <1>2, <1>3, <1>5, AgentCalls DEF Called
<1> QED BY <1>1, <1>2, <1>4, <1>6, Finishes

\* removeUserFromXray: the user is gone.
LEMMA RemoveHolds ==
  ASSUME AllOrderly, removeUserFromXray
  PROVE  AllOrderly'
<1> USE HotAreInbounds
<1>1. /\ acting /\ worker.pc = "act" /\ Task.type = "REMOVE_USER" /\ running' = Called
      /\ worker' = NextTask /\ UNCHANGED <<account, due, later, call, tick, file, push>>
  BY DEF removeUserFromXray, acting, InHand, MarkSuccess
<1>2. /\ Task.inbound \in Inbounds /\ Called \in Users /\ Task.cred = None
      /\ \A i \in Inbounds \ {Task.inbound} : Called[i] = running[i]
  BY <1>1, InHandTask
<1>3. OrderlyTypes
  BY DEF AllOrderly
<1>4. push'.users \in Users /\ file' \in Users /\ running' \in Users
  BY <1>1, <1>2, <1>3 DEF OrderlyTypes
<1>5. running'[Task.inbound] = Task.cred
  BY <1>1, <1>2, <1>3, AgentCalls DEF Called
<1> QED BY <1>1, <1>2, <1>4, <1>5, Finishes

\* The users of an account's row are users of the node.
LEMMA UsersTyped ==
  ASSUME NEW row \in Rows
  PROVE  usersOf(row) \in Users
BY DEF usersOf, Users, Rows

\* ListActive goes by the account's row.
LEMMA ActiveUsers == ListActive = usersOf(account)
BY DEF ListActive, usersOf

\* A push and the pass go by the same accounts in an orderly history.
LEMMA PushedUsers ==
  ASSUME Orderly
  PROVE  nodeUsers = ListActive
BY DEF Orderly, nodeUsers

\* With no call to come the row is what it is.
LEMMA FinalEmpty == final(<<>>) = account
BY DEF final

\* No tasks in an empty call.
LEMMA NoTasks ==
  ASSUME NEW i
  PROVE  tasksOn(<<>>, i) = {}
BY DEF tasksOn

\* The worker reads the accounts for its push: on an inbound no task is to change any
\* more, the row as it is now says what the call will leave.
LEMMA WorkerTakesHolds ==
  ASSUME Orderly, AllOrderly, WorkerTakesApplyMu
  PROVE  AllOrderly'
<1> USE HotAreInbounds
<1>1. /\ acting /\ worker.pc = "push"
      /\ UNCHANGED <<account, due, later, call, tick, file, running>>
  BY DEF WorkerTakesApplyMu, acting, InHand, MarkSuccess
<1>2. OrderlyTypes /\ Fetched /\ AtTask /\ CallsKept
  BY DEF AllOrderly
<1>3. Task.inbound \notin HotInbounds
  BY <1>1, <1>2 DEF AtTask
<1>4. file' \in Users /\ running' \in Users
  BY <1>1, <1>2 DEF OrderlyTypes
<1>5. CASE worker' = NextTask /\ push' = push
  <2>1. push'.users \in Users
    BY <1>2, <1>5 DEF OrderlyTypes
  <2> QED BY <1>1, <1>3, <1>4, <1>5, <2>1, Finishes
<1>6. CASE TakeApplyMu("worker") /\ GoTo("pushing")
  <2>1. push'.users = ListActive
    BY <1>6, PushedUsers DEF TakeApplyMu
  <2>2. push'.users \in Users
    BY <1>2, <2>1, UsersTyped, ActiveUsers DEF OrderlyTypes, OrderlyRows
  <2>3. "pushing" \in InHand /\ acting' /\ Task' = Task /\ worker'.pc = "pushing"
    BY <1>1, <1>2, <1>6, FetchedStays DEF InHand
  <2>4. OrderlyTypes' /\ Fetched' /\ PassAlone'
    BY <1>1, <1>4, <1>6, <2>2, <2>3, WorkerKeeps
  <2>5. AtTask'
    BY <1>3, <2>3 DEF AtTask
  <2>6. \A i : LastFor(i) => LastFor(i)'
    BY <1>1, <1>2, <1>6, <2>3, StaysLast
  <2>7. ASSUME NEW i \in HotInbounds, NEW v, Leaves(i, v), v # ListActive[i] => LastFor(i)
        PROVE  Leaves(i, v)'
    <3>1. waiting(i)' = waiting(i)
      BY <1>1 DEF waiting
    <3>2. waiting(i) = {} => v = ListActive[i]
      <4>1. LastFor(i) => waiting(i) # {}
        <5>1. due \in Seq(DueRows)
          BY <1>2 DEF OrderlyTypes
        <5>2. due # <<>> => Len(due) \in DOMAIN due
          BY <5>1, Rest
        <5> QED BY <1>1, <1>3, <5>2 DEF LastFor, waiting
      <4> QED BY <2>7, <4>1
    <3>3. waiting(i) = {} => running[i] = v
      BY <1>3, <2>7 DEF Leaves
    <3> QED BY <1>1, <1>3, <2>1, <2>3, <2>7, <3>1, <3>2, <3>3 DEF Leaves
  <2>8. ASSUME NEW s, Formed(s), Delivers(s), RowFollows(s)
        PROVE  Formed(s)' /\ Delivers(s)' /\ RowFollows(s)'
    <3>1. final(s)' = final(s) /\ ListActive' = ListActive
      BY <1>1, SameFinal DEF ListActive
    <3>2. Delivers(s)'
      <4>1. ASSUME NEW i \in HotInbounds, tasksOn(s, i) = {}
            PROVE  Leaves(i, usersOf(final(s))[i])'
        <5>1. /\ Leaves(i, usersOf(final(s))[i])
              /\ usersOf(final(s))[i] # ListActive[i] => LastFor(i)
          BY <2>8, <4>1 DEF Delivers, RowFollows
        <5>2. \A v : v = usersOf(final(s))[i] => Leaves(i, v)'
          BY <2>7, <5>1
        <5> QED BY <3>1, <5>2 DEF Leaves
      <4> QED BY <2>8, <3>1, <4>1 DEF Delivers
    <3>3. RowFollows(s)'
      BY <2>6, <2>8, <3>1 DEF RowFollows
    <3> QED BY <2>8, <3>2, <3>3 DEF Formed
  <2>9. ASSUME Calling = {} PROVE Delivers(<<>>)'
    <3>1. Delivers(<<>>) /\ Formed(<<>>) /\ RowFollows(<<>>)
      <4>1. Formed(<<>>) /\ RowFollows(<<>>)
        BY FinalEmpty, ActiveUsers DEF Formed, RowFollows
      <4> QED BY <1>2, <2>9, <4>1 DEF CallsKept
    <3> QED BY <2>8, <3>1
  <2>10. ASSUME NEW c \in Callers, call[c] # <<>> PROVE CallKept(call[c])'
    <3>1. CallKept(call[c]) /\ call' = call
      BY <1>1, <1>2, <2>10 DEF CallsKept
    <3>2. \A t : t = call[c] => CallKept(t)'
      BY <2>8, <3>1 DEF CallKept
    <3> QED BY <3>1, <3>2 DEF CallKept, Formed, Delivers, RowFollows
  <2>11. CallsKept'
    BY <1>1, <1>2, <2>9, <2>10 DEF CallsKept, OneCall, Calling
  <2> QED BY <2>4, <2>5, <2>11 DEF AllOrderly
<1> QED BY <1>5, <1>6 DEF WorkerTakesApplyMu, MarkSuccess

\* A push leaves the users it was given, or on an inbound those who are there.
LEMMA Pushed ==
  ASSUME NEW users \in Users, PushConfig(users), running \in Users
  PROVE  /\ file' \in Users /\ running' \in Users
         /\ \A i \in Inbounds : running'[i] \in {running[i], users[i]}
<1>1. Applied(users, users) \in Users
      /\ \A i \in Inbounds : Applied(users, users)[i] \in {running[i], users[i]}
  BY DEF Applied, Users
<1> QED BY <1>1 DEF PushConfig

\* A push that nobody makes.
LEMMA IdlePushTyped == idlePush.users \in Users
BY DEF idlePush, NoUsers, Users

\* The worker's push.
LEMMA WorkerPushesHolds ==
  ASSUME AllOrderly, node = "active", WorkerPushes
  PROVE  AllOrderly'
<1> USE HotAreInbounds
<1>1. /\ acting /\ worker.pc = "pushing" /\ PushConfig(push.users) /\ worker' = NextTask
      /\ push' = idlePush /\ UNCHANGED <<account, due, later, call, tick>>
  BY DEF WorkerPushes, acting, InHand, MarkSuccess, AgentUp
<1>2. OrderlyTypes /\ AtTask
  BY DEF AllOrderly
<1>3. Task.inbound \notin HotInbounds
  BY <1>1, <1>2 DEF AtTask
<1>4. /\ file' \in Users /\ running' \in Users
      /\ \A i \in Inbounds : running'[i] \in {running[i], push.users[i]}
  BY <1>1, <1>2, Pushed DEF OrderlyTypes
<1>5. push'.users \in Users
  BY <1>1, IdlePushTyped
<1> QED BY <1>1, <1>3, <1>4, <1>5, Finishes

\* The worker takes copies of the rows that are due.
LEMMA BatchHolds ==
  ASSUME AllOrderly, processBatch
  PROVE  AllOrderly'
<1> DEFINE n == batchLen
<1>1. OrderlyTypes /\ Fetched /\ CallsKept /\ PassAlone
  BY DEF AllOrderly
<1>2. /\ worker.pc = "idle" /\ due # <<>>
      /\ worker' = [batch |-> [j \in 1..n |-> due[FetchPending[j]].task], pc |-> "next"]
      /\ due' = [j \in DOMAIN due |->
                  [due[j] EXCEPT !.fetched = \E m \in 1..n : FetchPending[m] = j]]
      /\ UNCHANGED <<account, later, call, push, tick, file, running>>
  BY DEF processBatch
<1>3. due \in Seq(DueRows)
  BY <1>1 DEF OrderlyTypes
<1>4. Len(due) \in Nat \ {0} /\ DOMAIN due = 1..Len(due)
  BY <1>2, <1>3, Rest
<1>5. n \in Nat \ {0} /\ n <= Len(due) /\ 1..n \subseteq DOMAIN due
  BY <1>4, ProvisioningBounds DEF batchLen
<1> HIDE DEF n
<1>6. FetchPending = [j \in 1..n |-> j]
  BY DEF FetchPending, n
<1>7. worker' = [batch |-> [j \in 1..n |-> due[j].task], pc |-> "next"]
  BY <1>2, <1>6
<1>8. \A j \in DOMAIN due : (\E m \in 1..n : FetchPending[m] = j) <=> j <= n
  BY <1>4, <1>5, <1>6
<1>9. \A j \in DOMAIN due : due[j] \in DueRows
  BY <1>3, Holds
<1>10. \A j \in DOMAIN due : due'[j].task = due[j].task /\ due'[j] \in DueRows
                             /\ (due'[j].fetched <=> j <= n)
  BY <1>2, <1>8, <1>9 DEF DueRows
<1>11. DOMAIN due' = 1..Len(due) /\ Len(due') = Len(due) /\ due' \in Seq(DueRows) /\ due' # <<>>
  <2>1. due' \in [1..Len(due) -> DueRows]
    BY <1>2, <1>4, <1>10
  <2>2. due' \in Seq(DueRows) /\ Len(due') = Len(due) /\ DOMAIN due' = 1..Len(due)
    BY <1>4, <2>1, AsSequence
  <2> QED BY <1>4, <2>2
<1>12. worker'.batch \in Seq(OrderlyTasks) /\ Len(worker'.batch) = n /\ worker'.pc = "next"
       /\ worker'.batch # <<>> /\ \A j \in 1..n : worker'.batch[j] = due[j].task
  <2>1. [j \in 1..n |-> due[j].task] \in [1..n -> OrderlyTasks]
    BY <1>5, <1>9 DEF DueRows
  <2>2. worker'.batch = [j \in 1..n |-> due[j].task] /\ worker'.pc = "next"
    BY <1>7
  <2>3. worker'.batch \in Seq(OrderlyTasks) /\ Len(worker'.batch) = n
    BY <1>5, <2>1, <2>2, AsSequence
  <2> QED BY <1>5, <2>2, <2>3
<1>13. OrderlyTypes'
  BY <1>1, <1>2, <1>7, <1>11, <1>12 DEF OrderlyTypes
<1>14. ~ acting /\ ~ acting' /\ worker'.pc \notin {"idle", "pushing"}
  BY <1>2, <1>7 DEF acting, InHand
<1>15. Fetched'
  <2>1. \A j \in 1..n : due'[j].task = worker'.batch[j + 0]
    BY <1>5, <1>10, <1>12
  <2>2. \A j \in DOMAIN due' : due'[j].fetched <=> j <= n
    BY <1>4, <1>10, <1>11
  <2> QED BY <1>5, <1>11, <1>12, <1>14, <2>1, <2>2 DEF Fetched
<1>16. AtTask'
  BY <1>12 DEF AtTask
<1>17. \A i : waiting(i)' = waiting(i)
  BY <1>4, <1>10, <1>11 DEF waiting
<1>18. ASSUME NEW i, NEW v, Leaves(i, v) PROVE Leaves(i, v)'
  <2>1. waiting(i)' = waiting(i) /\ waiting(i) \subseteq DOMAIN due
    BY <1>17 DEF waiting
  <2>2. \A j \in waiting(i) : due'[j].task = due[j].task
    BY <1>10, <2>1
  <2> QED BY <1>2, <1>14, <1>18, <2>1, <2>2 DEF Leaves
<1>19. ASSUME NEW i, LastFor(i) PROVE LastFor(i)'
  BY <1>2, <1>4, <1>10, <1>11, <1>19 DEF LastFor
<1>20. CallsKept'
  BY <1>1, <1>2, <1>18, <1>19, StillCalls
<1>21. PassAlone'
  BY <1>1, <1>2, PassIdle DEF Queued, PassAlone, idleTick, NoUsers
<1> QED BY <1>13, <1>15, <1>16, <1>20, <1>21 DEF AllOrderly

\* The row of the worker's next task is the first that is due.
LEMMA FirstFetched ==
  ASSUME OrderlyTypes, Fetched, worker.pc = "next"
  PROVE  /\ due # <<>> /\ FetchedRows # {} /\ Min(FetchedRows) = 1
         /\ due[1].task = Task
<1>1. ~ acting /\ worker.batch \in Seq(OrderlyTasks) /\ worker.batch # <<>>
      /\ due \in Seq(DueRows)
  BY DEF OrderlyTypes, Fetched, acting, InHand
<1>2. Len(worker.batch) \in Nat \ {0}
  BY <1>1, Rest
<1>3. /\ Len(worker.batch) <= Len(due)
      /\ \A j \in 1..Len(worker.batch) : due[j].task = worker.batch[j + 0]
      /\ \A j \in DOMAIN due : due[j].fetched <=> j <= Len(worker.batch)
  BY <1>1 DEF Fetched
<1>4. due # <<>> /\ Len(due) \in Nat \ {0} /\ DOMAIN due = 1..Len(due)
  <2>1. Len(due) \in Nat /\ Len(due) # 0
    BY <1>1, <1>2, <1>3, LenProperties
  <2>2. due # <<>>
    BY <2>1
  <2> QED BY <1>1, <2>2, Rest
<1>5. due[1].fetched /\ due[1].task = Task
  BY <1>2, <1>3, <1>4 DEF Task
<1>6. 1 \in FetchedRows /\ FetchedRows \subseteq Nat \ {0}
  BY <1>4, <1>5 DEF FetchedRows
<1>7. Min(FetchedRows) \in FetchedRows /\ \A y \in FetchedRows : Min(FetchedRows) <= y
  <2>1. \E x \in FetchedRows : \A y \in FetchedRows : x =< y
    BY <1>6
  <2> QED BY <2>1 DEF Min
<1>8. Min(FetchedRows) = 1
  <2>1. \A x \in Nat \ {0} : x <= 1 => x = 1
    OBVIOUS
  <2>2. Min(FetchedRows) \in Nat \ {0} /\ Min(FetchedRows) <= 1
    BY <1>6, <1>7
  <2> QED BY <2>1, <2>2
<1> QED BY <1>4, <1>5, <1>6, <1>8

\* The next task is taken in hand, and its row leaves the table.
LEMMA MarkHolds ==
  ASSUME AllOrderly, MarkProcessing
  PROVE  AllOrderly'
<1>1. OrderlyTypes /\ Fetched /\ CallsKept /\ PassAlone
  BY DEF AllOrderly
<1>2. /\ worker.pc = "next" /\ GoTo("act")
      /\ UNCHANGED <<account, later, call, push, tick, file, running>>
  BY DEF MarkProcessing
<1>3. due # <<>> /\ FetchedRows # {} /\ Min(FetchedRows) = 1 /\ due[1].task = Task
  BY <1>1, <1>2, FirstFetched
<1>4. due \in Seq(DueRows)
  BY <1>1 DEF OrderlyTypes
<1>5. due' = Tail(due)
  BY <1>3, <1>4, WithoutFirst DEF MarkProcessing
<1>6. /\ due' \in Seq(DueRows) /\ Len(due) \in Nat \ {0} /\ Len(due') = Len(due) - 1
      /\ DOMAIN due = 1..Len(due) /\ DOMAIN due' = 1..Len(due) - 1
      /\ \A j \in 1..Len(due) - 1 : due'[j] = due[j + 1]
      /\ (Len(due) = 1) <=> (due' = <<>>)
  BY <1>3, <1>4, <1>5, Rest
<1>7. worker' = [worker EXCEPT !.pc = "act"]
  BY <1>2 DEF GoTo
<1>8. worker'.pc = "act" /\ worker'.batch = worker.batch /\ Task' = Task
  BY <1>1, <1>7 DEF OrderlyTypes, Task
<1>9. ~ acting /\ acting'
  BY <1>2, <1>8 DEF acting, InHand
<1>10. OrderlyTypes'
  BY <1>1, <1>2, <1>6, <1>7 DEF OrderlyTypes, InHand
<1>11. worker.batch # <<>> /\ Len(worker.batch) \in Nat \ {0}
  <2>1. worker.batch # <<>> /\ worker.batch \in Seq(OrderlyTasks)
    BY <1>1, <1>2 DEF Fetched, OrderlyTypes
  <2> QED BY <2>1, Rest
<1>12. Fetched'
  <2>1. /\ Len(worker.batch) <= Len(due)
        /\ \A j \in 1..Len(worker.batch) : due[j].task = worker.batch[j + 0]
        /\ \A j \in DOMAIN due : due[j].fetched <=> j <= Len(worker.batch)
    BY <1>1, <1>2, <1>9 DEF Fetched
  <2>2. \A j \in 1..Len(worker.batch) - 1 : due'[j].task = worker.batch[j + 1]
    BY <1>6, <1>11, <2>1
  <2>3. \A j \in DOMAIN due' : due'[j].fetched <=> j <= Len(worker.batch) - 1
    <3> TAKE j \in DOMAIN due'
    <3>1. j \in Nat /\ j + 1 \in DOMAIN due /\ due'[j] = due[j + 1]
      BY <1>6
    <3>2. due'[j].fetched <=> j + 1 <= Len(worker.batch)
      BY <2>1, <3>1
    <3> QED BY <1>11, <3>1, <3>2
  <2> QED BY <1>6, <1>8, <1>9, <1>11, <2>1, <2>2, <2>3 DEF Fetched
<1>13. AtTask'
  BY <1>8 DEF AtTask
<1>14. ASSUME NEW i, NEW v, Leaves(i, v) PROVE Leaves(i, v)'
  <2>1. waiting(i)' = {j \in 1..Len(due) - 1 : j + 1 \in waiting(i)}
    BY <1>6 DEF waiting
  <2>0. /\ waiting(i) \subseteq 1..Len(due)
        /\ \A m \in waiting(i) : m # 1 => m - 1 \in waiting(i)'
    <3>1. waiting(i) \subseteq 1..Len(due)
      BY <1>6 DEF waiting
    <3>2. ASSUME NEW m \in waiting(i), m # 1 PROVE m - 1 \in waiting(i)'
      <4>1. m - 1 \in 1..Len(due) - 1 /\ (m - 1) + 1 = m
        BY <1>6, <3>1, <3>2
      <4> QED BY <2>1, <3>2, <4>1
    <3> QED BY <3>1, <3>2
  <2>2. ASSUME NEW j \in waiting(i)', \A m \in waiting(i)' : m <= j
        PROVE  due'[j].task.cred = v
    <3>1. j + 1 \in waiting(i) /\ due'[j] = due[j + 1]
      BY <1>6, <2>1, <2>2
    <3>2. ASSUME NEW m \in waiting(i) PROVE m <= j + 1
      <4>1. j \in Nat /\ m \in Nat /\ (m # 1 => m - 1 <= j)
        BY <1>6, <2>0, <2>1, <2>2
      <4> QED BY <4>1
    <3> QED BY <1>14, <3>1, <3>2 DEF Leaves
  <2>3. ASSUME waiting(i)' = {}, Task.inbound = i PROVE Task.cred = v
    <3>1. 1 \in waiting(i) /\ \A m \in waiting(i) : m <= 1
      <4>1. \A m \in waiting(i) : m = 1
        BY <2>0, <2>3
      <4>2. 1 \in waiting(i)
        BY <1>3, <1>6, <2>3 DEF waiting
      <4> QED BY <4>1, <4>2
    <3> QED BY <1>3, <1>14, <3>1 DEF Leaves
  <2>4. ASSUME waiting(i)' = {}, Task.inbound # i PROVE running[i] = v
    <3>1. waiting(i) = {}
      <4>1. 1 \notin waiting(i)
        BY <1>3, <2>4 DEF waiting
      <4> QED BY <2>0, <2>4, <4>1
    <3> QED BY <1>9, <1>14, <3>1 DEF Leaves
  <2> QED BY <1>2, <1>8, <1>9, <2>2, <2>3, <2>4 DEF Leaves
<1>15. ASSUME NEW i, LastFor(i) PROVE LastFor(i)'
  BY <1>3, <1>6, <1>8, <1>9, <1>15 DEF LastFor
<1>16. CallsKept'
  BY <1>1, <1>2, <1>14, <1>15, StillCalls
<1>17. PassAlone'
  BY <1>1, <1>2, <1>3, PassIdle DEF Queued, PassAlone, idleTick, NoUsers
<1> QED BY <1>10, <1>12, <1>13, <1>16, <1>17 DEF AllOrderly

----------------------------------------------------------------------------
\* The account calls.

\* The next effect of a call is brought about: what is left of it is kept.
LEMMA CallGoesOn ==
  ASSUME CallsKept, DOMAIN call = Callers, NEW c \in Callers, call[c] # <<>>,
         NEW t, call' = [call EXCEPT ![c] = t], Formed(t)', Delivers(t)', RowFollows(t)'
  PROVE  CallsKept'
<1>1. OneCall
  BY DEF CallsKept
<1>2. \A d \in Callers : call'[d] # <<>> => d = c /\ call'[d] = t
  BY <1>1 DEF OneCall
<1>3. OneCall'
  BY <1>2 DEF OneCall
<1>4. call'[c] = t
  OBVIOUS
<1>5. ASSUME Calling' = {} PROVE Delivers(<<>>)'
  <2>1. t = <<>>
    BY <1>4, <1>5 DEF Calling
  <2> QED BY <2>1
<1>6. ASSUME NEW d \in Callers, call'[d] # <<>> PROVE CallKept(call[d])'
  <2>1. call'[d] = t
    BY <1>2, <1>6
  <2> QED BY <2>1 DEF CallKept, Formed, Delivers, RowFollows
<1> QED BY <1>3, <1>5, <1>6 DEF CallsKept

\* An effect that queues a task queues one the worker knows.
LEMMA TaskTyped ==
  ASSUME NEW e \in OrderlyEffects, e.op \in TaskOps
  PROVE  /\ DueRow(TaskFor(e), FALSE) \in DueRows
         /\ DueRow(TaskFor(e), FALSE).fetched = FALSE
         /\ DueRow(TaskFor(e), FALSE).task.inbound = e.inbound
         /\ DueRow(TaskFor(e), FALSE).task.cred = TaskFor(e).cred
         /\ e.inbound \in Inbounds
<1>1. e.inbound \in Inbounds /\ (e.op # "remove" => e.cred \in Creds)
  BY DEF OrderlyEffects, TaskOps
<1>2. TaskFor(e) \in Tasks
  BY <1>1, ProvisioningBounds DEF TaskFor, Tasks
<1>3. (TaskFor(e).type = "REMOVE_USER") <=> (TaskFor(e).cred = None)
  BY <1>1, ProvisioningBounds DEF TaskFor
<1>4. TaskFor(e).inbound = e.inbound
  BY DEF TaskFor
<1> QED BY <1>1, <1>2, <1>3, <1>4 DEF DueRow, DueRows, OrderlyTasks

\* What is left of a call after its first effect.
LEMMA RestOfCall ==
  ASSUME NEW s, Formed(s), s # <<>>, NEW t, t = Tail(s)
  PROVE  /\ s[1] \in OrderlyEffects /\ Len(s) \in Nat \ {0} /\ Formed(t)
         /\ Len(t) = Len(s) - 1 /\ DOMAIN s = 1..Len(s) /\ DOMAIN t = 1..Len(s) - 1
         /\ \A k \in DOMAIN t : t[k] = s[k + 1]
         /\ \A i, k : k \in tasksOn(t, i) <=> k \in 1..Len(s) - 1 /\ k + 1 \in tasksOn(s, i)
         /\ \A i : tasksOn(s, i) \subseteq 1..Len(s)
         /\ \A i : \A k \in tasksOn(s, i) : k # 1 => k - 1 \in tasksOn(t, i)
<1>1. s \in Seq(OrderlyEffects)
  BY DEF Formed
<1>2. /\ s[1] \in OrderlyEffects /\ Len(s) \in Nat \ {0} /\ t \in Seq(OrderlyEffects)
      /\ Len(t) = Len(s) - 1 /\ DOMAIN s = 1..Len(s) /\ DOMAIN t = 1..Len(s) - 1
      /\ \A k \in 1..Len(s) - 1 : t[k] = s[k + 1]
  BY <1>1, Rest
<1>3. \A k \in DOMAIN t : k + 1 \in DOMAIN s /\ k + 1 # 1 /\ (k + 1 = 2 => k = 1) /\ t[k] = s[k + 1]
  BY <1>2
<1>4. Formed(t)
  BY <1>2, <1>3 DEF Formed
<1>5. ASSUME NEW i, NEW k PROVE k \in tasksOn(t, i) <=> k \in 1..Len(s) - 1 /\ k + 1 \in tasksOn(s, i)
  BY <1>2, <1>3 DEF tasksOn
<1>6. ASSUME NEW i PROVE tasksOn(s, i) \subseteq 1..Len(s)
  BY <1>2 DEF tasksOn
<1>7. ASSUME NEW i, NEW k \in tasksOn(s, i), k # 1 PROVE k - 1 \in tasksOn(t, i)
  <2>1. k - 1 \in 1..Len(s) - 1 /\ (k - 1) + 1 = k
    BY <1>2, <1>6, <1>7
  <2> QED BY <1>5, <1>7, <2>1
<1> QED BY <1>2, <1>3, <1>4, <1>5, <1>6, <1>7

\* A task that is queued is the newest of its inbound, and the row it goes with is not yet
\* or just written.
LEMMA EnqueueHolds ==
  ASSUME AllOrderly, NEW c \in Callers, Enqueue(c)
  PROVE  AllOrderly'
<1>1. OrderlyTypes /\ Fetched /\ AtTask /\ CallsKept /\ PassAlone
  BY DEF AllOrderly
<1>2. PICK s : s = call[c]
  OBVIOUS
<1>3. PICK t : t = Tail(s)
  OBVIOUS
<1>4. PICK e : e = Head(s)
  OBVIOUS
<1>5. PICK row : row = DueRow(TaskFor(e), FALSE)
  OBVIOUS
<1>6. /\ s # <<>> /\ e.op \in TaskOps /\ due' = Append(due, row)
      /\ call' = [call EXCEPT ![c] = t]
      /\ UNCHANGED <<account, later, worker, push, tick, file, running>>
  BY <1>2, <1>3, <1>4, <1>5 DEF Enqueue, TaskOps
<1>7. e = s[1]
  BY <1>4
<1>8. Formed(s) /\ Delivers(s) /\ RowFollows(s)
  <2>1. CallKept(s)
    BY <1>1, <1>2, <1>6 DEF CallsKept
  <2> QED BY <1>6, <1>7, <2>1 DEF CallKept, TaskOps
<1>9. /\ s[1] \in OrderlyEffects /\ Len(s) \in Nat \ {0} /\ Formed(t)
      /\ Len(t) = Len(s) - 1 /\ DOMAIN s = 1..Len(s) /\ DOMAIN t = 1..Len(s) - 1
      /\ \A k \in DOMAIN t : t[k] = s[k + 1]
      /\ \A i, k : k \in tasksOn(t, i) <=> k \in 1..Len(s) - 1 /\ k + 1 \in tasksOn(s, i)
      /\ \A i : tasksOn(s, i) \subseteq 1..Len(s)
      /\ \A i : \A k \in tasksOn(s, i) : k # 1 => k - 1 \in tasksOn(t, i)
  <2>1. s # <<>> /\ Formed(s)
    BY <1>6, <1>8
  <2>2. s[1] \in OrderlyEffects /\ Len(s) \in Nat \ {0} /\ Formed(t)
    BY <1>3, <2>1, RestOfCall
  <2>3. /\ Len(t) = Len(s) - 1 /\ DOMAIN s = 1..Len(s) /\ DOMAIN t = 1..Len(s) - 1
        /\ \A k \in DOMAIN t : t[k] = s[k + 1]
    BY <1>3, <2>1, RestOfCall
  <2>4. \A i, k : k \in tasksOn(t, i) <=> k \in 1..Len(s) - 1 /\ k + 1 \in tasksOn(s, i)
    BY <1>3, <2>1, RestOfCall
  <2>5. /\ \A i : tasksOn(s, i) \subseteq 1..Len(s)
        /\ \A i : \A k \in tasksOn(s, i) : k # 1 => k - 1 \in tasksOn(t, i)
    BY <1>3, <2>1, RestOfCall
  <2> QED BY <2>2, <2>3, <2>4, <2>5
<1>10. /\ row \in DueRows /\ row.fetched = FALSE /\ row.task.inbound = e.inbound
       /\ row.task.cred = TaskFor(e).cred
  BY <1>5, <1>6, <1>7, <1>9, TaskTyped
<1>11. due \in Seq(DueRows) /\ DOMAIN call = Callers
  BY <1>1 DEF OrderlyTypes
<1>12. /\ due' \in Seq(DueRows) /\ due' # <<>>
       /\ Len(due) \in Nat /\ Len(due') = Len(due) + 1
       /\ DOMAIN due = 1..Len(due) /\ DOMAIN due' = 1..Len(due) + 1
       /\ \A j \in 1..Len(due) : due'[j] = due[j]
       /\ due'[Len(due) + 1] = row
  BY <1>6, <1>10, <1>11, OneMore
<1>13. OrderlyTypes'
  BY <1>1, <1>6, <1>11, <1>12 DEF OrderlyTypes
<1>14. acting' = acting /\ Task' = Task
  BY <1>6 DEF acting, Task
<1>15. Fetched'
  <2> DEFINE n == IF acting THEN Len(worker.batch) - 1 ELSE Len(worker.batch)
             shift == IF acting THEN 1 ELSE 0
  <2>1. /\ (worker.pc = "idle") <=> (worker.batch = <<>>)
        /\ n <= Len(due)
        /\ \A j \in 1..n : due[j].task = worker.batch[j + shift]
        /\ worker.pc # "idle" => \A j \in DOMAIN due : due[j].fetched <=> j <= n
    BY <1>1 DEF Fetched
  <2>2. Len(worker.batch) \in Nat
    BY <1>1, LenProperties DEF OrderlyTypes
  <2>3. n \in Int
    BY <2>2
  <2> HIDE DEF n, shift
  <2>4. n <= Len(due') /\ \A j \in 1..n : due'[j].task = worker.batch[j + shift]
    BY <1>12, <2>1, <2>3
  <2>5. worker.pc # "idle" => \A j \in DOMAIN due' : due'[j].fetched <=> j <= n
    BY <1>10, <1>12, <2>1, <2>3
  <2>6. (\A j \in 1..n' : due'[j].task = worker'.batch[j + shift'])
        /\ n' = n /\ shift' = shift
    BY <1>6, <1>14, <2>4 DEF n, shift
  <2> QED BY <1>6, <1>14, <2>1, <2>4, <2>5, <2>6 DEF Fetched, n, shift
<1>16. AtTask'
  BY <1>1, <1>6, <1>14 DEF AtTask
<1>17. PassAlone'
  <2>1. Calling # {}
    BY <1>2, <1>6 DEF Calling
  <2> QED BY <1>1, <1>6, <2>1, PassIdle DEF PassAlone, idleTick, NoUsers
<1>18. final(t)' = final(s) /\ ListActive' = ListActive
  <2>1. final(t) = final(s)
    <3>1. s[1].op \notin RowOps
      BY <1>6, <1>7 DEF RowOps, TaskOps
    <3>2. Len(s) >= 2 => t[1] = s[2]
      BY <1>9
    <3>3. Len(s) >= 3 => t[2] = s[3] /\ s[3].op \notin RowOps
      BY <1>8, <1>9 DEF Formed
    <3> QED BY <1>9, <3>1, <3>2, <3>3 DEF final
  <2> QED BY <1>6, <2>1, SameFinal DEF ListActive
<1>19. \A i : waiting(i)' = waiting(i) \cup (IF e.inbound = i THEN {Len(due) + 1} ELSE {})
  BY <1>10, <1>12 DEF waiting
<1>20. ASSUME NEW i, e.inbound = i PROVE 1 \in tasksOn(s, i)
  BY <1>6, <1>7, <1>9, <1>20 DEF tasksOn
<1>21. ASSUME NEW i, e.inbound # i, tasksOn(t, i) = {} PROVE tasksOn(s, i) = {}
  <2>1. 1 \notin tasksOn(s, i)
    BY <1>7, <1>21 DEF tasksOn
  <2> QED BY <1>9, <1>21, <2>1
<1>22. ASSUME NEW i, NEW v, Leaves(i, v), e.inbound # i PROVE Leaves(i, v)'
  <2>1. waiting(i)' = waiting(i) /\ \A j \in waiting(i) : due'[j] = due[j]
    BY <1>12, <1>19, <1>22 DEF waiting
  <2> QED BY <1>6, <1>14, <1>22, <2>1 DEF Leaves
<1>23. ASSUME NEW i, NEW v, e.inbound = i, row.task.cred = v PROVE Leaves(i, v)'
  <2>1. Len(due) + 1 \in waiting(i)' /\ waiting(i)' \subseteq 1..Len(due) + 1
    BY <1>12, <1>19, <1>23 DEF waiting
  <2>2. ASSUME NEW j \in waiting(i)', \A m \in waiting(i)' : m <= j PROVE j = Len(due) + 1
    <3>1. j \in Nat /\ j <= Len(due) + 1 /\ Len(due) + 1 <= j
      BY <1>12, <2>1, <2>2
    <3> QED BY <1>12, <3>1
  <2> QED BY <1>12, <1>23, <2>1, <2>2 DEF Leaves
<1>24. Delivers(t)'
  <2>1. ASSUME NEW i \in HotInbounds, NEW k \in tasksOn(t, i), \A m \in tasksOn(t, i) : m <= k
        PROVE  TaskFor(t[k]).cred = usersOf(final(s))[i]
    <3>1. k + 1 \in tasksOn(s, i) /\ t[k] = s[k + 1] /\ k \in Nat
      BY <1>9, <2>1
    <3>2. ASSUME NEW m \in tasksOn(s, i) PROVE m <= k + 1
      <4>1. m \in Nat /\ (m # 1 => m - 1 <= k)
        BY <1>9, <2>1
      <4> QED BY <3>1, <4>1
    <3> QED BY <1>8, <3>1, <3>2 DEF Delivers
  <2>2. ASSUME NEW i \in HotInbounds, tasksOn(t, i) = {}
        PROVE  \A v : v = usersOf(final(s))[i] => Leaves(i, v)'
    <3>1. CASE e.inbound = i
      <4>1. 1 \in tasksOn(s, i) /\ \A m \in tasksOn(s, i) : m <= 1
        <5>1. \A m \in tasksOn(s, i) : m = 1
          BY <1>9, <2>2
        <5> QED BY <1>20, <3>1, <5>1
      <4>2. row.task.cred = usersOf(final(s))[i]
        BY <1>7, <1>8, <1>10, <4>1 DEF Delivers
      <4> QED BY <1>23, <3>1, <4>2
    <3>2. CASE e.inbound # i
      <4>1. Leaves(i, usersOf(final(s))[i])
        BY <1>8, <1>21, <2>2, <3>2 DEF Delivers
      <4> QED BY <1>22, <3>2, <4>1
    <3> QED BY <3>1, <3>2
  <2>3. ASSUME NEW i \in HotInbounds, tasksOn(t, i) = {} PROVE Leaves(i, usersOf(final(t))[i])'
    <3>1. (usersOf(final(t))[i])' = usersOf(final(s))[i]
      BY <1>18 DEF usersOf
    <3>2. PICK v : v = usersOf(final(s))[i]
      OBVIOUS
    <3>3. Leaves(i, v)'
      BY <2>2, <2>3, <3>2
    <3> QED BY <3>1, <3>2, <3>3 DEF Leaves
  <2>4. ASSUME NEW i \in HotInbounds, NEW k \in tasksOn(t, i), \A m \in tasksOn(t, i) : m <= k
        PROVE  TaskFor(t[k]).cred = (usersOf(final(t))[i])'
    BY <1>18, <2>1, <2>4 DEF usersOf
  <2> QED BY <2>3, <2>4 DEF Delivers
<1>25. RowFollows(t)'
  <2>1. ASSUME NEW i \in HotInbounds, tasksOn(t, i) = {}, usersOf(final(s))[i] # ListActive[i]
        PROVE  LastFor(i)' /\ \A k \in DOMAIN t : t[k].op \notin TaskOps
    <3>1. e.inbound = i
      <4>1. SUFFICES ASSUME e.inbound # i PROVE FALSE
        OBVIOUS
      <4>2. tasksOn(s, i) = {}
        BY <1>21, <2>1, <4>1
      <4>3. 1 \in DOMAIN s
        BY <1>9
      <4> QED BY <1>6, <1>7, <1>8, <2>1, <4>2, <4>3 DEF RowFollows
    <3>2. LastFor(i)'
      BY <1>10, <1>12, <3>1 DEF LastFor
    <3>3. final(s) # account
      BY <2>1, ActiveUsers
    <3>4. Len(s) >= 2 /\ s[2].op \in RowOps
      BY <1>6, <1>7, <3>3 DEF final, RowOps, TaskOps
    <3>5. Len(s) = 2
      BY <1>8, <1>9, <3>4 DEF Formed
    <3> QED BY <1>9, <3>2, <3>4, <3>5 DEF RowOps, TaskOps
  <2>2. \A i \in HotInbounds : (usersOf(final(t))[i])' = usersOf(final(s))[i]
    BY <1>18 DEF usersOf
  <2> QED BY <1>18, <2>1, <2>2 DEF RowFollows
<1>26. Formed(t)'
  BY <1>9 DEF Formed
<1>27. CallsKept'
  BY <1>1, <1>2, <1>6, <1>11, <1>24, <1>25, <1>26, CallGoesOn
<1> QED BY <1>13, <1>15, <1>16, <1>17, <1>27 DEF AllOrderly

\* The row a write leaves.
LEMMA WrittenTyped ==
  ASSUME account \in OrderlyRows, NEW e \in OrderlyEffects, e.op \in RowOps
  PROVE  Written(e) \in OrderlyRows
<1>1. CASE e.op \in {"create", "save"}
  BY <1>1 DEF OrderlyEffects, Written
<1>2. CASE e.op = "status"
  <2>1. e.to \in OrderlyStatuses
    BY <1>2 DEF OrderlyEffects
  <2> QED BY <1>2, <2>1 DEF Written, OrderlyRows, OrderlyStatuses, Rows
<1>3. CASE e.op = "inbound"
  <2>1. e.inbound \in Inbounds
    BY <1>3 DEF OrderlyEffects
  <2> QED BY <1>3, <2>1 DEF Written, OrderlyRows, Rows
<1>4. CASE e.op = "delete"
  <2>1. "deleted" \in OrderlyStatuses /\ "deleted" \in Statuses
    BY DEF OrderlyStatuses, Statuses
  <2> QED BY <1>4, <2>1 DEF Written, OrderlyRows, Rows
<1> QED BY <1>1, <1>2, <1>3, <1>4 DEF RowOps

\* The write of the row: what the call comes to is what the row says now.
LEMMA WriteHolds ==
  ASSUME AllOrderly, NEW c \in Callers, WriteRow(c)
  PROVE  AllOrderly'
<1>1. OrderlyTypes /\ Fetched /\ AtTask /\ CallsKept /\ PassAlone
  BY DEF AllOrderly
<1>2. PICK s : s = call[c]
  OBVIOUS
<1>3. PICK t : t = Tail(s)
  OBVIOUS
<1>4. /\ s # <<>> /\ s[1].op \in RowOps /\ account' = Written(s[1])
      /\ call' = [call EXCEPT ![c] = t]
      /\ UNCHANGED <<due, later, worker, push, tick, file, running>>
  <2>1. Head(s) = s[1]
    OBVIOUS
  <2> QED BY <1>2, <1>3, <2>1 DEF WriteRow, RowOps
<1>5. Formed(s) /\ Delivers(s)
  <2>1. CallKept(s)
    BY <1>1, <1>2, <1>4 DEF CallsKept
  <2> QED BY <1>4, <2>1 DEF CallKept, RowOps
<1>6. s[1] \in OrderlyEffects /\ Len(s) \in Nat \ {0} /\ Formed(t)
  BY <1>3, <1>4, <1>5, RestOfCall
<1>7. /\ Len(t) = Len(s) - 1 /\ DOMAIN s = 1..Len(s) /\ DOMAIN t = 1..Len(s) - 1
      /\ \A k \in DOMAIN t : t[k] = s[k + 1]
  BY <1>3, <1>4, <1>5, RestOfCall
<1>8. \A i, k : k \in tasksOn(t, i) <=> k \in 1..Len(s) - 1 /\ k + 1 \in tasksOn(s, i)
  BY <1>3, <1>4, <1>5, RestOfCall
<1>9. /\ \A i : tasksOn(s, i) \subseteq 1..Len(s)
      /\ \A i : \A k \in tasksOn(s, i) : k # 1 => k - 1 \in tasksOn(t, i)
  BY <1>3, <1>4, <1>5, RestOfCall
<1>10. account' \in OrderlyRows
  BY <1>1, <1>4, <1>6, WrittenTyped DEF OrderlyTypes
<1>11. OrderlyTypes'
  BY <1>1, <1>4, <1>10 DEF OrderlyTypes
<1>12. Fetched' /\ AtTask'
  BY <1>1, <1>4 DEF Fetched, AtTask, acting, Task
<1>13. PassAlone'
  <2>1. Calling # {}
    BY <1>2, <1>4 DEF Calling
  <2> QED BY <1>1, <1>4, <2>1, PassIdle DEF PassAlone, idleTick, NoUsers
<1>14. final(s) = account'
  BY <1>4, <1>6 DEF final
<1>15. \A k \in DOMAIN t : t[k].op \notin RowOps
  BY <1>4, <1>5, <1>7 DEF Formed, RowOps, TaskOps
<1>16. final(t)' = account'
  <2>1. Len(t) \in Nat /\ DOMAIN t = 1..Len(t)
    BY <1>6, <1>7
  <2> QED BY <1>15, <2>1 DEF final
<1>17. \A i, v : Leaves(i, v)' <=> Leaves(i, v)
  BY <1>4, SameLeaves
<1>18. \A i \in HotInbounds : (usersOf(final(t))[i])' = usersOf(final(s))[i]
  BY <1>14, <1>16 DEF usersOf
<1>19. \A i : 1 \notin tasksOn(s, i)
  BY <1>4 DEF tasksOn, RowOps, TaskOps
<1>20. Delivers(t)'
  <2>1. ASSUME NEW i \in HotInbounds, NEW k \in tasksOn(t, i), \A m \in tasksOn(t, i) : m <= k
        PROVE  TaskFor(t[k]).cred = usersOf(final(s))[i]
    <3>1. k + 1 \in tasksOn(s, i) /\ t[k] = s[k + 1] /\ k \in Nat
      BY <1>7, <1>8, <2>1
    <3>2. ASSUME NEW m \in tasksOn(s, i) PROVE m <= k + 1
      <4>1. m \in Nat /\ m - 1 <= k
        BY <1>9, <1>19, <2>1
      <4> QED BY <3>1, <4>1
    <3> QED BY <1>5, <3>1, <3>2 DEF Delivers
  <2>2. ASSUME NEW i \in HotInbounds, tasksOn(t, i) = {} PROVE Leaves(i, usersOf(final(t))[i])'
    <3>1. tasksOn(s, i) = {}
      BY <1>9, <1>19, <2>2
    <3>2. PICK v : v = usersOf(final(s))[i]
      OBVIOUS
    <3>3. Leaves(i, v)'
      BY <1>5, <1>17, <3>1, <3>2 DEF Delivers
    <3> QED BY <1>18, <3>2, <3>3 DEF Leaves
  <2> QED BY <1>18, <2>1, <2>2 DEF Delivers
<1>21. RowFollows(t)'
  <2>1. ListActive' = usersOf(final(t))'
    BY <1>16 DEF ListActive, usersOf
  <2> QED BY <2>1 DEF RowFollows
<1>22. CallsKept'
  <2>1. Formed(t)'
    BY <1>6 DEF Formed
  <2>2. DOMAIN call = Callers
    BY <1>1 DEF OrderlyTypes
  <2> QED BY <1>1, <1>2, <1>4, <1>20, <1>21, <2>1, <2>2, CallGoesOn
<1> QED BY <1>11, <1>12, <1>13, <1>22 DEF AllOrderly

\* A call that begins when nothing is under way is kept if its last task for an inbound
\* leaves what its row says, and its row changes no inbound without a task.
LEMMA KeptWhen ==
  ASSUME NEW s, Formed(s), \A i \in HotInbounds : Leaves(i, ListActive[i]),
         \A i \in HotInbounds :
           /\ tasksOn(s, i) = {} => usersOf(final(s))[i] = ListActive[i]
           /\ \A k \in tasksOn(s, i) :
                (\A m \in tasksOn(s, i) : m <= k) => TaskFor(s[k]).cred = usersOf(final(s))[i]
  PROVE  CallKept(s)
<1>1. Delivers(s)
  BY DEF Delivers
<1>2. RowFollows(s)
  BY DEF RowFollows
<1> QED BY <1>1, <1>2 DEF CallKept

\* A call that only writes the row.
LEMMA RowKept ==
  ASSUME NEW w \in OrderlyEffects, w.op \in RowOps,
         \A i \in HotInbounds : Leaves(i, ListActive[i]),
         \A i \in HotInbounds : usersOf(Written(w))[i] = ListActive[i]
  PROVE  CallKept(<<w>>)
<1> DEFINE s == <<w>>
<1>1. s \in Seq(OrderlyEffects) /\ Len(s) = 1 /\ DOMAIN s = {1} /\ s[1] = w
  OBVIOUS
<1> HIDE DEF s
<1>2. Formed(s)
  BY <1>1 DEF Formed
<1>3. final(s) = Written(w)
  BY <1>1 DEF final
<1>4. \A i : tasksOn(s, i) = {}
  BY <1>1 DEF tasksOn, RowOps, TaskOps
<1>5. CallKept(s)
  BY <1>2, <1>3, <1>4, KeptWhen
<1> QED BY <1>5 DEF s

\* A call that writes the row and then queues a task.
LEMMA RowTaskKept ==
  ASSUME NEW w \in OrderlyEffects, w.op \in RowOps, NEW a \in OrderlyEffects, a.op \in TaskOps,
         \A i \in HotInbounds : Leaves(i, ListActive[i]),
         TaskFor(a).cred = usersOf(Written(w))[a.inbound],
         \A i \in HotInbounds : i # a.inbound => usersOf(Written(w))[i] = ListActive[i]
  PROVE  CallKept(<<w, a>>)
<1> DEFINE s == <<w, a>>
<1>1. s \in Seq(OrderlyEffects) /\ Len(s) = 2 /\ DOMAIN s = {1, 2} /\ s[1] = w /\ s[2] = a
  OBVIOUS
<1> HIDE DEF s
<1>2. Formed(s)
  BY <1>1 DEF Formed, RowOps, TaskOps
<1>3. final(s) = Written(w)
  BY <1>1 DEF final
<1>4. \A i : tasksOn(s, i) = IF a.inbound = i THEN {2} ELSE {}
  BY <1>1 DEF tasksOn, RowOps, TaskOps
<1>5. CallKept(s)
  BY <1>1, <1>2, <1>3, <1>4, KeptWhen
<1> QED BY <1>5 DEF s

\* A call that queues a task and then writes the row.
LEMMA TaskRowKept ==
  ASSUME NEW w \in OrderlyEffects, w.op \in RowOps, NEW a \in OrderlyEffects, a.op \in TaskOps,
         \A i \in HotInbounds : Leaves(i, ListActive[i]),
         TaskFor(a).cred = usersOf(Written(w))[a.inbound],
         \A i \in HotInbounds : i # a.inbound => usersOf(Written(w))[i] = ListActive[i]
  PROVE  CallKept(<<a, w>>)
<1> DEFINE s == <<a, w>>
<1>1. s \in Seq(OrderlyEffects) /\ Len(s) = 2 /\ DOMAIN s = {1, 2} /\ s[1] = a /\ s[2] = w
  OBVIOUS
<1> HIDE DEF s
<1>2. Formed(s)
  BY <1>1 DEF Formed, RowOps, TaskOps
<1>3. final(s) = Written(w)
  BY <1>1 DEF final, RowOps, TaskOps
<1>4. \A i : tasksOn(s, i) = IF a.inbound = i THEN {1} ELSE {}
  BY <1>1 DEF tasksOn, RowOps, TaskOps
<1>5. CallKept(s)
  BY <1>1, <1>2, <1>3, <1>4, KeptWhen
<1> QED BY <1>5 DEF s

\* A call that writes the row, has the user removed and then added.
LEMMA RowTasksKept ==
  ASSUME NEW w \in OrderlyEffects, w.op \in RowOps, NEW a \in OrderlyEffects, a.op \in TaskOps,
         NEW b \in OrderlyEffects, b.op \in TaskOps,
         \A i \in HotInbounds : Leaves(i, ListActive[i]),
         TaskFor(b).cred = usersOf(Written(w))[b.inbound],
         a.inbound # b.inbound => TaskFor(a).cred = usersOf(Written(w))[a.inbound],
         \A i \in HotInbounds :
           i \notin {a.inbound, b.inbound} => usersOf(Written(w))[i] = ListActive[i]
  PROVE  CallKept(<<w, a, b>>)
<1> DEFINE s == <<w, a, b>>
<1>1. /\ s \in Seq(OrderlyEffects) /\ Len(s) = 3 /\ DOMAIN s = {1, 2, 3}
      /\ s[1] = w /\ s[2] = a /\ s[3] = b
  OBVIOUS
<1> HIDE DEF s
<1>2. Formed(s)
  BY <1>1 DEF Formed, RowOps, TaskOps
<1>3. final(s) = Written(w)
  BY <1>1 DEF final
<1>4. \A i : tasksOn(s, i) = {k \in {2, 3} : s[k].inbound = i}
  BY <1>1 DEF tasksOn, RowOps, TaskOps
<1>5. ASSUME NEW i \in HotInbounds
      PROVE  /\ tasksOn(s, i) = {} => usersOf(final(s))[i] = ListActive[i]
             /\ \A k \in tasksOn(s, i) :
                  (\A m \in tasksOn(s, i) : m <= k) => TaskFor(s[k]).cred = usersOf(final(s))[i]
  <2>1. /\ 2 \in tasksOn(s, i) <=> a.inbound = i
        /\ 3 \in tasksOn(s, i) <=> b.inbound = i
        /\ tasksOn(s, i) \subseteq {2, 3}
    BY <1>1, <1>4
  <2>2. ASSUME tasksOn(s, i) = {} PROVE usersOf(final(s))[i] = ListActive[i]
    BY <1>3, <2>1, <2>2
  <2>3. ASSUME NEW k \in tasksOn(s, i), \A m \in tasksOn(s, i) : m <= k
        PROVE  TaskFor(s[k]).cred = usersOf(final(s))[i]
    <3>1. CASE k = 3
      BY <1>1, <1>3, <2>1, <2>3, <3>1
    <3>2. CASE k = 2
      <4>1. 3 \notin tasksOn(s, i)
        BY <2>3, <3>2
      <4> QED BY <1>1, <1>3, <2>1, <2>3, <3>2, <4>1
    <3> QED BY <2>1, <2>3, <3>1, <3>2
  <2> QED BY <2>2, <2>3
<1>6. CallKept(s)
  BY <1>2, <1>5, KeptWhen
<1> QED BY <1>6 DEF s

\* The row as it is.
LEMMA OrderlyRow ==
  ASSUME OrderlyTypes
  PROVE  /\ account.status \in {"none", "active", "disabled", "deleted"}
         /\ account.inbound \in Inbounds /\ account.cred \in Creds
         /\ account = [status |-> account.status, inbound |-> account.inbound,
                       cred |-> account.cred]
BY DEF OrderlyTypes, OrderlyRows, OrderlyStatuses, Statuses, Rows

\* The effects of the calls.
LEMMA EffectsTyped ==
  /\ \A s \in OrderlyStatuses : SetStatus(s) \in OrderlyEffects /\ SetStatus(s).op \in RowOps
  /\ \A row \in OrderlyRows :
       /\ Save(row) \in OrderlyEffects /\ Save(row).op \in RowOps
       /\ [op |-> "create", row |-> row] \in OrderlyEffects
       /\ EnqueueAddUser(row) \in OrderlyEffects /\ EnqueueAddUser(row).op \in TaskOps
       /\ EnqueueRemoveUser(row) \in OrderlyEffects /\ EnqueueRemoveUser(row).op \in TaskOps
  /\ [op |-> "delete"] \in OrderlyEffects
  /\ \A i \in Inbounds : [op |-> "inbound", inbound |-> i] \in OrderlyEffects
<1>1. ASSUME NEW s \in OrderlyStatuses
      PROVE  SetStatus(s) \in OrderlyEffects /\ SetStatus(s).op \in RowOps
  BY DEF SetStatus, OrderlyEffects, RowOps
<1>2. ASSUME NEW row \in OrderlyRows
      PROVE  /\ Save(row) \in OrderlyEffects /\ Save(row).op \in RowOps
             /\ [op |-> "create", row |-> row] \in OrderlyEffects
  BY DEF Save, OrderlyEffects, RowOps
<1>3. ASSUME NEW row \in OrderlyRows
      PROVE  /\ EnqueueAddUser(row) \in OrderlyEffects /\ EnqueueAddUser(row).op \in TaskOps
             /\ EnqueueRemoveUser(row) \in OrderlyEffects /\ EnqueueRemoveUser(row).op \in TaskOps
  BY DEF EnqueueAddUser, EnqueueRemoveUser, OrderlyEffects, TaskOps, OrderlyRows, Rows
<1>4. [op |-> "delete"] \in OrderlyEffects
  BY DEF OrderlyEffects
<1>5. ASSUME NEW i \in Inbounds PROVE [op |-> "inbound", inbound |-> i] \in OrderlyEffects
  BY DEF OrderlyEffects
<1> QED BY <1>1, <1>2, <1>3, <1>4, <1>5

\* The tasks that put a row's user on the node, and take it away.
LEMMA TaskCreds ==
  ASSUME NEW row
  PROVE  /\ TaskFor(EnqueueAddUser(row)).cred = row.cred
         /\ EnqueueAddUser(row).inbound = row.inbound
         /\ TaskFor(EnqueueRemoveUser(row)).cred = None
         /\ EnqueueRemoveUser(row).inbound = row.inbound
BY DEF TaskFor, EnqueueAddUser, EnqueueRemoveUser

\* The call that makes the account.
LEMMA CreateKept ==
  ASSUME OrderlyTypes, account.status = "none",
         \A i \in HotInbounds : Leaves(i, ListActive[i])
  PROVE  CallKept(CreateAccount([account EXCEPT !.status = "active"]))
<1> USE HotAreInbounds
<1> DEFINE row == [account EXCEPT !.status = "active"]
           w == [op |-> "create", row |-> row]
           a == [EnqueueAddUser(row) EXCEPT !.op = "addNew"]
<1>1. /\ row.status = "active" /\ row.inbound = account.inbound /\ row.cred = account.cred
      /\ row \in OrderlyRows /\ row.inbound \in Inbounds /\ row.cred \in Creds
  BY OrderlyRow DEF OrderlyRows, OrderlyStatuses, Statuses, Rows
<1> HIDE DEF row
<1>2. w \in OrderlyEffects /\ w.op \in RowOps /\ Written(w) = row
  BY <1>1, EffectsTyped DEF RowOps, Written
<1>3. /\ a \in OrderlyEffects /\ a.op \in TaskOps /\ a.inbound = row.inbound
      /\ TaskFor(a).cred = row.cred
  BY <1>1 DEF OrderlyEffects, EnqueueAddUser, TaskOps, TaskFor
<1>4. \A i \in Inbounds : /\ ListActive[i] = None
                          /\ usersOf(row)[i] = IF i = row.inbound THEN row.cred ELSE None
  BY <1>1 DEF ListActive, usersOf
<1> HIDE DEF w, a
<1>5. CallKept(<<w, a>>)
  BY <1>1, <1>2, <1>3, <1>4, RowTaskKept
<1> QED BY <1>5 DEF CreateAccount, w, a, row

\* The calls that switch the account off and on, and delete it.
LEMMA SwitchKept ==
  ASSUME OrderlyTypes, Alive, \A i \in HotInbounds : Leaves(i, ListActive[i])
  PROVE  /\ CallKept(DisableAccount(account)) /\ CallKept(EnableAccount(account))
         /\ CallKept(DeleteAccount(account))
<1> USE HotAreInbounds
<1>1. account \in OrderlyRows /\ account.inbound \in Inbounds /\ account.cred \in Creds
  BY OrderlyRow DEF OrderlyTypes
<1>2. \A i \in Inbounds : i # account.inbound => ListActive[i] = None
  BY DEF ListActive
<1>3. /\ EnqueueAddUser(account) \in OrderlyEffects /\ EnqueueAddUser(account).op \in TaskOps
      /\ EnqueueRemoveUser(account) \in OrderlyEffects
      /\ EnqueueRemoveUser(account).op \in TaskOps
      /\ TaskFor(EnqueueAddUser(account)).cred = account.cred
      /\ EnqueueAddUser(account).inbound = account.inbound
      /\ TaskFor(EnqueueRemoveUser(account)).cred = None
      /\ EnqueueRemoveUser(account).inbound = account.inbound
  BY <1>1, EffectsTyped, TaskCreds
<1>4. CallKept(<<EnqueueRemoveUser(account), SetStatus("disabled")>>)
  <2>1. SetStatus("disabled") \in OrderlyEffects /\ SetStatus("disabled").op \in RowOps
    BY EffectsTyped DEF OrderlyStatuses, Statuses
  <2>2. Written(SetStatus("disabled")).status = "disabled"
    BY OrderlyRow DEF Written, SetStatus
  <2>3. \A i \in Inbounds : usersOf(Written(SetStatus("disabled")))[i] = None
    BY <2>2 DEF usersOf
  <2> QED BY <1>1, <1>2, <1>3, <2>1, <2>3, TaskRowKept
<1>5. CallKept(<<EnqueueAddUser(account), SetStatus("active")>>)
  <2>1. SetStatus("active") \in OrderlyEffects /\ SetStatus("active").op \in RowOps
    BY EffectsTyped DEF OrderlyStatuses, Statuses
  <2>2. /\ Written(SetStatus("active")).status = "active"
        /\ Written(SetStatus("active")).inbound = account.inbound
        /\ Written(SetStatus("active")).cred = account.cred
    BY OrderlyRow DEF Written, SetStatus
  <2>3. \A i \in Inbounds : usersOf(Written(SetStatus("active")))[i] =
                              IF i = account.inbound THEN account.cred ELSE None
    BY <2>2 DEF usersOf
  <2> QED BY <1>1, <1>2, <1>3, <2>1, <2>3, TaskRowKept
<1>6. CallKept(<<EnqueueRemoveUser(account), [op |-> "delete"]>>)
  <2> DEFINE w == [op |-> "delete"]
  <2>1. w \in OrderlyEffects /\ w.op \in RowOps
    BY EffectsTyped DEF RowOps
  <2>2. Written(w).status = "deleted"
    BY OrderlyRow DEF Written
  <2>3. \A i \in Inbounds : usersOf(Written(w))[i] = None
    BY <2>2 DEF usersOf
  <2> HIDE DEF w
  <2>4. CallKept(<<EnqueueRemoveUser(account), w>>)
    BY <1>1, <1>2, <1>3, <2>1, <2>3, TaskRowKept
  <2> QED BY <2>4 DEF w
<1> QED BY <1>4, <1>5, <1>6 DEF DisableAccount, EnableAccount, DeleteAccount

\* The call that moves an active account to another inbound.
LEMMA MigrateKept ==
  ASSUME OrderlyTypes, account.status = "active", NEW target \in Inbounds \ {account.inbound},
         \A i \in HotInbounds : Leaves(i, ListActive[i])
  PROVE  CallKept(MigrateAccount(account, target))
<1> USE HotAreInbounds
<1> DEFINE w == [op |-> "inbound", inbound |-> target]
           row == [account EXCEPT !.inbound = target]
<1>1. /\ row \in OrderlyRows /\ row.status = "active" /\ row.inbound = target
      /\ row.cred = account.cred /\ account \in OrderlyRows
  BY OrderlyRow DEF OrderlyRows, OrderlyStatuses, Statuses, Rows, OrderlyTypes
<1>2. Written(w) = row
  BY DEF Written, Alive
<1> HIDE DEF row
<1>3. w \in OrderlyEffects /\ w.op \in RowOps
  BY EffectsTyped DEF RowOps
<1>4. /\ EnqueueAddUser(row) \in OrderlyEffects /\ EnqueueAddUser(row).op \in TaskOps
      /\ EnqueueRemoveUser(account) \in OrderlyEffects
      /\ EnqueueRemoveUser(account).op \in TaskOps
      /\ TaskFor(EnqueueAddUser(row)).cred = account.cred
      /\ EnqueueAddUser(row).inbound = target
      /\ TaskFor(EnqueueRemoveUser(account)).cred = None
      /\ EnqueueRemoveUser(account).inbound = account.inbound
  BY <1>1, EffectsTyped, TaskCreds
<1>5. \A i \in Inbounds : /\ i # account.inbound => ListActive[i] = None
                          /\ usersOf(row)[i] = IF i = target THEN account.cred ELSE None
  BY <1>1 DEF ListActive, usersOf
<1>6. account.inbound \in Inbounds
  BY OrderlyRow
<1> HIDE DEF w
<1>7. CallKept(<<w, EnqueueRemoveUser(account), EnqueueAddUser(row)>>)
  BY <1>2, <1>3, <1>4, <1>5, <1>6, RowTasksKept
<1> QED BY <1>7 DEF MigrateAccount, w, row

\* What UpdateAccount puts together.
LEMMA Joined ==
  ASSUME NEW x, NEW y, NEW z
  PROVE  /\ (<<x>> \o <<>>) \o <<>> = <<x>>
         /\ (<<x>> \o <<y>>) \o <<>> = <<x, y>>
         /\ (<<x>> \o <<>>) \o <<y>> = <<x, y>>
         /\ (<<x>> \o <<y>>) \o <<z>> = <<x, y, z>>
<1> DEFINE S == {x, y, z}
<1>1. /\ <<x>> \in Seq(S) /\ <<y>> \in Seq(S) /\ <<z>> \in Seq(S)
      /\ <<x, y>> \in Seq(S) /\ <<x, y, z>> \in Seq(S)
  OBVIOUS
<1> HIDE DEF S
<1>2. <<x>> \o <<>> = <<x>> /\ <<x, y>> \o <<>> = <<x, y>>
  BY <1>1, ConcatEmptySeq
<1>3. <<x>> \o <<y>> = <<x, y>>
  <2> DEFINE s == <<x>> \o <<y>>
             t == <<x, y>>
  <2>1. /\ s \in Seq(S) /\ Len(s) = Len(<<x>>) + Len(<<y>>)
        /\ \A i \in 1..Len(<<x>>) + Len(<<y>>) :
             s[i] = IF i <= Len(<<x>>) THEN <<x>>[i] ELSE <<y>>[i - Len(<<x>>)]
    BY <1>1, ConcatProperties
  <2> HIDE DEF s
  <2>2. Len(s) = Len(t) /\ \A i \in 1..Len(s) : s[i] = t[i]
    BY <2>1
  <2> HIDE DEF t
  <2>3. s = t
    BY <1>1, <2>1, <2>2, SeqEqual DEF t
  <2> QED BY <2>3 DEF s, t
<1>4. <<x, y>> \o <<z>> = <<x, y, z>>
  <2> DEFINE s == <<x, y>> \o <<z>>
             t == <<x, y, z>>
  <2>1. /\ s \in Seq(S) /\ Len(s) = Len(<<x, y>>) + Len(<<z>>)
        /\ \A i \in 1..Len(<<x, y>>) + Len(<<z>>) :
             s[i] = IF i <= Len(<<x, y>>) THEN <<x, y>>[i] ELSE <<z>>[i - Len(<<x, y>>)]
    BY <1>1, ConcatProperties
  <2> HIDE DEF s
  <2>2. Len(s) = Len(t) /\ \A i \in 1..Len(s) : s[i] = t[i]
    BY <2>1
  <2> HIDE DEF t
  <2>3. s = t
    BY <1>1, <2>1, <2>2, SeqEqual DEF t
  <2> QED BY <2>3 DEF s, t
<1> QED BY <1>2, <1>3, <1>4

\* The call that writes a credential and a status.
LEMMA UpdateKept ==
  ASSUME OrderlyTypes, Alive, NEW uuid \in Creds, NEW enabled \in BOOLEAN,
         \A i \in HotInbounds : Leaves(i, ListActive[i])
  PROVE  CallKept(UpdateAccount(account, uuid, enabled))
<1> USE HotAreInbounds
<1> DEFINE new == [account EXCEPT !.cred = uuid,
                                  !.status = IF enabled THEN "active" ELSE "disabled"]
<1>1. /\ new \in OrderlyRows /\ new.status = (IF enabled THEN "active" ELSE "disabled")
      /\ new.inbound = account.inbound /\ new.cred = uuid /\ account \in OrderlyRows
      /\ account.status \in {"active", "disabled"} /\ account.inbound \in Inbounds
  BY OrderlyRow DEF OrderlyRows, OrderlyStatuses, Statuses, Rows, OrderlyTypes, Alive
<1> DEFINE w == Save(new)
           r == EnqueueRemoveUser(account)
           a == EnqueueAddUser(new)
           needsRemove == account.status = "active" /\ ~enabled
           needsAdd == account.status = "disabled" /\ enabled
           needsReProvision == enabled /\ ~needsAdd /\ account.cred # uuid
<1>2. UpdateAccount(account, uuid, enabled) =
        <<w>> \o (IF needsRemove \/ needsReProvision THEN <<r>> ELSE <<>>)
              \o (IF needsAdd \/ needsReProvision THEN <<a>> ELSE <<>>)
  BY DEF UpdateAccount
<1>3. w \in OrderlyEffects /\ w.op \in RowOps /\ Written(w) = new
  BY <1>1, EffectsTyped DEF Save, Written
<1> HIDE DEF new
<1>4. /\ r \in OrderlyEffects /\ r.op \in TaskOps /\ r.inbound = account.inbound
      /\ TaskFor(r).cred = None
      /\ a \in OrderlyEffects /\ a.op \in TaskOps /\ a.inbound = account.inbound
      /\ TaskFor(a).cred = uuid
  BY <1>1, EffectsTyped, TaskCreds
<1>5. \A i \in Inbounds :
        /\ ListActive[i] = IF account.status = "active" /\ i = account.inbound THEN account.cred ELSE None
        /\ usersOf(new)[i] = IF enabled /\ i = account.inbound THEN uuid ELSE None
  BY <1>1 DEF ListActive, usersOf
<1> HIDE DEF w, r, a
<1>6. CASE needsRemove
  <2>1. UpdateAccount(account, uuid, enabled) = <<w, r>>
    BY <1>2, <1>6, Joined
  <2>2. CallKept(<<w, r>>)
    BY <1>1, <1>3, <1>4, <1>5, <1>6, RowTaskKept
  <2> QED BY <2>1, <2>2
<1>7. CASE needsAdd
  <2>1. UpdateAccount(account, uuid, enabled) = <<w, a>>
    BY <1>2, <1>7, Joined
  <2>2. CallKept(<<w, a>>)
    BY <1>1, <1>3, <1>4, <1>5, <1>7, RowTaskKept
  <2> QED BY <2>1, <2>2
<1>8. CASE needsReProvision
  <2>1. UpdateAccount(account, uuid, enabled) = <<w, r, a>>
    BY <1>2, <1>8, Joined
  <2>2. CallKept(<<w, r, a>>)
    BY <1>1, <1>3, <1>4, <1>5, <1>8, RowTasksKept
  <2> QED BY <2>1, <2>2
<1>9. CASE ~ needsRemove /\ ~ needsAdd /\ ~ needsReProvision
  <2>1. UpdateAccount(account, uuid, enabled) = <<w>>
    BY <1>2, <1>9, Joined
  <2>2. CallKept(<<w>>)
    BY <1>1, <1>3, <1>5, <1>9, RowKept
  <2> QED BY <2>1, <2>2
<1> QED BY <1>6, <1>7, <1>8, <1>9

\* Every call that may be asked for is kept, if it does not move an account that is not
\* active.
LEMMA RequestKept ==
  ASSUME OrderlyTypes, node = "active", \A i \in HotInbounds : Leaves(i, ListActive[i]),
         NEW todo \in Requests, todo[1].op = "inbound" => account.status = "active"
  PROVE  CallKept(todo)
<1>1. account.status \in {"none", "active", "disabled", "deleted"}
  BY OrderlyRow
<1>2. CASE account.status = "deleted"
  <2>1. Requests = {}
    BY <1>2 DEF Requests, Alive
  <2> QED BY <2>1
<1>3. CASE account.status = "none"
  <2>1. Requests = {CreateAccount([account EXCEPT !.status = "active"])}
    BY <1>3 DEF Requests, Alive
  <2> QED BY <1>3, <2>1, CreateKept
<1>4. CASE Alive
  <2>1. Requests =
          {DisableAccount(account), EnableAccount(account), DeleteAccount(account)}
          \cup {MigrateAccount(account, i) : i \in Inbounds \ {account.inbound}}
          \cup {UpdateAccount(account, k, e) : k \in Creds, e \in BOOLEAN}
          \cup {DeleteNode : n \in {node} \cap {"active"}}
    BY <1>4 DEF Requests, Alive
  <2>2. CASE todo \in {DisableAccount(account), EnableAccount(account), DeleteAccount(account)}
    BY <1>4, <2>2, SwitchKept
  <2>3. CASE todo \in {MigrateAccount(account, i) : i \in Inbounds \ {account.inbound}}
    <3>1. PICK i \in Inbounds \ {account.inbound} : todo = MigrateAccount(account, i)
      BY <2>3
    <3>2. todo[1].op = "inbound"
      BY <3>1 DEF MigrateAccount
    <3> QED BY <3>1, <3>2, MigrateKept
  <2>4. CASE todo \in {UpdateAccount(account, k, e) : k \in Creds, e \in BOOLEAN}
    <3>1. PICK k \in Creds, e \in BOOLEAN : todo = UpdateAccount(account, k, e)
      BY <2>4
    <3> QED BY <1>4, <3>1, UpdateKept
  <2>5. CASE todo = DeleteNode
    <3>1. todo # <<>> /\ todo[1].op = "uninstall"
      BY <2>5 DEF DeleteNode
    <3> QED BY <3>1 DEF CallKept
  <2> QED BY <2>1, <2>2, <2>3, <2>4, <2>5
<1> QED BY <1>1, <1>2, <1>3, <1>4 DEF Alive

\* When no call is under way, every inbound is left as the row says.
LEMMA LeavesRow ==
  ASSUME CallsKept, Calling = {}
  PROVE  \A i \in HotInbounds : Leaves(i, ListActive[i])
<1>1. Delivers(<<>>)
  BY DEF CallsKept
<1>2. \A i \in HotInbounds : Leaves(i, usersOf(final(<<>>))[i])
  BY <1>1, NoTasks DEF Delivers
<1> QED BY <1>2, FinalEmpty, ActiveUsers

\* A pass that stands at its beginning is idle.
LEMMA TickIdle ==
  ASSUME PassAlone, tick.pc = "idle"
  PROVE  tick = idleTick
BY DEF PassAlone

\* A call begins.
LEMMA BeginHolds ==
  ASSUME Counts, Orderly, AllOrderly, NEW c \in Callers, Begin(c), Orderly'
  PROVE  AllOrderly'
<1>1. OrderlyTypes /\ Fetched /\ AtTask /\ CallsKept /\ PassAlone
  BY DEF AllOrderly
<1>2. PICK todo \in Requests :
        /\ call' = [call EXCEPT ![c] = todo]
        /\ trouble' = AtLeast(
             IF Calling # {} THEN Disordered
             ELSE IF \/ tick.pc # "idle"
                     \/ todo[1].op = "inbound" /\ account.status # "active"
             THEN Mixed ELSE Calm)
  BY DEF Begin
<1>3. UNCHANGED <<account, due, later, worker, push, tick, file, running>>
  BY DEF Begin
<1>4. /\ Calling = {} /\ tick.pc = "idle" /\ node = "active"
      /\ todo[1].op = "inbound" => account.status = "active"
  BY <1>2 DEF Orderly, AtLeast, Calm, Mixed, Disordered
<1>5. CallKept(todo)
  BY <1>1, <1>4, LeavesRow, RequestKept
<1>6. /\ \A i, v : Leaves(i, v)' <=> Leaves(i, v)
      /\ \A i : LastFor(i)' <=> LastFor(i)
  BY <1>3, SameLeaves
<1>7. CallKept(todo)'
  BY <1>3, <1>5, <1>6, StillKept
<1>8. DOMAIN call = Callers /\ \A d \in Callers : call[d] = <<>>
  BY <1>1, <1>4 DEF OrderlyTypes, Calling
<1>9. \A d \in Callers : call'[d] # <<>> => d = c /\ call'[d] = todo
  BY <1>2, <1>8
<1>10. Delivers(<<>>)'
  <2>1. final(<<>>)' = final(<<>>)
    BY <1>3, SameFinal
  <2>2. Delivers(<<>>)
    BY <1>1, <1>4 DEF CallsKept
  <2> QED BY <1>6, <2>1, <2>2 DEF Delivers
<1>11. CallsKept'
  <2>1. OneCall'
    BY <1>9 DEF OneCall
  <2>2. ASSUME NEW d \in Callers, call'[d] # <<>> PROVE CallKept(call[d])'
    <3>1. call'[d] = todo
      BY <1>9, <2>2
    <3> QED BY <1>7, <3>1 DEF CallKept, Formed, Delivers, RowFollows
  <2> QED BY <1>10, <2>1, <2>2 DEF CallsKept
<1>12. OrderlyTypes'
  BY <1>1, <1>2, <1>3 DEF OrderlyTypes
<1>13. Fetched' /\ AtTask'
  BY <1>1, <1>3 DEF Fetched, AtTask, acting, Task
<1>14. PassAlone'
  BY <1>1, <1>3, <1>4, TickIdle DEF PassAlone, idleTick, NoUsers
<1> QED BY <1>11, <1>12, <1>13, <1>14 DEF AllOrderly

----------------------------------------------------------------------------
\* The repair pass.

\* With nothing queued and no call under way the node has the users of the row.
LEMMA AllDelivered ==
  ASSUME OrderlyTypes, Fetched, CallsKept, Calling = {}, ~ Queued
  PROVE  /\ \A i \in HotInbounds : running[i] = ListActive[i]
         /\ \A i \in HotInbounds : \A v : Leaves(i, v) => v = running[i]
         /\ ~ acting /\ worker.pc = "idle" /\ due = <<>>
<1>1. due = <<>> /\ worker = idleWorker
  BY DEF Queued
<1>2. ~ acting /\ worker.pc = "idle"
  BY <1>1 DEF acting, InHand, idleWorker
<1>3. \A i : waiting(i) = {}
  BY <1>1 DEF waiting
<1>4. \A i, v : Leaves(i, v) => v = running[i]
  BY <1>2, <1>3 DEF Leaves
<1> QED BY <1>1, <1>2, <1>4, LeavesRow

\* A step of the pass, alone, that leaves the users of the row.
LEMMA PassHolds ==
  ASSUME AllOrderly, Calling = {}, ~ Queued, UNCHANGED <<account, due, later, call, worker>>,
         push'.users \in Users, file' \in Users, running' \in Users,
         \A i \in HotInbounds : running'[i] = ListActive[i],
         tick' # idleTick =>
           /\ tick' = [pc |-> tick'.pc, auth |-> tick'.auth, left |-> tick'.left]
           /\ tick'.pc # "idle"
           /\ IF tick'.pc = "pushing" THEN push'.users = ListActive ELSE tick'.auth = ListActive
           /\ tick'.pc = "ghost" => tick'.auth[Head(tick'.left)] = None
  PROVE  AllOrderly'
<1>1. OrderlyTypes /\ Fetched /\ AtTask /\ CallsKept /\ PassAlone
  BY DEF AllOrderly
<1>2. /\ \A i \in HotInbounds : running[i] = ListActive[i]
      /\ \A i \in HotInbounds : \A v : Leaves(i, v) => v = running[i]
      /\ ~ acting /\ worker.pc = "idle" /\ due = <<>>
  BY <1>1, AllDelivered
<1>3. OrderlyTypes'
  BY <1>1 DEF OrderlyTypes
<1>4. Fetched'
  BY <1>1 DEF Fetched, acting
<1>5. AtTask'
  BY <1>2 DEF AtTask
<1>6. ASSUME NEW i \in HotInbounds, NEW v, Leaves(i, v) PROVE Leaves(i, v)'
  <2>1. waiting(i)' = {} /\ ~ acting' /\ worker'.pc = "idle"
    BY <1>2 DEF waiting, acting
  <2>2. running'[i] = v
    BY <1>2, <1>6
  <2> QED BY <2>1, <2>2 DEF Leaves
<1>7. ASSUME NEW i, LastFor(i) PROVE LastFor(i)'
  BY <1>2 DEF LastFor, acting
<1>8. CallsKept'
  BY <1>1, <1>6, <1>7, StillCalls
<1>9. PassAlone'
  <2>1. Calling' = {} /\ ~ Queued' /\ idleTick' = idleTick /\ ListActive' = ListActive
    BY DEF Calling, Queued, idleWorker, idleTick, NoUsers, ListActive
  <2> QED BY <2>1 DEF PassAlone
<1> QED BY <1>3, <1>4, <1>5, <1>8, <1>9 DEF AllOrderly

\* The pass begins, with nothing to push or with a push.
LEMMA TickBeginsHolds ==
  ASSUME Counts, Orderly, AllOrderly, TickUnchanged \/ TickTakesApplyMu, Orderly'
  PROVE  AllOrderly'
<1>1. OrderlyTypes /\ Fetched /\ CallsKept /\ PassAlone
  BY DEF AllOrderly
<1>2. /\ tick.pc = "idle" /\ UNCHANGED <<account, due, later, call, worker, file, running>>
      /\ trouble' = AtLeast(IF Calling # {} \/ Queued THEN Mixed ELSE Calm)
  BY DEF TickUnchanged, TickTakesApplyMu
<1>3. Calling = {} /\ ~ Queued
  BY <1>2 DEF Orderly, AtLeast, Calm, Mixed
<1>4. tick = idleTick /\ \A i \in HotInbounds : running[i] = ListActive[i]
  BY <1>1, <1>2, <1>3, TickIdle, AllDelivered
<1>5. file' \in Users /\ running' \in Users
  BY <1>1, <1>2 DEF OrderlyTypes
<1>6. ListActive \in Users
  BY <1>1, UsersTyped, ActiveUsers DEF OrderlyTypes, OrderlyRows
<1>7. CASE TickUnchanged
  <2>1. /\ push'.users \in Users
        /\ tick' = [pc |-> "inbounds", auth |-> ListActive, left |-> SetToSeq(Inbounds)]
    BY <1>1, <1>7 DEF TickUnchanged, TickReads, OrderlyTypes
  <2> QED BY <1>2, <1>3, <1>4, <1>5, <2>1, PassHolds
<1>8. CASE TickTakesApplyMu
  <2>1. push'.users = ListActive
    BY <1>8, PushedUsers DEF TickTakesApplyMu, TakeApplyMu
  <2>2. tick' = [pc |-> "pushing", auth |-> tick'.auth, left |-> tick'.left]
    BY <1>4, <1>8 DEF TickTakesApplyMu, idleTick
  <2> QED BY <1>2, <1>3, <1>4, <1>5, <1>6, <2>1, <2>2, PassHolds
<1> QED BY <1>7, <1>8

\* The pass goes on.
LEMMA TickGoesOnHolds ==
  ASSUME AllOrderly, node = "active", TickPushes \/ ListUsers \/ ReconcileUser
  PROVE  AllOrderly'
<1> USE HotAreInbounds
<1>1. OrderlyTypes /\ Fetched /\ CallsKept /\ PassAlone
  BY DEF AllOrderly
<1>2. tick # idleTick
  BY DEF TickPushes, ListUsers, ReconcileUser, idleTick
<1>3. /\ tick = [pc |-> tick.pc, auth |-> tick.auth, left |-> tick.left] /\ tick.pc # "idle"
      /\ Calling = {} /\ ~ Queued
      /\ IF tick.pc = "pushing" THEN push.users = ListActive ELSE tick.auth = ListActive
      /\ tick.pc = "ghost" => tick.auth[Head(tick.left)] = None
  BY <1>1, <1>2 DEF PassAlone
<1>4. \A i \in HotInbounds : running[i] = ListActive[i]
  BY <1>1, <1>3, AllDelivered
<1>5. UNCHANGED <<account, due, later, call, worker>>
  BY DEF TickPushes, ListUsers, ReconcileUser
<1>6. CASE TickPushes
  <2>1. /\ PushConfig(push.users) /\ push' = idlePush /\ push.users = ListActive
        /\ tick' = [pc |-> "inbounds", auth |-> ListActive, left |-> SetToSeq(Inbounds)]
    BY <1>3, <1>6 DEF TickPushes, TickReads, AgentUp
  <2>2. /\ file' \in Users /\ running' \in Users
        /\ \A i \in Inbounds : running'[i] \in {running[i], push.users[i]}
    BY <1>1, <2>1, Pushed DEF OrderlyTypes
  <2>3. push'.users \in Users
    BY <2>1, IdlePushTyped
  <2> QED BY <1>3, <1>4, <1>5, <2>1, <2>2, <2>3, PassHolds
<1>7. ASSUME inboundDone, tick.pc # "pushing"
      PROVE  tick' # idleTick =>
               /\ tick' = [pc |-> tick'.pc, auth |-> tick'.auth, left |-> tick'.left]
               /\ tick'.pc = "inbounds" /\ tick'.auth = ListActive
  <2>1. CASE tick' = idleTick
    BY <2>1
  <2>2. CASE tick' = [tick EXCEPT !.pc = "inbounds", !.left = Tail(@)]
    <3>1. tick' = [pc |-> "inbounds", auth |-> tick.auth, left |-> Tail(tick.left)]
      BY <1>3, <2>2
    <3> QED BY <1>3, <1>7, <3>1
  <2> QED BY <1>7, <2>1, <2>2 DEF inboundDone
<1>8. CASE ListUsers
  <2>1. tick.pc = "inbounds" /\ UNCHANGED <<push, file, running>>
    BY <1>8 DEF ListUsers
  <2>2. push'.users \in Users /\ file' \in Users /\ running' \in Users
    BY <1>1, <2>1 DEF OrderlyTypes
  <2>3. CASE inboundDone
    BY <1>3, <1>4, <1>5, <1>7, <2>1, <2>2, <2>3, PassHolds
  <2>4. CASE tick' = [tick EXCEPT !.pc = IF isGhost(Head(tick.left)) THEN "ghost" ELSE "missing"]
    <3> DEFINE pc == IF isGhost(Head(tick.left)) THEN "ghost" ELSE "missing"
    <3>1. pc \in {"ghost", "missing"} /\ (pc = "ghost" => tick.auth[Head(tick.left)] = None)
      BY DEF isGhost
    <3> HIDE DEF pc
    <3>2. tick' = [pc |-> pc, auth |-> tick.auth, left |-> tick.left]
      BY <1>3, <2>4 DEF pc
    <3>3. tick.auth = ListActive
      BY <1>3, <2>1
    <3> QED BY <1>3, <1>4, <1>5, <2>1, <2>2, <3>1, <3>2, <3>3, PassHolds
  <2> QED BY <1>8, <2>3, <2>4 DEF ListUsers
<1>9. CASE ReconcileUser
  <2> DEFINE i == Head(tick.left)
  <2>1. /\ tick.pc \in {"ghost", "missing"} /\ running' = reconciled /\ inboundDone
        /\ UNCHANGED <<push, file>> /\ tick.auth = ListActive
    BY <1>3, <1>9 DEF ReconcileUser, AgentUp
  <2>2. push'.users \in Users /\ file' \in Users /\ running \in Users
    BY <1>1, <2>1 DEF OrderlyTypes
  <2>3. ListActive \in Users
    BY <1>1, UsersTyped, ActiveUsers DEF OrderlyTypes, OrderlyRows
  <2>4. reconciled \in Users /\ \A j \in HotInbounds : reconciled[j] = ListActive[j]
    <3>1. CASE tick.pc = "ghost"
      <4>1. reconciled = [running EXCEPT ![i] = None] /\ ListActive[i] = None
        BY <1>3, <2>1, <3>1 DEF reconciled, Removed
      <4> QED BY <1>4, <2>2, <4>1 DEF Users
    <3>2. CASE tick.pc # "ghost"
      <4>1. reconciled = IF i \in HotInbounds /\ running[i] = None
                         THEN [running EXCEPT ![i] = ListActive[i]] ELSE running
        BY <2>1, <3>2 DEF reconciled, Added
      <4> QED BY <1>4, <2>2, <2>3, <4>1 DEF Users
    <3> QED BY <3>1, <3>2
  <2> QED BY <1>3, <1>5, <1>7, <2>1, <2>2, <2>4, PassHolds
<1> QED BY <1>6, <1>8, <1>9

----------------------------------------------------------------------------
\* The invariant.

\* Everything is in order at the start: the node has the users of the row.
LEMMA InitHolds ==
  ASSUME Init
  PROVE  ProvInv
<1> USE HotAreInbounds
<1>1. subscriber.granted
  BY DEF Init
<1>15. Counts
  BY <1>1 DEF Init, Counts, Calm, Disordered
<1>2. PICK s \in {"none", "active"} :
        account = [status |-> s, inbound |-> CHOOSE i \in Inbounds : TRUE,
                   cred |-> CHOOSE k \in Creds : TRUE]
  BY DEF Init
<1>3. (CHOOSE i \in Inbounds : TRUE) \in Inbounds /\ (CHOOSE k \in Creds : TRUE) \in Creds
  BY ProvisioningBounds
<1>4. account \in OrderlyRows
  BY <1>2, <1>3 DEF OrderlyRows, OrderlyStatuses, Statuses, Rows
<1>5. ListActive \in Users
  BY <1>4, UsersTyped, ActiveUsers DEF OrderlyRows
<1>6. /\ file = ListActive /\ running = ListActive /\ due = <<>> /\ later = EmptyBag
      /\ call = [c \in Callers |-> <<>>] /\ worker = idleWorker /\ push = idlePush
      /\ tick = idleTick
  BY <1>1 DEF Init, nodeUsers
<1>7. OrderlyTypes
  <2>1. worker \in [batch : Seq(OrderlyTasks), pc : {"idle", "next"} \cup InHand]
    BY <1>6 DEF idleWorker
  <2> QED BY <1>4, <1>5, <1>6, <2>1, IdlePushTyped DEF OrderlyTypes
<1>8. worker.pc = "idle" /\ worker.batch = <<>> /\ ~ acting
  BY <1>6 DEF idleWorker, acting, InHand
<1>9. Fetched
  BY <1>6, <1>8 DEF Fetched
<1>10. AtTask
  BY <1>8 DEF AtTask
<1>11. Calling = {}
  BY <1>6 DEF Calling
<1>12. Delivers(<<>>)
  <2>1. \A i \in HotInbounds : Leaves(i, ListActive[i])
    BY <1>6, <1>8 DEF Leaves, waiting
  <2>2. usersOf(final(<<>>)) = ListActive
    BY FinalEmpty, ActiveUsers
  <2> QED BY <2>1, <2>2, NoTasks DEF Delivers
<1>13. CallsKept
  BY <1>6, <1>11, <1>12 DEF CallsKept, OneCall
<1>14. PassAlone
  BY <1>6 DEF PassAlone
<1> QED BY <1>7, <1>9, <1>10, <1>13, <1>14, <1>15 DEF ProvInv, AllOrderly

\* A step of the worker.
LEMMA WorkerHolds ==
  ASSUME Orderly, AllOrderly, WorkerSteps
  PROVE  AllOrderly'
<1>1. node = "active" /\ ~ NodeMissing
  BY DEF NodeMissing, AgentUp, Orderly
<1> QED BY <1>1, BatchHolds, MarkHolds, AddHolds, RemoveStaleHolds, AddAgainHolds, RemoveHolds,
           WorkerTakesHolds, WorkerPushesHolds DEF WorkerSteps

\* A step of a call: once the node is going nothing is said any more.
LEMMA CallHolds ==
  ASSUME AllOrderly, NEW c \in Callers, CallSteps(c), Orderly'
  PROVE  AllOrderly'
<1>1. CASE CancelTasksForNode(c)
  <2>1. call[c] # <<>> /\ Head(call[c]).op = "cancel" /\ Head(call[c]) = call[c][1]
    BY <1>1 DEF CancelTasksForNode
  <2>2. CallKept(call[c])
    BY <2>1 DEF AllOrderly, CallsKept
  <2>3. Formed(call[c])
    BY <2>1, <2>2 DEF CallKept
  <2>4. call[c][1] \in OrderlyEffects
    BY <2>1, <2>3, Rest DEF Formed
  <2> QED BY <2>1, <2>4 DEF OrderlyEffects
<1>2. CASE NodeGone(c)
  BY <1>2 DEF NodeGone, Orderly
<1> QED BY <1>1, <1>2, WriteHolds, EnqueueHolds DEF CallSteps

\* Nothing has moved.
LEMMA StutterHolds ==
  ASSUME AllOrderly, UNCHANGED vars
  PROVE  AllOrderly'
<1>1. OrderlyTypes /\ Fetched /\ AtTask /\ CallsKept /\ PassAlone
  BY DEF AllOrderly
<1>2. UNCHANGED <<account, due, later, call, worker, push, tick, file, running>>
  BY DEF vars
<1>3. OrderlyTypes'
  BY <1>1, <1>2 DEF OrderlyTypes
<1>4. Fetched' /\ AtTask'
  BY <1>1, <1>2 DEF Fetched, AtTask, acting, Task
<1>5. CallsKept'
  <2>1. /\ \A i, v : Leaves(i, v)' <=> Leaves(i, v)
        /\ \A i : LastFor(i)' <=> LastFor(i)
    BY <1>2, SameLeaves
  <2> QED BY <1>1, <1>2, <2>1, StillCalls
<1>6. PassAlone'
  <2>1. /\ Calling' = Calling /\ (Queued' <=> Queued) /\ idleTick' = idleTick
        /\ ListActive' = ListActive
    BY <1>2 DEF Calling, Queued, idleWorker, idleTick, NoUsers, ListActive
  <2> QED BY <1>1, <1>2, <2>1 DEF PassAlone
<1> QED BY <1>3, <1>4, <1>5, <1>6 DEF AllOrderly

\* No step of an orderly history breaks the order.
LEMMA StepHolds ==
  ASSUME ProvInv, [Next]_vars
  PROVE  ProvInv'
<1>1. Counts
  BY DEF ProvInv
<1>2. Counts' /\ (Orderly' => Orderly)
  BY <1>1, CountsStep
<1>3. SUFFICES ASSUME Orderly' PROVE AllOrderly'
  BY <1>2 DEF ProvInv
<1>4. Orderly /\ AllOrderly /\ node = "active"
  BY <1>2, <1>3 DEF ProvInv, Orderly
<1>5. ~ Fault
  BY <1>1, <1>3, <1>4, FaultsDisorder
<1>6. ASSUME NEW c \in Callers, Begin(c) \/ CallSteps(c) \/ EnqueueFails(c) PROVE AllOrderly'
  <2>1. ~ EnqueueFails(c)
    BY <1>5 DEF EnqueueFails
  <2> QED BY <1>1, <1>3, <1>4, <1>6, <2>1, BeginHolds, CallHolds
<1>7. CASE WorkerSteps
  BY <1>4, <1>7, WorkerHolds
<1>8. CASE MarkProcessingFails \/ TaskFails \/ MarkFails \/ TickFails
        \/ XrayRestarts \/ SubscriptionEnds \/ HubDies
  BY <1>5, <1>8 DEF MarkProcessingFails, TaskFails, MarkFails, TickFails, XrayRestarts,
              SubscriptionEnds, HubDies
<1>9. CASE \E t \in BagToSet(later) : Due(t)
  <2>1. BagToSet(later) = {}
    BY <1>4 DEF AllOrderly, OrderlyTypes, BagToSet, EmptyBag, SetToBag
  <2> QED BY <1>9, <2>1
<1>10. CASE TickSteps
  BY <1>1, <1>3, <1>4, <1>10, TickBeginsHolds, TickGoesOnHolds DEF TickSteps
<1>11. CASE UNCHANGED vars
  BY <1>4, <1>11, StutterHolds
<1> QED BY <1>6, <1>7, <1>8, <1>9, <1>10, <1>11 DEF Next

\* As long as calls come one after the other and nothing fails, the queue, the worker's
\* copies, the calls and the row agree: whoever looks at an inbound last leaves there what
\* the row says once the call is over.
THEOREM ProvisioningInvariance == Spec => []ProvInv
<1>1. Init => ProvInv
  BY InitHolds
<1>2. ProvInv /\ [Next]_vars => ProvInv'
  BY StepHolds
<1> QED BY <1>1, <1>2, PTL DEF Spec

\* Account calls made one after the other, with nothing failing and the repair pass not in
\* between, leave the node with exactly the users of the accounts table and their newest
\* credentials as soon as the queue is empty: for any number of calls, any batch size, any
\* inbounds and credentials.
THEOREM QueueDelivered == Spec => []QueueDelivers
<1>1. ProvInv => QueueDelivers
  <2>1. ASSUME ProvInv, AtRest, trouble = Calm, faults = 0, node = "active"
        PROVE  \A i \in HotInbounds : running[i] = ListActive[i]
    <3>1. OrderlyTypes /\ Fetched /\ CallsKept
      BY <2>1 DEF ProvInv, Counts, Orderly, AllOrderly
    <3>2. Calling = {} /\ ~ Queued
      BY <2>1 DEF AtRest
    <3> QED BY <3>1, <3>2, AllDelivered
  <2> QED BY <2>1 DEF QueueDelivers
<1> QED BY <1>1, ProvisioningInvariance, PTL
====
