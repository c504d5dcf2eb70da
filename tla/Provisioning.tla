---- MODULE Provisioning ----
\* How one user reaches the Xray of one node: the account row and the calls that
\* change it (src/internal/account/usecase/account_usecase.go), the queue of
\* provisioning tasks and its worker (src/internal/provisioning/), the full config
\* push (src/internal/node/usecase/agent_helpers.go with the agent's PushConfig and
\* hot apply) and the scheduler's repair pass, which pushes the config and then
\* reconciles the users (src/pkg/scheduler/task_nodes.go,
\* src/internal/subscription/usecase/subscription_reconcile.go).
\*
\* The node holds the user twice: in the config file, which only a push writes, and in
\* the running Xray, which the tasks and the reconcile pass change by API and which a
\* restart loads from the file.  A task carries the credential it was made with.
\*
\* The push and the repair pass do not ask for the same users.  The push leaves out an
\* active account whose subscription grants no access, the pass does not ask; the pass
\* leaves alone a user nobody authorised whose email is not of a kind the panel makes,
\* though an admin may have given an account any email.  Out of the model: an inbound that
\* is disabled, which both leave out, and a node out of service, which the pass skips.
EXTENDS Naturals, Sequences, FiniteSets, Bags, SequencesExt, FiniteSetsExt

CONSTANTS
  Inbounds,     \* inbounds of the node
  HotInbounds,  \* those whose protocol the agent can add users to by API
  Creds,        \* credentials (uuids) the user may have
  None,         \* no user on an inbound
  MaxCalls,     \* bound: account calls made, each served by a goroutine of its own
  MaxRetries,   \* Config.MaxRetries
  BatchSize,    \* Config.BatchSize
  MaxFaults     \* bound: failures, deaths of the hub, restarts of Xray, a subscription's end

ASSUME ProvisioningBounds ==
  /\ MaxCalls \in Nat /\ MaxRetries \in Nat /\ MaxFaults \in Nat
  /\ BatchSize \in Nat \ {0}
  /\ Inbounds # {} /\ HotInbounds \subseteq Inbounds
  /\ Creds # {} /\ None \notin Creds

Users == [Inbounds -> Creds \cup {None}]

Statuses == {"none", "active", "disabled", "pending_provision", "deleted"}
Rows == [status : Statuses, inbound : Inbounds, cred : Creds]

\* What an account call still has to do, one database write after the other.
Effects ==
  [op : {"create", "save"}, row : Rows]
  \cup [op : {"status"}, to : Statuses]
  \cup [op : {"inbound", "remove"}, inbound : Inbounds]
  \cup [op : {"add", "addNew"}, inbound : Inbounds, cred : Creds]
  \cup [op : {"delete", "uninstall", "cancel", "nodeGone"}]

\* What a task carries; its status shows in where it is kept.
Tasks ==
  [type : {"ADD_USER", "REMOVE_USER"}, inbound : Inbounds, cred : Creds \cup {None},
   retry : 0..MaxRetries]

Callers == 1..MaxCalls

VARIABLES
  account,   \* the row of the accounts table
  node,      \* "active", "uninstalled" (its agent is gone) or "deleted"
  due,       \* rows of provisioning_tasks that are PENDING or FAILED and due, oldest first
  later,     \* the FAILED ones whose next_retry_at is to come (a bag)
  call,      \* caller -> the effects its call still has to bring about
  worker,    \* the worker's copies of the tasks it fetched, and where it stands
  push,      \* who holds the node's applyMu, and the users it read
  tick,      \* the scheduler's repair pass
  file,      \* users in the node's config file
  running,   \* users of the running Xray
  dirty,     \* the agent's configDirty: the last push wrote the file and could not restart Xray
  subscriber, \* managed: has an email the panel makes; granted: the subscription grants access
  calls,     \* how many account calls were made
  faults,    \* how many things failed
  trouble    \* how far calls, tasks and the repair pass got in each other's way

vars == <<account, node, due, later, call, worker, push, tick, file, running, dirty,
          subscriber, calls, faults, trouble>>

\* trouble: nothing yet; the pass ran in between or an account that is not active was
\* moved; two calls overlapped, a task was lost or overtaken by a later one, or the pass
\* added a user from a row that had changed since it was read.
Calm == 0
Mixed == 1
Disordered == 2
AtLeast(level) == IF trouble < level THEN level ELSE trouble

NoUsers == [i \in Inbounds |-> None]

\* ListActive: the accounts that are active.
ListActive ==
  [i \in Inbounds |->
     IF account.status = "active" /\ account.inbound = i THEN account.cred ELSE None]

\* nodeUsers: those of them a push puts on the node.
nodeUsers == IF subscriber.granted THEN ListActive ELSE NoUsers

idleWorker == [batch |-> <<>>, pc |-> "idle"]
idlePush == [owner |-> "nobody", users |-> NoUsers]
idleTick == [pc |-> "idle", auth |-> NoUsers, left |-> <<>>]

\* The user is on the node since the last push, with an email the panel made, or has no
\* account yet, and may get one with any email.
Init ==
  /\ \E s \in {"none", "active"} :
       account = [status |-> s, inbound |-> CHOOSE i \in Inbounds : TRUE,
                  cred |-> CHOOSE k \in Creds : TRUE]
  /\ \E known \in BOOLEAN :
       /\ account.status = "active" => known
       /\ subscriber = [managed |-> known, granted |-> TRUE]
  /\ file = nodeUsers /\ running = nodeUsers /\ dirty = FALSE
  /\ node = "active"
  /\ due = <<>> /\ later = EmptyBag
  /\ call = [c \in Callers |-> <<>>]
  /\ worker = idleWorker /\ push = idlePush /\ tick = idleTick
  /\ calls = 0 /\ faults = 0
  /\ trouble = Calm

\* Something fails.
Fault == faults < MaxFaults /\ faults' = faults + 1
NoFault == UNCHANGED faults

----------------------------------------------------------------------------
\* The account calls.  Each reads the row once and goes by what it read.

Save(row) == [op |-> "save", row |-> row]
SetStatus(s) == [op |-> "status", to |-> s]
EnqueueAddUser(row) == [op |-> "add", inbound |-> row.inbound, cred |-> row.cred]
EnqueueRemoveUser(row) == [op |-> "remove", inbound |-> row.inbound]

Alive == account.status \notin {"none", "deleted"}

CreateAccount(row) ==
  <<[op |-> "create", row |-> row], [EnqueueAddUser(row) EXCEPT !.op = "addNew"]>>
DisableAccount(row) == <<EnqueueRemoveUser(row), SetStatus("disabled")>>
EnableAccount(row) == <<EnqueueAddUser(row), SetStatus("active")>>
DeleteAccount(row) == <<EnqueueRemoveUser(row), [op |-> "delete"]>>
MigrateAccount(row, target) ==
  <<[op |-> "inbound", inbound |-> target], EnqueueRemoveUser(row),
    EnqueueAddUser([row EXCEPT !.inbound = target])>>

\* A changed credential of an account that stays enabled is removed and added again.
UpdateAccount(row, uuid, enabled) ==
  LET new == [row EXCEPT !.cred = uuid, !.status = IF enabled THEN "active" ELSE "disabled"]
      needsRemove == row.status = "active" /\ ~enabled
      needsAdd == row.status = "disabled" /\ enabled
      needsReProvision == enabled /\ ~needsAdd /\ row.cred # uuid
  IN  <<Save(new)>>
      \o (IF needsRemove \/ needsReProvision THEN <<EnqueueRemoveUser(row)>> ELSE <<>>)
      \o (IF needsAdd \/ needsReProvision THEN <<EnqueueAddUser(new)>> ELSE <<>>)

\* DeleteNode with force.
DeleteNode == <<[op |-> "uninstall"], [op |-> "cancel"], [op |-> "delete"], [op |-> "nodeGone"]>>

\* The calls the panel may be asked for.  A row that was deleted is not made again, and
\* nothing is asked for once the node and its inbounds are deleted.
Requests ==
  CASE node = "deleted" \/ account.status = "deleted" -> {}
    [] node # "deleted" /\ account.status = "none" ->
         {CreateAccount([account EXCEPT !.status = "active"])}
    [] node # "deleted" /\ Alive ->
         {DisableAccount(account), EnableAccount(account), DeleteAccount(account)}
         \cup {MigrateAccount(account, i) : i \in Inbounds \ {account.inbound}}
         \cup {UpdateAccount(account, k, e) : k \in Creds, e \in BOOLEAN}
         \cup {DeleteNode : n \in {node} \cap {"active"}}

Queued == due # <<>> \/ later # EmptyBag \/ worker # idleWorker
Calling == {c \in Callers : call[c] # <<>>}

Begin(c) ==
  /\ c = calls + 1
  /\ \E todo \in Requests :
       /\ call' = [call EXCEPT ![c] = todo]
       /\ trouble' = AtLeast(
            IF Calling # {} THEN Disordered
            ELSE IF \/ tick.pc # "idle"
                    \/ todo[1].op = "inbound" /\ account.status # "active"
            THEN Mixed ELSE Calm)
  /\ calls' = calls + 1
  /\ UNCHANGED <<account, node, due, later, worker, push, tick, file, running, faults,
                 dirty, subscriber>>

\* The rows the database holds after a write.  Save writes every column and brings a
\* deleted row back; the others find only rows that are not deleted.
Written(e) ==
  CASE e.op \in {"create", "save"} -> e.row
    [] e.op = "status" /\ Alive -> [account EXCEPT !.status = e.to]
    [] e.op = "inbound" /\ Alive -> [account EXCEPT !.inbound = e.inbound]
    [] e.op = "delete" /\ Alive -> [account EXCEPT !.status = "deleted"]
    [] OTHER -> account

WriteRow(c) ==
  LET e == Head(call[c]) IN
  /\ call[c] # <<>> /\ e.op \in {"create", "save", "status", "inbound", "delete"}
  /\ account' = Written(e)
  /\ call' = [call EXCEPT ![c] = Tail(@)]
  /\ UNCHANGED <<node, due, later, worker, push, tick, file, running, calls, faults,
                 trouble, dirty, subscriber>>

\* The task of an effect, as it is queued.
TaskFor(e) ==
  [type |-> IF e.op = "remove" THEN "REMOVE_USER" ELSE "ADD_USER", inbound |-> e.inbound,
   cred |-> IF e.op = "remove" THEN None ELSE e.cred, retry |-> 0]

\* A row that is due; the worker may hold a copy of it.
DueRow(t, fetched) == [task |-> t, fetched |-> fetched]

Enqueue(c) ==
  LET e == Head(call[c]) IN
  /\ call[c] # <<>> /\ e.op \in {"add", "addNew", "remove"}
  /\ due' = Append(due, DueRow(TaskFor(e), FALSE))
  /\ call' = [call EXCEPT ![c] = Tail(@)]
  /\ UNCHANGED <<account, node, later, worker, push, tick, file, running, calls, faults,
                 trouble, dirty, subscriber>>

\* A task that cannot be queued is logged; a new account is then parked.
EnqueueFails(c) ==
  LET e == Head(call[c]) IN
  /\ call[c] # <<>> /\ e.op \in {"add", "addNew", "remove"}
  /\ Fault
  /\ call' = [call EXCEPT ![c] =
       IF e.op = "addNew"
       THEN <<Save([status |-> "pending_provision", inbound |-> e.inbound, cred |-> e.cred])>>
       ELSE Tail(@)]
  /\ trouble' = Disordered
  /\ UNCHANGED <<account, node, due, later, worker, push, tick, file, running, calls, dirty,
                 subscriber>>

\* CancelTasksForNode: every task that is not over is DEAD; the worker goes on with the
\* copies it has.
CancelTasksForNode(c) ==
  /\ call[c] # <<>> /\ Head(call[c]).op = "cancel"
  /\ due' = <<>> /\ later' = EmptyBag
  /\ call' = [call EXCEPT ![c] = Tail(@)]
  /\ UNCHANGED <<account, node, worker, push, tick, file, running, calls, faults, trouble,
                 dirty, subscriber>>

\* The agent goes, then at the end the node's row.
NodeGone(c) ==
  /\ call[c] # <<>> /\ Head(call[c]).op \in {"uninstall", "nodeGone"}
  /\ node' = IF Head(call[c]).op = "uninstall" THEN "uninstalled" ELSE "deleted"
  /\ call' = [call EXCEPT ![c] = Tail(@)]
  /\ UNCHANGED <<account, due, later, worker, push, tick, file, running, calls, faults,
                 trouble, dirty, subscriber>>

CallSteps(c) == WriteRow(c) \/ Enqueue(c) \/ CancelTasksForNode(c) \/ NodeGone(c)

----------------------------------------------------------------------------
\* The agent.  A call of it that fails may have done its work all the same.

AgentUp == node = "active"

\* AddUser does not overwrite a user that is there; RemoveUser of one that is not
\* there says "not found".
Added(i, k) == IF running[i] = None THEN [running EXCEPT ![i] = k] ELSE running
Removed(i) == [running EXCEPT ![i] = None]

\* PushConfig: the file is replaced; users that are only added go to the running Xray by
\* API (removed first, if there), anything else needs a restart, and so does an API call
\* that fails.  The plan is made from the file, unless that is known not to be what runs.
hotApplies(users) == ~dirty /\ \A i \in Inbounds : file[i] \in {None, users[i]}

\* The running users once those the file lacks are as in given.
Applied(users, given) ==
  [i \in Inbounds |-> IF file[i] # users[i] THEN given[i] ELSE running[i]]

PushConfig(users) ==
  /\ file' = users
  /\ \/ running' = users /\ dirty' = FALSE
     \/ hotApplies(users) /\ running' = Applied(users, users) /\ UNCHANGED dirty

\* "Config written but restart failed": the restart is refused (too many in its window) and
\* Xray goes on with what it has, and with what a hot apply that failed has done.
RestartRefused(users) ==
  /\ file' = users /\ dirty' = TRUE
  /\ running' \in {running} \cup
       {Applied(users, given) : given \in IF hotApplies(users) THEN {NoUsers, users} ELSE {}}

\* A push that is answered with a failure, or not at all.
PushFails(users) ==
  UNCHANGED <<file, running, dirty>> \/ PushConfig(users) \/ RestartRefused(users)

\* The config the node has is what would be pushed: the hash of its file says so, whatever
\* its Xray runs.
\* (mutant of unchanged: compared by email only)
unchangedEmails == \A i \in Inbounds : nodeUsers[i] = None <=> file[i] = None
unchanged == nodeUsers = file

\* pushConfigToAgent takes applyMu and reads the accounts; a node whose config is unchanged
\* it leaves alone.  Only the holder of applyMu changes the file.
TakeApplyMu(owner) ==
  /\ push.owner = "nobody"
  /\ push' = [owner |-> owner, users |-> nodeUsers]

----------------------------------------------------------------------------
\* The worker.

\* FetchPending: tasks that are due, oldest first.
\* (mutant of FetchPending: newest first)
batchLen == IF Len(due) < BatchSize THEN Len(due) ELSE BatchSize
FetchNewest == [j \in 1..batchLen |-> Len(due) + 1 - j]
FetchPending == [j \in 1..batchLen |-> j]

Task == worker.batch[1]
NextTask == [batch |-> Tail(worker.batch), pc |-> IF Len(worker.batch) = 1 THEN "idle" ELSE "next"]
GoTo(pc) == worker' = [worker EXCEPT !.pc = pc]

processBatch ==
  /\ worker.pc = "idle" /\ due # <<>>
  /\ worker' = [batch |-> [j \in 1..batchLen |-> due[FetchPending[j]].task], pc |-> "next"]
  /\ due' = [j \in DOMAIN due |-> [due[j] EXCEPT !.fetched = \E n \in 1..batchLen : FetchPending[n] = j]]
  /\ UNCHANGED <<account, node, later, call, push, tick, file, running, calls, faults,
                 trouble, dirty, subscriber>>

\* The row of the worker's task, unless it was cancelled since it was fetched.
FetchedRows == {j \in DOMAIN due : due[j].fetched /\ due[j].task = Task}

\* A task that is PROCESSING is fetched by nobody.
MarkProcessing ==
  /\ worker.pc = "next"
  /\ due' = IF FetchedRows = {} THEN due ELSE RemoveAt(due, Min(FetchedRows))
  /\ GoTo("act")
  /\ UNCHANGED <<account, node, later, call, push, tick, file, running, calls, faults,
                 trouble, dirty, subscriber>>

\* The task could not be marked: it is left for the next batch.
MarkProcessingFails ==
  /\ worker.pc = "next" /\ Fault
  /\ due' = IF FetchedRows = {} THEN due ELSE [due EXCEPT ![Min(FetchedRows)].fetched = FALSE]
  /\ worker' = NextTask
  /\ trouble' = Disordered
  /\ UNCHANGED <<account, node, later, call, push, tick, file, running, calls, dirty,
                 subscriber>>

\* What MarkSuccess and MarkFailed do.  Only the worker touches the row of a task it has
\* marked, but for the cancellation, which this overwrites: the last answer of the agent
\* and the mark are one step.
MarkSuccess == worker' = NextTask /\ UNCHANGED <<later, trouble>>

isDead(t) == t.retry >= MaxRetries

MarkFailed ==
  /\ later' = IF isDead(Task) THEN later ELSE later (+) SetToBag({[Task EXCEPT !.retry = @ + 1]})
  /\ worker' = NextTask
  /\ trouble' = Disordered

\* A node that is not found ends the task with success; an agent that is gone fails it.
NodeMissing ==
  /\ worker.pc \in {"act", "stale", "readd"} /\ ~AgentUp
  /\ IF node = "deleted" /\ worker.pc = "act" THEN MarkSuccess ELSE MarkFailed
  /\ UNCHANGED <<account, node, due, call, push, tick, file, running, calls, faults, dirty,
                 subscriber>>

\* What the worker's next call to the agent makes of the running users.
Called ==
  IF worker.pc = "stale" \/ Task.type = "REMOVE_USER" THEN Removed(Task.inbound)
  ELSE IF Task.inbound \in HotInbounds THEN Added(Task.inbound, Task.cred) ELSE running

\* addUserToXray: a user who is there already is removed first.
mustReplace == running[Task.inbound] # None

addUserToXray ==
  /\ worker.pc = "act" /\ Task.type = "ADD_USER" /\ AgentUp
  /\ running' = Called
  /\ IF Task.inbound \in HotInbounds /\ ~mustReplace THEN MarkSuccess
     ELSE /\ GoTo(IF Task.inbound \in HotInbounds THEN "stale" ELSE "push")
          /\ UNCHANGED <<later, trouble>>
  /\ UNCHANGED <<account, node, due, call, push, tick, file, calls, faults, dirty,
                 subscriber>>

removeStaleUser ==
  /\ worker.pc = "stale" /\ AgentUp
  /\ running' = Called
  /\ GoTo("readd")
  /\ UNCHANGED <<account, node, due, later, call, push, tick, file, calls, faults, trouble,
                 dirty, subscriber>>

\* Whoever added the user in between is taken for this task.
addUserAgain ==
  /\ worker.pc = "readd" /\ AgentUp
  /\ running' = Called
  /\ MarkSuccess
  /\ UNCHANGED <<account, node, due, call, push, tick, file, calls, faults, dirty,
                 subscriber>>

removeUserFromXray ==
  /\ worker.pc = "act" /\ Task.type = "REMOVE_USER" /\ AgentUp
  /\ running' = Called
  /\ MarkSuccess
  /\ UNCHANGED <<account, node, due, call, push, tick, file, calls, faults, dirty,
                 subscriber>>

\* An agent that cannot add a user of this protocol gets the full config instead.
WorkerTakesApplyMu ==
  /\ worker.pc = "push" /\ push.owner = "nobody"
  /\ IF unchanged /\ AgentUp THEN MarkSuccess /\ UNCHANGED push
     ELSE TakeApplyMu("worker") /\ GoTo("pushing") /\ UNCHANGED <<later, trouble>>
  /\ UNCHANGED <<account, node, due, call, tick, file, running, calls, faults, dirty,
                 subscriber>>

WorkerPushes ==
  /\ worker.pc = "pushing"
  /\ IF AgentUp THEN PushConfig(push.users) /\ MarkSuccess
     ELSE UNCHANGED <<file, running, dirty>> /\ MarkFailed
  /\ push' = idlePush
  /\ UNCHANGED <<account, node, due, call, tick, calls, faults, subscriber>>

\* A call to the agent fails, with or without effect.
Attempted ==
  \/ UNCHANGED <<file, running, dirty>>
  \/ AgentUp /\ worker.pc = "pushing" /\ PushFails(push.users)
  \/ /\ AgentUp /\ worker.pc \in {"act", "stale", "readd"}
     /\ running' = Called /\ UNCHANGED <<file, dirty>>

TaskFails ==
  /\ worker.pc \in {"act", "stale", "readd", "pushing"} /\ AgentUp /\ Fault
  /\ Attempted
  /\ MarkFailed
  /\ push' = IF worker.pc = "pushing" THEN idlePush ELSE push
  /\ UNCHANGED <<account, node, due, call, tick, calls, subscriber>>

\* The outcome could not be written, and nobody looks: the task stays PROCESSING.
MarkFails ==
  /\ worker.pc \in {"act", "stale", "readd", "pushing"} /\ AgentUp /\ Fault
  /\ Attempted
  /\ worker' = NextTask
  /\ trouble' = Disordered
  /\ push' = IF worker.pc = "pushing" THEN idlePush ELSE push
  /\ UNCHANGED <<account, node, due, later, call, tick, calls, subscriber>>

\* The backoff of a failed task is over.
\* (mutant of Due: only tasks that were never tried are fetched)
DueNever(t) == FALSE
Due(t) ==
  /\ due' = Append(due, DueRow(t, FALSE))
  /\ later' = later (-) SetToBag({t})
  /\ UNCHANGED <<account, node, call, worker, push, tick, file, running, calls, faults,
                 trouble, dirty, subscriber>>

WorkerSteps ==
  \/ processBatch \/ MarkProcessing \/ NodeMissing
  \/ addUserToXray \/ removeStaleUser \/ addUserAgain \/ removeUserFromXray
  \/ WorkerTakesApplyMu \/ WorkerPushes

----------------------------------------------------------------------------
\* The scheduler's repair pass: SyncInbounds pushes the config, then ReconcileUsers
\* compares the users of every inbound, by email, with the accounts it read.

\* ReconcileUsers reads the active accounts and goes over the inbounds.
TickReads ==
  tick' = [pc |-> "inbounds", auth |-> ListActive, left |-> SetToSeq(Inbounds)]

\* The push of a config the node has already does nothing.
TickUnchanged ==
  /\ tick.pc = "idle" /\ node = "active" /\ push.owner = "nobody" /\ unchanged
  /\ TickReads
  /\ trouble' = AtLeast(IF Calling # {} \/ Queued THEN Mixed ELSE Calm)
  /\ UNCHANGED <<account, node, due, later, call, worker, push, file, running, calls,
                 faults, dirty, subscriber>>

TickTakesApplyMu ==
  /\ tick.pc = "idle" /\ node = "active" /\ ~unchanged
  /\ TakeApplyMu("tick") /\ tick' = [tick EXCEPT !.pc = "pushing"]
  /\ trouble' = AtLeast(IF Calling # {} \/ Queued THEN Mixed ELSE Calm)
  /\ UNCHANGED <<account, node, due, later, call, worker, file, running, calls, faults,
                 dirty, subscriber>>

\* The pass reads the accounts for ReconcileUsers after its push; nothing a push touches
\* decides what it reads, so both are one step.
TickPushes ==
  /\ tick.pc = "pushing"
  /\ IF AgentUp THEN PushConfig(push.users) ELSE UNCHANGED <<file, running, dirty>>
  /\ push' = idlePush
  /\ TickReads
  /\ UNCHANGED <<account, node, due, later, call, worker, calls, faults, trouble,
                 subscriber>>

inboundDone ==
  tick' = IF Len(tick.left) = 1 THEN idleTick
          ELSE [tick EXCEPT !.pc = "inbounds", !.left = Tail(@)]

\* What the users listed on the next inbound call for: one nobody authorised is removed,
\* if the email is of a kind the panel makes; one who is missing is added.
\* (mutant of isGhost: who is not authorised is left alone)
isGhostNever(i) == FALSE
isGhost(i) == subscriber.managed /\ running[i] # None /\ tick.auth[i] = None
isMissing(i) == running[i] = None /\ tick.auth[i] # None

ListUsers ==
  LET i == Head(tick.left) IN
  /\ tick.pc = "inbounds"
  /\ IF AgentUp /\ (isGhost(i) \/ isMissing(i))
     THEN tick' = [tick EXCEPT !.pc = IF isGhost(i) THEN "ghost" ELSE "missing"]
     ELSE inboundDone
  /\ UNCHANGED <<account, node, due, later, call, worker, push, file, running, calls,
                 faults, trouble, dirty, subscriber>>

reconciled ==
  LET i == Head(tick.left)
  IN  IF tick.pc = "ghost" THEN Removed(i)
      ELSE IF i \in HotInbounds THEN Added(i, tick.auth[i]) ELSE running

\* The pass is about to add a user as the table had him when it was read.
stalePass ==
  tick.pc = "missing" /\ tick.auth[Head(tick.left)] # ListActive[Head(tick.left)]

ReconcileUser ==
  /\ tick.pc \in {"ghost", "missing"}
  /\ running' = IF AgentUp THEN reconciled ELSE running
  /\ inboundDone
  /\ trouble' = IF stalePass THEN Disordered ELSE trouble
  /\ UNCHANGED <<account, node, due, later, call, worker, push, file, calls, faults, dirty,
                 subscriber>>

\* A call of the pass to the agent fails, with or without effect.
TickAttempted ==
  \/ UNCHANGED <<file, running, dirty>>
  \/ AgentUp /\ tick.pc = "pushing" /\ PushFails(push.users)
  \/ /\ AgentUp /\ tick.pc \in {"ghost", "missing"}
     /\ running' = reconciled /\ UNCHANGED <<file, dirty>>

\* The pass goes on with the next.
TickFails ==
  /\ tick.pc # "idle" /\ AgentUp /\ Fault
  /\ TickAttempted
  /\ IF tick.pc = "pushing" THEN push' = idlePush /\ TickReads
     ELSE inboundDone /\ UNCHANGED push
  /\ trouble' = IF stalePass THEN Disordered ELSE trouble
  /\ UNCHANGED <<account, node, due, later, call, worker, calls, subscriber>>

TickSteps ==
  \/ TickUnchanged \/ TickTakesApplyMu \/ TickPushes \/ ListUsers \/ ReconcileUser

----------------------------------------------------------------------------

\* Xray dies and is started again, alone or with the agent, which then forgets configDirty:
\* it has the users of the config file.
XrayRestarts ==
  /\ AgentUp /\ running # file /\ Fault
  /\ running' = file /\ dirty' \in {dirty, FALSE}
  /\ UNCHANGED <<account, node, due, later, call, worker, push, tick, file, calls, trouble,
                 subscriber>>

\* The subscription ends or is paused while its account is active.
SubscriptionEnds ==
  /\ subscriber.granted /\ Fault
  /\ subscriber' = [subscriber EXCEPT !.granted = FALSE]
  /\ UNCHANGED <<account, node, due, later, call, worker, push, tick, file, running, calls,
                 trouble, dirty>>

\* The hub dies or is stopped, and starts again: what it was doing is forgotten, and the
\* call that was on its way to the agent may have arrived.
HubDies ==
  /\ Fault
  /\ Attempted \/ TickAttempted
  /\ due' = [j \in DOMAIN due |-> [due[j] EXCEPT !.fetched = FALSE]]
  /\ call' = [c \in Callers |-> <<>>]
  /\ worker' = idleWorker /\ push' = idlePush /\ tick' = idleTick
  /\ trouble' = IF Calling # {} \/ worker # idleWorker \/ stalePass THEN Disordered ELSE trouble
  /\ UNCHANGED <<account, node, later, calls, subscriber>>

Next ==
  \/ \E c \in Callers : Begin(c) \/ CallSteps(c) \/ EnqueueFails(c)
  \/ WorkerSteps \/ MarkProcessingFails \/ TaskFails \/ MarkFails
  \/ \E t \in BagToSet(later) : Due(t)
  \/ TickSteps \/ TickFails
  \/ XrayRestarts \/ SubscriptionEnds \/ HubDies

\* Calls go on, the worker polls for ever, backoffs end, and the pass is run again and
\* again; a waiter for applyMu gets it (sync.Mutex starves nobody).
Fairness ==
  /\ \A c \in Callers : WF_vars(CallSteps(c))
  /\ WF_vars(WorkerSteps) /\ SF_vars(WorkerTakesApplyMu)
  /\ WF_vars(\E t \in BagToSet(later) : Due(t))
  /\ WF_vars(TickSteps)

Spec == Init /\ [][Next]_vars

LiveSpec == Spec /\ Fairness

----------------------------------------------------------------------------

TypeOK ==
  /\ account \in Rows
  /\ node \in {"active", "uninstalled", "deleted"}
  /\ due \in Seq([task : Tasks, fetched : BOOLEAN])
  /\ IsABag(later) /\ BagToSet(later) \subseteq Tasks
  /\ call \in [Callers -> Seq(Effects)]
  /\ worker.batch \in Seq(Tasks)
  /\ worker.pc \in {"idle", "next", "act", "stale", "readd", "push", "pushing"}
  /\ push.owner \in {"nobody", "worker", "tick"} /\ push.users \in Users
  /\ tick.pc \in {"idle", "pushing", "inbounds", "ghost", "missing"}
  /\ tick.auth \in Users /\ tick.left \in Seq(Inbounds)
  /\ file \in Users /\ running \in Users /\ dirty \in BOOLEAN
  /\ subscriber \in [managed : BOOLEAN, granted : BOOLEAN]
  /\ calls \in 0..MaxCalls /\ faults \in 0..MaxFaults
  /\ trouble \in Calm..Disordered

\* Nothing is under way.
AtRest ==
  Calling = {} /\ ~Queued /\ tick = idleTick

\* Account calls made one after the other, with nothing failing and the repair pass not
\* in between, leave the node with exactly the users of the accounts table, and with
\* their newest credentials, as soon as the queue is empty: the order of the tasks and
\* the removal of a stale user are what this rests on (worker.go:198-213).
QueueDelivers ==
  AtRest /\ trouble = Calm /\ faults = 0 /\ node = "active" =>
    \A i \in HotInbounds : running[i] = ListActive[i]

\* "fall back to a full config push, which includes every active account"
\* (src/internal/provisioning/worker/worker.go:194): the same for every protocol.
FallbackDelivers ==
  AtRest /\ trouble = Calm /\ faults = 0 /\ node = "active" => running = ListActive

\* Whatever fails and however calls, tasks and passes overlap: every task is completed or
\* given up in the end, but for those whose outcome could not be written.
TasksSettle == <>[]~Queued

\* The pass leaves alone a user nobody authorised whose email it does not know.
LeftAlone(i) == ~subscriber.managed /\ ListActive[i] = None

\* Whatever fails and however calls, tasks and passes overlap, in the end the node lets in
\* exactly the users whose accounts are active: the repair pass undoes what stale tasks,
\* lost tasks, pushes that were not applied and restarts of Xray leave behind.
PresenceRestored ==
  <>[](\/ node # "active"
       \/ \A i \in HotInbounds :
            LeftAlone(i) \/ (running[i] = None <=> ListActive[i] = None))

\* And with the credential the table has, if no two calls overlapped, no task was lost or
\* overtaken by a later one, the pass added nobody from a row that had changed and no push
\* was written without being applied: whatever the pass did in between, and also after
\* restarts of Xray, failures of the pass, deaths of an idle hub and the end of the
\* subscription.
CredentialRestored ==
  <>[](\/ node # "active" \/ trouble = Disordered \/ dirty
       \/ \A i \in HotInbounds : LeftAlone(i) \/ running[i] = ListActive[i])

\* "The subscription's state is the authority for what reaches a node"
\* (src/internal/node/usecase/agent_helpers.go:1681): without it, nobody in the end.
AccessNeedsSubscription ==
  <>[](node # "active" \/ subscriber.granted \/ running = NoUsers)
====
