# Formal model of NasNet Panel

NasNet Panel is one Go binary that sells and supervises proxy access: a hub
(web panel, Telegram bot, SQL database) and, on each node, an agent that
supervises an Xray-core process.  A plugin, `remote-nodes`, installs agents on
rented servers, counts what subscriptions use there and runs a bridge program.
The panel replaces its own files when it is updated.  This directory models
the parts of it whose correctness depends on the order in which concurrent
things happen, checks them with TLC and proves part of the results with TLAPS.

Paths are relative to `src/`.

## 1. Inventory

| Component | Source | State | Hard behaviour | What makes it correct |
|---|---|---|---|---|
| Job engine | `internal/remotenodes/jobs` | jobs by id, running job per node, followers' channels, WaitGroup | concurrent Start/Close, slow readers, late reports, bounded history | one job per node, no running job forgotten, a follower ends with the final state, no secret shown, Close ends |
| Usage collector | `internal/remotenodes/usage` | per-node history and marks, the file, the agent's buckets | lost and late acknowledgements, crash between write and acknowledgement, overlapping polls and flushes | every byte counted once, short at most of what the agent lost; held by agent or file; never given back |
| Agent traffic buffer | `internal/agent/traffic`, `internal/agent/server` | Xray's counters, baseline, hour buckets, the file | collect and flush without a common lock, agent and Xray restarts | nothing counted twice or missed, the file catches up |
| Hub stats sync | `internal/node/usecase` (`node_stats.go`, `traffic_batch.go`) | per-node gate, usage in the database | two readers of one agent, commit without acknowledgement | one sync per node, bytes booked once, nothing dropped unbooked |
| Xray supervisor | `internal/agent/process` | process, stop flag, restart history, stop channel | watchdog against Stop/Start/Restart | one process, Stop sticks, a crash is answered |
| Provisioning | `internal/provisioning`, `internal/account`, `internal/node/usecase/agent_helpers.go`, `internal/subscription/usecase/subscription_reconcile.go` | account rows, tasks, the worker's batch, the node's config file and the users of its running Xray | calls, worker, config push and repair pass without a common lock; retries out of order; a hub that dies | the node lets in whose account is active, with the newest credential |
| Subscription lifecycle | `internal/subscription`, `internal/admin` | status, pause reason, end date, data, access in three places | a sweep and admins' calls of several writes each, with nothing to keep others out | access follows status, a pause is lifted by who may, expiry is enforced |
| Bridge | `internal/remotenodes/bridgectl`, `manager/bridge.go`, `cmd/remote-nodes` | bridge process, spec, backoff, the manager's cached hashes | death, update and shutdown at the same moment, a process that ignores signals | one process, true status, the newest spec runs in the end, shutdown ends |
| Heartbeat | `internal/node/usecase/heartbeat.go` | stream per node, debounce | flapping, stale pong | one stream per node, status follows the stream |
| Self-update | `internal/update` | job file and lock, saved copies, runner unit | death of panel, runner or machine at any step; a version that never starts | what was replaced can be put back, the result is true, the job ends, the panel comes back |
| Network apply | `internal/network` | applied and pending configuration | confirm timeout racing confirm, rollback | an unconfirmed change is rolled back, a confirmed one is not |
| Alerting | `internal/alerting` | rule state, cooldown | flapping, restart | one alert per incident |
| Event bus, scheduler, caches, login limiter | `pkg/events`, `pkg/scheduler`, `pkg/cache`, `pkg/ratelimit` | subscribers, timers, TTL maps | slow subscribers, overlap | no blocked publisher, no overlapping run |

The remaining packages (HTTP and Telegram delivery, the web panel, Xray
configuration generation, repositories, generated protobuf code) are
request/response code or data conversion; `PROJECT.json` lists them, with the
reason they are not modelled, and lists under `hazards` every place in the code
where an order of events that is hard to test matters.

### How the parts interact

```
 remote-nodes manager --Start--> job engine --reports--> followers (SSE pages)
        |  loop per node: Poll; Forget when a node is removed
        v
 usage collector --GetStatsBundle, AckBufferedTraffic--> agent
        |  Flush on a ticker                               |  Start, Stop, Restart
        v                                                  v
    usage.json          hub stats sync ---gate---> agent: collector -> file store
                            |  GetBufferedTraffic,   ^       (hour buckets)
                            v  AckBufferedTraffic    | QueryStats
                        database (one transaction)   Xray process <-- supervisor
                                                           ^ AddUser, RemoveUser,
 panel calls --rows, tasks--> provisioning worker ---------+ ListUsers, PushConfig
      |                       repair pass (scheduler) -----+
      +--status, access--> subscription <-- expiry sweep (scheduler)

 remote-nodes manager --Update, Stop--> bridge supervisor --> bridge process
 panel --Apply, Rollback--> job file <--> runner unit --> installed files --> panel
```

An agent's hour buckets have two possible readers, the hub's stats sync and the
collector of the remote-nodes plugin.  Both follow one protocol: read the buckets,
make the bytes durable, then have the agent drop the buckets up to a timestamp.
They differ in what they read: the collector leaves the newest bucket, which still
grows, alone, and the sync does not (finding 1).

## 2. Plan

In order of importance; each module is written so that it can be proved about as
well as checked (no RECURSIVE operators, constants with named assumptions,
invariants made of named parts).

| # | Module | Questions | Status |
|---|---|---|---|
| 1 | `JobEngine` | registry, followers, secrets, Close | modelled, checked, proved |
| 2 | `UsageCollector` | exact counting through crashes and lost acknowledgements | modelled, checked, proved |
| 3 | `StatsGate` implements `NodeMutex` | one sync per node | modelled, checked in composition, refinement proved |
| 4 | `TrafficSync` extends `StatsGate` | the gate composed with the booking transaction and the acknowledgement it guards | modelled, checked, proved |
| 5 | `TrafficStore` | the agent's collector and file store | modelled, checked, `CountedOnce` proved |
| 6 | `XrayManager` | the supervisor against its watchdog | modelled, checked, proved |
| 7 | `Provisioning` | account calls, queue, push and repair pass against one node | modelled, checked, `QueueDelivers` proved |
| 8 | `Subscription` | status, pause, ban, limits, dates and the sweep against access | modelled, checked, proved |
| 9 | `Bridge` | supervisor, manager's loop and shutdown | modelled, checked, proved |
| 10 | `SelfUpdate` | deaths at every step of an update, a rollback and their undoing | modelled, checked, proved |
| 11 | heartbeat, network apply, access-log acknowledgement, alerting | streams and debounce; the confirm timer against confirm; cooldown | not modelled |

Abstract specifications: the mutex per node (`NodeMutex`, done); worth adding are an
exactly-once counter that `UsageCollector` implements and, for `SelfUpdate`, an
atomic switch of versions.  Theorems worth adding: the types of `Provisioning` when
things fail (the theorem has them for orderly histories).

## 3. Modules

The grain of atomicity is the same everywhere: an action is one critical section
of the component's mutex, or one call to the outside (disk, agent, kernel,
database, channel) made without it.  Whatever the code does inside one critical
section, a trailing save or notification included, is part of that action.

### `JobEngine` (`internal/remotenodes/jobs`)

The engine has one mutex and every method takes it once, so every method is one
action: `Start`, the reports `Begin`, `Detail`, `Done`, `Fail` and `Set`, `finish`,
`Get`, `Subscribe`, `unsubscribe` and `Close`.  The goroutine of a job is what
happens between `Start` and `finish` (any sequence of reports, late ones
included), then `wgDone`.  A reader of a channel (`Receive`, `ReceiveClosed`) and
the caller of `Close` (`CloseIdle`, `CloseGivesUp`) are processes of their own.

`byID`, `onNode`, `closed` and `wg` are the engine's fields; `view[j]` is the job as
a page shows it, `finished` and `endSeq` what `prune` sorts by.  A follower's
channel holds one value and `notify` replaces an unread one.  A text is nothing,
plain or contains a secret: `text` removes the secret while the job has its hider
(`hide`), and `finish` takes the hider away.

### `UsageCollector` (`internal/remotenodes/usage`)

Bytes are kept per node and hour; a day, a lifetime total and the retired totals
of the code are sums of these.  Two history variables: `sent` is what a node really
moved, `lost` what its agent lost by itself before the hub's file counted it.

* Agent: `Accumulate`, which also evicts the buckets older than the retention (`evict`;
  seven days in the code, `Retention` hours here), `HourPasses`, `AckArrives` (also when
  the hub has given up waiting), and `AgentRestarts`.  A restarted agent takes in its store
  file or, with none, a damaged one or one of another version, starts fresh
  (`file_store.go:58-77`).  `storeFiles` allows any content up to what the node moved: older
  than what is in memory, with buckets that were dropped and answered for, or empty.  That
  is more than the store can leave behind (which of its files are possible is the subject
  of `TrafficStore`), and the collector has to count right with all of them.
  `usage/doc.go:46-48` says a lost buffer "costs those bytes and nothing more", and
  `TestAWipedAgentBufferIsNotMistakenForTraffic` tests one case of it; the properties say it
  of every case: the counting is short of `lost` at most.
* Poll: `PollBegin` (`nodeLocked`), `Answer`, `Fold` (`foldLocked`, with `add` of
  `nodeHist`) or `FoldForgotten` when the node was removed meanwhile, then the
  acknowledgement of a stale buffer (`PollAcked`, `PollAckFails`); `PollFails`.
* Flush: `FlushBegin` encodes, `WriteFile`/`WriteFails`, `MarkWritten`, `ListDue`, then
  one call per agent: `FlushAsks`, `FlushAcked`/`FlushAckFails`, and `FlushEnds`.
* Removal by the manager: `ForgetNode`, then `LoopEnded` once its polling loop is out.
* `Restart(newer)`: the hub dies at any moment and `decodeDoc` reads the file again;
  `newer` is an older release on a newer file, which then never writes.

### `StatsGate` and `NodeMutex` (`internal/node/usecase/traffic_batch.go`)

`acquireStatsSync` step by step: `Enter` takes the gate of the node from the map or
makes one and counts itself, `Send` puts the token into the one-place channel,
`Granted` looks at the context again, `Receive` takes the token out, `releaseRef`
counts down and removes the gate with its last user, `GiveUp` leaves with the
context's error, `ContextEnds` at any moment.  Gates are garbage-collected objects,
reused once nobody refers to them.  `NodeMutex` is the abstract mutex per node that
`StatsGate` is shown to implement (`held` is mapped to the callers at `"hold"`).

### `TrafficStore` (`internal/agent/traffic`)

One Xray counter.  `QueryStats`, `Diff`, `Accumulate` and `SetBaseline` are the four
separately locked parts of the collector's `collect`.  A flush is run by two
parties, the store's loop (`FlushLoop`) and the handler of an acknowledgement (`Drain`,
`DrainFlushes`): it reads the buckets, then the baseline (`ReadBaseline`), opens the
shared temporary name (`OpenTmp`, which truncates), writes (`WriteTmp`) and renames
(`Rename`); `FlushFails` at any of these.  Names lead to inodes, so two flushers that
overlap write into one file or rename each other's, as on a real file system; who writes
over another's longer document leaves a torn file (`overlaid`).
`Crash` ends the agent at any step; it comes back from the file, with Xray
surviving or started anew.  `clean` remembers whether every crash so far met a file
that agrees with memory.

### `TrafficSync` (`node_stats.go`, `traffic_batch.go`), on top of `StatsGate`

`syncSingleNode` for one node.  It extends `StatsGate`: the steps of the gate are the
steps a caller takes before (`Acquire`) and after (`Release`) its sync, and `Deadline`
is the end of the one context both have.  Inside the gate: `Begin`,
`Collect`/`CollectFails` is `GetBufferedTraffic`, `Persist` the booking transaction
(`PersistNothing` for an empty answer), `Ack`/`AckFails` the acknowledgement of the
newest timestamp read.  A failed acknowledgement may still arrive (`LateAck`) or not
(`AckLost`); `HubDies` loses the gates and every sync in progress and keeps the database.
`unsure` is the history of what was booked without a known acknowledgement.  What the
agent loses by itself (eviction, an older store file) is part of `UsageCollector` and
`TrafficStore` and left out here: the questions are about the hub's side of the protocol.

### `XrayManager` (`internal/agent/process/manager.go`)

Process mode of the supervisor.  The kernel's view of a process (`alive`, `killed`
by SIGKILL and not yet dead, `zombie` until it is waited for, `gone`) is separate
from the manager's fields `cmd`, `stopped`, `stopChan` and `history`.  Each started
process has a watch goroutine: `WatchReaps` (`cmd.Wait`), `WatchChecks`,
`WatchAsksLimit`, `WatchWakes` (the select of the restart delay), `WatchRestarts`.
A watch captures the stop channel when it starts; `wchan` says whether that is still
the manager's or one that `Restart` has replaced, and whether it is closed.  `Stop`
keeps `m.mu` from its first line to its return (`StopBegins`, `StopSignals` or
`StopPkills`, `StopSeesExit` or `StopTimesOut`); `Restart` is a `Stop`, a release
and a start.  `OtherComesOrGoes` is another process named xray on the machine,
which `pgrep` cannot tell apart.

### `Provisioning` (`internal/provisioning`, `internal/account`, the push and the repair pass)

One user and one node.  The node has the user twice: in the config file, which only a
push writes, and in the running Xray, which tasks and the pass change by API and
which a restart loads from the file.  An account call (`Begin`) reads the row and leaves
a sequence of effects, one database write each (`WriteRow`, `Enqueue`, which may fail,
`CancelTasksForNode`, `NodeGone`), so calls overlap as they do in the code.  The
worker: `processBatch`, `MarkProcessing`, then `addUserToXray` (with `removeStaleUser`
and `addUserAgain` for one who is there already, or the full push under `applyMu` for a
protocol without hot-add) or `removeUserFromXray`, `MarkSuccess`, `MarkFailed` with its
backoff (`Due`) and its limit (`isDead`).  The repair pass pushes (`TickTakesApplyMu`,
`TickPushes`, `TickUnchanged`) and then lists, removes and adds users inbound by inbound
(`ListUsers`, `ReconcileUser`).  `HubDies`, `XrayRestarts`, `SubscriptionEnds` and every call
may come at any moment.  `trouble` remembers how orderly the history was: the pass ran in
between, calls overlapped, a task was lost or overtaken, or the pass added a user from a
row that had changed since it was read.

Three things the push and the pass do not do alike are in the model.  The agent may write
the config and be refused the restart (`RestartRefused`, `internal/agent/server/server.go:732`):
the file is new, Xray runs on with what it had, `dirty` (`configDirty`) makes the agent's next
push a restart, and the hub, which compares the file only
(`internal/node/usecase/agent_helpers.go:1057-1083`), makes no next push until something else
changes.  A restart that stops Xray and cannot start it is not told apart from one that
comes up later: the hub pushes again to an Xray that is down.  The push asks for active
accounts whose subscription grants access (`nodeUsers`, `subscriber.granted`); the pass asks
for active accounts (`ListActive`).  And the pass removes a user nobody authorised only if
the email begins with `user_`, `trial_` or `manual_` (`subscriber.managed` in `isGhost`,
`subscription_reconcile.go:126-129`), though `CreateManual` takes any email; that it leaves
other users alone is intended (`TestReconcileUsers_MembershipIsScopedToInbound`).

### `Subscription` (`internal/subscription`, `internal/admin`)

One subscription with its Xray accounts and WireGuard peers (`access`).  A call is the
sequence of its effects: reads, on which the rest depends (`Reads`), writes of the row
(`Writes`), and turning access on or off artifact by artifact (`Flips`); `Fails` ends a
call in the middle as an error does, `HubDies` all of them.  The sweep is a caller of its
own.  `AddUsageDelta` and `TimePasses` go on meanwhile.  `pausedByBan` remembers who
paused.  `trouble` remembers that calls overlapped, something failed, or a call left
status and access apart.  Two panel calls overlap when both are in progress, whatever they
do next: what a call goes by it may have read long ago.  The sweep overlaps with a call only
while it has something to write (`Busy`); that it is running does not count.

### `Bridge` (`bridgectl/supervisor.go`, `manager/bridge.go`, `cmd/remote-nodes/main.go`)

Three goroutines and the process.  A call of `Update` or `Stop` takes the control lock
(`Lock`), starts the loop or sends it a command (`startLocked`, `Send`) and waits.  The
loop watches the process (`ChildExited`), sleeps with a doubling delay (`Sleep`, `Timer`),
launches (`Relaunch`, `RelaunchFails`), asks and then kills (`Terminate`) and answers
commands (`HandleUpdate`, `UpdateFails`, `HandleStop`, `finish`).  The manager looks at what
the nodes call for, compares hashes and updates or stops the bridge (`Look`,
`applyBridge`, `Updated`, `stopBridge`, `readBridge`).  The hub's `main` closes the
manager, stops the bridge and exits, or runs out of time (`Shutdown`, `Closed`,
`OutOfTime`, `Exit`).

### `SelfUpdate` (`internal/update/usecase`)

What is on disk: the installed files in three groups that are replaced at different
moments (`live`), the copies with `set.json` (`prev`) and with `forward.json` (`fwd`), and
`state.json` (`job`).  A file is replaced by a rename, so each is one version or the
other.  The panel starts a job (`Apply`, `Rollback`), fails it or hands it over
(`PanelStepsFail`, `HandOff`, `StartRunner`, `StartRunnerFails`).  The runner takes the lock
(`RunJob`), goes through the swap (`Wipe` to `installFile`) or the rollback (`ReadSet`,
`SaveForward`, `WriteForward`), restarts the panel (`Restart`), tries it (`trial`) and,
when that fails, puts files back, restarts and tries again (`RunnerPutsBack`,
`DaemonReload`), drops copies and records the result.  The panel watches a job somebody
else runs (`Follow`, `WatchLooks`) and settles it when the heartbeat is stale (`Silence`)
and the lock is free (`WatchTries`, `interrupted`).  `health` says of each version whether
it passes its trial, fails it or never starts.  `RunnerDies`, `PanelDies` and `Reboot` may
come between any two steps.

## 4. Runs

Every MC module only extends its specification (and names a symmetry set where one
is used); the `.cfg` files give the constants their values.

| Run | Config | Checks | Shows |
|---|---|---|---|
| `jobs_registry` | `JobEngineRegistry.cfg` | `OneJobPerNode`, `HistoryIsNewest`, `CloseMeansIdle` | three jobs on two nodes or none, ended and pruned in every order against the clock and `Close` |
| `jobs_followers` | `JobEngineFollowers.cfg` | `FollowerCurrent`, `FinalStateDelivered`, `NoSecretShown`, `FollowerReleased` | a job that reports two steps against a follower that comes, lags and leaves |
| `usage_counting` | `UsageCounting.cfg` | `CountedExactly`, `NothingLost`, `NeverGivenBack`, `EverythingSettles` | exact counting through failed writes, late acknowledgements, deaths of the hub, agents that evict or start fresh, removal |
| `traffic_booking` | `TrafficSyncBooking.cfg` | `NoIdleGate`, `BookedOnce`, `OlderHoursBooked`, `MutexSpec`, `NobodyWaitsForEver`, `EverythingBooked` | gate and sync together: contexts that end, calls that fail, late acknowledgements, deaths of the hub |
| `sync_growth` | `TrafficSyncGrowth.cfg` | `DroppedWasReceived` is violated | finding 1 |
| `store_crash` | `TrafficStoreCrash.cfg` | `CountedOnce` | nothing is counted twice while crashes meet a settled store, and nothing missed without restarts |
| `store_saved` | `TrafficStoreSaved.cfg` | `EventuallySaved` | the file comes to agree with memory and stays so |
| `xray_supervision` | `XrayManager.cfg` | `OneProcess`, `StopSticks`, `CallsReturn`, `CrashIsAnswered` | two callers, crashes at any moment, a process that ignores SIGINT |
| `provisioning` | `Provisioning.cfg` | `QueueDelivers`, `TasksSettle`, `PresenceRestored`, `CredentialRestored` | two account calls against worker, push and repair pass, with a hub that dies, a restart that is refused and a subscription that ends |
| `subscription` | `Subscription.cfg` | `AccessFollowsStatus`, `BanIsUndone`, `AdminPauseHolds`, `ExpiryIsEnforced` | every call that changes a subscription, in any sequence, and the sweep |
| `bridge` | `Bridge.cfg` | `OneChild`, `InStep`, `StoppedForGood`, `BridgeFollows`, `ShutdownEnds` | changes, failed launches, deaths and a shutdown that runs out of time |
| `self_update` | `SelfUpdate.cfg` | `ResultTrue`, `UndoKept`, `JobEnds`, `PanelComesBack` | three jobs among three versions with two faults anywhere |

### Bounds

* `JobEngine`: three jobs are one more than a history of one (`Keep`) beside a running
  one, so pruning has something to choose from; the clock runs past `MaxAge`.  One
  follower suffices for what concerns followers, because no follower's state enters
  the guard of another's step.
* `UsageCollector`: two hours are a completed bucket and a growing one, two bytes in the first
  (`TwoThenOne`) let a bucket grow between two polls and be cut short by an older file, one
  in the second completes it.  Two upsets, out of deaths of the hub, restarts of the agent
  and the removal, allow a loss followed by a death or two losses.  A retention of one hour
  lets the first bucket go when bytes come late in the second hour.
  One node: nodes only meet in the flush, whose loop over them the proofs cover for
  any set.
* `TrafficSync`: two callers are a holder and a waiter, one of whom may come again while
  the other leaves; that is where a gate leaves the map too early or too late.  Any
  number of callers and nodes is covered by the theorems about `StatsGate`.  Two hours
  are an older and a newest bucket; two troubles allow a late acknowledgement after
  a death of the hub.
* `TrafficStore`: two hours and a retention of none let a bucket expire while it is being
  added to, two bytes put one before and one after.  The two names and the open
  descriptors refer to at most three files, so three inodes are all there can be; a freed
  one is used again.  `store_crash` makes do with two, which lacks only a flush that stays
  open while the other flusher completes two and begins a third: `store_saved` has three,
  and the theorem any number.
* `XrayManager`: a process identity is reused when nothing refers to it, so two stand
  for a process and the one before it, however many are started.  An attempt may
  leave the window at any time (`AttemptExpires`), so `MaxRestarts = 1` reaches
  both sides of the budget in every state.

* `Provisioning`: two calls can overlap and be followed by nothing, which is what a stale
  task needs; one inbound with hot-add and one without; one retry makes a task due
  again after a later one; a batch of two holds a task that is overtaken.  A user with an
  email of another kind begins without an account, which keeps the run within its time.
  With three faults and one call the properties hold as well, and there `CredentialRestored`
  needs its exception for a config that was written and not applied.
* `Subscription`: one admin beside the sweep, so that what holds whatever overlaps
  (`ExpiryIsEnforced`) is checked with two that write; the theorems have any number of
  panel calls at once.  Limits 0 (none), 1 and 2 against a use of at most 1 reach below, at
  and above.
* `Bridge`: two specs are an old and a new one, two faults a failed launch after a death;
  `MaxDelay = 3` is no power of two of `MinDelay = 2`.
* `SelfUpdate`: three versions and three jobs allow an update, a rollback and an update
  after it, or two updates in a row; two faults are a failure of a step and a death while
  it is being repaired.

`CHECK_DEADLOCK FALSE` appears for `JobEngine`, `Provisioning` and `SelfUpdate`, where an
idle system has nothing left to do once the bounded jobs or calls are used up, and for
`UsageCollector`, where a hub without nodes that may not write its file has nothing to do.

### Fairness

* Tickers and loops run again and again: polls, flushes, syncs, the collector.
* A call with a deadline ends; the network, the disk and the database do not fail
  every time (strong fairness of the step that succeeds, never of a crash, a call or
  an acknowledgement that fails).
* A mutex or a channel serves its waiters: `sync.Mutex` has a starvation mode and the
  senders blocked on a channel are served first come, first served, hence strong
  fairness of the steps that take them.
* A job's function returns once its context has ended: the contract of `Spec` in
  `jobs.go`.  A reader of a follower's channel keeps reading.
* Nothing is assumed of crashes, administrators, other processes, or a process that
  was sent SIGINT; one that was sent SIGKILL dies.

* `Provisioning`: calls go on, the worker polls for ever, backoffs end, the scheduler runs the
  pass again and again, and who waits for `applyMu` gets it.  Failures are bounded.
* `Subscription`: calls go on and the sweep comes again.
* `Bridge`: the goroutines run, a caller of the control lock gets it, a killed process ends.
* `SelfUpdate`: panel, runner and watch run, systemd starts the panel again, time passes.

### Mutants

An operator whose comment begins "(mutant of X: ...)" is `X` with a mistake somebody
could make in that code.  It is used nowhere; put in place of `X` it makes TLC
refute one of the properties, which shows that the property depends on the code.
`PROJECT.json` lists one for every property of every passing run.

## 5. Findings

With a run of its own:

1. **The sync's acknowledgement drops bytes it has not read** (`sync_growth`).  It
   acknowledges the newest timestamp, the bucket of the running hour included
   (`internal/node/usecase/node_stats.go:899`), and the agent drops that bucket
   with what it has added since.  `usage/doc.go:20-28` describes the hazard for the
   other reader, which avoids it.

With a configuration that shows it (`tlc -config X.cfg MCModule` ends in a counterexample):

2. **A removed node's last buckets can be counted twice** (`UsageRemoval.cfg`,
   `CountedOnceEver`).  `forgetNode` (`internal/remotenodes/manager/remove.go:117`)
   calls `Usage.Forget` while the node's polling loop still runs.  A poll that begins
   in between makes the node anew, without a mark, and counts again what the agent
   still holds; the loop's own `forget` then retires it a second time.
3. **A crash between `Accumulate` and `SetBaseline` counts bytes twice**
   (`TrafficStoreRestart.cfg`, `RestartCountsOnce`).  A flush in between writes the bytes
   with the old baseline (`internal/agent/traffic/file_store.go:110`); `collector.go:16`
   says the persisted baseline prevents exactly this.
4. **After Stop and Start the watchdog is off** (`XrayWatchdog.cfg`, `WatchdogRestarts`).
   `Stop` closes `stopChan` and only `Restart` makes a new one, so a process started by
   `Start` (`internal/agent/process/manager.go:173`) is watched with a closed channel, and
   its watch returns after a crash instead of restarting.
5. **The push a protocol without hot-add falls back to may push nothing**
   (`ProvisioningFallback.cfg`, `FallbackDelivers`).  It compares the hash of the file
   (`internal/node/usecase/agent_helpers.go:1058`), not what Xray runs: after a removal
   by API, an add of the same user finds the file unchanged, and the task is marked
   done with the user missing until Xray restarts.
6. **A user whose subscription grants no access stays on the node**
   (`ProvisioningRevoked.cfg`, `AccessNeedsSubscription`).  `nodeUsers` leaves out an active
   account of such a subscription, because "the subscription's state is the authority for
   what reaches a node" (`internal/node/usecase/agent_helpers.go:1680-1681`); the queue and
   `ReconcileUsers` go by the account's status, and the pass adds the user again after every
   push that left him out.

Found while modelling; the conditions in the properties leave these behaviours out:

* `interrupted` (`internal/update/usecase/boot.go:73`) trusts the version it runs itself.
  A runner that dies after it began to put files back leaves a panel of the version the
  job leads to, running or booting, over files of the other version, and the job is
  recorded as "ok" (`sound`, `Misjudged`).  A machine that reboots between the swap and
  the end of the trial, with a version that never starts, has nobody to revert it
  (`lost`, `Stranded`).
* `watchRunner` does not read the job again between its `TryLock` and `interrupted`
  (`boot.go:38-52`); a runner that takes and releases the lock in that gap would have its
  result overwritten.  The model assumes a new process is not that fast.  A heartbeat's
  save that was waiting while the job finished can undo `Recorded` (`runner.go:49-57`),
  which announces the job twice.
* A sweep that has listed a subscription overwrites an extension made meanwhile
  (`subscription_usage.go:50-53`).  `AssignToInbound` and `RegenerateUUID` give a revoked
  subscription an active account, and `ReconcileUsers`, which goes by the accounts, keeps
  it, although `domain/subscription.go:115-120` says who has access.  A ban and its lifting
  can cross (`admin_users.go:83`, `:112`): the ban is written, then the unban is written,
  lists the subscriptions and finds nothing to resume, then the ban lists them and pauses
  an active one, which stays paused for a ban that no longer stands.  This came to light
  because the inductive invariant could not be proved while two calls that both were about
  to read did not count as overlapping; TLC then found the trace with two callers.  An
  unban returns an expired subscription to the sweep as active without access (`admin_users.go:126`).
* A config that was written while the restart was refused is not pushed again
  (`server.go:732`, `agent_helpers.go:1058`): an Xray that had come up with the old file goes
  on with the old credential, and the pass, which compares emails, does not see it.  A ghost
  with an email of another kind than the panel makes stays on the node once its removal was
  lost and its row is gone.  A pass that adds a user between the removal and the second
  addition of a task, from a row read before a rotation, leaves the old credential; the next
  push repairs that only if the file differs.
* A retried ADD that comes after a rotation leaves the old credential on the node, which
  neither push nor pass repairs: both compare emails.  A whole-row save brings back what
  another call wrote or deleted (`account_usecase.go:733`), `MigrateAccount` queues an
  ADD for an account that is disabled (`:659`), and a task that was PROCESSING when the hub
  died is never fetched again; the pass makes up for these.
* Two flushers of the agent's store share one temporary name and can rename a torn file,
  or an older snapshot over a newer one, until the next flush; a `Stop` that finds nothing
  running during a restart delay does not cancel the restart; `Restart` may answer success
  with Xray down when the kill timed out or another process is named xray; a hub that
  dies between its commit and its acknowledgement books the batch again; a bridge can be
  started once more by a manager that the shutdown did not wait for.

## 6. Proofs

Proved for every value of the constants, from the named assumptions of each module
(bounds are naturals, "none" values are outside the sets they extend, a torn file is no
document, the jobs of `JobEngine`, the callers of `StatsGate` and the artifacts of
`Subscription` are finite, the delays of `Bridge` are positive and in order, there are an
inbound and a credential in `Provisioning`).  The theorems
about a sync have one hypothesis more, that there is one node (`OneNode`): the accounts of
`TrafficSync` are those of one node.  The gate's theorems do without it.

| Module | Theorems | Inductive invariant adds |
|---|---|---|
| `JobEngineProofs` | `TypeCorrect`, `OneJob`, `NeverDropped`, `Current`, `Delivered`, `SecretsHidden`, `ClosedIsIdle`, `HistoryNewest`, `OverStaysOver` | `Unstarted`: a running job still has its hider, and a job nobody has started has no followers and no history.  Without the first a report could show a secret, without the second `Start` could adopt a follower.  For the history (`History`): the jobs' ends are numbered in the order of their times, and what is forgotten came first |
| `UsageCollectorProofs` | `Inductive`, `Typed`, `Exact`, `Durable`, `Overshown`, `GivenBack` | see below |
| `TrafficSyncProofs`, the gate | `Exclusion`, `NoLeak`, `Typed`, `Refinement` | `Counted`, `Mapped`, `Used`, `Separate`, `Tokens`, `Owned`: the count of a gate is the number of callers that refer to it, and each refers to the gate the map has for its node; so the last user removes its own node's gate and nobody waits on a gate that has left the map |
| `TrafficSyncProofs`, the sync | `Once`, `OlderHours`, `SyncNoLeak`, `SyncRefinement` | the gate's invariant, and `Guarded`, `Past`, `ReadOnce`, `Covered` |
| `AgentProofs`, the buffer | `Typed`, `Once` | `Baselines`, `NotTwice`, `NotMissed` |
| `AgentProofs`, the supervisor | `Single`, `Sticks`, `XrayTyped` | `Holder`: who waits inside `Stop` holds `m.mu` with the flag up; `Rests`: after a `Stop` the flag stays up while nobody asks for Xray.  `OneProcess` is inductive by itself |
| `ProvisioningProofs` | `ProvisioningInvariance`, `QueueDelivered` | `OrderlyTypes`, `Fetched`, `AtTask`, `CallsKept` (with `Delivers`, `RowFollows`), `PassAlone`, all for orderly histories |
| `BridgeProofs` | `BridgeInvariance`, `OneBridge`, `EverythingInStep`, `NoBridgeLeft` | `OwnsProcess`, `KeepsStatus`, `OneCommand`, `Asks`, `Hashes`, `Delays` |
| `SelfUpdateProofs` | `UpdateInvariance`, `TrueResult`, `AlwaysUndoable` | `Named`, `OneWriter`, `Path`, `OnDisk`, `Kept`, `Undoable`, `Judged`, `RunnerFiles`, `Untouched`, `Started`, `Stale`, `WatchFiles` |
| `SubscriptionProofs` | `SubscriptionTyped`, `AccessFollows`, `BanUndone`, `AdminPause` | `Shaped`; without trouble `Exclusive`, `Settled`, `RowsKept`, `BanKept`, `PauseKept` |

TLC checked the strengthened invariants on small instances before they were proved.

**The argument for the collector.**  An agent holds an hour whole, but for what it lost, or,
once the hub had it dropped, not at all (`Buckets`), and every mark anywhere, in memory, in
the file, in a call on its way, is of an hour that is over (`MarksArePast`), so an
acknowledgement never touches a growing bucket.  What is counted lies before the mark
(`MemBelow`, `FileBelow`, `DocBelow`) and what is shown after it (`ShownAfter`). The marks
are ordered (`Ordered`): what an agent is told to drop is at most the file's mark, which is
at most the mark being written, which is at most memory's.  Hence what the file does not
count the agent still has or has lost by itself (`Held`), an answer lacks nothing between
memory's mark and its newest hour but what was lost (`Complete`), and folding it keeps
memory exact up to that (`FileExact`, `DocExact`, `MemExact`). `LossIsRecorded` is the lemma
about `lost`: whatever buffer an agent comes back with or evicts down to, the history has
what the file does not count and the buffer lacks.  `Growing` orders the totals the same way
and gives `NeverGivenBack`.  `Ordered` and what rests on it hold until a node's removal,
which is where finding 2 begins.

**The argument for the gate** is a refinement: `Refinement` shows
`Spec => Mutex!Spec`, each step being one of the mutex or leaving the holders
unchanged.  `SyncRefinement` shows the same of the gate with the syncs it guards and a hub
that dies, step by step from the gate's lemmas.

**The argument for the sync.**  A caller in a sync holds the gate (`Guarded`), and there is
one node, so one sync at a time.  `BookedOnce` bounds what is booked together with what the
agent holds.  That is not enough when a late acknowledgement has dropped part of what the
sync has read: `Covered` says that the bookings alone, the one to come included, stay
within the bound.  `OlderHoursBooked` needs that bytes come into the running hour only and
that no batch reaches beyond it (`Past`), so that what a batch was read from has not grown
in the hours before its newest (`ReadOnce`).

**The argument for the agent's buffer.**  `CountedOnce` says nothing of the bytes the
collector is about to count.  `NotTwice` adds them to what is counted: the difference of
the counter to the baseline, through the reading in hand if there is one.  A counter that
starts anew makes that difference smaller, never larger.  A death of the agent brings back
the store's baseline, which is the collector's between two rounds (`Baselines`); in the
middle of one it is not, which is finding 3.  What the buckets hold together is a recursive
sum over the hours; the lemmas `Subtotals`, `TotalAdds` and `TotalOfOne` say that buckets
split in two, or with one more number in one of them, have the sum they should.

**The argument for the bridge** goes by pairs of goroutines.  The loop has a process exactly
while it watches or terminates it, and every other process has gone (`OwnsProcess`), which
is what Status says (`KeepsStatus`).  The control lock belongs to the caller whose call is
under way and the loop handles that caller's command (`OneCommand`), the manager asks from
two places only and main only once the manager has ended or the time is over (`Asks`), so
the manager's hash can be compared with the supervisor's spec at its answer (`Hashes`).
`Delays` ties the delay to the deaths in a row; `Pow2Def` gives the equation of the powers
of two.

**The argument for the self-update.**  Runner, panel and watch exclude each other
(`OneWriter`), so who writes the files knows what it finds.  `Path`, `OnDisk` and
`RunnerFiles` say, step by step, which files are of which version and what copies there
are; `WatchFiles` says the same of a watch that puts files back.  Two facts carry the rest:
a copy is of what is installed or of what its own update has replaced since (`Kept`), and,
unless somebody was putting files back, a binary of the new version means all of the
new version (`Judged`), because it is installed last and put back first.  The latter is why
`interrupted` may go by the version it runs, and where it may not is the history
variable `sound`.  An attempt at the proof showed `sound` to be too generous: a rollback
that follows a misjudged update starts from copies that are not all of one version, which
takes four jobs.  `NewJob` now makes such a rollback unsound (`WholeCopies`).

**The argument for the subscription.**  A call is the sequence of effects it has still to
bring about, and the proof speaks of the set of them (`todo`).  The only thing that is lost
is the order, of which one fact is needed: a call that is about to read has nothing to
write before or after it but reads (`Shaped`, whatever overlaps or fails).
`AccessFollowsStatus` speaks of a state of rest and is false in the middle of every call.
`Settled` is what holds instead: what a call has still to do takes the status and every
artifact the same way, to active and open or to neither, and what it does not touch is
there already; with nothing left to do that is `AccessFollowsStatus`.  It holds of a call
whose fellows have nothing to write, and without trouble at most one call has (`Exclusive`).
A call that judges a date or writes a row back goes by a row it read: `RowsKept` says that
nobody changed its status or reason since.  `BanKept` follows a ban from its write to the
pause and an unban from its write to the resumption, and is where the crossing of the two
(section 5) has to be left out.  `PauseKept` says what can be under way against a paused
subscription, from which `AdminPause` follows step by step.  TLC checked the invariant with
two panel calls at once beside the sweep before it was proved.

**The argument for the queue.**  `QueueDelivers` speaks of the moment when nothing is under
way; an invariant has to say who answers for an inbound at every other one.  It is the last
task for it that the call under way has still to queue (`Delivers`); without one, the last
row for it that is due; without one, the task in the worker's hand; without that, the
running Xray, and the users a push is about to write (`Leaves`).  Each step hands an inbound
from one to the next: `Enqueue` from the call to the queue, `MarkProcessing` from the queue
to the worker, `MarkSuccess` from the worker to Xray.  So no recursion over the queue is
needed, only its last row for an inbound.  The worker's copies have to be the first rows in
their order (`Fetched`; the mutant `FetchNewest` breaks it), and a user added again has to
be gone first (`AtTask`).  The full push of a protocol without hot-add is the hard case: it
reads the row in the middle of a call, and may write what the call is about to undo.
`RowFollows` is the answer: the row can differ from what the call will leave only on the
inbound of the newest task, and while the worker pushes for another inbound that task is
still to come.  It fails when an account is moved that is not active: `MigrateAccount` then
queues an ADD its row does not call for (section 5), which is why `trouble` counts it. The
pass runs alone in such a history (`PassAlone`), and finds what it would write; push and
pass go by the same accounts while the subscription grants access (`PushedUsers`), and
nothing has ended it in a history without faults.  A fault, an overlap or the deletion of
the node ends the history the theorem speaks of; `PresenceRestored` and
`CredentialRestored`, which are checked, speak of the others.

**What is out of reach.**  Liveness: the provers know neither fairness nor ENABLED, so every
temporal property but `NeverGivenBack`, `StopSticks`, `AdminPauseHolds` and `MutexSpec` is
only model-checked.  The library's induction theorems take an operator as a parameter, which
no prover here can instantiate; where induction over numbers was needed (sums of buckets,
powers of two, the newest hour of a batch) it is done on a set, by the least number outside
it (`SetInduction`, from `WFMin`).

Every safety property of the runs, invariant or action property, is stated by a theorem.
What is only model-checked is liveness.

## 7. Not modelled

* `JobEngine`: the wording of reports, timestamps of steps.
* `UsageCollector`: rates, charts, who is online, pruning of days,
  `ForgetSubscription`, a damaged `usage.json`, a clock that steps back.
* `TrafficStore`: orderly `Stop` and `Close` of the agent, `DrainAll`, the collector of
  the hub's own core.
* `TrafficSync`: which subscription a byte belongs to, node metrics, the agent's own losses.
* `XrayManager`: service mode, where systemd restarts Xray, and log capture.
* `Provisioning`: more than one user or node, bulk imports, `MigrateInbound`, the push on
  a heartbeat, the deletion of old tasks, disabled inbounds and nodes out of service, an
  Xray that is down or was stopped by an admin.
* `Subscription`: purchase and deletion, the pending status, limits per account, more
  than one subscription of a user.
* `Bridge`: captured output, credentials, what the status page says beside the state.
* `SelfUpdate`: the command line as a starter of jobs, history and announcements, the
  schedule, checks, downloads, signatures and uploads (they end in one step that fails
  or hands over), the seven days of the rollback window, staging directories.
* Heartbeat, network apply, access-log acknowledgement and alerting (row 11 of the plan),
  and the packages `PROJECT.json` lists as not modelled.

Most of the repository's lines are outside the reach of such a model: generated
protobuf code, HTTP and Telegram handlers, the Xray configuration generator, SQL
repositories and clients of external programs decide nothing by the order of events.
What is modelled is what does.
