---- MODULE Bridge ----
\* The remote-nodes hub and its bridge program: the supervisor that owns the process
\* (src/internal/remotenodes/bridgectl/supervisor.go), the manager's loop that decides
\* what the bridge should carry (src/internal/remotenodes/manager/bridge.go) and the
\* hub's orderly shutdown (src/cmd/remote-nodes/main.go).
\*
\* The manager calls Update and Stop of the supervisor, main calls Stop; ctl lets one of
\* them in at a time.  The supervisor's loop goroutine owns the process and takes the
\* callers' commands from an unbuffered channel.  The manager goes by a cached hash of
\* the spec it thinks the supervisor has.
EXTENDS Naturals, FiniteSets, FiniteSetsExt

CONSTANTS
  Specs,        \* specs the nodes may call for
  None,         \* no spec
  MinDelay,     \* Backoff.Min
  MaxDelay,     \* Backoff.Max
  MaxChanges,   \* bound: changes of the nodes and of the entry
  MaxFaults     \* bound: launches that fail and processes that die by themselves

ASSUME BridgeBounds ==
  /\ None \notin Specs
  /\ MinDelay \in Nat \ {0} /\ MaxDelay \in Nat /\ MinDelay <= MaxDelay
  /\ MaxChanges \in Nat /\ MaxFaults \in Nat

\* Every change of the plan and every death starts one process at most.
MaxLaunches == MaxChanges + MaxFaults + 1
Pids == 1..MaxLaunches
Callers == {"manager", "main"}

VARIABLES
  nodes,    \* the spec the nodes in the state call for, None if none is ready
  entry,    \* whether the router's entry is on
  mgr,      \* watchBridge: where it is, the spec and the plan it has, the hashes it keeps
  main,     \* the hub: serving, closing the manager, stopping the bridge, exited
  late,     \* the manager was not waited for: the shutdown ran out of time
  call,     \* caller -> its call of the supervisor
  ctl,      \* who holds ctl
  sup,      \* what the supervisor keeps under mu
  loop,     \* its goroutine
  procs,    \* pid -> the bridge process
  changes, faults

vars == <<nodes, entry, mgr, main, late, call, ctl, sup, loop, procs, changes, faults>>
planVars == <<nodes, entry, changes>>

NoProc == [spec |-> None, is |-> "unborn"]
Alive == {p \in Pids : procs[p].is \in {"up", "asked", "killed"}}

\* The process the next launch starts.
Unborn == {p \in Pids : procs[p].is = "unborn"}
newPid == CHOOSE p \in Pids : procs[p].is = "unborn"

idleCall == [op |-> "none", spec |-> None, pc |-> "idle", err |-> FALSE]
NoLoop == [pc |-> "none", ch |-> 0, delay |-> MinDelay, cmd |-> "none", spec |-> None,
           by |-> "nobody", deaths |-> 0]

Init ==
  /\ nodes \in Specs \cup {None} /\ entry \in BOOLEAN
  /\ mgr = [pc |-> "idle", plan |-> None, appliedHash |-> None, failedHash |-> None,
            waits |-> FALSE, shown |-> "stopped"]
  /\ main = "serving" /\ late = FALSE
  /\ call = [c \in Callers |-> idleCall] /\ ctl = "nobody"
  /\ sup = [state |-> "stopped", pid |-> 0, spec |-> None, retryAt |-> FALSE, run |-> FALSE]
  /\ loop = NoLoop
  /\ procs = [p \in Pids |-> NoProc]
  /\ changes = 0 /\ faults = 0

----------------------------------------------------------------------------
\* The calls of the supervisor.

Ask(c, op, spec) ==
  call' = [call EXCEPT ![c] = [op |-> op, spec |-> spec, pc |-> "lock", err |-> FALSE]]

Return(c, err) ==
  /\ call' = [call EXCEPT ![c].pc = "done", ![c].err = err]
  /\ ctl' = "nobody"

\* Update and Stop take ctl and look whether there is a loop.
Lock(c) ==
  /\ call[c].pc = "lock" /\ ctl = "nobody"
  /\ IF ~sup.run /\ call[c].op = "stop" THEN Return(c, FALSE)
     ELSE /\ ctl' = c
          /\ call' = [call EXCEPT ![c].pc = IF sup.run THEN "send" ELSE "start"]
  /\ UNCHANGED <<planVars, mgr, main, late, sup, loop, procs, faults>>

\* A process is started and recorded.
Born(spec) == Unborn # {} /\ procs' = [procs EXCEPT ![newPid] = [spec |-> spec, is |-> "up"]]
launched(s) == [s EXCEPT !.state = "running", !.pid = newPid, !.retryAt = FALSE]
Fault == faults < MaxFaults /\ faults' = faults + 1

\* startLocked: the first launch is the caller's.
startLocked(c) ==
  /\ call[c].pc = "start"
  /\ Born(call[c].spec)
  /\ sup' = launched([sup EXCEPT !.spec = call[c].spec, !.run = TRUE])
  /\ loop' = [NoLoop EXCEPT !.pc = "watch", !.ch = newPid]
  /\ Return(c, FALSE)
  /\ UNCHANGED <<planVars, mgr, main, late, faults>>

startFails(c) ==
  /\ call[c].pc = "start" /\ Fault
  /\ sup' = [sup EXCEPT !.spec = call[c].spec]
  /\ Return(c, TRUE)
  /\ UNCHANGED <<planVars, mgr, main, late, loop, procs>>

\* The loop takes a command when it watches the process or waits to start it again.
Send(c) ==
  /\ call[c].pc = "send" /\ loop.pc \in {"watch", "wait"}
  /\ call' = [call EXCEPT ![c].pc = "reply"]
  /\ loop' = [loop EXCEPT !.pc = IF loop.ch # 0 THEN "terminate" ELSE "handle",
                          !.cmd = call[c].op, !.spec = call[c].spec, !.by = c]
  /\ UNCHANGED <<planVars, mgr, main, late, ctl, sup, procs, faults>>

\* Stop also waits for the loop to end.
Stopped(c) ==
  /\ call[c].pc = "replied" /\ loop.pc = "none"
  /\ Return(c, FALSE)
  /\ UNCHANGED <<planVars, mgr, main, late, sup, loop, procs, faults>>

CallSteps(c) == Lock(c) \/ startLocked(c) \/ Send(c) \/ Stopped(c)

----------------------------------------------------------------------------
\* The loop.

\* noteExit: the time of the next try goes in with the state; a process that was stopped
\* on purpose has none.
noteExit(retry) == sup' = [sup EXCEPT !.state = "backoff", !.pid = 0, !.retryAt = retry]

\* The process has died.  One that ran for Healthy starts the delays over.
afterDeath(healthy) == IF healthy THEN MinDelay ELSE loop.delay

ChildExited ==
  /\ loop.pc = "watch" /\ procs[loop.ch].is = "gone"
  /\ \E healthy \in BOOLEAN :
       loop' = [loop EXCEPT !.pc = "sleep", !.ch = 0,
                            !.delay = afterDeath(healthy),
                            !.deaths = IF healthy THEN 1 ELSE @ + 1]
  /\ noteExit(TRUE)
  /\ UNCHANGED <<planVars, mgr, main, late, call, ctl, procs, faults>>

Sleep ==
  /\ loop.pc \in {"sleep", "handled"}
  /\ sup' = [sup EXCEPT !.state = "backoff", !.retryAt = TRUE]
  /\ loop' = [loop EXCEPT !.pc = "wait"]
  /\ UNCHANGED <<planVars, mgr, main, late, call, ctl, procs, faults>>

doubled(delay) == IF 2 * delay > MaxDelay THEN MaxDelay ELSE 2 * delay

Timer ==
  /\ loop.pc = "wait"
  /\ loop' = [loop EXCEPT !.pc = "launch", !.delay = doubled(@)]
  /\ UNCHANGED <<planVars, mgr, main, late, call, ctl, sup, procs, faults>>

Relaunch ==
  /\ loop.pc = "launch"
  /\ Born(sup.spec)
  /\ sup' = launched(sup)
  /\ loop' = [loop EXCEPT !.pc = "watch", !.ch = newPid]
  /\ UNCHANGED <<planVars, mgr, main, late, call, ctl, faults>>

RelaunchFails ==
  /\ loop.pc = "launch" /\ Fault
  /\ loop' = [loop EXCEPT !.pc = "sleep", !.deaths = @ + 1]
  /\ UNCHANGED <<planVars, mgr, main, late, call, ctl, sup, procs>>

\* terminate: the process is asked to stop and is killed when it takes too long.
\* (mutant of Terminate: it is only asked)
TerminateAsks ==
  /\ loop.pc = "terminate" /\ procs[loop.ch].is = "up"
  /\ procs' = [procs EXCEPT ![loop.ch].is = "asked"]
  /\ UNCHANGED <<planVars, mgr, main, late, call, ctl, sup, loop, faults>>
Terminate ==
  /\ loop.pc = "terminate" /\ procs[loop.ch].is \in {"up", "asked"}
  /\ procs' = [procs EXCEPT ![loop.ch].is = IF @ = "up" THEN "asked" ELSE "killed"]
  /\ UNCHANGED <<planVars, mgr, main, late, call, ctl, sup, loop, faults>>

\* (mutant of hasGone: the end of the grace is taken for the end of the process)
goneOrKilled == procs[loop.ch].is \in {"gone", "killed"}
hasGone == procs[loop.ch].is = "gone"

Terminated ==
  /\ loop.pc = "terminate" /\ hasGone
  /\ noteExit(FALSE)
  /\ loop' = [loop EXCEPT !.pc = "handle", !.ch = 0]
  /\ UNCHANGED <<planVars, mgr, main, late, call, ctl, procs, faults>>

Reply(err) == call' = [call EXCEPT ![loop.by].pc = IF loop.cmd = "stop" THEN "replied" ELSE "done",
                                   ![loop.by].err = err]

\* The command is over: the loop starts over with its delays.
Carries(pc, ch, deaths) ==
  loop' = [NoLoop EXCEPT !.pc = pc, !.ch = ch, !.deaths = deaths]

\* handle: a stop is answered, then the loop ends.
HandleStop ==
  /\ loop.pc = "handle" /\ loop.cmd = "stop"
  /\ Reply(FALSE)
  /\ loop' = [loop EXCEPT !.pc = "finish"]
  /\ UNCHANGED <<planVars, mgr, main, late, ctl, sup, procs, faults>>

finish ==
  /\ loop.pc = "finish"
  /\ sup' = [sup EXCEPT !.run = FALSE, !.state = "stopped", !.pid = 0, !.retryAt = FALSE]
  /\ loop' = NoLoop
  /\ UNCHANGED <<planVars, mgr, main, late, call, ctl, procs, faults>>

\* An update leaves the new spec with the supervisor also when it cannot be started.
HandleUpdate ==
  /\ loop.pc = "handle" /\ loop.cmd = "update"
  /\ Born(loop.spec)
  /\ sup' = launched([sup EXCEPT !.spec = loop.spec])
  /\ Reply(FALSE) /\ ctl' = "nobody"
  /\ Carries("watch", newPid, 0)
  /\ UNCHANGED <<planVars, mgr, main, late, faults>>

UpdateFails ==
  /\ loop.pc = "handle" /\ loop.cmd = "update" /\ Fault
  /\ sup' = [sup EXCEPT !.spec = loop.spec]
  /\ Reply(TRUE) /\ ctl' = "nobody"
  /\ Carries("handled", 0, 1)
  /\ UNCHANGED <<planVars, mgr, main, late, procs>>

LoopSteps ==
  \/ ChildExited \/ Sleep \/ Timer \/ Relaunch
  \/ Terminate \/ Terminated \/ HandleStop \/ finish \/ HandleUpdate

----------------------------------------------------------------------------
\* The manager's loop.  It looks at what the bridge should be doing every BridgeEvery and
\* whenever something has changed, so at any time.

\* planBridge reads the nodes, resolves their names, then reads the entry.
Look ==
  /\ mgr.pc = "idle" /\ main = "serving"
  /\ mgr' = [mgr EXCEPT !.pc = "gate", !.plan = nodes]
  /\ UNCHANGED <<planVars, main, late, call, ctl, sup, loop, procs, faults>>

planned == IF entry THEN mgr.plan ELSE None

\* applyBridge leaves a spec alone that the supervisor has, and for a while one that it
\* could not start.
\* (mutant of leaveAlone: one that could not be started is never tried again)
leaveAloneFailed == planned \in {mgr.appliedHash, mgr.failedHash}
leaveAlone == planned = mgr.appliedHash \/ (planned = mgr.failedHash /\ mgr.waits)

\* refreshBridge returns when the manager was stopped meanwhile.
applyBridge ==
  /\ mgr.pc = "gate"
  /\ CASE main # "serving" -> mgr' = [mgr EXCEPT !.pc = "idle"] /\ UNCHANGED call
       [] main = "serving" /\ planned = None /\ mgr.appliedHash = None ->
            mgr' = [mgr EXCEPT !.pc = "read", !.failedHash = None] /\ UNCHANGED call
       [] main = "serving" /\ planned = None /\ mgr.appliedHash # None ->
            mgr' = [mgr EXCEPT !.pc = "stop"] /\ Ask("manager", "stop", None)
       [] main = "serving" /\ planned # None /\ leaveAlone ->
            mgr' = [mgr EXCEPT !.pc = "read"] /\ UNCHANGED call
       [] main = "serving" /\ planned # None /\ ~leaveAlone ->
            mgr' = [mgr EXCEPT !.pc = "update"] /\ Ask("manager", "update", planned)
  /\ UNCHANGED <<planVars, main, late, ctl, sup, loop, procs, faults>>

Answered == call["manager"].pc = "done" /\ call' = [call EXCEPT !["manager"] = idleCall]

stopBridge ==
  /\ mgr.pc = "stop" /\ Answered
  /\ mgr' = [mgr EXCEPT !.pc = "read", !.appliedHash = None, !.failedHash = None]
  /\ UNCHANGED <<planVars, main, late, ctl, sup, loop, procs, faults>>

\* A supervisor that could not start the new spec but was running holds it and tries
\* again by itself.
\* (mutant of held: an update that failed is the manager's to try again)
heldIfOk == ~call["manager"].err
held == ~call["manager"].err \/ sup.state # "stopped"

Updated ==
  /\ mgr.pc = "update" /\ Answered
  /\ LET h == call["manager"].spec
     IN  mgr' = IF held THEN [mgr EXCEPT !.pc = "read", !.appliedHash = h, !.failedHash = None]
                ELSE [mgr EXCEPT !.pc = "read", !.appliedHash = None, !.failedHash = h,
                                 !.waits = TRUE]
  /\ UNCHANGED <<planVars, main, late, ctl, sup, loop, procs, faults>>

readBridge ==
  /\ mgr.pc = "read"
  /\ mgr' = [mgr EXCEPT !.pc = "idle", !.plan = None, !.shown = sup.state]
  /\ UNCHANGED <<planVars, main, late, call, ctl, sup, loop, procs, faults>>

\* startRetry is over.
RetryDue ==
  /\ mgr.waits
  /\ mgr' = [mgr EXCEPT !.waits = FALSE]
  /\ UNCHANGED <<planVars, main, late, call, ctl, sup, loop, procs, faults>>

\* watchBridge ends with its context.
WatchEnds ==
  /\ mgr.pc = "idle" /\ main # "serving"
  /\ mgr' = [mgr EXCEPT !.pc = "ended"]
  /\ UNCHANGED <<planVars, main, late, call, ctl, sup, loop, procs, faults>>

MgrSteps == Look \/ applyBridge \/ stopBridge \/ Updated \/ readBridge \/ WatchEnds

----------------------------------------------------------------------------
\* The shutdown: the manager is cancelled and waited for, as long as the grace of the
\* whole shutdown lasts, then the bridge is stopped, which is waited for without limit.

Shutdown ==
  /\ main = "serving" /\ main' = "closing"
  /\ UNCHANGED <<planVars, mgr, late, call, ctl, sup, loop, procs, faults>>

\* (mutant of Closed: the manager is cancelled, not waited for)
ClosedUnwaited ==
  /\ main = "closing" /\ main' = "stopping"
  /\ Ask("main", "stop", None)
  /\ UNCHANGED <<planVars, mgr, late, ctl, sup, loop, procs, faults>>
Closed ==
  /\ main = "closing" /\ mgr.pc = "ended"
  /\ main' = "stopping"
  /\ Ask("main", "stop", None)
  /\ UNCHANGED <<planVars, mgr, late, ctl, sup, loop, procs, faults>>

OutOfTime ==
  /\ main = "closing" /\ mgr.pc # "ended"
  /\ main' = "stopping" /\ late' = TRUE
  /\ Ask("main", "stop", None)
  /\ UNCHANGED <<planVars, mgr, ctl, sup, loop, procs, faults>>

\* The hub's end closes the stdin of a bridge that is left.
Exit ==
  /\ main = "stopping" /\ call["main"].pc = "done"
  /\ main' = "exited"
  /\ procs' = [p \in Pids |-> IF procs[p].is = "up" THEN [procs[p] EXCEPT !.is = "asked"] ELSE procs[p]]
  /\ UNCHANGED <<planVars, mgr, late, call, ctl, sup, loop, faults>>

MainSteps == Closed \/ OutOfTime \/ Exit

----------------------------------------------------------------------------
\* The world around.

\* An edit of the state, a node's new Xray, the router's report.
Change ==
  /\ changes < MaxChanges /\ main = "serving"
  /\ changes' = changes + 1
  /\ \/ nodes' \in (Specs \cup {None}) \ {nodes} /\ UNCHANGED entry
     \/ entry' = ~entry /\ UNCHANGED nodes
  /\ UNCHANGED <<mgr, main, late, call, ctl, sup, loop, procs, faults>>

Gone(p) == procs' = [procs EXCEPT ![p].is = "gone"]

ProcessDies(p) ==
  /\ procs[p].is = "up" /\ Fault /\ Gone(p)
  /\ UNCHANGED <<planVars, mgr, main, late, call, ctl, sup, loop>>

\* One that was asked may take its time, one that was killed ends.
ProcessEnds(p) ==
  /\ procs[p].is \in {"asked", "killed"} /\ Gone(p)
  /\ UNCHANGED <<planVars, mgr, main, late, call, ctl, sup, loop, faults>>

\* The hub has exited and its bridge has ended.
Over == main = "exited" /\ Alive = {} /\ UNCHANGED vars

Next ==
  \/ /\ main # "exited"
     /\ \/ \E c \in Callers : CallSteps(c) \/ startFails(c)
        \/ LoopSteps \/ RelaunchFails \/ UpdateFails
        \/ MgrSteps \/ RetryDue \/ Shutdown \/ MainSteps \/ Change
  \/ \E p \in Pids : ProcessDies(p) \/ ProcessEnds(p)
  \/ Over

\* Every goroutine of the hub goes on while it can, timers run out, a killed process ends, and
\* so does one whose stdin the hub's end has closed.
\* A goroutine that waits for ctl gets it (sync.Mutex starves nobody).
Fairness ==
  /\ WF_vars(main # "exited" /\ LoopSteps)
  /\ WF_vars(main # "exited" /\ MgrSteps)
  /\ WF_vars(main # "exited" /\ MainSteps)
  /\ WF_vars(main # "exited" /\ RetryDue)
  /\ \A c \in Callers : SF_vars(main # "exited" /\ CallSteps(c))
  /\ \A p \in Pids : WF_vars((procs[p].is = "killed" \/ main = "exited") /\ ProcessEnds(p))

Spec == Init /\ [][Next]_vars

LiveSpec == Spec /\ Fairness

----------------------------------------------------------------------------

SupStates == {"stopped", "running", "backoff"}

Plans == Specs \cup {None}

MgrType ==
  [pc : {"idle", "gate", "stop", "update", "read", "ended"}, plan : Plans,
   appliedHash : Plans, failedHash : Plans, waits : BOOLEAN, shown : SupStates]
CallType ==
  [op : {"none", "update", "stop"}, spec : Plans,
   pc : {"idle", "lock", "start", "send", "reply", "replied", "done"}, err : BOOLEAN]
SupType ==
  [state : SupStates, pid : 0..MaxLaunches, spec : Plans, retryAt : BOOLEAN, run : BOOLEAN]
LoopType ==
  [pc : {"none", "watch", "sleep", "wait", "launch", "terminate", "handle", "handled", "finish"},
   ch : 0..MaxLaunches, delay : MinDelay..MaxDelay, cmd : {"none", "update", "stop"},
   spec : Plans, by : Callers \cup {"nobody"}, deaths : 0..MaxFaults]
ProcType == [spec : Plans, is : {"unborn", "up", "asked", "killed", "gone"}]

TypeOK ==
  /\ nodes \in Plans /\ entry \in BOOLEAN
  /\ mgr \in MgrType
  /\ main \in {"serving", "closing", "stopping", "exited"} /\ late \in BOOLEAN
  /\ call \in [Callers -> CallType] /\ ctl \in Callers \cup {"nobody"}
  /\ sup \in SupType /\ loop \in LoopType
  /\ procs \in [Pids -> ProcType]
  /\ changes \in 0..MaxChanges /\ faults \in 0..MaxFaults

\* There is never more than one bridge process: an update starts the new one only when the
\* old one has gone, and no restart races a command (supervisor.go:376-429).
OneChild == Cardinality(Alive) <= 1

\* What Status says is true: running is the process the loop watches, with the spec the
\* supervisor has; stopped means there is no loop and no process; backoff has the time of
\* the next try, except while a command is being handled (supervisor.go:431-454).
StatusTrue ==
  /\ sup.state = "running" =>
       sup.run /\ sup.pid = loop.ch /\ procs[loop.ch].spec = sup.spec
  /\ sup.state = "stopped" => ~sup.run /\ loop.pc = "none" /\ Alive = {}
  /\ sup.state = "backoff" =>
       Alive = {} /\ (sup.retryAt \/ loop.pc \in {"handle", "handled", "finish"})

\* The hash the manager goes by is that of the spec the supervisor has, and there is none
\* exactly when the supervisor is stopped: also after updates that failed, and with
\* processes that die at any moment (bridge.go:155-178).
HashInStep ==
  mgr.pc = "idle" /\ main = "serving" =>
    /\ (mgr.appliedHash # None) <=> sup.run
    /\ sup.run => sup.spec = mgr.appliedHash

\* The delays are Min for the first death in a row, doubling up to Max; a process that ran
\* for Healthy starts the sequence over (supervisor.go:68-71).
pow2[n \in Nat] == IF n = 0 THEN 1 ELSE 2 * pow2[n - 1]
nominal(n) == Min({MaxDelay, MinDelay * pow2[n - 1]})
BackoffDoubles ==
  loop.pc \in {"sleep", "handled", "wait"} => loop.delay = nominal(loop.deaths)

\* What the page, the manager and the loop go by is true at every moment.
InStep == StatusTrue /\ HashInStep /\ BackoffDoubles

\* When the hub has exited after a manager that was waited for, the bridge is gone and
\* nothing has started it again.
StoppedForGood ==
  main = "exited" /\ ~late => Alive = {} /\ sup.state = "stopped" /\ ~sup.run

\* Once nothing changes and no launch fails any more, the bridge runs with the spec the
\* nodes call for while the entry is on, and does not run otherwise, and the page says so.
BridgeFollows ==
  <>[](\/ main # "serving"
       \/ LET want == IF entry THEN nodes ELSE None
          IN  /\ {procs[p].spec : p \in Alive} = {want} \ {None}
              /\ mgr.shown = IF want = None THEN "stopped" ELSE "running")

\* A hub that is told to stop does, also while an update waits for a process that ignores
\* the signal, and also when a launch fails or the process dies meanwhile.
ShutdownEnds == main = "closing" ~> main = "exited" /\ Alive = {}
====
