----------------------------- MODULE XrayManager -----------------------------
(***************************************************************************)
(* The node agent's supervisor of its Xray child process                   *)
(* (internal/agent/process/manager.go), in process mode: Start, Stop and    *)
(* Restart called by any number of RPC handlers, one watch goroutine per    *)
(* started process, the restart budget, and the operating system's view of  *)
(* the processes.                                                           *)
(*                                                                         *)
(* m.mu is held for the length of one action everywhere but in Stop, which  *)
(* keeps it from its first line to its return, so mu names the caller whose *)
(* Stop is under way.  A process identifier is reused once nothing refers   *)
(* to the process any more, so a run may start any number of them.          *)
(* Service mode, where systemd restarts Xray, and log capture are not       *)
(* modelled.                                                                *)
(***************************************************************************)
EXTENDS Naturals, FiniteSets

CONSTANTS
  Callers,          \* goroutines that call Start, Stop and Restart
  Procs,            \* identities of Xray processes (and of their *exec.Cmd)
  None,             \* no command yet: m.cmd = nil
  Unstarted,        \* m.cmd after an exec that failed: its Process is nil
  Nobody,           \* m.mu is free
  MaxRestarts,      \* maxRestarts
  WatchdogEnabled   \* watchdogEnabled

ASSUME MaxRestartsAssumption == MaxRestarts \in Nat
ASSUME WatchdogAssumption == WatchdogEnabled \in BOOLEAN
ASSUME NobodyAssumption == Nobody \notin Callers
ASSUME NoProcessAssumption == None \notin Procs /\ Unstarted \notin Procs

VARIABLES
  proc,       \* what the kernel says of each process
  cmd,        \* m.cmd
  stopped,    \* m.stopped
  stopChan,   \* m.stopChan: open, or closed once m.stopOnce has run
  history,    \* attempts of m.restartHistory that are still in the window
  watch,      \* where the watch goroutine of each process is
  wchan,      \* the stop channel that goroutine captured: m.stopChan still, or
              \* one that Restart has replaced since, left open or closed
  mu,         \* who keeps m.mu across steps
  call,       \* where each caller is: its operation and its place in it
  other,      \* another process named xray runs on the machine
  lastStart,  \* outcome of the last startLocked
  quiet       \* history variable: a Stop has returned, and nobody has called
              \* Start or Restart since

mgr  == <<cmd, stopped, stopChan>>
ghst == <<lastStart, quiet>>
xrayVars == <<proc, cmd, stopped, stopChan, history, watch, wchan, mu, call,
          other, lastStart, quiet>>

Idle == [op |-> "none", at |-> "idle"]

Calls == [op : {"none", "stop", "restart"},
          at : {"idle", "begin", "signal", "wait", "fresh"}]

XrayTypeOK ==
  /\ proc \in [Procs -> {"gone", "alive", "killed", "zombie"}]
  /\ cmd \in Procs \cup {None, Unstarted}
  /\ stopped \in BOOLEAN
  /\ stopChan \in {"open", "closed"}
  /\ history \in 0 .. MaxRestarts
  /\ watch \in [Procs -> {"off", "wait", "exited", "limit", "delay", "start"}]
  /\ wchan \in [Procs -> {"none", "current", "open", "closed"}]
  /\ mu \in Callers \cup {Nobody}
  /\ call \in [Callers -> Calls]
  /\ other \in BOOLEAN
  /\ lastStart \in {"none", "ok", "failed"}
  /\ quiet \in BOOLEAN

(***************************************************************************)
(* The kernel's process table.  kill(pid, 0) succeeds until the process has *)
(* been waited for, and pgrep finds any process named xray.                 *)
(***************************************************************************)
Present(p) == proc[p] # "gone"

isRunning == other \/ \E p \in Procs : Present(p)

Up == \E p \in Procs : proc[p] = "alive"

Unused(p) == proc[p] = "gone" /\ watch[p] = "off" /\ cmd # p

\* The channel a watch goroutine captured is closed.
Interrupted(p) == wchan[p] = "closed" \/ (wchan[p] = "current" /\ stopChan = "closed")

XrayInit ==
  /\ proc = [p \in Procs |-> "gone"]
  /\ cmd = None
  /\ stopped = FALSE
  /\ stopChan = "open"
  /\ history = 0
  /\ watch = [p \in Procs |-> "off"]
  /\ wchan = [p \in Procs |-> "none"]
  /\ mu = Nobody
  /\ call = [c \in Callers |-> Idle]
  /\ other \in BOOLEAN
  /\ lastStart = "none"
  /\ quiet = FALSE

------------------------------------------------------------------------------
(***************************************************************************)
(* startLocked: the binary or the config is missing (m.cmd is left alone),  *)
(* the exec fails (m.cmd has been replaced by a command without a process), *)
(* or a process starts and gets its own watch goroutine.  w is the watch    *)
(* table the caller leaves.                                                 *)
(***************************************************************************)
StartFails(w) ==
  /\ cmd' \in {cmd, Unstarted}
  /\ lastStart' = "failed"
  /\ watch' = w
  /\ UNCHANGED proc

StartWorks(p, w) ==
  /\ Unused(p)
  /\ proc' = [proc EXCEPT ![p] = "alive"]
  /\ cmd' = p
  /\ lastStart' = "ok"
  /\ watch' = [w EXCEPT ![p] = "wait"]

startLocked(w, downFlag) ==
  \/ StartFails(w) /\ stopped' = downFlag
  \/ \E p \in Procs : StartWorks(p, w) /\ stopped' = FALSE

(***************************************************************************)
(* canRestart: refuse when the window is full, else record the attempt.     *)
(***************************************************************************)
canRestart ==
  /\ history < MaxRestarts
  /\ history' = history + 1

\* An attempt of the history grows older than restartWindow; the next call
\* of canRestart prunes it.
AttemptExpires ==
  /\ history > 0
  /\ history' = history - 1
  /\ UNCHANGED <<proc, mgr, watch, wchan, mu, call, other, ghst>>

------------------------------------------------------------------------------
(***************************************************************************)
(* Processes.  Xray exits by itself, on SIGINT, or because it was killed;   *)
(* watch's Wait then reaps it and closes its exited channel.                *)
(***************************************************************************)
Exits(p) ==
  /\ proc[p] \in {"alive", "killed"}
  /\ proc' = [proc EXCEPT ![p] = "zombie"]
  /\ UNCHANGED <<mgr, history, watch, wchan, mu, call, other, ghst>>

WatchReaps(p) ==
  /\ watch[p] = "wait" /\ proc[p] = "zombie"
  /\ proc' = [proc EXCEPT ![p] = "gone"]
  /\ watch' = [watch EXCEPT ![p] = "exited"]
  /\ UNCHANGED <<mgr, history, wchan, mu, call, other, ghst>>

\* Stop waits on m.exited, which watch closes once it has reaped the process.
Exited(p) == watch[p] # "wait"

\* Another process named xray: `xray -test` and `xray api`, which the agent
\* itself runs, or an Xray somebody else started.
OtherComesOrGoes ==
  /\ other' = ~other
  /\ UNCHANGED <<proc, mgr, history, watch, wchan, mu, call, ghst>>

------------------------------------------------------------------------------
(***************************************************************************)
(* watch, after Wait.                                                       *)
(***************************************************************************)
WatchDone(p) == watch' = [watch EXCEPT ![p] = "off"] /\ wchan' = [wchan EXCEPT ![p] = "none"]

\* (mutant of Superseded: a goroutine that restarts after Stop)
SupersededByNew(p) == cmd # p
\* (mutant of Superseded: a goroutine that ignores its successor)
SupersededByStop(p) == stopped
\* stopped or replaced by a restart: the goroutine just returns.
Superseded(p) == stopped \/ cmd # p

WatchChecks(p) ==
  /\ watch[p] = "exited" /\ mu = Nobody
  /\ IF Superseded(p) \/ ~WatchdogEnabled
     THEN WatchDone(p)
     ELSE /\ watch' = [watch EXCEPT ![p] = "limit"]
          /\ wchan' = [wchan EXCEPT ![p] = "current"]
  /\ UNCHANGED <<proc, mgr, history, mu, call, other, ghst>>

WatchAsksLimit(p) ==
  /\ watch[p] = "limit" /\ mu = Nobody
  /\ \/ canRestart /\ watch' = [watch EXCEPT ![p] = "delay"] /\ UNCHANGED wchan
     \/ history = MaxRestarts /\ WatchDone(p) /\ UNCHANGED history
  /\ UNCHANGED <<proc, mgr, mu, call, other, ghst>>

\* The select between restartDelay and the captured stop channel.
WatchWakes(p) ==
  /\ watch[p] = "delay"
  /\ \/ watch' = [watch EXCEPT ![p] = "start"] /\ UNCHANGED wchan
     \/ Interrupted(p) /\ WatchDone(p)
  /\ UNCHANGED <<proc, mgr, history, mu, call, other, ghst>>

\* (mutant of WatchRestarts: through Start, which trusts pgrep)
WatchStarts(p) ==
  /\ watch[p] = "start" /\ mu = Nobody
  /\ wchan' = [wchan EXCEPT ![p] = "none"]
  /\ LET w == [watch EXCEPT ![p] = "off"]
     IN IF Superseded(p) \/ isRunning
        THEN watch' = w /\ UNCHANGED <<proc, cmd, stopped, lastStart>>
        ELSE startLocked(w, stopped)
  /\ UNCHANGED <<stopChan, history, mu, call, other, quiet>>

WatchRestarts(p) ==
  /\ watch[p] = "start" /\ mu = Nobody
  /\ wchan' = [wchan EXCEPT ![p] = "none"]
  /\ LET w == [watch EXCEPT ![p] = "off"]
     IN IF Superseded(p) THEN watch' = w /\ UNCHANGED <<proc, cmd, stopped, lastStart>>
                         ELSE startLocked(w, stopped)
  /\ UNCHANGED <<stopChan, history, mu, call, other, quiet>>

------------------------------------------------------------------------------
(***************************************************************************)
(* Start, Stop and Restart.                                                 *)
(***************************************************************************)
NoRestart == \A c \in Callers : call[c].op # "restart"

Start(c) ==
  /\ call[c] = Idle /\ mu = Nobody
  /\ quiet' = FALSE
  /\ IF isRunning THEN UNCHANGED <<proc, cmd, stopped, watch, lastStart>>
                  ELSE startLocked(watch, stopped)
  /\ UNCHANGED <<stopChan, history, wchan, mu, call, other>>

\* Stop with something running: the flag and the channel, under the lock.
\* (With nothing running Stop returns at once and changes nothing.)
StopBegins(c, op) ==
  /\ isRunning
  /\ stopped' = TRUE
  /\ stopChan' = "closed"
  /\ mu' = c
  /\ call' = [call EXCEPT ![c] = [op |-> op, at |-> "signal"]]

Stop(c) ==
  /\ call[c] = Idle /\ mu = Nobody
  /\ StopBegins(c, "stop")
  /\ UNCHANGED <<proc, cmd, history, watch, wchan, other, lastStart, quiet>>

\* Stop returns: to the caller, or to Restart, which goes on to start.
StopReturns(c) ==
  /\ mu' = Nobody
  /\ IF call[c].op = "restart"
     THEN call' = [call EXCEPT ![c].at = "fresh"] /\ UNCHANGED quiet
     ELSE /\ call' = [call EXCEPT ![c] = Idle]
          /\ quiet' = NoRestart

\* SIGINT to our own process; if it has already been reaped, the signal and
\* then the kill fail and Stop returns the error.
StopSignals(c) ==
  /\ call[c].at = "signal" /\ cmd \in Procs
  /\ IF Present(cmd) THEN call' = [call EXCEPT ![c].at = "wait"] /\ UNCHANGED <<mu, quiet>>
                     ELSE StopReturns(c)
  /\ UNCHANGED <<proc, mgr, history, watch, wchan, other, lastStart>>

\* No process of our own: pkill the external one, which may or may not die.
StopPkills(c) ==
  /\ call[c].at = "signal" /\ cmd \notin Procs
  /\ other' \in {other, FALSE}
  /\ StopReturns(c)
  /\ UNCHANGED <<proc, mgr, history, watch, wchan, lastStart>>

StopSeesExit(c) ==
  /\ call[c].at = "wait" /\ Exited(cmd)
  /\ StopReturns(c)
  /\ UNCHANGED <<proc, mgr, history, watch, wchan, other, lastStart>>

\* (mutant of StopTimesOut: no limit to the wait)
StopWaits(c) == FALSE /\ UNCHANGED xrayVars

\* The grace period is over: SIGKILL, and Stop returns without waiting.
StopTimesOut(c) ==
  /\ call[c].at = "wait"
  /\ proc' = IF proc[cmd] = "alive" THEN [proc EXCEPT ![cmd] = "killed"] ELSE proc
  /\ StopReturns(c)
  /\ UNCHANGED <<mgr, history, watch, wchan, other, lastStart>>

\* Restart, accepted by the budget.  (Refused, or with a config that does not
\* validate, it changes nothing.)
Restart(c) ==
  /\ call[c] = Idle /\ mu = Nobody
  /\ canRestart
  /\ call' = [call EXCEPT ![c] = [op |-> "restart", at |-> "begin"]]
  /\ quiet' = FALSE
  /\ UNCHANGED <<proc, mgr, watch, wchan, mu, other, lastStart>>

RestartStops(c) ==
  /\ call[c].at = "begin" /\ mu = Nobody
  /\ \/ StopBegins(c, "restart")
     \/ ~isRunning /\ call' = [call EXCEPT ![c].at = "fresh"] /\ UNCHANGED <<stopped, stopChan, mu>>
  /\ UNCHANGED <<proc, cmd, history, watch, wchan, other, ghst>>

\* A new stop channel, the flag cleared, and the start under the same lock.
RestartStarts(c) ==
  /\ call[c].at = "fresh" /\ mu = Nobody
  /\ stopChan' = "open"
  /\ wchan' = [p \in Procs |-> IF wchan[p] = "current" THEN stopChan ELSE wchan[p]]
  /\ IF isRunning THEN stopped' = FALSE /\ UNCHANGED <<proc, cmd, watch, lastStart>>
                  ELSE startLocked(watch, FALSE)
  /\ call' = [call EXCEPT ![c] = Idle]
  /\ UNCHANGED <<history, mu, other, quiet>>

------------------------------------------------------------------------------
Watch(p) ==
  \/ WatchReaps(p) \/ WatchChecks(p) \/ WatchAsksLimit(p) \/ WatchWakes(p) \/ WatchRestarts(p)

Proceed(c) ==
  \/ StopSignals(c) \/ StopPkills(c) \/ StopSeesExit(c) \/ StopTimesOut(c)
  \/ RestartStops(c) \/ RestartStarts(c)

XrayNext ==
  \/ AttemptExpires
  \/ OtherComesOrGoes
  \/ \E p \in Procs : Exits(p) \/ Watch(p)
  \/ \E c \in Callers : Start(c) \/ Stop(c) \/ Restart(c) \/ Proceed(c)

XraySpec == XrayInit /\ [][XrayNext]_xrayVars

(***************************************************************************)
(* A killed process dies, a goroutine that can run does, timers fire, and   *)
(* sync.Mutex hands itself to a waiter sooner or later (its starvation      *)
(* mode), hence the strong fairness of the steps that take m.mu.  Nothing   *)
(* is assumed of crashes, of calls, of other processes or of SIGINT.        *)
(***************************************************************************)
XrayFairness ==
  /\ \A p \in Procs :
       /\ WF_xrayVars(proc[p] = "killed" /\ Exits(p))
       /\ WF_xrayVars(WatchReaps(p))
       /\ WF_xrayVars(WatchWakes(p))
       /\ SF_xrayVars(WatchChecks(p) \/ WatchAsksLimit(p) \/ WatchRestarts(p))
  /\ \A c \in Callers :
       /\ WF_xrayVars(StopSignals(c) \/ StopPkills(c) \/ StopSeesExit(c) \/ StopTimesOut(c))
       /\ SF_xrayVars(RestartStops(c) \/ RestartStarts(c))

XrayFairSpec == XraySpec /\ XrayFairness

------------------------------------------------------------------------------
(***************************************************************************)
(* The agent never runs two Xrays, and never one it has lost sight of:      *)
(* every process that still exists is the one m.cmd names and has a watch   *)
(* goroutine waiting for it, however crashes, restarts and calls interleave.*)
(***************************************************************************)
OneProcess ==
  \A p \in Procs : Present(p) => cmd = p /\ watch[p] = "wait"

ComesUp == \E p \in Procs : proc[p] # "alive" /\ proc'[p] = "alive"

(***************************************************************************)
(* A Stop that stopped something sticks: once it has returned, no process   *)
(* comes up before somebody calls Start or Restart, whichever watch         *)
(* goroutines were in their restart delay at the time.                      *)
(***************************************************************************)
StopSticks ==
  [][quiet /\ quiet' => ~ComesUp]_xrayVars

(***************************************************************************)
(* Every Stop and every accepted Restart returns: a process that ignores    *)
(* SIGINT cannot hold the lock for ever.                                    *)
(***************************************************************************)
CallsReturn == \A c \in Callers : call[c] # Idle ~> call[c] = Idle

(***************************************************************************)
(* A crash that the budget lets the watchdog answer, noticed while the stop *)
(* channel was open, ends with Xray up again, a Stop, or a start that was   *)
(* tried and failed.                                                        *)
(***************************************************************************)
Answered == Up \/ stopped \/ lastStart = "failed"

CrashIsAnswered ==
  \A p \in Procs : (watch[p] = "delay" /\ ~Interrupted(p) /\ cmd = p) ~> Answered

(***************************************************************************)
(* "With the watchdog on, restarts it after a crash": the same, whatever    *)
(* the state of the stop channel.                                           *)
(***************************************************************************)
WatchdogRestarts == \A p \in Procs : watch[p] = "delay" /\ cmd = p ~> Answered
=============================================================================
