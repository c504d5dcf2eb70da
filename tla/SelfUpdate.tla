---- MODULE SelfUpdate ----
\* The panel replaces its own files (src/internal/update/usecase): a job is started by the
\* panel (job.go), carried out by a runner process that outlives the panel's restart
\* (runner.go), and settled by the panel when the runner has died (boot.go).  What they
\* share are files: the job in state.json with the update lock beside it (store.go), and
\* the copies that an update or a rollback can be undone from (swap.go).
\*
\* Every process may die between any two steps, and the whole machine with them; what is on
\* disk stays.  A file is replaced by a rename, so each is one version or another, never
\* half of one.
EXTENDS Naturals, FiniteSets

CONSTANTS
  MaxVersion,  \* bound: versions are 1..MaxVersion, the installed one being 1
  MaxJobs,     \* bound: jobs started
  MaxFaults    \* bound: failed steps, deaths of a process or of the machine

ASSUME UpdateBounds == MaxVersion \in Nat \ {0} /\ MaxJobs \in Nat /\ MaxFaults \in Nat

Versions == 1..MaxVersion
None == 0  \* no version: a copy that is not there, a panel that is down

\* The files an update replaces: the system's (units, /usr/local/bin/nasnet), the agents and
\* scripts under the install root, and the panel's binary.
Parts == {"system", "tool", "binary"}

VARIABLES
  live,     \* part -> the version of it that is installed
  prev,     \* set.json with the copies it names (binary: nasnet-panel.prev)
  fwd,      \* forward.json with the copies it names
  job,      \* state.json
  fresh,    \* a heartbeat, or the start of the watch, is younger than runnerGone
  lock,     \* who holds update.lock
  starter,  \* the panel's half of a job
  runner,   \* the runner unit
  panel,    \* version of the running panel, None when it is down
  watch,    \* the panel's watchRunner
  health,   \* what each version is: "good", "sick" (fails its trial) or "dead" (never starts)
  jobs, faults,
  sound,    \* history: the job began with whole files (and, a rollback, with whole copies),
            \* no last resort has failed, and no death leads the panel to misjudge it
  lost      \* history: the runner died at work

disk == <<live, prev, fwd>>
panelVars == <<starter, panel, watch>>
ghosts == <<sound, lost>>
vars == <<disk, job, fresh, lock, runner, panelVars, health, jobs, faults, ghosts>>

NoSet == [version |-> None, by |-> None, covers |-> {}]
NoCopies == [p \in Parts |-> None]
Empty == [set |-> NoSet, copies |-> NoCopies]
NoJob == [id |-> 0, kind |-> "update", from |-> None, to |-> None, phase |-> "done", result |-> "none"]

idleRunner == [pc |-> "none", id |-> 0, src |-> "prev", todo |-> {}, err |-> FALSE, why |-> "none"]
idleWatch == [pc |-> "idle", job |-> NoJob, src |-> "prev", todo |-> {}, err |-> FALSE]

Init ==
  /\ live = [p \in Parts |-> 1] /\ prev = Empty /\ fwd = Empty
  /\ job = NoJob /\ fresh = FALSE /\ lock = "free"
  /\ starter = "idle" /\ runner = idleRunner /\ panel = 1 /\ watch = idleWatch
  /\ health \in {h \in [Versions -> {"good", "sick", "dead"}] : h[1] = "good"}
  /\ jobs = 0 /\ faults = 0 /\ sound = TRUE /\ lost = FALSE

Fault == faults < MaxFaults /\ faults' = faults + 1
NoFault == UNCHANGED faults

Unfinished == job.phase # "done"
Whole(v) == live = [p \in Parts |-> v]
WholeCopies == \A p \in prev.set.covers : prev.copies[p] \in {None, prev.set.version}
AtWork == runner.pc \notin {"none", "lock"}
Finished(j, result) == [j EXCEPT !.phase = "done", !.result = result]

----
\* Starting a job, in the panel.

NewJob(kind, to, phase) ==
  /\ panel # None /\ starter = "idle" /\ lock = "free" /\ ~Unfinished
  /\ jobs < MaxJobs /\ jobs' = jobs + 1
  /\ job' = [id |-> jobs + 1, kind |-> kind, from |-> panel, to |-> to, phase |-> phase, result |-> "none"]
  /\ sound' = (Whole(panel) /\ (kind = "rollback" => WholeCopies)) /\ lost' = FALSE
  /\ UNCHANGED <<disk, runner, panel, watch, health, faults>>

Apply(v) ==
  /\ panel # None /\ v > panel
  /\ NewJob("update", v, "panel")
  /\ lock' = "panel" /\ starter' = "steps" /\ UNCHANGED fresh

rollbackWindow == prev.set # NoSet /\ prev.set.by = panel /\ prev.copies["binary"] # None

Rollback ==
  /\ rollbackWindow
  /\ NewJob("rollback", prev.set.version, "runner")
  /\ starter' = "start" /\ fresh' = TRUE /\ UNCHANGED lock

\* Guards, download, verification, backup, staging and the test of the new binary touch no
\* installed file; one of them fails, or the job is handed over.
PanelStepsFail ==
  /\ starter = "steps"
  /\ job' = Finished(job, "failed") /\ lock' = "free" /\ starter' = "idle"
  /\ UNCHANGED <<disk, fresh, runner, panel, watch, health, jobs, faults, ghosts>>

HandOff ==
  /\ starter = "steps"
  /\ job' = [job EXCEPT !.phase = "runner"] /\ fresh' = TRUE
  /\ lock' = "free" /\ starter' = "start"
  /\ UNCHANGED <<disk, runner, panel, watch, health, jobs, faults, ghosts>>

following(w) == IF w.pc = "idle" THEN [idleWatch EXCEPT !.pc = "watching"] ELSE w

StartRunner ==
  /\ starter = "start" /\ runner.pc = "none"
  /\ runner' = [idleRunner EXCEPT !.pc = "lock", !.id = job.id]
  /\ starter' = "idle" /\ watch' = following(watch)
  /\ UNCHANGED <<disk, job, fresh, lock, panel, health, jobs, faults, ghosts>>

\* systemd-run fails, certainly when the unit of an earlier job is still there.  An update
\* ends the job under the lock, a rollback without it.
StartRunnerFails ==
  /\ starter = "start"
  /\ IF runner.pc # "none" THEN NoFault ELSE Fault
  /\ job' = IF job.kind = "rollback" \/ lock = "free" THEN Finished(job, "failed") ELSE job
  /\ starter' = "idle"
  /\ UNCHANGED <<disk, fresh, lock, runner, panel, watch, health, jobs, ghosts>>

----
\* Files: saving, putting back, removing.

order == [system |-> 1, tool |-> 2, binary |-> 3]
firstOf(S) == CHOOSE p \in S : \A q \in S : order[p] <= order[q]
lastOf(S) == CHOOSE p \in S : \A q \in S : order[q] <= order[p]

copiesIn(src) == IF src = "prev" THEN prev.copies ELSE fwd.copies

\* fileSet.putBack: one file of the set after the other, last first, past errors.  When a
\* file cannot be put back and nothing is left to try, the files are not sound any more.
PutsBack(src, todo) ==
  LET p == lastOf(todo)
  IN  /\ copiesIn(src)[p] # None
      /\ live' = [live EXCEPT ![p] = copiesIn(src)[p]]
      /\ NoFault /\ UNCHANGED <<prev, fwd, sound>>

CannotPutBack(src, todo, lastResort) ==
  /\ IF copiesIn(src)[lastOf(todo)] = None THEN NoFault ELSE Fault
  /\ sound' = (sound /\ ~lastResort)
  /\ UNCHANGED disk

\* os.RemoveAll(prev): one entry of the directory after the other, in any order.
RemovesSome ==
  /\ \/ prev.set # NoSet /\ prev' = [prev EXCEPT !.set = NoSet] /\ UNCHANGED fwd
     \/ \E p \in {"system", "tool"} :
          prev.copies[p] # None /\ prev' = [prev EXCEPT !.copies[p] = None] /\ UNCHANGED fwd
     \/ fwd.set # NoSet /\ fwd' = [fwd EXCEPT !.set = NoSet] /\ UNCHANGED prev
     \/ fwd.copies # NoCopies /\ fwd' = [fwd EXCEPT !.copies = NoCopies] /\ UNCHANGED prev
  /\ UNCHANGED live

\* dropPrev: the whole directory, then nasnet-panel.prev.
dropPrev == prev' = Empty /\ fwd' = Empty /\ UNCHANGED live

----
\* The runner.

RunnerFrame == UNCHANGED <<lock, panelVars, health, jobs, lost>>
GoOn(pc) == runner' = [runner EXCEPT !.pc = pc]
RunnerFinishes(result) == job' = Finished(job, result) /\ GoOn("exit")

\* r.fail before anything has changed.
Fails == Fault /\ RunnerFinishes("failed") /\ UNCHANGED <<disk, sound>>

\* Put back what src holds of the parts, and then: "abort" the job, "revert" to the version
\* that ran before, or go on with the "rollback".
PutBack(src, parts, why) ==
  runner' = [runner EXCEPT !.pc = "back", !.src = src, !.todo = parts, !.err = FALSE, !.why = why]

\* revert, and going forward again after a rollback that did not come up.
Revert == IF job.kind = "update" THEN PutBack("prev", Parts, "revert")
                                 ELSE PutBack("fwd", fwd.set.covers, "revert")

waits == job.id = runner.id /\ job.phase = "runner"

\* RunJob: the lock, which it asks for during ten seconds, then the job, then a heartbeat.
\* A new process takes longer to get here than the watch takes from Load to TryLock.
RunJob ==
  /\ runner.pc = "lock" /\ watch.pc # "try"
  /\ \/ /\ lock = "free" /\ waits
        /\ lock' = "runner" /\ fresh' = TRUE
        /\ GoOn(IF job.kind = "update" THEN "wipe" ELSE "read")
     \/ /\ lock # "free" \/ ~waits
        /\ runner' = idleRunner /\ UNCHANGED <<lock, fresh>>
  /\ UNCHANGED <<disk, job, panelVars, health, jobs, faults, ghosts>>

\* runUpdate, 7: forget the version before, save the system's files, have the script
\* rewrite them.
Wipe ==
  /\ runner.pc = "wipe"
  /\ \/ RemovesSome /\ UNCHANGED runner
     \/ dropPrev /\ GoOn("saveSystem")
  /\ UNCHANGED <<job, fresh, faults, sound>> /\ RunnerFrame

SaveSystem ==
  /\ runner.pc = "saveSystem"
  /\ \/ /\ prev' = [prev EXCEPT !.copies["system"] = live["system"]]
        /\ GoOn("writeSystem") /\ NoFault /\ UNCHANGED <<live, fwd, job, sound>>
     \/ Fails
  /\ UNCHANGED fresh /\ RunnerFrame

setOf(covers) == [version |-> job.from, by |-> job.to, covers |-> covers]

WriteSystem ==
  /\ runner.pc = "writeSystem"
  /\ \/ /\ prev' = [prev EXCEPT !.set = setOf({"system"})]
        /\ GoOn("script") /\ NoFault /\ UNCHANGED <<live, fwd, job, sound>>
     \/ Fails
  /\ UNCHANGED fresh /\ RunnerFrame

UpdateSystem ==
  /\ runner.pc = "script"
  /\ \/ live' = [live EXCEPT !["system"] = job.to] /\ GoOn("save") /\ NoFault
     \/ /\ live' \in {live, [live EXCEPT !["system"] = job.to]}
        /\ Fault /\ PutBack("prev", {"system"}, "abort")
  /\ UNCHANGED <<prev, fwd, job, fresh, sound>> /\ RunnerFrame

\* 8: save the rest, write the whole set, then install, the binary last.
Save ==
  /\ runner.pc = "save"
  /\ \/ prev' = [prev EXCEPT !.copies["tool"] = live["tool"], !.copies["binary"] = live["binary"]]
        /\ GoOn("write") /\ NoFault
     \/ Fault /\ PutBack("prev", {"system"}, "abort") /\ UNCHANGED prev
  /\ UNCHANGED <<live, fwd, job, fresh, sound>> /\ RunnerFrame

Install(todo) == runner' = [runner EXCEPT !.pc = "install", !.todo = todo]

\* (mutant of WriteSet: the set is written with its system files only)
WriteSetOnce ==
  /\ runner.pc = "write"
  /\ Install({"tool", "binary"}) /\ NoFault
  /\ UNCHANGED <<disk, job, fresh, sound>> /\ RunnerFrame

WriteSet ==
  /\ runner.pc = "write"
  /\ \/ prev' = [prev EXCEPT !.set = setOf(Parts)] /\ Install({"tool", "binary"}) /\ NoFault
     \/ Fault /\ PutBack("prev", Parts, "abort") /\ UNCHANGED prev
  /\ UNCHANGED <<live, fwd, job, fresh, sound>> /\ RunnerFrame

\* (mutant of installsNext: the binary first)
installsBinary == lastOf(runner.todo)
\* installPlan: the binary goes last.
installsNext == firstOf(runner.todo)

installFile ==
  /\ runner.pc = "install"
  /\ \/ /\ runner.todo # {} /\ NoFault
        /\ live' = [live EXCEPT ![installsNext] = job.to]
        /\ runner' = [runner EXCEPT !.todo = @ \ {installsNext}]
     \/ runner.todo = {} /\ GoOn("restart") /\ NoFault /\ UNCHANGED live
     \/ runner.todo # {} /\ Fault /\ PutBack("prev", Parts, "abort") /\ UNCHANGED live
  /\ UNCHANGED <<prev, fwd, job, fresh, sound>> /\ RunnerFrame

\* runRollback: read the set, save what it would replace, put it back.
ReadSet ==
  /\ runner.pc = "read"
  /\ IF prev.set = NoSet THEN RunnerFinishes("failed") ELSE GoOn("saveForward") /\ UNCHANGED job
  /\ UNCHANGED <<disk, fresh, faults, sound>> /\ RunnerFrame

SaveForward ==
  /\ runner.pc = "saveForward"
  /\ \/ /\ fwd' = [fwd EXCEPT !.copies = [p \in Parts |-> IF p \in prev.set.covers THEN live[p] ELSE @[p]]]
        /\ GoOn("writeForward") /\ NoFault /\ UNCHANGED <<live, prev, job, sound>>
     \/ Fails
  /\ UNCHANGED fresh /\ RunnerFrame

WriteForward ==
  /\ runner.pc = "writeForward"
  /\ \/ /\ fwd' = [fwd EXCEPT !.set = setOf(prev.set.covers)]
        /\ PutBack("prev", prev.set.covers, "rollback")
        /\ NoFault /\ UNCHANGED <<live, prev, job, sound>>
     \/ Fails
  /\ UNCHANGED fresh /\ RunnerFrame

\* 9 and 10, and the same once more for the version that ran before: the restart ends the
\* panel and whatever it was doing, and systemd starts what is installed.
booted == IF health[live["binary"]] = "dead" THEN None ELSE live["binary"]

Restart ==
  /\ runner.pc \in {"restart", "restartOld"}
  /\ \/ /\ panel' = booted /\ starter' = "idle" /\ watch' = idleWatch
        /\ GoOn(IF runner.pc = "restart" THEN "trial" ELSE "trialOld") /\ NoFault
     \/ /\ Fault /\ UNCHANGED panelVars
        /\ IF runner.pc = "restart"
           THEN Revert
           ELSE runner' = [runner EXCEPT !.pc = "drop", !.err = TRUE]
  /\ UNCHANGED <<disk, job, fresh, lock, health, jobs, ghosts>>

\* (mutant of healthy: whatever answers will do)
healthyAny(want) == TRUE
healthy(want) == panel = want /\ health[want] = "good"

\* A trial of a good version may fail as well: slow to start, the database away.
trial ==
  /\ runner.pc \in {"trial", "trialOld"}
  /\ LET want == IF runner.pc = "trial" THEN job.to ELSE job.from
         passes == healthy(want) /\ NoFault
         fails == IF health[want] = "good" /\ booted = want THEN Fault ELSE NoFault
     IN  \/ /\ runner.pc = "trial" /\ passes
            /\ IF job.kind = "update" THEN RunnerFinishes("ok") ELSE GoOn("drop") /\ UNCHANGED job
         \/ /\ runner.pc = "trial" /\ fails
            /\ Revert
            /\ UNCHANGED job
         \/ runner.pc = "trialOld" /\ passes /\ GoOn("drop") /\ UNCHANGED job
         \/ /\ runner.pc = "trialOld" /\ fails
            /\ runner' = [runner EXCEPT !.pc = "drop", !.err = TRUE] /\ UNCHANGED job
  /\ UNCHANGED <<disk, fresh, sound>> /\ RunnerFrame

\* putBack: the files, then systemctl daemon-reload.
RunnerPutsBack ==
  /\ runner.pc = "back" /\ runner.todo # {}
  /\ \/ /\ PutsBack(runner.src, runner.todo)
        /\ runner' = [runner EXCEPT !.todo = @ \ {lastOf(@)}]
     \/ /\ CannotPutBack(runner.src, runner.todo, runner.why # "rollback")
        /\ runner' = [runner EXCEPT !.todo = @ \ {lastOf(@)}, !.err = TRUE]
  /\ UNCHANGED <<job, fresh>> /\ RunnerFrame

AfterPutBack(err) ==
  CASE runner.why = "abort" /\ job.kind = "update" -> GoOn("drop") /\ UNCHANGED job
    [] runner.why = "abort" /\ job.kind = "rollback" -> RunnerFinishes("failed")
    [] runner.why = "revert" ->
         runner' = [runner EXCEPT !.pc = IF err THEN "drop" ELSE "restartOld", !.err = err] /\ UNCHANGED job
    [] runner.why = "rollback" ->
         (IF err THEN PutBack("fwd", fwd.set.covers, "abort") ELSE GoOn("restart")) /\ UNCHANGED job

DaemonReload ==
  /\ runner.pc = "back" /\ runner.todo = {}
  /\ \/ AfterPutBack(runner.err) /\ NoFault
     \/ AfterPutBack(TRUE) /\ Fault
  /\ UNCHANGED <<disk, fresh, sound>> /\ RunnerFrame

\* dropPrev, or only the copies to go forward with, and then the result.
keepsPrev == job.kind = "rollback" /\ runner.why = "revert"

Drop ==
  /\ runner.pc = "drop"
  /\ \/ ~keepsPrev /\ RemovesSome /\ UNCHANGED runner
     \/ ~keepsPrev /\ dropPrev /\ GoOn("finish")
     \/ /\ keepsPrev /\ fwd.copies # NoCopies
        /\ fwd' = [fwd EXCEPT !.copies = NoCopies] /\ UNCHANGED <<live, prev, runner>>
     \/ keepsPrev /\ fwd' = Empty /\ GoOn("finish") /\ UNCHANGED <<live, prev>>
  /\ UNCHANGED <<job, fresh, faults, sound>> /\ RunnerFrame

outcome ==
  CASE runner.why = "rollback" -> "ok"
    [] runner.why = "revert" /\ job.kind = "update" /\ ~runner.err -> "rolled_back"
    [] OTHER -> "failed"

Finish ==
  /\ runner.pc = "finish"
  /\ RunnerFinishes(outcome)
  /\ UNCHANGED <<disk, fresh, faults, sound>> /\ RunnerFrame

Exit ==
  /\ runner.pc = "exit"
  /\ runner' = idleRunner /\ lock' = "free"
  /\ UNCHANGED <<disk, job, fresh, panelVars, health, jobs, faults, ghosts>>

RunnerSteps ==
  \/ RunJob \/ Wipe \/ SaveSystem \/ WriteSystem \/ UpdateSystem \/ Save \/ WriteSet
  \/ installFile \/ ReadSet \/ SaveForward \/ WriteForward \/ Restart \/ trial
  \/ RunnerPutsBack \/ DaemonReload \/ Drop \/ Finish \/ Exit

----
\* The panel's watch over a job that somebody else runs.

\* (mutant of followed: only jobs that have been handed over)
followedByRunner == job.phase = "runner"
followed == Unfinished

\* Resume at boot and settleJob every minute.
Follow ==
  /\ panel # None /\ watch.pc = "idle" /\ starter = "idle" /\ followed
  /\ watch' = following(watch) /\ fresh' = TRUE
  /\ UNCHANGED <<disk, job, lock, runner, starter, panel, health, jobs, faults, ghosts>>

\* No heartbeat for runnerGone: nobody beats while the runner is not at work.
Silence ==
  /\ watch.pc = "watching" /\ Unfinished /\ fresh /\ ~AtWork
  /\ fresh' = FALSE
  /\ UNCHANGED <<disk, job, lock, runner, panelVars, health, jobs, faults, ghosts>>

WatchLooks ==
  /\ watch.pc = "watching"
  /\ \/ ~Unfinished /\ watch' = idleWatch
     \/ Unfinished /\ ~fresh /\ watch' = [watch EXCEPT !.pc = "try", !.job = job]
  /\ UNCHANGED <<disk, job, fresh, lock, runner, starter, panel, health, jobs, faults, ghosts>>

Settles(result) == job' = Finished(watch.job, result) /\ lock' = "free" /\ watch' = idleWatch
WatchPutBack(src, covers) ==
  /\ watch' = [watch EXCEPT !.pc = "back", !.src = src, !.todo = covers, !.err = FALSE]
  /\ lock' = "panel" /\ UNCHANGED job

\* interrupted: what runs now decides how it went.
interrupted ==
  LET j == watch.job
  IN  CASE j.phase = "panel" -> Settles("failed")
        [] j.phase # "panel" /\ panel = j.to -> Settles("ok")
        [] j.phase # "panel" /\ panel # j.to /\ j.kind = "update" ->
             IF prev.set.by # j.to THEN Settles("failed") ELSE WatchPutBack("prev", prev.set.covers)
        [] OTHER ->
             IF fwd.set = NoSet THEN Settles("failed") ELSE WatchPutBack("fwd", fwd.set.covers)

WatchTries ==
  /\ watch.pc = "try"
  /\ \/ lock = "free" /\ interrupted
     \/ lock # "free" /\ watch' = [watch EXCEPT !.pc = "watching"] /\ UNCHANGED <<job, lock>>
  /\ UNCHANGED <<disk, fresh, runner, starter, panel, health, jobs, faults, ghosts>>

WatchPutsBack ==
  /\ watch.pc = "back" /\ watch.todo # {}
  /\ \/ /\ PutsBack(watch.src, watch.todo)
        /\ watch' = [watch EXCEPT !.todo = @ \ {lastOf(@)}]
     \/ /\ CannotPutBack(watch.src, watch.todo, TRUE)
        /\ watch' = [watch EXCEPT !.todo = @ \ {lastOf(@)}, !.err = TRUE]
  /\ UNCHANGED <<job, fresh, lock, runner, starter, panel, health, jobs, lost>>

WatchReloads ==
  /\ watch.pc = "back" /\ watch.todo = {}
  /\ \E err \in {watch.err, TRUE} :
       /\ IF err = watch.err THEN NoFault ELSE Fault
       /\ IF err \/ watch.job.kind = "rollback" THEN Settles("failed")
          ELSE watch' = [watch EXCEPT !.pc = "drop"] /\ UNCHANGED <<job, lock>>
  /\ UNCHANGED <<disk, fresh, runner, starter, panel, health, jobs, ghosts>>

WatchDrops ==
  /\ watch.pc = "drop"
  /\ \/ RemovesSome /\ UNCHANGED <<watch, job, lock>>
     \/ dropPrev /\ Settles("rolled_back")
  /\ UNCHANGED <<fresh, runner, starter, panel, health, jobs, faults, ghosts>>

WatchSteps == WatchLooks \/ WatchTries \/ WatchPutsBack \/ WatchReloads \/ WatchDrops

----
\* Deaths.  The kernel drops the lock of a holder that dies.

\* A panel of the version a job leads to takes the job for done.  It is wrong about a runner
\* that died after it began to put files back, the binary being the first of them.
Misjudged == Unfinished /\ runner.why # "none" /\ job.to \in {panel, live["binary"]} /\ ~Whole(job.to)

RunnerDies ==
  /\ Fault /\ runner.pc # "none"
  /\ runner' = idleRunner /\ lock' = IF lock = "runner" THEN "free" ELSE lock
  /\ lost' = (lost \/ AtWork)
  /\ sound' = (sound /\ ~Misjudged)
  /\ UNCHANGED <<disk, job, fresh, panelVars, health, jobs>>

PanelDies ==
  /\ Fault /\ panel # None
  /\ panel' = None /\ starter' = "idle" /\ watch' = idleWatch
  /\ lock' = IF lock = "panel" THEN "free" ELSE lock
  /\ UNCHANGED <<disk, job, fresh, runner, health, jobs, ghosts>>

Reboot ==
  /\ Fault
  /\ panel' = None /\ starter' = "idle" /\ watch' = idleWatch
  /\ runner' = idleRunner /\ lock' = "free"
  /\ lost' = (lost \/ AtWork) /\ sound' = (sound /\ ~Misjudged)
  /\ UNCHANGED <<disk, job, fresh, health, jobs>>

\* systemd starts what is installed (Restart=always).
PanelStarts ==
  /\ panel = None /\ booted # None
  /\ panel' = booted
  /\ UNCHANGED <<disk, job, fresh, lock, starter, runner, watch, health, jobs, faults, ghosts>>

----
Next ==
  \/ \E v \in Versions : Apply(v)
  \/ Rollback \/ PanelStepsFail \/ HandOff \/ StartRunner \/ StartRunnerFails
  \/ RunnerSteps
  \/ Follow \/ Silence \/ WatchSteps
  \/ RunnerDies \/ PanelDies \/ Reboot \/ PanelStarts

\* The processes run, systemd restarts the panel, and time passes.  Nothing is assumed of
\* administrators, and of failures only that they are bounded.
Fairness ==
  /\ WF_vars(PanelStepsFail \/ HandOff) /\ WF_vars(StartRunner \/ StartRunnerFails)
  /\ WF_vars(RunnerSteps)
  /\ WF_vars(Follow) /\ WF_vars(Silence) /\ WF_vars(WatchSteps)
  /\ WF_vars(PanelStarts)

Spec == Init /\ [][Next]_vars

LiveSpec == Spec /\ Fairness

----
Sets == [version : 0..MaxVersion, by : 0..MaxVersion, covers : SUBSET Parts]
Copies == [Parts -> 0..MaxVersion]
Saved == [set : Sets, copies : Copies]
Jobs == [id : 0..MaxJobs, kind : {"update", "rollback"}, from : 0..MaxVersion, to : 0..MaxVersion,
         phase : {"panel", "runner", "done"}, result : {"none", "ok", "failed", "rolled_back"}]
RunnerPcs ==
  {"none", "lock", "wipe", "saveSystem", "writeSystem", "script", "save", "write", "install",
   "read", "saveForward", "writeForward", "restart", "trial", "back", "restartOld",
   "trialOld", "drop", "finish", "exit"}
Runners ==
  [pc : RunnerPcs, id : 0..MaxJobs, src : {"prev", "fwd"}, todo : SUBSET Parts, err : BOOLEAN,
   why : {"none", "abort", "revert", "rollback"}]
Watches ==
  [pc : {"idle", "watching", "try", "back", "drop"}, job : Jobs, src : {"prev", "fwd"},
   todo : SUBSET Parts, err : BOOLEAN]

TypeOK ==
  /\ live \in [Parts -> Versions] /\ prev \in Saved /\ fwd \in Saved
  /\ job \in Jobs /\ fresh \in BOOLEAN /\ lock \in {"free", "panel", "runner"}
  /\ starter \in {"idle", "steps", "start"} /\ panel \in 0..MaxVersion
  /\ runner \in Runners /\ watch \in Watches
  /\ health \in [Versions -> {"good", "sick", "dead"}]
  /\ jobs \in 0..MaxJobs /\ faults \in 0..MaxFaults /\ sound \in BOOLEAN /\ lost \in BOOLEAN

\* The result of a job is what happened, whoever finished it and whatever died on the way:
\* "ok" has every file of the version that was asked for, "failed" and "rolled_back" every
\* file of the version before (domain/update.go:31-33).
ResultTrue ==
  job.id > 0 /\ ~Unfinished /\ sound => Whole(IF job.result = "ok" THEN job.to ELSE job.from)

\* At every moment of an update, what has been replaced so far can be put back from the
\* disk alone; and of a rollback, while it has put back some files and not others.
UndoKept ==
  Unfinished /\ sound =>
    LET undo == IF job.kind = "update" THEN prev ELSE fwd
    IN  \A p \in Parts :
          live[p] # job.from /\ (job.kind = "rollback" => ~Whole(job.to)) =>
            undo.set.by = job.to /\ p \in undo.set.covers /\ undo.copies[p] = job.from

\* A job ends, whichever processes die, unless the machine is left with a version that never
\* starts and with no runner to replace it.
Stranded == panel = None /\ booted = None /\ ~AtWork
JobEnds == Unfinished ~> ~Unfinished \/ Stranded

\* A panel that is down comes back, also when the version installed never starts: unless the
\* runner itself died, which alone can put the old one back then.
PanelComesBack == panel = None ~> panel # None \/ lost \/ ~sound
====
