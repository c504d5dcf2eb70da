---- MODULE SelfUpdateProofs ----
\* What the self-update promises, proved for every number of versions, jobs and faults: the
\* result of a job is what is installed, and an unfinished job can be undone from the disk.
\*
\* Neither is inductive.  The result a process reports depends on how far it came (Path,
\* RunnerFiles, WatchFiles), on nobody else having touched the files meanwhile (OneWriter,
\* Stale), and on the copies it puts back being of the version they are named for (OnDisk,
\* Kept); what a panel concludes about a runner that died needs that a binary of the new
\* version means a whole new version (Judged), since the binary is installed last and put
\* back first.
EXTENDS SelfUpdate, TLAPS

Writing == watch.pc \in {"back", "drop"}
Settling == watch.pc \in {"try", "back", "drop"}

\* A job leads from one version to another, an update to a later one.
RealJob(j) == /\ j.id > 0 /\ j.from \in Versions /\ j.to \in Versions /\ j.from # j.to
              /\ j.kind = "update" => j.from < j.to

\* The set an update leaves behind is of a version before it, and of the system's files or
\* of everything.
PrevReal ==
  prev.set # NoSet => /\ prev.set.version \in Versions /\ prev.set.by \in Versions
                      /\ prev.set.version < prev.set.by
                      /\ prev.set.covers \in {{"system"}, Parts}

\* Whoever works or settles, works on a job that was started.
Named ==
  /\ job.id > 0 => RealJob(job)
  /\ starter # "idle" \/ runner.pc # "none" \/ Unfinished => job.id > 0
  /\ Settling => RealJob(watch.job) /\ watch.job.phase # "done"
  /\ job.id <= jobs /\ runner.id <= jobs /\ watch.job.id <= jobs

\* The lock: the runner at work, the panel in its own steps and the watch that puts files
\* back exclude each other; a runner at work beats, so that no watch settles its job.
OneWriter ==
  /\ AtWork <=> lock = "runner"
  /\ starter = "steps" \/ Writing <=> lock = "panel"
  /\ ~(starter = "steps" /\ Writing)
  /\ watch.pc # "idle" \/ starter # "idle" => panel # None
  /\ AtWork => fresh /\ ~Settling /\ starter = "idle"
  /\ AtWork => (runner.pc = "exit" <=> ~Unfinished) /\ job.phase # "panel"
  /\ ~AtWork => runner.why = "none"
  /\ starter # "idle" /\ Unfinished /\ runner.pc = "lock" => runner.id # job.id
  /\ starter = "steps" => job.phase = "panel" /\ job.kind = "update"
  /\ starter = "start" => job.phase # "panel"

\* Which way the runner came.
Path ==
  /\ runner.pc \in {"wipe", "saveSystem", "writeSystem", "script", "save", "write", "install"} =>
       job.kind = "update" /\ runner.why = "none"
  /\ runner.pc \in {"read", "saveForward", "writeForward"} =>
       job.kind = "rollback" /\ runner.why = "none"
  /\ runner.pc \in {"restart", "trial"} =>
       runner.why = IF job.kind = "update" THEN "none" ELSE "rollback"
  /\ runner.pc = "back" =>
       /\ runner.why = "rollback" => job.kind = "rollback"
       /\ runner.why # "none"
       /\ runner.src = IF job.kind = "update" \/ runner.why = "rollback" THEN "prev" ELSE "fwd"
  /\ runner.pc \in {"restartOld", "trialOld"} => runner.why = "revert"
  /\ runner.pc \in {"drop", "finish"} =>
       runner.why \in IF job.kind = "update" THEN {"abort", "revert"} ELSE {"revert", "rollback"}

\* The copies on disk, step by step.
OnDisk ==
  /\ runner.pc = "saveSystem" => prev = Empty
  /\ runner.pc = "writeSystem" =>
       prev.set = NoSet /\ prev.copies = [NoCopies EXCEPT !["system"] = live["system"]]
  /\ runner.pc \in {"saveSystem", "writeSystem", "script", "save", "write", "install"} =>
       fwd.copies = NoCopies
  /\ runner.pc \in {"script", "save", "write"} => prev.set = setOf({"system"})
  /\ runner.pc = "install" \/ (runner.pc \in {"restart", "trial"} /\ job.kind = "update") =>
       prev.set = setOf(Parts)
  /\ runner.pc = "install" => runner.todo \in {{"tool", "binary"}, {"binary"}, {}}
  /\ runner.pc \in {"saveForward", "writeForward"} => prev.set # NoSet
  /\ runner.pc \in {"restart", "trial", "back"} /\ runner.why = "rollback" =>
       fwd.set = setOf(prev.set.covers)
  /\ runner.pc = "back" /\ runner.why = "rollback" => runner.todo \subseteq prev.set.covers
  /\ runner.pc = "back" /\ runner.src = "fwd" =>
       fwd.set.by = job.to /\ runner.todo \subseteq fwd.set.covers

\* A copy is of what is installed, or the update that made it has replaced that since.
Kept ==
  prev.set # NoSet =>
    \A p \in Parts :
      /\ prev.copies[p] \in {None, live[p]} \/ live[p] = prev.set.by
      /\ \/ fwd.copies[p] \in {None, prev.set.by}
         \/ live[p] = fwd.copies[p] /\ prev.copies[p] \in {None, live[p]}

\* The copies a rollback goes back to are those of the version it leads to.
Ready == prev.set.by = job.from /\ prev.set.version = job.to /\ WholeCopies

\* A file that is not of the version before has a copy that is; a rollback may also be
\* complete, and the panel of the version it left is gone then.
Undoable ==
  Unfinished /\ sound =>
    IF job.kind = "update"
    THEN \A p \in Parts :
           \/ live[p] = job.from
           \/ prev.set.by = job.to /\ p \in prev.set.covers /\ prev.copies[p] = job.from
    ELSE \/ Whole(job.to) /\ panel \in {job.to, None}
         \/ /\ Ready
            /\ \A p \in Parts :
                 \/ live[p] = job.from
                 \/ fwd.set.by = job.to /\ p \in fwd.set.covers /\ fwd.copies[p] = job.from

\* When nobody puts files back, a panel or a binary of the new version means all of it.
Judged ==
  Unfinished /\ sound /\ runner.why = "none" /\ job.to \in {panel, live["binary"]} =>
    Whole(job.to)

\* Until the runner of a job has the lock, nothing has been replaced.
Untouched ==
  Unfinished /\ sound /\ (job.phase = "panel" \/ (runner.pc = "lock" /\ waits)) =>
    Whole(job.from)

\* A panel that has started a job and not yet its runner is the version before; the watch of
\* an earlier job may have ended the job meanwhile, but not with "ok".
Started ==
  starter # "idle" =>
    /\ panel = job.from /\ (sound => Whole(panel))
    /\ ~Unfinished => job.result # "ok"
    /\ job.kind = "rollback" => prev.set.by = panel

\* The installed files at every step of the runner, while the job is sound.
Replaced(S, new, old) == \A p \in Parts : live[p] = IF p \in S THEN new ELSE old

RunnerFiles ==
  sound =>
    LET F == job.from
        T == job.to
    IN
    /\ runner.pc \in {"wipe", "saveSystem", "writeSystem", "script", "read", "saveForward",
                      "writeForward", "restartOld", "trialOld"} => Whole(F)
    /\ runner.pc \in {"save", "write"} => Replaced({"system"}, T, F)
    /\ runner.pc \in {"script", "save"} => prev.copies["system"] = F
    /\ runner.pc \in {"write", "install"} => \A p \in Parts : prev.copies[p] = F
    /\ runner.pc = "install" => Replaced(Parts \ runner.todo, T, F)
    /\ runner.pc \in {"restart", "trial"} /\ job.kind = "update" =>
         Whole(T) /\ \A p \in Parts : prev.copies[p] = F
    /\ runner.pc \in {"read", "saveForward", "writeForward"} => Ready
    /\ runner.pc = "writeForward" => \A p \in prev.set.covers : fwd.copies[p] = F
    /\ runner.pc \in {"restart", "trial", "back"} /\ runner.why = "rollback" =>
         Ready /\ \A p \in prev.set.covers : fwd.copies[p] = F
    /\ runner.pc = "back" /\ runner.why = "rollback" =>
         /\ \A p \in Parts : p \notin prev.set.covers \/ p \in runner.todo => live[p] = F
         /\ ~runner.err => \A p \in prev.set.covers \ runner.todo : live[p] = T
    /\ runner.pc \in {"restart", "trial"} /\ runner.why = "rollback" =>
         Replaced(prev.set.covers, T, F)
    /\ runner.pc = "trial" => panel \in {None, live["binary"]}
    /\ runner.pc = "back" /\ runner.why # "rollback" =>
         /\ ~runner.err
         /\ \A p \in Parts : live[p] = F \/ p \in runner.todo
         /\ \A p \in runner.todo : copiesIn(runner.src)[p] = F
         /\ job.kind = "rollback" => Ready
    /\ runner.pc \in {"drop", "finish"} =>
         IF runner.why = "rollback" THEN Whole(T) /\ panel \in {T, None}
         ELSE Whole(F) /\ (job.kind = "rollback" => Ready)
    /\ runner.pc \in {"restartOld", "trialOld"} /\ job.kind = "rollback" => Ready

\* The job a watch has read is the one on disk, or both began from the version that runs and
\* nothing has been replaced since.
Stale ==
  Settling =>
    \/ watch.job = job
    \/ /\ panel = watch.job.from /\ panel = job.from /\ (sound => Whole(panel))
       /\ ~Unfinished => job.result # "ok"
       /\ "rollback" \in {job.kind, watch.job.kind} => prev.set.by = panel

\* What the watch puts back is of the version before the job it settles.
WatchFiles ==
  Writing =>
    LET j == watch.job
    IN  /\ panel # j.to /\ j.phase = "runner"
        /\ watch.src = IF j.kind = "update" THEN "prev" ELSE "fwd"
        /\ j.kind = "update" => job.kind = "update"
        /\ watch.pc = "drop" => j.kind = "update"
        /\ sound => /\ watch.pc = "drop" => Whole(j.from)
                    /\ watch.pc = "back" =>
                         /\ ~watch.err
                         /\ \A p \in Parts : live[p] = j.from \/ p \in watch.todo
                         /\ \A p \in watch.todo : copiesIn(watch.src)[p] \in {None, j.from}

UpdateInv ==
  /\ TypeOK /\ Named /\ OneWriter
  /\ PrevReal /\ Path /\ OnDisk /\ Kept
  /\ Undoable /\ Judged /\ RunnerFiles /\ Untouched
  /\ Started /\ Stale /\ WatchFiles /\ ResultTrue

----------------------------------------------------------------------------
\* Constants, orders and records.

LEMMA Bounds ==
    /\ 1 \in Versions /\ Versions \subseteq 0..MaxVersion /\ 0 \in 0..MaxVersion
    /\ \A v \in 0..MaxVersion : v # None => v \in Versions
    /\ \A v \in Versions : v # None /\ v \in Nat
    /\ 0 \in 0..MaxJobs /\ 0 \in 0..MaxFaults /\ None = 0
    /\ \A n \in 0..MaxJobs : n \in Nat /\ (n < MaxJobs => n + 1 \in 0..MaxJobs)
    /\ \A n \in 0..MaxFaults : n < MaxFaults => n + 1 \in 0..MaxFaults
  BY UpdateBounds DEF Versions, None

LEMMA Idle ==
    /\ NoSet \in Sets /\ NoCopies \in Copies /\ Empty \in Saved
    /\ Empty.set = NoSet /\ Empty.copies = NoCopies /\ \A p \in Parts : NoCopies[p] = None
    /\ NoSet.by = None /\ NoSet.covers = {}
    /\ NoJob \in Jobs /\ NoJob.id = 0 /\ NoJob.phase = "done"
    /\ idleRunner \in Runners /\ idleRunner.pc = "none" /\ idleRunner.id = 0
    /\ idleRunner.why = "none"
    /\ idleWatch \in Watches /\ idleWatch.pc = "idle" /\ idleWatch.job = NoJob
  <1>1. NoSet \in Sets /\ NoCopies \in Copies
    BY Bounds DEF NoSet, NoCopies, Sets, Copies
  <1>2. Empty \in Saved /\ Empty.set = NoSet /\ Empty.copies = NoCopies
    BY <1>1 DEF Empty, Saved
  <1>3. NoJob \in Jobs
    BY Bounds DEF NoJob, Jobs
  <1>4. idleRunner \in Runners
    BY Bounds DEF idleRunner, Runners, RunnerPcs
  <1>5. idleWatch \in Watches
    BY <1>3 DEF idleWatch, Watches
  <1> QED
    BY <1>1, <1>2, <1>3, <1>4, <1>5 DEF NoSet, NoCopies, NoJob, idleRunner, idleWatch

LEMMA LastOf ==
    ASSUME NEW S \in SUBSET Parts, S # {}
    PROVE  lastOf(S) \in S /\ lastOf(S) \in Parts /\ ("binary" \in S => lastOf(S) = "binary")
  <1>1. order["system"] = 1 /\ order["tool"] = 2 /\ order["binary"] = 3
    BY DEF order
  <1>2. \E p \in S : \A q \in S : order[q] <= order[p]
    <2>1. CASE "binary" \in S
      BY <1>1, <2>1 DEF Parts
    <2>2. CASE "binary" \notin S /\ "tool" \in S
      BY <1>1, <2>2 DEF Parts
    <2>3. CASE "binary" \notin S /\ "tool" \notin S
      <3>1. "system" \in S /\ \A q \in S : q = "system"
        BY <2>3 DEF Parts
      <3> QED
        BY <1>1, <3>1
    <2> QED
      BY <2>1, <2>2, <2>3
  <1>3. lastOf(S) \in S /\ \A q \in S : order[q] <= order[lastOf(S)]
    BY <1>2 DEF lastOf
  <1>4. lastOf(S) \in {"system", "tool", "binary"} /\ lastOf(S) \in Parts
    BY <1>3 DEF Parts
  <1>5. "binary" \in S => 3 <= order[lastOf(S)]
    BY <1>1, <1>3
  <1> HIDE DEF lastOf
  <1> QED
    BY <1>1, <1>3, <1>4, <1>5

LEMMA FirstOf ==
    firstOf({"tool", "binary"}) = "tool" /\ firstOf({"binary"}) = "binary"
  <1>1. order["tool"] = 2 /\ order["binary"] = 3
    BY DEF order
  <1>2. \E p \in {"tool", "binary"} : \A q \in {"tool", "binary"} : order[p] <= order[q]
    BY <1>1
  <1>3. \E p \in {"binary"} : \A q \in {"binary"} : order[p] <= order[q]
    BY <1>1
  <1> QED
    BY <1>1, <1>2, <1>3 DEF firstOf

\* What the steps of the runner, the end of a job and the copies leave in their records.
Moved(pc) ==
  /\ runner' \in Runners /\ runner'.pc = pc /\ runner'.id = runner.id
  /\ runner'.src = runner.src
  /\ runner'.todo = runner.todo /\ runner'.err = runner.err /\ runner'.why = runner.why

LEMMA Moves ==
    ASSUME TypeOK, NEW pc \in RunnerPcs, GoOn(pc) PROVE Moved(pc)
  BY DEF TypeOK, GoOn, Runners, Moved

LEMMA Puts ==
    ASSUME TypeOK, NEW src \in {"prev", "fwd"}, NEW parts \in SUBSET Parts,
           NEW why \in {"abort", "revert", "rollback"}, PutBack(src, parts, why)
    PROVE  /\ runner' \in Runners /\ runner'.pc = "back" /\ runner'.id = runner.id
           /\ runner'.src = src /\ runner'.todo = parts /\ ~runner'.err /\ runner'.why = why
  BY DEF TypeOK, PutBack, Runners, RunnerPcs

LEMMA Ends ==
    ASSUME NEW j \in Jobs, NEW r \in {"ok", "failed", "rolled_back"}
    PROVE  /\ Finished(j, r) \in Jobs /\ Finished(j, r).id = j.id
           /\ Finished(j, r).kind = j.kind
           /\ Finished(j, r).from = j.from /\ Finished(j, r).to = j.to
           /\ Finished(j, r).phase = "done" /\ Finished(j, r).result = r
  BY DEF Jobs, Finished

\* One copy more, or one less.
LEMMA Copied ==
    ASSUME NEW s \in Saved, NEW p \in Parts, NEW v \in 0..MaxVersion
    PROVE  LET t == [s EXCEPT !.copies[p] = v]
           IN  /\ t \in Saved /\ t.set = s.set
               /\ \A q \in Parts : t.copies[q] = IF q = p THEN v ELSE s.copies[q]
  BY DEF Saved, Copies

LEMMA CopiesSet ==
    ASSUME NEW s \in Saved, NEW c \in Copies
    PROVE  LET t == [s EXCEPT !.copies = c] IN t \in Saved /\ t.set = s.set /\ t.copies = c
  BY DEF Saved

LEMMA SetSet ==
    ASSUME NEW s \in Saved, NEW x \in Sets
    PROVE  LET t == [s EXCEPT !.set = x] IN t \in Saved /\ t.set = x /\ t.copies = s.copies
  BY DEF Saved

LEMMA SavedFields ==
    ASSUME NEW s \in Saved
    PROVE  /\ s.set \in Sets /\ s.copies \in Copies
              /\ \A p \in Parts : s.copies[p] \in 0..MaxVersion
           /\ s.set.covers \in SUBSET Parts /\ s.set.by \in 0..MaxVersion
           /\ s.set.version \in 0..MaxVersion
  BY DEF Saved, Sets, Copies

----------------------------------------------------------------------------
\* The runner at work: nobody else changes the job or the files.

LEMMA Working ==
    ASSUME UpdateInv, AtWork
    PROVE  /\ job \in Jobs /\ job.id > 0 /\ job.from \in Versions /\ job.to \in Versions
           /\ job.from # job.to /\ (job.kind = "update" => job.from < job.to)
           /\ starter = "idle" /\ ~Settling /\ ~Writing /\ fresh /\ lock = "runner"
           /\ runner.pc # "exit" => Unfinished /\ job.phase = "runner"
           /\ runner.pc = "exit" => ~Unfinished
  <1>1. runner.pc # "none" /\ job \in Jobs
    BY DEF AtWork, UpdateInv, TypeOK
  <1>2. job.id > 0 /\ RealJob(job)
    BY <1>1 DEF UpdateInv, Named
  <1>3. starter = "idle" /\ ~Settling /\ fresh /\ lock = "runner" /\ job.phase # "panel"
        /\ (runner.pc = "exit" <=> ~Unfinished)
    BY DEF UpdateInv, OneWriter
  <1>4. job.phase \in {"panel", "runner", "done"}
    BY <1>1 DEF Jobs
  <1> QED
    BY <1>1, <1>2, <1>3, <1>4 DEF RealJob, Settling, Writing, Unfinished

Busy == AtWork /\ runner.pc # "exit"
WorkFrame == UNCHANGED <<job, fresh, lock, starter, panel, watch, health, jobs, lost>>

LEMMA WorkGoesOn ==
    ASSUME UpdateInv, Busy, Busy', WorkFrame, runner'.id = runner.id
    PROVE  Named' /\ OneWriter' /\ Untouched' /\ Started' /\ Stale' /\ WatchFiles'
           /\ ResultTrue'
  <1> USE Working DEF Busy
  <1>1. Unfinished' /\ ~Settling' /\ ~Writing' /\ starter' = "idle" /\ runner'.pc # "lock"
        /\ job'.phase = "runner"
    BY DEF WorkFrame, Unfinished, Settling, Writing, AtWork
  <1>2. Named'
    BY <1>1 DEF UpdateInv, Named, WorkFrame, RealJob, AtWork
  <1>3. OneWriter'
    BY <1>1 DEF UpdateInv, OneWriter, WorkFrame
  <1> QED
    BY <1>1, <1>2, <1>3 DEF Untouched, Started, Stale, WatchFiles, ResultTrue


LEMMA FaultType ==
    ASSUME TypeOK, Fault \/ NoFault PROVE faults' \in 0..MaxFaults
  BY Bounds DEF TypeOK, Fault, NoFault

\* While the files are those of the version before, the job can be left or undone.
LEMMA FilesWhole ==
    ASSUME UpdateInv, AtWork, UNCHANGED <<live, job, panel, sound>>,
           runner'.why \in {runner.why, "abort", "revert"},
           sound => Whole(job.from) /\ (job.kind = "rollback" => Ready'),
           runner.why # "none" => runner'.why # "none"
    PROVE  Undoable' /\ Judged'
  <1>1. job.from # job.to
    BY Working
  <1>2. Undoable'
    <2>1. job.kind \in {"update", "rollback"}
      BY Working DEF Jobs
    <2>2. sound => \A p \in Parts : live'[p] = job'.from
      BY DEF Whole
    <2>3. Unfinished' = Unfinished /\ sound' = sound /\ job' = job
      BY DEF Unfinished
    <2> QED
      BY <2>1, <2>2, <2>3 DEF Undoable
  <1>3. Judged'
    BY <1>1 DEF UpdateInv, Judged, Whole, Unfinished
  <1> QED
    BY <1>2, <1>3

\* The runner ends the job: the result is what is installed.
LEMMA RunnerEnds ==
    ASSUME UpdateInv, Busy, NEW r \in {"ok", "failed", "rolled_back"}, RunnerFinishes(r),
           UNCHANGED <<disk, fresh, sound>>, RunnerFrame, Fault \/ NoFault,
           sound => Whole(IF r = "ok" THEN job.to ELSE job.from)
    PROVE  UpdateInv'
  <1> USE DEF Busy
  <1>1. TypeOK /\ Moved("exit")
    BY Moves DEF UpdateInv, RunnerFinishes, RunnerPcs
  <1>2. /\ job' \in Jobs /\ job'.id = job.id /\ job'.kind = job.kind /\ job'.from = job.from
        /\ job'.to = job.to /\ job'.phase = "done" /\ job'.result = r
    BY <1>1, Ends DEF RunnerFinishes, TypeOK
  <1>3. UNCHANGED <<live, prev, fwd, fresh, sound, lock, starter, panel, watch, health, jobs, lost>>
    BY DEF disk, RunnerFrame, panelVars
  <1>4. ~Unfinished' /\ ~Settling' /\ ~Writing' /\ starter' = "idle" /\ AtWork'
    BY <1>1, <1>2, <1>3, Working DEF Unfinished, Settling, Writing, AtWork, Moved
  <1>5. TypeOK'
    BY <1>1, <1>2, <1>3, FaultType DEF TypeOK, Moved
  <1>6. Named'
    BY <1>1, <1>2, <1>3, <1>4, Working DEF UpdateInv, Named, RealJob, Moved
  <1>7. OneWriter'
    BY <1>1, <1>2, <1>3, <1>4, Working DEF UpdateInv, OneWriter, Moved
  <1>8. PrevReal' /\ Path' /\ OnDisk' /\ Kept'
    BY <1>1, <1>3 DEF UpdateInv, PrevReal, Path, OnDisk, Kept, Moved
  <1>9. RunnerFiles'
    BY <1>1 DEF RunnerFiles, Moved
  <1>10. ResultTrue'
    BY <1>2, <1>3 DEF ResultTrue, Whole
  <1> QED
    BY <1>4, <1>5, <1>6, <1>7, <1>8, <1>9, <1>10
    DEF UpdateInv, Undoable, Judged, Untouched, Started, Stale, WatchFiles

LEMMA FailsKeeps ==
    ASSUME UpdateInv, Fails, UNCHANGED fresh, RunnerFrame,
           runner.pc \in {"saveSystem", "writeSystem", "saveForward", "writeForward"}
    PROVE  UpdateInv'
  <1>1. Busy
    BY DEF Busy, AtWork
  <1>2. sound => Whole(job.from)
    BY DEF UpdateInv, RunnerFiles
  <1> QED
    BY <1>1, <1>2, RunnerEnds DEF Fails

\* The runner begins to undo what has been replaced.
LEMMA UndoBegins ==
    ASSUME UpdateInv, Busy, WorkFrame, UNCHANGED <<prev, fwd, sound>>, TypeOK', Kept', Undoable',
           NEW parts \in SUBSET Parts, NEW why \in {"abort", "revert"},
           PutBack(IF job.kind = "update" THEN "prev" ELSE "fwd", parts, why),
           sound => /\ \A p \in Parts : live'[p] = job.from \/ p \in parts
                    /\ \A p \in parts :
                         (IF job.kind = "update" THEN prev ELSE fwd).copies[p] = job.from
                    /\ job.kind = "rollback" => Ready,
           job.kind = "rollback" => fwd.set.by = job.to /\ parts \subseteq fwd.set.covers
    PROVE  UpdateInv'
  <1>1. /\ runner' \in Runners /\ runner'.pc = "back" /\ runner'.id = runner.id
        /\ runner'.src = (IF job.kind = "update" THEN "prev" ELSE "fwd")
        /\ runner'.todo = parts /\ ~runner'.err /\ runner'.why = why
    BY Puts DEF UpdateInv
  <1>2. Busy' /\ runner'.id = runner.id
    BY <1>1 DEF Busy, AtWork
  <1>3. PrevReal' /\ Path' /\ OnDisk'
    BY <1>1, Working DEF UpdateInv, PrevReal, Path, OnDisk, WorkFrame, TypeOK, Jobs, Busy
  <1>4. RunnerFiles'
    <2>1. copiesIn(runner.src)' = (IF job.kind = "update" THEN prev ELSE fwd).copies
      BY <1>1 DEF copiesIn
    <2>2. job.kind = "rollback" /\ sound => Ready'
      BY DEF Ready, WholeCopies, WorkFrame
    <2> QED
      BY <1>1, <2>1, <2>2 DEF RunnerFiles, WorkFrame
  <1>5. Judged'
    BY <1>1 DEF Judged
  <1> QED
    BY <1>2, <1>3, <1>4, <1>5, WorkGoesOn DEF UpdateInv

\* Removing copies.
Less ==
  /\ live' = live /\ prev' \in Saved /\ fwd' \in Saved
  /\ prev'.set \in {prev.set, NoSet} /\ fwd'.set \in {fwd.set, NoSet}
  /\ \A p \in Parts : /\ prev'.copies[p] \in {prev.copies[p], None}
                      /\ fwd'.copies[p] \in {fwd.copies[p], None}

LEMMA Removing ==
    ASSUME TypeOK, RemovesSome \/ dropPrev PROVE Less
  <1>1. prev \in Saved /\ fwd \in Saved /\ live' = live
    BY DEF TypeOK, RemovesSome, dropPrev
  <1>2. CASE dropPrev
    BY <1>1, <1>2, Idle DEF dropPrev, Less
  <1>3. CASE prev' = [prev EXCEPT !.set = NoSet] /\ fwd' = fwd
    BY <1>1, <1>3, SetSet, Idle DEF Less
  <1>4. ASSUME NEW p \in {"system", "tool"}, prev' = [prev EXCEPT !.copies[p] = None], fwd' = fwd
        PROVE  Less
    <2>1. p \in Parts /\ None \in 0..MaxVersion
      BY Bounds DEF Parts
    <2> QED
      BY <1>1, <1>4, <2>1, Copied DEF Less
  <1>5. CASE fwd' = [fwd EXCEPT !.set = NoSet] /\ prev' = prev
    BY <1>1, <1>5, SetSet, Idle DEF Less
  <1>6. CASE fwd' = [fwd EXCEPT !.copies = NoCopies] /\ prev' = prev
    BY <1>1, <1>6, CopiesSet, Idle DEF Less
  <1> QED
    BY <1>2, <1>3, <1>4, <1>5, <1>6 DEF RemovesSome

LEMMA LessKept ==
    ASSUME UpdateInv, Less PROVE Kept' /\ PrevReal'
  BY DEF UpdateInv, Kept, PrevReal, Less

LEMMA WipeKeeps ==
    ASSUME UpdateInv, Wipe PROVE UpdateInv'
  <1>1. TypeOK /\ AtWork /\ Busy /\ runner.pc = "wipe"
    BY DEF UpdateInv, AtWork, Busy, Wipe
  <1>2. WorkFrame /\ UNCHANGED <<sound, faults>>
    BY DEF Wipe, RunnerFrame, panelVars, WorkFrame
  <1>3. Less /\ Kept' /\ PrevReal' /\ live' = live
    BY <1>1, Removing, LessKept DEF Wipe, Less
  <1>4. sound => Whole(job.from)
    BY <1>1 DEF UpdateInv, RunnerFiles
  <1>5. job.kind = "update" /\ runner.why = "none"
    BY <1>1 DEF UpdateInv, Path
  <1>6. CASE RemovesSome /\ UNCHANGED runner
    <2>1. TypeOK' /\ Busy'
      BY <1>1, <1>2, <1>3, <1>6 DEF TypeOK, WorkFrame, Less, Busy, AtWork
    <2>2. Path' /\ OnDisk'
      BY <1>1, <1>2, <1>5, <1>6 DEF Path, OnDisk, WorkFrame
    <2>3. Undoable' /\ Judged'
      BY <1>1, <1>2, <1>3, <1>4, <1>5, <1>6, FilesWhole DEF WorkFrame
    <2>4. RunnerFiles'
      BY <1>1, <1>2, <1>3, <1>4, <1>6 DEF RunnerFiles, WorkFrame, Whole
    <2> QED
      BY <1>1, <1>2, <1>3, <1>6, <2>1, <2>2, <2>3, <2>4, WorkGoesOn DEF UpdateInv
  <1>7. CASE dropPrev /\ GoOn("saveSystem")
    <2>1. Moved("saveSystem")
      BY <1>1, <1>7, Moves DEF RunnerPcs
    <2>2. TypeOK' /\ Busy' /\ runner'.id = runner.id
      BY <1>1, <1>2, <1>3, <2>1 DEF TypeOK, WorkFrame, Less, Moved, Busy, AtWork
    <2>3. Path' /\ OnDisk'
      BY <1>2, <1>5, <1>7, <2>1, Idle DEF Path, OnDisk, Moved, WorkFrame, dropPrev
    <2>4. Undoable' /\ Judged'
      BY <1>1, <1>2, <1>3, <1>4, <1>5, <2>1, FilesWhole DEF WorkFrame, Moved
    <2>5. RunnerFiles'
      BY <1>2, <1>3, <1>4, <2>1 DEF RunnerFiles, WorkFrame, Whole, Moved
    <2> QED
      BY <1>1, <1>2, <1>3, <2>2, <2>3, <2>4, <2>5, WorkGoesOn DEF UpdateInv
  <1> QED
    BY <1>6, <1>7 DEF Wipe

LEMMA SaveSystemKeeps ==
    ASSUME UpdateInv, SaveSystem PROVE UpdateInv'
  <1>1. TypeOK /\ AtWork /\ Busy /\ runner.pc = "saveSystem" /\ UNCHANGED fresh /\ RunnerFrame
    BY DEF UpdateInv, AtWork, Busy, SaveSystem
  <1>2. CASE Fails
    BY <1>1, <1>2, FailsKeeps
  <1>3. CASE /\ prev' = [prev EXCEPT !.copies["system"] = live["system"]]
             /\ GoOn("writeSystem") /\ NoFault /\ UNCHANGED <<live, fwd, job, sound>>
    <2>1. Moved("writeSystem")
      BY <1>1, <1>3, Moves DEF RunnerPcs
    <2>2. WorkFrame /\ Busy' /\ runner'.id = runner.id
      BY <1>1, <1>3, <2>1 DEF RunnerFrame, panelVars, WorkFrame, Busy, AtWork, Moved
    <2>3. /\ prev' \in Saved /\ prev'.set = prev.set
          /\ \A q \in Parts : prev'.copies[q] = IF q = "system" THEN live["system"] ELSE prev.copies[q]
      BY <1>1, <1>3, Copied, Bounds DEF TypeOK, Parts
    <2>4. TypeOK'
      BY <1>1, <1>3, <2>1, <2>2, <2>3 DEF TypeOK, WorkFrame, Moved, NoFault
    <2>5. PrevReal' /\ Path' /\ OnDisk'
      BY <1>1, <1>3, <2>1, <2>2, <2>3, Idle
      DEF UpdateInv, PrevReal, Path, OnDisk, Moved, WorkFrame
    <2>6. Kept'
      BY <1>3, <2>3 DEF UpdateInv, Kept
    <2>7. sound => Whole(job.from)
      BY <1>1 DEF UpdateInv, RunnerFiles
    <2>8. Undoable' /\ Judged'
      BY <1>1, <1>3, <2>1, <2>2, <2>7, FilesWhole DEF UpdateInv, Path, Moved, WorkFrame
    <2>9. RunnerFiles'
      BY <1>3, <2>1, <2>2, <2>7 DEF RunnerFiles, Moved, WorkFrame, Whole
    <2> QED
      BY <1>1, <2>2, <2>4, <2>5, <2>6, <2>8, <2>9, WorkGoesOn DEF UpdateInv
  <1> QED
    BY <1>2, <1>3 DEF SaveSystem

LEMMA SetFields ==
    ASSUME NEW covers \in SUBSET Parts, job \in Jobs
    PROVE  /\ setOf(covers) \in Sets /\ setOf(covers).version = job.from
           /\ setOf(covers).by = job.to /\ setOf(covers).covers = covers
  BY DEF setOf, Sets, Jobs

LEMMA WriteSystemKeeps ==
    ASSUME UpdateInv, WriteSystem PROVE UpdateInv'
  <1>1. TypeOK /\ AtWork /\ Busy /\ runner.pc = "writeSystem" /\ UNCHANGED fresh /\ RunnerFrame
    BY DEF UpdateInv, AtWork, Busy, WriteSystem
  <1>2. CASE Fails
    BY <1>1, <1>2, FailsKeeps
  <1>3. CASE /\ prev' = [prev EXCEPT !.set = setOf({"system"})]
             /\ GoOn("script") /\ NoFault /\ UNCHANGED <<live, fwd, job, sound>>
    <2>1. Moved("script")
      BY <1>1, <1>3, Moves DEF RunnerPcs
    <2>2. WorkFrame /\ Busy' /\ runner'.id = runner.id
      BY <1>1, <1>3, <2>1 DEF RunnerFrame, panelVars, WorkFrame, Busy, AtWork, Moved
    <2>3. setOf({"system"}) \in Sets /\ setOf({"system"}).covers = {"system"}
          /\ setOf({"system"}).version = job.from /\ setOf({"system"}).by = job.to
          /\ setOf({"system"})' = setOf({"system"})
      BY <1>1, <1>3, SetFields DEF TypeOK, Parts, setOf
    <2>4. prev' \in Saved /\ prev'.set = setOf({"system"}) /\ prev'.copies = prev.copies
      BY <1>1, <1>3, <2>3, SetSet DEF TypeOK
    <2>5. job.kind = "update" /\ runner.why = "none" /\ fwd.copies = NoCopies
          /\ prev.copies = [NoCopies EXCEPT !["system"] = live["system"]]
      BY <1>1 DEF UpdateInv, Path, OnDisk
    <2>6. \A p \in Parts : prev.copies[p] \in {None, live[p]} /\ fwd.copies[p] = None
      BY <2>5, Idle DEF NoCopies
    <2>7. prev.copies["system"] = live["system"]
      BY <2>5 DEF NoCopies, Parts
    <2>8. TypeOK'
      BY <1>1, <1>3, <2>1, <2>2, <2>4 DEF TypeOK, WorkFrame, Moved, NoFault
    <2>9. PrevReal' /\ Path' /\ OnDisk'
      BY <1>1, <1>3, <2>1, <2>2, <2>3, <2>4, <2>5, Working
      DEF PrevReal, Path, OnDisk, Moved, WorkFrame
    <2>10. Kept'
      BY <1>3, <2>4, <2>6 DEF Kept
    <2>11. sound => Whole(job.from)
      BY <1>1 DEF UpdateInv, RunnerFiles
    <2>12. Undoable' /\ Judged'
      BY <1>1, <1>3, <2>1, <2>2, <2>5, <2>11, FilesWhole DEF Moved, WorkFrame
    <2>13. RunnerFiles'
      <3>1. sound => prev'.copies["system"] = job.from
        BY <2>4, <2>7, <2>11 DEF Whole, Parts
      <3> QED
        BY <1>3, <2>1, <2>2, <2>11, <3>1 DEF RunnerFiles, Moved, WorkFrame, Whole
    <2> QED
      BY <1>1, <2>2, <2>8, <2>9, <2>10, <2>12, <2>13, WorkGoesOn DEF UpdateInv
  <1> QED
    BY <1>2, <1>3 DEF WriteSystem

\* The system's files: from here on what the script replaces is covered.
LEMMA UpdateSystemKeeps ==
    ASSUME UpdateInv, UpdateSystem PROVE UpdateInv'
  <1>1. TypeOK /\ AtWork /\ Busy /\ runner.pc = "script"
    BY DEF UpdateInv, AtWork, Busy, UpdateSystem
  <1>2. WorkFrame /\ UNCHANGED <<prev, fwd, sound>> /\ (Fault \/ NoFault)
    BY DEF UpdateSystem, RunnerFrame, panelVars, WorkFrame
  <1>3. job.kind = "update" /\ runner.why = "none"
    BY <1>1 DEF UpdateInv, Path
  <1>4. fwd.copies = NoCopies /\ prev.set = setOf({"system"})
    BY <1>1 DEF UpdateInv, OnDisk
  <1>5. prev.set.by = job.to /\ prev.set.covers = {"system"}
        /\ setOf({"system"})' = setOf({"system"})
    BY <1>1, <1>2, <1>4, SetFields DEF TypeOK, Parts, setOf, WorkFrame
  <1>6. /\ live' \in [Parts -> Versions] /\ live'["system"] \in {live["system"], job.to}
        /\ \A p \in Parts : p # "system" => live'[p] = live[p]
        /\ GoOn("save") => live'["system"] = job.to
    <2>1. runner'.pc # "save" \/ live' = [live EXCEPT !["system"] = job.to]
      BY <1>1, Puts, Moves DEF UpdateSystem, Parts
    <2>2. live' \in {live, [live EXCEPT !["system"] = job.to]}
      BY DEF UpdateSystem
    <2>3. GoOn("save") => runner'.pc = "save"
      BY <1>1, Moves DEF RunnerPcs, Moved
    <2> QED
      BY <1>1, <2>1, <2>2, <2>3, Working DEF TypeOK, Parts
  <1>7. sound => (\A p \in Parts : live[p] = job.from) /\ prev.copies["system"] = job.from
    BY <1>1 DEF UpdateInv, RunnerFiles, Whole
  <1>8. Kept'
    BY <1>2, <1>4, <1>5, <1>6, Idle DEF UpdateInv, Kept
  <1>9. Undoable'
    BY <1>2, <1>3, <1>5, <1>6, <1>7 DEF Undoable, WorkFrame
  <1>10. runner' \in Runners
    BY <1>1, Puts, Moves DEF UpdateSystem, RunnerPcs, Parts, Moved
  <1>11. TypeOK'
    BY <1>1, <1>2, <1>6, <1>10, FaultType DEF TypeOK, WorkFrame
  <1>12. CASE PutBack("prev", {"system"}, "abort")
    <2>1. {"system"} \in SUBSET Parts
      BY DEF Parts
    <2>2. sound => /\ \A p \in Parts : live'[p] = job.from \/ p \in {"system"}
                   /\ \A p \in {"system"} : prev.copies[p] = job.from
      BY <1>6, <1>7
    <2> QED
      BY <1>1, <1>2, <1>3, <1>8, <1>9, <1>11, <1>12, <2>1, <2>2, UndoBegins
  <1>13. CASE GoOn("save")
    <2>1. Moved("save")
      BY <1>1, <1>13, Moves DEF RunnerPcs
    <2>2. Busy' /\ runner'.id = runner.id
      BY <2>1 DEF Busy, AtWork, Moved
    <2>3. PrevReal' /\ Path' /\ OnDisk'
      BY <1>2, <1>3, <1>4, <1>5, <2>1 DEF UpdateInv, PrevReal, Path, OnDisk, Moved, WorkFrame
    <2>4. Judged'
      <3>1. sound /\ Unfinished => panel # job.to /\ live'["binary"] # job.to
        BY <1>1, <1>3, <1>6, <1>7, Working DEF UpdateInv, Judged, Whole, Parts
      <3> QED
        BY <1>2, <3>1 DEF Judged, WorkFrame, Unfinished
    <2>5. RunnerFiles'
      BY <1>2, <1>6, <1>7, <1>13, <2>1 DEF RunnerFiles, Moved, WorkFrame, Replaced, Parts
    <2> QED
      BY <1>1, <1>2, <1>8, <1>9, <1>11, <2>2, <2>3, <2>4, <2>5, WorkGoesOn DEF UpdateInv
  <1> QED
    BY <1>12, <1>13 DEF UpdateSystem

LEMMA SaveKeeps ==
    ASSUME UpdateInv, Save PROVE UpdateInv'
  <1>1. TypeOK /\ AtWork /\ Busy /\ runner.pc = "save"
    BY DEF UpdateInv, AtWork, Busy, Save
  <1>2. WorkFrame /\ UNCHANGED <<live, fwd, sound>> /\ (Fault \/ NoFault)
    BY DEF Save, RunnerFrame, panelVars, WorkFrame
  <1>3. job.kind = "update" /\ runner.why = "none"
    BY <1>1 DEF UpdateInv, Path
  <1>4. fwd.copies = NoCopies /\ prev.set = setOf({"system"})
    BY <1>1 DEF UpdateInv, OnDisk
  <1>5. prev.set.by = job.to /\ prev.set.covers = {"system"}
        /\ setOf({"system"})' = setOf({"system"})
    BY <1>1, <1>2, <1>4, SetFields DEF TypeOK, Parts, setOf, WorkFrame
  <1>6. sound => /\ prev.copies["system"] = job.from /\ live["system"] = job.to
                 /\ live["tool"] = job.from /\ live["binary"] = job.from
    BY <1>1 DEF UpdateInv, RunnerFiles, Replaced, Parts
  <1>7. CASE Fault /\ PutBack("prev", {"system"}, "abort") /\ UNCHANGED prev
    <2>1. {"system"} \in SUBSET Parts
      BY DEF Parts
    <2>2. TypeOK'
      BY <1>1, <1>2, <1>7, <2>1, FaultType, Puts DEF TypeOK, WorkFrame
    <2>3. Kept' /\ Undoable'
      BY <1>2, <1>7
      DEF UpdateInv, Kept, Undoable, WorkFrame, Ready, WholeCopies, Whole, Unfinished
    <2>4. sound => /\ \A p \in Parts : live'[p] = job.from \/ p \in {"system"}
                   /\ \A p \in {"system"} : prev.copies[p] = job.from
      BY <1>2, <1>6 DEF Parts
    <2> QED
      BY <1>1, <1>2, <1>3, <1>7, <2>1, <2>2, <2>3, <2>4, UndoBegins
  <1>8. CASE /\ prev' = [prev EXCEPT !.copies["tool"] = live["tool"], !.copies["binary"] = live["binary"]]
             /\ GoOn("write")
    <2>1. Moved("write")
      BY <1>1, <1>8, Moves DEF RunnerPcs
    <2>2. Busy' /\ runner'.id = runner.id
      BY <2>1 DEF Busy, AtWork, Moved
    <2>3. /\ prev' \in Saved /\ prev'.set = prev.set
          /\ \A q \in Parts : prev'.copies[q] = IF q = "system" THEN prev.copies[q] ELSE live[q]
      <3>1. live["tool"] \in 0..MaxVersion /\ live["binary"] \in 0..MaxVersion
            /\ "tool" \in Parts /\ "binary" \in Parts
        BY <1>1, Bounds DEF TypeOK, Parts
      <3>2. prev' = [[prev EXCEPT !.copies["tool"] = live["tool"]] EXCEPT !.copies["binary"] = live["binary"]]
        BY <1>8
      <3> HIDE <1>8
      <3> DEFINE s == [prev EXCEPT !.copies["tool"] = live["tool"]]
      <3>3. /\ s \in Saved /\ s.set = prev.set
            /\ \A q \in Parts : s.copies[q] = IF q = "tool" THEN live["tool"] ELSE prev.copies[q]
        BY <1>1, <3>1, Copied DEF TypeOK
      <3>4. prev' = [s EXCEPT !.copies["binary"] = live["binary"]]
        BY <3>2
      <3> HIDE DEF s
      <3>5. /\ prev' \in Saved /\ prev'.set = s.set
            /\ \A q \in Parts : prev'.copies[q] = IF q = "binary" THEN live["binary"] ELSE s.copies[q]
        BY <3>1, <3>3, <3>4, Copied
      <3> QED
        BY <3>3, <3>5 DEF Parts
    <2>4. TypeOK'
      BY <1>1, <1>2, <2>1, <2>3, FaultType DEF TypeOK, WorkFrame, Moved
    <2>5. PrevReal' /\ Path' /\ OnDisk'
      BY <1>2, <1>3, <1>4, <1>5, <2>1, <2>3
      DEF UpdateInv, PrevReal, Path, OnDisk, Moved, WorkFrame
    <2>6. Kept'
      BY <1>2, <1>4, <2>3, Idle DEF UpdateInv, Kept
    <2>7. Undoable'
      BY <1>2, <1>3, <1>5, <1>6, <2>3 DEF Undoable, WorkFrame, Parts
    <2>8. Judged'
      BY <1>2, <2>1 DEF UpdateInv, Judged, WorkFrame, Unfinished, Moved, Whole
    <2>9. RunnerFiles'
      <3>1. sound =>
              Replaced({"system"}, job.to, job.from)'
              /\ \A p \in Parts : prev'.copies[p] = job.from
        BY <1>2, <1>6, <2>3 DEF Replaced, Parts, WorkFrame
      <3> QED
        BY <1>2, <2>1, <3>1 DEF RunnerFiles, Moved, WorkFrame, Replaced
    <2> QED
      BY <1>1, <1>2, <2>2, <2>4, <2>5, <2>6, <2>7, <2>8, <2>9, WorkGoesOn DEF UpdateInv
  <1> QED
    BY <1>7, <1>8 DEF Save

LEMMA WriteSetKeeps ==
    ASSUME UpdateInv, WriteSet PROVE UpdateInv'
  <1>1. TypeOK /\ AtWork /\ Busy /\ runner.pc = "write"
    BY DEF UpdateInv, AtWork, Busy, WriteSet
  <1>2. WorkFrame /\ UNCHANGED <<live, fwd, sound>> /\ (Fault \/ NoFault)
    BY DEF WriteSet, RunnerFrame, panelVars, WorkFrame
  <1>3. job.kind = "update" /\ runner.why = "none"
    BY <1>1 DEF UpdateInv, Path
  <1>4. fwd.copies = NoCopies /\ prev.set = setOf({"system"})
    BY <1>1 DEF UpdateInv, OnDisk
  <1>5. /\ prev.set.by = job.to
        /\ setOf(Parts) \in Sets /\ setOf(Parts).version = job.from /\ setOf(Parts).by = job.to
        /\ setOf(Parts).covers = Parts /\ setOf(Parts)' = setOf(Parts)
    BY <1>1, <1>2, <1>4, SetFields DEF TypeOK, Parts, setOf, WorkFrame
  <1>6. sound =>
          Replaced({"system"}, job.to, job.from) /\ \A p \in Parts : prev.copies[p] = job.from
    BY <1>1 DEF UpdateInv, RunnerFiles
  <1>7. CASE Fault /\ PutBack("prev", Parts, "abort") /\ UNCHANGED prev
    <2>1. Parts \in SUBSET Parts
      OBVIOUS
    <2>2. TypeOK'
      BY <1>1, <1>2, <1>7, <2>1, FaultType, Puts DEF TypeOK, WorkFrame
    <2>3. Kept' /\ Undoable'
      BY <1>2, <1>7
      DEF UpdateInv, Kept, Undoable, WorkFrame, Ready, WholeCopies, Whole, Unfinished
    <2> QED
      BY <1>1, <1>2, <1>3, <1>6, <1>7, <2>1, <2>2, <2>3, UndoBegins
  <1>8. CASE prev' = [prev EXCEPT !.set = setOf(Parts)] /\ Install({"tool", "binary"})
    <2>1. /\ runner' \in Runners /\ runner'.pc = "install" /\ runner'.id = runner.id
          /\ runner'.todo = {"tool", "binary"} /\ runner'.why = runner.why
      BY <1>1, <1>8 DEF Install, TypeOK, Runners, RunnerPcs, Parts
    <2>2. Busy' /\ runner'.id = runner.id
      BY <2>1 DEF Busy, AtWork
    <2>3. prev' \in Saved /\ prev'.set = setOf(Parts) /\ prev'.copies = prev.copies
      BY <1>1, <1>5, <1>8, SetSet DEF TypeOK
    <2>4. TypeOK'
      BY <1>1, <1>2, <2>1, <2>3, FaultType DEF TypeOK, WorkFrame
    <2>5. PrevReal' /\ Path' /\ OnDisk'
      BY <1>1, <1>2, <1>3, <1>4, <1>5, <2>1, <2>3, Working DEF PrevReal, Path, OnDisk, WorkFrame
    <2>6. Kept'
      <3>1. prev.set # NoSet
        BY <1>1, <1>5, Working, Idle, Bounds
      <3> QED
        BY <1>2, <1>4, <1>5, <2>3, <3>1, Idle DEF UpdateInv, Kept
    <2>7. Undoable'
      BY <1>2, <1>3, <1>5, <1>6, <2>3 DEF Undoable, WorkFrame
    <2>8. Judged'
      BY <1>2, <2>1 DEF UpdateInv, Judged, WorkFrame, Unfinished, Whole
    <2>9. RunnerFiles'
      <3>1. sound => Replaced(Parts \ runner.todo, job.to, job.from)'
        BY <1>2, <1>6, <2>1 DEF Replaced, Parts, WorkFrame
      <3> QED
        BY <1>2, <1>6, <2>1, <2>3, <3>1 DEF RunnerFiles, WorkFrame, Replaced
    <2> QED
      BY <1>1, <1>2, <2>2, <2>4, <2>5, <2>6, <2>7, <2>8, <2>9, WorkGoesOn DEF UpdateInv
  <1> QED
    BY <1>7, <1>8 DEF WriteSet

\* The files one by one, the binary last.
LEMMA InstallKeeps ==
    ASSUME UpdateInv, installFile PROVE UpdateInv'
  <1>1. TypeOK /\ AtWork /\ Busy /\ runner.pc = "install"
    BY DEF UpdateInv, AtWork, Busy, installFile
  <1>2. WorkFrame /\ UNCHANGED <<prev, fwd, sound>> /\ (Fault \/ NoFault)
    BY DEF installFile, RunnerFrame, panelVars, WorkFrame
  <1>3. job.kind = "update" /\ runner.why = "none"
    BY <1>1 DEF UpdateInv, Path
  <1>4. fwd.copies = NoCopies /\ prev.set = setOf(Parts)
        /\ runner.todo \in {{"tool", "binary"}, {"binary"}, {}}
    BY <1>1 DEF UpdateInv, OnDisk
  <1>5. prev.set.by = job.to /\ prev.set.covers = Parts /\ setOf(Parts)' = setOf(Parts)
    BY <1>1, <1>2, <1>4, SetFields DEF TypeOK, setOf, WorkFrame
  <1>6. sound => /\ \A p \in Parts : live[p] = IF p \in runner.todo THEN job.from ELSE job.to
                 /\ \A p \in Parts : prev.copies[p] = job.from
    BY <1>1 DEF UpdateInv, RunnerFiles, Replaced
  <1>8. CASE Fault /\ PutBack("prev", Parts, "abort") /\ UNCHANGED live
    <2>1. Parts \in SUBSET Parts
      OBVIOUS
    <2>2. TypeOK'
      BY <1>1, <1>2, <1>8, <2>1, FaultType, Puts DEF TypeOK, WorkFrame
    <2>3. Kept' /\ Undoable'
      BY <1>2, <1>8
      DEF UpdateInv, Kept, Undoable, WorkFrame, Ready, WholeCopies, Whole, Unfinished
    <2> QED
      BY <1>1, <1>2, <1>3, <1>6, <1>8, <2>1, <2>2, <2>3, UndoBegins
  <1>9. CASE runner.todo = {} /\ GoOn("restart") /\ UNCHANGED live
    <2>1. Moved("restart")
      BY <1>1, <1>9, Moves DEF RunnerPcs
    <2>2. Busy' /\ runner'.id = runner.id
      BY <2>1 DEF Busy, AtWork, Moved
    <2>3. TypeOK'
      BY <1>1, <1>2, <1>9, <2>1, FaultType DEF TypeOK, WorkFrame, Moved
    <2>4. PrevReal' /\ Path' /\ OnDisk' /\ Kept'
      BY <1>2, <1>3, <1>4, <1>5, <1>9, <2>1
      DEF UpdateInv, PrevReal, Path, OnDisk, Kept, WorkFrame, Moved
    <2>5. Undoable' /\ Judged'
      BY <1>2, <1>9, <2>1
      DEF UpdateInv, Undoable, Judged, WorkFrame, Ready, WholeCopies, Whole, Unfinished, Moved
    <2>6. sound => Whole(job.to)
      <3>1. sound => \A p \in Parts : live[p] = job.to
        BY <1>6, <1>9
      <3> QED
        BY <1>1, <3>1 DEF Whole, TypeOK
    <2>7. RunnerFiles'
      BY <1>2, <1>3, <1>6, <1>9, <2>1, <2>6 DEF RunnerFiles, WorkFrame, Whole, Moved
    <2> QED
      BY <1>1, <1>2, <2>2, <2>3, <2>4, <2>5, <2>7, WorkGoesOn DEF UpdateInv
  <1>10. CASE /\ runner.todo # {} /\ live' = [live EXCEPT ![installsNext] = job.to]
              /\ runner' = [runner EXCEPT !.todo = @ \ {installsNext}]
    <2>1. /\ runner' \in Runners /\ runner'.pc = "install" /\ runner'.id = runner.id
          /\ runner'.todo = runner.todo \ {installsNext} /\ runner'.why = runner.why
      BY <1>1, <1>10 DEF TypeOK, Runners
    <2>2. Busy' /\ runner'.id = runner.id
      BY <2>1 DEF Busy, AtWork
    <2>3. /\ installsNext \in runner.todo /\ installsNext \in Parts
          /\ runner'.todo \in {{"binary"}, {}}
          /\ installsNext = "binary" => runner.todo = {"binary"}
      <3>1. CASE runner.todo = {"tool", "binary"}
        BY <2>1, <3>1, FirstOf DEF installsNext, Parts
      <3>2. CASE runner.todo = {"binary"}
        BY <2>1, <3>2, FirstOf DEF installsNext, Parts
      <3> QED
        BY <1>4, <1>10, <3>1, <3>2
    <2>4. /\ live' \in [Parts -> Versions]
          /\ \A p \in Parts : live'[p] = IF p = installsNext THEN job.to ELSE live[p]
      BY <1>1, <1>10, <2>3, Working DEF TypeOK
    <2>5. TypeOK'
      BY <1>1, <1>2, <2>1, <2>4, FaultType DEF TypeOK, WorkFrame
    <2>6. PrevReal' /\ Path' /\ OnDisk'
      BY <1>2, <1>3, <1>4, <1>5, <2>1, <2>3 DEF UpdateInv, PrevReal, Path, OnDisk, WorkFrame
    <2>7. Kept'
      BY <1>2, <1>4, <1>5, <2>4, Idle DEF UpdateInv, Kept
    <2>8. Undoable'
      BY <1>2, <1>3, <1>5, <1>6 DEF Undoable, WorkFrame
    <2>9. sound => \A p \in Parts : live'[p] = IF p \in runner'.todo THEN job.from ELSE job.to
      BY <1>6, <2>1, <2>3, <2>4
    <2>10. Judged'
      <3>1. CASE installsNext = "binary"
        <4>1. sound => \A p \in Parts : live'[p] = job.to
          BY <2>1, <2>3, <2>9, <3>1
        <4>2. sound => Whole(job.to)'
          BY <1>2, <2>4, <4>1 DEF Whole, WorkFrame
        <4> QED
          BY <1>2, <4>2 DEF Judged
      <3>2. CASE installsNext # "binary"
        <4>1. sound => live["binary"] = job.from /\ live'["binary"] = job.from
          BY <1>4, <1>6, <1>10, <2>4, <3>2 DEF Parts
        <4>2. sound /\ Unfinished => panel # job.to
          BY <1>1, <1>3, <4>1, Working DEF UpdateInv, Judged, Whole, Parts
        <4> QED
          BY <1>1, <1>2, <4>1, <4>2, Working DEF Judged, WorkFrame, Unfinished
      <3> QED
        BY <3>1, <3>2
    <2>11. RunnerFiles'
      <3>1. sound => Replaced(Parts \ runner.todo, job.to, job.from)'
        BY <1>2, <2>9 DEF Replaced, WorkFrame
      <3> QED
        BY <1>2, <1>6, <2>1, <3>1 DEF RunnerFiles, WorkFrame
    <2> QED
      BY <1>1, <1>2, <2>2, <2>5, <2>6, <2>7, <2>8, <2>10, <2>11, WorkGoesOn DEF UpdateInv
  <1> QED
    BY <1>8, <1>9, <1>10 DEF installFile

\* The rollback up to its first file.
LEMMA ReadSetKeeps ==
    ASSUME UpdateInv, ReadSet PROVE UpdateInv'
  <1>1. TypeOK /\ AtWork /\ Busy /\ runner.pc = "read"
    BY DEF UpdateInv, AtWork, Busy, ReadSet
  <1>2. UNCHANGED <<disk, fresh, faults, sound>> /\ RunnerFrame
    BY DEF ReadSet
  <1>3. job.kind = "rollback" /\ runner.why = "none"
    BY <1>1 DEF UpdateInv, Path
  <1>4. sound => Whole(job.from) /\ Ready
    BY <1>1 DEF UpdateInv, RunnerFiles
  <1>5. CASE RunnerFinishes("failed")
    BY <1>1, <1>2, <1>4, <1>5, RunnerEnds DEF NoFault
  <1>6. CASE prev.set # NoSet /\ GoOn("saveForward") /\ UNCHANGED job
    <2>1. Moved("saveForward")
      BY <1>1, <1>6, Moves DEF RunnerPcs
    <2>2. WorkFrame /\ UNCHANGED <<live, prev, fwd, sound, faults>>
      BY <1>2, <1>6 DEF disk, RunnerFrame, panelVars, WorkFrame
    <2>3. Busy' /\ runner'.id = runner.id
      BY <2>1 DEF Busy, AtWork, Moved
    <2>4. TypeOK'
      BY <1>1, <2>1, <2>2 DEF TypeOK, WorkFrame, Moved
    <2>5. PrevReal' /\ Path' /\ OnDisk' /\ Kept'
      BY <1>3, <1>6, <2>1, <2>2 DEF UpdateInv, PrevReal, Path, OnDisk, Kept, WorkFrame, Moved
    <2>6. sound => Ready' /\ Whole(job.from)'
      BY <1>4, <2>2 DEF Ready, WholeCopies, Whole, WorkFrame
    <2>7. Undoable' /\ Judged'
      BY <1>1, <1>3, <1>4, <2>1, <2>2, <2>6, FilesWhole DEF WorkFrame, Moved
    <2>8. RunnerFiles'
      BY <2>1, <2>2, <2>6 DEF RunnerFiles, WorkFrame, Moved
    <2> QED
      BY <1>1, <2>2, <2>3, <2>4, <2>5, <2>7, <2>8, WorkGoesOn DEF UpdateInv
  <1> QED
    BY <1>5, <1>6 DEF ReadSet

LEMMA SaveForwardKeeps ==
    ASSUME UpdateInv, SaveForward PROVE UpdateInv'
  <1>1. TypeOK /\ AtWork /\ Busy /\ runner.pc = "saveForward" /\ UNCHANGED fresh /\ RunnerFrame
    BY DEF UpdateInv, AtWork, Busy, SaveForward
  <1>2. CASE Fails
    BY <1>1, <1>2, FailsKeeps
  <1>3. CASE /\ fwd' = [fwd EXCEPT !.copies = [p \in Parts |-> IF p \in prev.set.covers THEN live[p] ELSE @[p]]]
             /\ GoOn("writeForward") /\ NoFault /\ UNCHANGED <<live, prev, job, sound>>
    <2>1. Moved("writeForward")
      BY <1>1, <1>3, Moves DEF RunnerPcs
    <2>2. WorkFrame /\ Busy' /\ runner'.id = runner.id
      BY <1>1, <1>3, <2>1 DEF RunnerFrame, panelVars, WorkFrame, Busy, AtWork, Moved
    <2>3. /\ fwd' \in Saved
          /\ \A p \in Parts : fwd'.copies[p] = IF p \in prev.set.covers THEN live[p] ELSE fwd.copies[p]
      <3> DEFINE c == [p \in Parts |-> IF p \in prev.set.covers THEN live[p] ELSE fwd.copies[p]]
      <3>1. c \in Copies
        BY <1>1, SavedFields, Bounds DEF TypeOK, Copies
      <3>2. fwd' = [fwd EXCEPT !.copies = c]
        BY <1>1, <1>3 DEF TypeOK, Saved
      <3>3. \A p \in Parts : c[p] = IF p \in prev.set.covers THEN live[p] ELSE fwd.copies[p]
        OBVIOUS
      <3> HIDE DEF c
      <3> QED
        BY <1>1, <3>1, <3>2, <3>3, CopiesSet DEF TypeOK
    <2>4. TypeOK'
      BY <1>1, <1>3, <2>1, <2>2, <2>3 DEF TypeOK, WorkFrame, Moved, NoFault
    <2>5. job.kind = "rollback" /\ runner.why = "none" /\ prev.set # NoSet
      BY <1>1 DEF UpdateInv, Path, OnDisk
    <2>6. PrevReal' /\ Path' /\ OnDisk'
      BY <1>3, <2>1, <2>2, <2>5 DEF UpdateInv, PrevReal, Path, OnDisk, Moved, WorkFrame
    <2>7. Kept'
      BY <1>3, <2>3 DEF UpdateInv, Kept
    <2>8. sound => /\ Whole(job.from) /\ Ready' /\ Whole(job.from)'
                   /\ \A p \in prev.set.covers : p \in Parts /\ live[p] = job.from
      <3>1. sound => Whole(job.from) /\ Ready
        BY <1>1 DEF UpdateInv, RunnerFiles
      <3>2. prev.set.covers \in SUBSET Parts
        BY <1>1, SavedFields DEF TypeOK
      <3> QED
        BY <1>3, <3>1, <3>2 DEF Whole, Ready, WholeCopies
    <2>9. Undoable' /\ Judged'
      BY <1>1, <1>3, <2>1, <2>2, <2>5, <2>8, FilesWhole DEF Moved, WorkFrame
    <2>10. RunnerFiles'
      BY <1>3, <2>1, <2>2, <2>3, <2>8 DEF RunnerFiles, Moved, WorkFrame
    <2> QED
      BY <1>1, <2>2, <2>4, <2>6, <2>7, <2>9, <2>10, WorkGoesOn DEF UpdateInv
  <1> QED
    BY <1>2, <1>3 DEF SaveForward

LEMMA WriteForwardKeeps ==
    ASSUME UpdateInv, WriteForward PROVE UpdateInv'
  <1>1. TypeOK /\ AtWork /\ Busy /\ runner.pc = "writeForward" /\ UNCHANGED fresh /\ RunnerFrame
    BY DEF UpdateInv, AtWork, Busy, WriteForward
  <1>2. CASE Fails
    BY <1>1, <1>2, FailsKeeps
  <1>3. CASE /\ fwd' = [fwd EXCEPT !.set = setOf(prev.set.covers)]
             /\ PutBack("prev", prev.set.covers, "rollback")
             /\ NoFault /\ UNCHANGED <<live, prev, job, sound>>
    <2>1. prev.set.covers \in SUBSET Parts
      BY <1>1, SavedFields DEF TypeOK
    <2>2. /\ runner' \in Runners /\ runner'.pc = "back" /\ runner'.id = runner.id
          /\ runner'.src = "prev" /\ runner'.todo = prev.set.covers /\ ~runner'.err
          /\ runner'.why = "rollback"
      BY <1>1, <1>3, <2>1, Puts
    <2>3. WorkFrame /\ Busy' /\ runner'.id = runner.id
      BY <1>1, <1>3, <2>2 DEF RunnerFrame, panelVars, WorkFrame, Busy, AtWork
    <2>4. /\ fwd' \in Saved /\ fwd'.set = setOf(prev.set.covers) /\ fwd'.copies = fwd.copies
          /\ setOf(prev.set.covers)' = setOf(prev.set.covers)
      BY <1>1, <1>3, <2>1, SetFields, SetSet DEF TypeOK, setOf
    <2>5. TypeOK'
      BY <1>1, <1>3, <2>2, <2>3, <2>4 DEF TypeOK, WorkFrame, NoFault
    <2>6. job.kind = "rollback" /\ prev.set # NoSet
      BY <1>1 DEF UpdateInv, Path, OnDisk
    <2>7. PrevReal' /\ Path' /\ OnDisk'
      BY <1>3, <2>2, <2>3, <2>4, <2>6 DEF UpdateInv, PrevReal, Path, OnDisk, WorkFrame
    <2>8. Kept'
      BY <1>3, <2>4 DEF UpdateInv, Kept
    <2>9. sound => /\ Ready' /\ \A p \in prev.set.covers : fwd.copies[p] = job.from
                   /\ \A p \in Parts : live[p] = job.from
      <3>1. sound => /\ Whole(job.from) /\ Ready
                     /\ \A p \in prev.set.covers : fwd.copies[p] = job.from
        BY <1>1 DEF UpdateInv, RunnerFiles
      <3> QED
        BY <1>3, <3>1 DEF Whole, Ready, WholeCopies
    <2>10. Undoable'
      BY <1>3, <2>6, <2>9 DEF Undoable
    <2>11. Judged'
      BY <2>2 DEF Judged
    <2>12. RunnerFiles'
      BY <1>3, <2>1, <2>2, <2>4, <2>9 DEF RunnerFiles
    <2> QED
      BY <1>1, <2>3, <2>5, <2>7, <2>8, <2>10, <2>11, <2>12, WorkGoesOn DEF UpdateInv
  <1> QED
    BY <1>2, <1>3 DEF WriteForward

\* The restart and the trial of the new version did not go well: back to the old one.
LEMMA RevertKeeps ==
    ASSUME UpdateInv, Busy, runner.pc \in {"restart", "trial"}, WorkFrame,
           UNCHANGED <<live, prev, fwd, sound>>, Fault \/ NoFault, Revert
    PROVE  UpdateInv'
  <1>1. TypeOK /\ job.kind \in {"update", "rollback"}
    BY DEF UpdateInv, TypeOK, Jobs
  <1>2. fwd.set.covers \in SUBSET Parts
    BY <1>1, SavedFields DEF TypeOK
  <1> DEFINE parts == IF job.kind = "update" THEN Parts ELSE fwd.set.covers
  <1>3. PutBack(IF job.kind = "update" THEN "prev" ELSE "fwd", parts, "revert")
        /\ parts \in SUBSET Parts
    BY <1>1, <1>2 DEF Revert
  <1>4. runner' \in Runners
    BY <1>1, <1>3, Puts
  <1>5. TypeOK'
    BY <1>1, <1>4, FaultType DEF TypeOK, WorkFrame
  <1>6. Kept' /\ Undoable'
    BY DEF UpdateInv, Kept, Undoable, WorkFrame, Ready, WholeCopies, Whole, Unfinished
  <1>7. sound => /\ \A p \in Parts : live'[p] = job.from \/ p \in parts
                 /\ \A p \in parts : (IF job.kind = "update" THEN prev ELSE fwd).copies[p] = job.from
                 /\ job.kind = "rollback" => Ready
    <2>1. CASE job.kind = "update"
      BY <2>1 DEF UpdateInv, RunnerFiles
    <2>2. CASE job.kind = "rollback"
      <3>1. runner.why = "rollback"
        BY <2>2 DEF UpdateInv, Path
      <3>2. fwd.set.covers = prev.set.covers
        BY <1>1, <3>1, SavedFields, SetFields DEF UpdateInv, OnDisk, TypeOK
      <3>3. sound => /\ Ready /\ \A p \in prev.set.covers : fwd.copies[p] = job.from
                     /\ Replaced(prev.set.covers, job.to, job.from)
        BY <3>1 DEF UpdateInv, RunnerFiles
      <3> QED
        BY <2>2, <3>2, <3>3 DEF Replaced
    <2> QED
      BY <1>1, <2>1, <2>2
  <1>8. job.kind = "rollback" => fwd.set.by = job.to /\ parts \subseteq fwd.set.covers
    <2>1. job.kind = "rollback" => fwd.set = setOf(prev.set.covers)
      BY DEF UpdateInv, Path, OnDisk
    <2> QED
      BY <1>1, <2>1, SavedFields, SetFields DEF TypeOK
  <1> HIDE DEF parts
  <1> QED
    BY <1>3, <1>5, <1>6, <1>7, <1>8, UndoBegins

\* The files of the old version are back: a restart of it, or nothing is left to try.
LEMMA BackToOld ==
    ASSUME UpdateInv, Busy, WorkFrame, UNCHANGED <<live, prev, fwd, sound>>, Fault \/ NoFault,
           runner' \in Runners, runner'.pc \in {"restartOld", "drop"}, runner'.id = runner.id,
           runner'.why = runner.why, runner.why \in {"abort", "revert"},
           runner.why = "abort" => job.kind = "update" /\ runner'.pc = "drop",
           sound => Whole(job.from) /\ (job.kind = "rollback" => Ready)
    PROVE  UpdateInv'
  <1>1. TypeOK' /\ Busy'
    BY FaultType DEF UpdateInv, TypeOK, WorkFrame, Busy, AtWork
  <1>2. job.kind \in {"update", "rollback"}
    BY DEF UpdateInv, TypeOK, Jobs
  <1>3. PrevReal' /\ Path' /\ OnDisk' /\ Kept'
    BY <1>2 DEF UpdateInv, PrevReal, Path, OnDisk, Kept, WorkFrame
  <1>4. sound => Whole(job.from)' /\ (job.kind = "rollback" => Ready')
    BY DEF Whole, Ready, WholeCopies, WorkFrame
  <1>5. Undoable' /\ Judged'
    BY <1>4, FilesWhole DEF WorkFrame, Busy
  <1>6. RunnerFiles'
    BY <1>4 DEF RunnerFiles, WorkFrame
  <1> QED
    BY <1>1, <1>3, <1>5, <1>6, WorkGoesOn DEF UpdateInv

LEMMA GivesUp ==
    ASSUME UpdateInv, Busy, runner.pc \in {"restartOld", "trialOld"}, WorkFrame,
           UNCHANGED <<live, prev, fwd, sound>>, Fault \/ NoFault,
           runner' \in Runners, runner'.pc = "drop", runner'.id = runner.id, runner'.why = runner.why
    PROVE  UpdateInv'
  <1>1. runner.why = "revert"
    BY DEF UpdateInv, Path
  <1>2. sound => Whole(job.from) /\ (job.kind = "rollback" => Ready)
    BY DEF UpdateInv, RunnerFiles
  <1> QED
    BY <1>1, <1>2, BackToOld

LEMMA Booted ==
    ASSUME TypeOK PROVE booted \in {None, live["binary"]} /\ booted \in 0..MaxVersion
  BY Bounds DEF TypeOK, booted, Parts

LEMMA RestartKeeps ==
    ASSUME UpdateInv, Restart PROVE UpdateInv'
  <1>1. /\ TypeOK /\ AtWork /\ Busy /\ runner.pc \in {"restart", "restartOld"}
        /\ UNCHANGED <<live, prev, fwd, job, fresh, lock, health, jobs, sound, lost>>
    BY DEF UpdateInv, AtWork, Busy, Restart, disk, ghosts
  <1>2. CASE Fault /\ UNCHANGED panelVars /\ runner.pc = "restart" /\ Revert
    BY <1>1, <1>2, RevertKeeps DEF WorkFrame, panelVars
  <1>3. CASE Fault /\ UNCHANGED panelVars /\ runner.pc # "restart"
             /\ runner' = [runner EXCEPT !.pc = "drop", !.err = TRUE]
    <2>1. runner' \in Runners /\ runner'.pc = "drop" /\ runner'.id = runner.id
          /\ runner'.why = runner.why
      BY <1>1, <1>3 DEF TypeOK, Runners, RunnerPcs
    <2> QED
      BY <1>1, <1>3, <2>1, GivesUp DEF WorkFrame, panelVars
  <1>4. CASE /\ panel' = booted /\ starter' = "idle" /\ watch' = idleWatch
             /\ GoOn(IF runner.pc = "restart" THEN "trial" ELSE "trialOld") /\ NoFault
    <2> DEFINE pc == IF runner.pc = "restart" THEN "trial" ELSE "trialOld"
    <2>1. Moved(pc) /\ pc \in {"trial", "trialOld"} /\ (pc = "trial" <=> runner.pc = "restart")
      BY <1>1, <1>4, Moves DEF RunnerPcs
    <2> HIDE DEF pc
    <2>2. panel' \in {None, live["binary"]} /\ panel' \in 0..MaxVersion
      BY <1>1, <1>4, Booted
    <2>3. /\ AtWork' /\ ~Settling' /\ ~Writing' /\ Unfinished' /\ job.phase = "runner"
          /\ watch'.pc = "idle" /\ watch'.job.id = 0
      BY <1>1, <1>4, <2>1, Working, Idle DEF Moved, AtWork, Settling, Writing, Unfinished
    <2>4. TypeOK'
      BY <1>1, <1>4, <2>1, <2>2, Idle DEF TypeOK, NoFault, Moved
    <2>5. Named'
      <3>1. job.id > 0 /\ RealJob(job) /\ job.id <= jobs /\ runner.id <= jobs /\ 0 <= jobs
        BY <1>1, Working, Bounds DEF UpdateInv, Named, TypeOK
      <3> QED
        BY <1>1, <2>1, <2>3, <3>1 DEF Named, RealJob, Moved
    <2>6. OneWriter'
      BY <1>1, <1>4, <2>1, <2>3, Working DEF OneWriter, Moved
    <2>7. PrevReal' /\ Path' /\ OnDisk' /\ Kept'
      BY <1>1, <2>1 DEF UpdateInv, PrevReal, Path, OnDisk, Kept, Moved, setOf
    <2>8. Undoable'
      <3>1. Whole(job.to) => live["binary"] = job.to
        BY DEF Whole, Parts
      <3>2. Undoable
        BY DEF UpdateInv
      <3>3. Ready' = Ready /\ Whole(job.to)' = Whole(job.to) /\ Unfinished' = Unfinished
        BY <1>1 DEF Ready, WholeCopies, Whole, Unfinished
      <3> QED
        BY <1>1, <2>2, <3>1, <3>2, <3>3 DEF Undoable
    <2>9. Judged'
      BY <1>1, <2>1 DEF UpdateInv, Judged, Path, RunnerFiles, Moved, TypeOK, Jobs, Whole
    <2>10. RunnerFiles'
      BY <1>1, <2>1, <2>2
      DEF UpdateInv, RunnerFiles, Moved, Whole, Replaced, Ready, WholeCopies, copiesIn
    <2> QED
      BY <1>1, <1>4, <2>1, <2>3, <2>4, <2>5, <2>6, <2>7, <2>8, <2>9, <2>10
      DEF UpdateInv, Untouched, Started, Stale, WatchFiles, ResultTrue, Moved
  <1> QED
    BY <1>2, <1>3, <1>4 DEF Restart

LEMMA TrialKeeps ==
    ASSUME UpdateInv, trial PROVE UpdateInv'
  <1>1. /\ TypeOK /\ AtWork /\ Busy /\ runner.pc \in {"trial", "trialOld"}
        /\ UNCHANGED <<disk, fresh, sound>> /\ RunnerFrame /\ (Fault \/ NoFault)
    BY DEF UpdateInv, AtWork, Busy, trial
  <1>2. UNCHANGED <<live, prev, fwd, sound>> /\ (UNCHANGED job => WorkFrame)
    BY <1>1 DEF disk, RunnerFrame, panelVars, WorkFrame
  <1>3. CASE runner.pc = "trial" /\ job.kind = "update" /\ RunnerFinishes("ok")
    <2>1. sound => Whole(job.to)
      BY <1>3 DEF UpdateInv, RunnerFiles
    <2> QED
      BY <1>1, <1>3, <2>1, RunnerEnds
  <1>4. CASE runner.pc = "trial" /\ Revert /\ UNCHANGED job
    BY <1>1, <1>2, <1>4, RevertKeeps
  <1>5. CASE runner.pc = "trialOld" /\ GoOn("drop") /\ UNCHANGED job
    <2>1. Moved("drop")
      BY <1>1, <1>5, Moves DEF RunnerPcs
    <2> QED
      BY <1>1, <1>2, <1>5, <2>1, GivesUp DEF Moved
  <1>6. CASE runner.pc = "trialOld" /\ runner' = [runner EXCEPT !.pc = "drop", !.err = TRUE]
             /\ UNCHANGED job
    <2>1. runner' \in Runners /\ runner'.pc = "drop" /\ runner'.id = runner.id
          /\ runner'.why = runner.why
      BY <1>1, <1>6 DEF TypeOK, Runners, RunnerPcs
    <2> QED
      BY <1>1, <1>2, <1>6, <2>1, GivesUp
  <1>7. CASE runner.pc = "trial" /\ healthy(job.to) /\ job.kind # "update" /\ GoOn("drop")
             /\ UNCHANGED job
    <2>1. Moved("drop") /\ WorkFrame
      BY <1>1, <1>2, <1>7, Moves DEF RunnerPcs
    <2>2. job.kind = "rollback" /\ runner.why = "rollback" /\ panel = job.to
      BY <1>1, <1>7 DEF UpdateInv, Path, healthy, TypeOK, Jobs
    <2>3. TypeOK' /\ Busy'
      BY <1>1, <1>2, <2>1, FaultType DEF TypeOK, WorkFrame, Busy, AtWork, Moved
    <2>4. sound => Whole(job.to)
      <3>1. sound => live["binary"] = job.to /\ Replaced(prev.set.covers, job.to, job.from)
        <4>1. sound =>
                panel \in {None, live["binary"]} /\ Replaced(prev.set.covers, job.to, job.from)
          BY <1>7, <2>2 DEF UpdateInv, RunnerFiles
        <4> QED
          BY <1>1, <2>2, <4>1, Working, Bounds
      <3>2. sound => "binary" \in prev.set.covers
        BY <1>1, <3>1, Working DEF Replaced, Parts
      <3>3. "binary" \in prev.set.covers => prev.set.covers = Parts
        BY Idle DEF UpdateInv, PrevReal
      <3>4. sound => \A p \in Parts : live[p] = job.to
        BY <3>1, <3>2, <3>3 DEF Replaced
      <3> QED
        BY <1>1, <3>4 DEF Whole, TypeOK
    <2>5. PrevReal' /\ Path' /\ OnDisk' /\ Kept'
      BY <1>2, <2>1, <2>2 DEF UpdateInv, PrevReal, Path, OnDisk, Kept, WorkFrame, Moved
    <2>6. Undoable' /\ Judged'
      BY <1>2, <2>1, <2>2
      DEF UpdateInv, Undoable, Judged, WorkFrame, Ready, WholeCopies, Whole, Unfinished, Moved
    <2>7. RunnerFiles'
      BY <1>2, <2>1, <2>2, <2>4 DEF RunnerFiles, WorkFrame, Moved, Whole
    <2> QED
      BY <1>1, <2>1, <2>3, <2>5, <2>6, <2>7, WorkGoesOn DEF UpdateInv, Moved
  <1> QED
    BY <1>3, <1>4, <1>5, <1>6, <1>7 DEF trial

\* Putting files back: one after the other, whatever fails.
LEMMA PutsBackKept ==
    ASSUME UpdateInv, NEW src \in {"prev", "fwd"}, NEW todo \in SUBSET Parts, todo # {},
           PutsBack(src, todo)
    PROVE  /\ live' \in [Parts -> Versions] /\ UNCHANGED <<prev, fwd, sound, faults>> /\ Kept'
           /\ \A p \in Parts : live'[p] = IF p = lastOf(todo) THEN copiesIn(src)[p] ELSE live[p]
  <1>1. TypeOK /\ lastOf(todo) \in Parts
    BY LastOf DEF UpdateInv
  <1>2. copiesIn(src) \in {prev.copies, fwd.copies} /\ copiesIn(src)[lastOf(todo)] \in Versions
    BY <1>1, SavedFields, Bounds DEF TypeOK, copiesIn, PutsBack
  <1>3. UNCHANGED <<prev, fwd, sound, faults>>
    BY DEF PutsBack, NoFault
  <1>4. /\ live' \in [Parts -> Versions]
        /\ \A p \in Parts : live'[p] = IF p = lastOf(todo) THEN copiesIn(src)[p] ELSE live[p]
    BY <1>1, <1>2 DEF PutsBack, TypeOK
  <1>5. Kept'
    <2>1. SUFFICES ASSUME prev.set # NoSet, NEW p \in Parts
                   PROVE  /\ prev.copies[p] \in {None, live'[p]} \/ live'[p] = prev.set.by
                          /\ \/ fwd.copies[p] \in {None, prev.set.by}
                             \/ live'[p] = fwd.copies[p] /\ prev.copies[p] \in {None, live'[p]}
      BY <1>3 DEF Kept
    <2>2. /\ prev.copies[p] \in {None, live[p]} \/ live[p] = prev.set.by
          /\ \/ fwd.copies[p] \in {None, prev.set.by}
             \/ live[p] = fwd.copies[p] /\ prev.copies[p] \in {None, live[p]}
      BY <2>1 DEF UpdateInv, Kept
    <2>3. CASE p = lastOf(todo)
      <3>1. live'[p] = copiesIn(src)[p] /\ copiesIn(src)[p] # None
        BY <1>4, <2>3 DEF PutsBack
      <3> QED
        BY <1>2, <2>2, <2>3, <3>1
    <2> QED
      BY <1>4, <2>2, <2>3
  <1> QED
    BY <1>3, <1>4, <1>5

\* What RunnerFiles says while files are put back.
BackFiles ==
  /\ job.kind = "rollback" => Ready
  /\ runner.why = "rollback" =>
       /\ Ready /\ \A p \in prev.set.covers : fwd.copies[p] = job.from
       /\ \A p \in Parts : p \notin prev.set.covers \/ p \in runner.todo => live[p] = job.from
       /\ ~runner.err => \A p \in prev.set.covers \ runner.todo : live[p] = job.to
  /\ runner.why # "rollback" =>
       /\ ~runner.err
       /\ \A p \in Parts : live[p] = job.from \/ p \in runner.todo
       /\ \A p \in runner.todo : copiesIn(runner.src)[p] = job.from

LEMMA FilesBack ==
    ASSUME runner'.pc = "back", sound' => BackFiles' PROVE RunnerFiles'
  BY DEF BackFiles, RunnerFiles

LEMMA RunnerPutsBackKeeps ==
    ASSUME UpdateInv, RunnerPutsBack PROVE UpdateInv'
  <1>1. TypeOK /\ AtWork /\ Busy /\ runner.pc = "back" /\ runner.todo # {} /\ WorkFrame
    BY DEF UpdateInv, AtWork, Busy, RunnerPutsBack, WorkFrame, RunnerFrame, panelVars
  <1> DEFINE l == lastOf(runner.todo)
  <1>2. runner.todo \in SUBSET Parts /\ runner.src \in {"prev", "fwd"} /\ l \in runner.todo
        /\ l \in Parts
    BY <1>1, LastOf DEF TypeOK, Runners
  <1>3. job.kind \in {"update", "rollback"}
    BY <1>1 DEF TypeOK, Jobs
  <1>4. /\ runner.why = "rollback" => job.kind = "rollback"
        /\ runner.why # "none"
        /\ runner.src = IF job.kind = "update" \/ runner.why = "rollback" THEN "prev" ELSE "fwd"
    BY <1>1 DEF UpdateInv, Path
  <1>5. /\ runner.why = "rollback" =>
             fwd.set = setOf(prev.set.covers) /\ runner.todo \subseteq prev.set.covers
        /\ runner.src = "fwd" => fwd.set.by = job.to /\ runner.todo \subseteq fwd.set.covers
    BY <1>1 DEF UpdateInv, OnDisk
  <1>6. sound => /\ job.kind = "rollback" => Ready
                 /\ runner.why = "rollback" =>
                      /\ \A p \in prev.set.covers : fwd.copies[p] = job.from
                      /\ \A p \in Parts : p \notin prev.set.covers \/ p \in runner.todo =>
                           live[p] = job.from
                      /\ ~runner.err =>
                           \A p \in prev.set.covers \ runner.todo : live[p] = job.to
                 /\ runner.why # "rollback" =>
                      /\ ~runner.err
                      /\ \A p \in Parts : live[p] = job.from \/ p \in runner.todo
                      /\ \A p \in runner.todo : copiesIn(runner.src)[p] = job.from
    BY <1>1 DEF UpdateInv, RunnerFiles
  <1>7. runner.why = "rollback" => fwd.set.by = job.to /\ fwd.set.covers = prev.set.covers
    BY <1>1, <1>5, SavedFields, SetFields DEF TypeOK
  <1>8. CASE PutsBack(runner.src, runner.todo) /\ runner' = [runner EXCEPT !.todo = @ \ {l}]
    <2>1. /\ runner' \in Runners /\ runner'.pc = "back" /\ runner'.id = runner.id
          /\ runner'.src = runner.src
          /\ runner'.todo = runner.todo \ {l} /\ runner'.err = runner.err
          /\ runner'.why = runner.why
      BY <1>1, <1>8 DEF TypeOK, Runners
    <2>2. /\ live' \in [Parts -> Versions] /\ UNCHANGED <<prev, fwd, sound, faults>> /\ Kept'
          /\ \A p \in Parts : live'[p] = IF p = l THEN copiesIn(runner.src)[p] ELSE live[p]
          /\ copiesIn(runner.src)[l] # None
      BY <1>1, <1>2, <1>8, PutsBackKept DEF PutsBack
    <2> HIDE DEF l
    <2>3. TypeOK' /\ Busy'
      BY <1>1, <2>1, <2>2 DEF TypeOK, WorkFrame, Busy, AtWork
    <2>4. PrevReal' /\ Path' /\ OnDisk'
      <3>1. PrevReal'
        BY <2>2 DEF UpdateInv, PrevReal
      <3>2. Path'
        BY <1>1, <1>4, <2>1 DEF Path, WorkFrame
      <3>3. OnDisk'
        BY <1>1, <1>5, <2>1, <2>2 DEF OnDisk, WorkFrame, setOf
      <3> QED
        BY <3>1, <3>2, <3>3
    <2>5. Ready' = Ready /\ copiesIn(runner.src)' = copiesIn(runner.src)
      BY <1>1, <2>1, <2>2 DEF Ready, WholeCopies, WorkFrame, copiesIn
    <2>6. ASSUME sound, runner.why # "rollback"
          PROVE  /\ \A p \in Parts : live'[p] = job.from \/ p \in runner'.todo
                 /\ \A p \in runner'.todo : copiesIn(runner.src)[p] = job.from
      BY <1>2, <1>6, <2>1, <2>2, <2>6
    <2>7. ASSUME sound, runner.why = "rollback"
          PROVE  /\ \A p \in Parts : p \notin prev.set.covers \/ p \in runner'.todo =>
                      live'[p] = job.from
                 /\ ~runner.err => \A p \in prev.set.covers \ runner'.todo : live'[p] = job.to
      <3>1. \A p \in Parts : p \notin prev.set.covers \/ p \in runner'.todo =>
              p # l /\ live'[p] = job.from
        BY <1>2, <1>5, <1>6, <2>1, <2>2, <2>7
      <3>2. copiesIn(runner.src)[l] = job.to
        <4>1. runner.src = "prev" /\ l \in prev.set.covers
          BY <1>2, <1>4, <1>5, <2>7
        <4> QED
          BY <1>4, <1>6, <2>2, <2>7, <4>1 DEF copiesIn, Ready, WholeCopies
      <3>3. prev.set.covers \in SUBSET Parts
        BY <1>1, SavedFields DEF TypeOK
      <3> QED
        BY <1>6, <2>1, <2>2, <2>7, <3>1, <3>2, <3>3
    <2>8. Undoable'
      <3>1. CASE job.kind = "update" /\ sound
        <4>1. runner.why # "rollback" /\ runner.src = "prev"
          BY <1>4, <3>1
        <4>2. \A p \in Parts : \/ live[p] = job.from
                               \/ prev.set.by = job.to /\ p \in prev.set.covers
                                  /\ prev.copies[p] = job.from
          BY <1>1, <3>1, Working DEF UpdateInv, Undoable, Busy
        <4>3. copiesIn(runner.src)[l] = job.from
          BY <1>2, <1>6, <3>1, <4>1
        <4> QED
          BY <1>1, <2>2, <3>1, <4>2, <4>3 DEF Undoable, WorkFrame
      <3>2. CASE job.kind = "rollback" /\ sound
        <4>1. Ready'
          BY <1>6, <2>5, <3>2
        <4>2. \A p \in Parts : \/ live'[p] = job.from
                               \/ fwd.set.by = job.to /\ p \in fwd.set.covers
                                  /\ fwd.copies[p] = job.from
          <5>1. CASE runner.why = "rollback"
            BY <1>6, <1>7, <2>7, <3>2, <5>1
          <5>2. CASE runner.why # "rollback"
            <6>1. runner.src = "fwd" /\ copiesIn(runner.src) = fwd.copies
              BY <1>4, <3>2, <5>2 DEF copiesIn
            <6> QED
              BY <1>5, <2>1, <2>6, <3>2, <5>2, <6>1
          <5> QED
            BY <5>1, <5>2
        <4> QED
          BY <1>1, <2>2, <3>2, <4>1, <4>2 DEF Undoable, WorkFrame
      <3> QED
        BY <1>3, <2>2, <3>1, <3>2 DEF Undoable
    <2>9. Judged'
      BY <1>4, <2>1 DEF Judged
    <2>10. RunnerFiles'
      <3>1. sound' => BackFiles'
        BY <1>1, <1>4, <1>6, <2>1, <2>2, <2>5, <2>6, <2>7 DEF BackFiles, WorkFrame
      <3> QED
        BY <2>1, <3>1, FilesBack
    <2> QED
      BY <1>1, <2>1, <2>2, <2>3, <2>4, <2>8, <2>9, <2>10, WorkGoesOn DEF UpdateInv
  <1>9. CASE /\ CannotPutBack(runner.src, runner.todo, runner.why # "rollback")
             /\ runner' = [runner EXCEPT !.todo = @ \ {l}, !.err = TRUE]
    <2>1. /\ runner' \in Runners /\ runner'.pc = "back" /\ runner'.id = runner.id
          /\ runner'.src = runner.src
          /\ runner'.todo = runner.todo \ {l} /\ runner'.err /\ runner'.why = runner.why
      BY <1>1, <1>9 DEF TypeOK, Runners
    <2>2. /\ UNCHANGED <<live, prev, fwd>> /\ (Fault \/ NoFault) /\ sound' \in BOOLEAN
          /\ sound' => sound /\ runner.why = "rollback"
      BY <1>9 DEF CannotPutBack, disk
    <2> HIDE DEF l
    <2>3. TypeOK' /\ Busy'
      BY <1>1, <2>1, <2>2, FaultType DEF TypeOK, WorkFrame, Busy, AtWork
    <2>4. PrevReal' /\ Path' /\ OnDisk' /\ Kept'
      <3>1. PrevReal' /\ Kept'
        BY <2>2 DEF UpdateInv, PrevReal, Kept
      <3>2. Path'
        BY <1>1, <1>4, <2>1 DEF Path, WorkFrame
      <3>3. OnDisk'
        BY <1>1, <1>5, <2>1, <2>2 DEF OnDisk, WorkFrame, setOf
      <3> QED
        BY <3>1, <3>2, <3>3
    <2>5. Undoable'
      BY <1>1, <2>2 DEF UpdateInv, Undoable, WorkFrame, Ready, WholeCopies, Whole, Unfinished
    <2>6. Judged'
      BY <1>4, <2>1 DEF Judged
    <2>7. RunnerFiles'
      <3>1. Ready' = Ready
        BY <1>1, <2>2 DEF Ready, WholeCopies, WorkFrame
      <3>2. sound' => BackFiles'
        BY <1>1, <1>4, <1>6, <2>1, <2>2, <3>1 DEF BackFiles, WorkFrame
      <3> QED
        BY <2>1, <3>2, FilesBack
    <2> QED
      BY <1>1, <2>1, <2>3, <2>4, <2>5, <2>6, <2>7, WorkGoesOn DEF UpdateInv
  <1> QED
    BY <1>8, <1>9 DEF RunnerPutsBack

LEMMA DaemonReloadKeeps ==
    ASSUME UpdateInv, DaemonReload PROVE UpdateInv'
  <1>1. /\ TypeOK /\ AtWork /\ Busy /\ runner.pc = "back" /\ runner.todo = {}
        /\ UNCHANGED <<disk, fresh, sound>> /\ RunnerFrame /\ (Fault \/ NoFault)
    BY DEF UpdateInv, AtWork, Busy, DaemonReload
  <1>2. UNCHANGED <<live, prev, fwd, sound>> /\ (UNCHANGED job => WorkFrame)
    BY <1>1 DEF disk, RunnerFrame, panelVars, WorkFrame
  <1>3. PICK err \in BOOLEAN : AfterPutBack(err) /\ (~err => ~runner.err)
    BY <1>1 DEF DaemonReload, TypeOK, Runners
  <1>4. job.kind \in {"update", "rollback"} /\ runner.why \in {"abort", "revert", "rollback"}
        /\ (runner.why = "rollback" => job.kind = "rollback")
    BY <1>1 DEF TypeOK, Jobs, Runners, UpdateInv, Path
  <1>5. ASSUME runner.why # "rollback"
        PROVE  sound => Whole(job.from) /\ (job.kind = "rollback" => Ready)
    <2>1. sound => (\A p \in Parts : live[p] = job.from) /\ (job.kind = "rollback" => Ready)
      BY <1>1, <1>5 DEF UpdateInv, RunnerFiles
    <2> QED
      BY <1>1, <2>1 DEF Whole, TypeOK
  <1>6. CASE runner.why = "abort" /\ job.kind = "update"
    <2>1. GoOn("drop") /\ UNCHANGED job
      BY <1>3, <1>6 DEF AfterPutBack
    <2>2. Moved("drop")
      BY <1>1, <2>1, Moves DEF RunnerPcs
    <2> QED
      BY <1>1, <1>2, <1>5, <1>6, <2>1, <2>2, BackToOld DEF Moved
  <1>7. CASE runner.why = "abort" /\ job.kind = "rollback"
    <2>1. RunnerFinishes("failed")
      BY <1>3, <1>7 DEF AfterPutBack
    <2> QED
      BY <1>1, <1>5, <1>7, <2>1, RunnerEnds
  <1>8. CASE runner.why = "revert"
    <2>1. runner' = [runner EXCEPT !.pc = IF err THEN "drop" ELSE "restartOld", !.err = err]
          /\ UNCHANGED job
      BY <1>3, <1>8 DEF AfterPutBack
    <2>2. /\ runner' \in Runners /\ runner'.pc \in {"restartOld", "drop"}
          /\ runner'.id = runner.id
          /\ runner'.why = runner.why
      BY <1>1, <2>1 DEF TypeOK, Runners, RunnerPcs
    <2> QED
      BY <1>1, <1>2, <1>5, <1>8, <2>1, <2>2, BackToOld
  <1>9. CASE runner.why = "rollback"
    <2>1. /\ IF err THEN PutBack("fwd", fwd.set.covers, "abort") ELSE GoOn("restart")
          /\ UNCHANGED job
      BY <1>3, <1>9 DEF AfterPutBack
    <2>2. job.kind = "rollback" /\ WorkFrame
      BY <1>2, <1>4, <1>9, <2>1
    <2>3. fwd.set = setOf(prev.set.covers)
      BY <1>1, <1>9 DEF UpdateInv, OnDisk
    <2>4. fwd.set.covers \in SUBSET Parts /\ fwd.set.by = job.to
          /\ fwd.set.covers = prev.set.covers
      BY <1>1, <2>3, SavedFields, SetFields DEF TypeOK
    <2>5. sound => /\ Ready /\ \A p \in prev.set.covers : fwd.copies[p] = job.from
                   /\ \A p \in Parts : p \notin prev.set.covers => live[p] = job.from
                   /\ ~runner.err => \A p \in prev.set.covers : live[p] = job.to
      BY <1>1, <1>9 DEF UpdateInv, RunnerFiles
    <2>6. Kept' /\ Undoable'
      BY <1>2, <2>2
      DEF UpdateInv, Kept, Undoable, WorkFrame, Ready, WholeCopies, Whole, Unfinished
    <2>7. CASE err
      <3>1. PutBack("fwd", fwd.set.covers, "abort")
        BY <2>1, <2>7
      <3>2. TypeOK'
        BY <1>1, <1>2, <2>2, <2>4, <3>1, Puts, FaultType DEF TypeOK, WorkFrame
      <3>3. sound => /\ \A p \in Parts : live'[p] = job.from \/ p \in fwd.set.covers
                     /\ \A p \in fwd.set.covers : fwd.copies[p] = job.from
        BY <1>2, <2>4, <2>5
      <3> QED
        BY <1>1, <1>2, <2>2, <2>4, <2>5, <2>6, <3>1, <3>2, <3>3, UndoBegins
    <2>8. CASE ~err
      <3>1. Moved("restart")
        BY <1>1, <2>1, <2>8, Moves DEF RunnerPcs
      <3>2. TypeOK' /\ Busy'
        BY <1>1, <1>2, <2>2, <3>1, FaultType DEF TypeOK, WorkFrame, Moved, Busy, AtWork
      <3>3. PrevReal' /\ Path' /\ OnDisk'
        BY <1>2, <1>9, <2>2, <2>3, <3>1
        DEF UpdateInv, PrevReal, Path, OnDisk, WorkFrame, Moved, setOf
      <3>4. Judged'
        BY <1>9, <3>1 DEF Judged, Moved
      <3>5. RunnerFiles'
        <4>1. sound => Replaced(prev.set.covers, job.to, job.from)' /\ Ready'
          BY <1>2, <1>3, <2>2, <2>5, <2>8 DEF Replaced, WorkFrame, Ready, WholeCopies
        <4> QED
          BY <1>2, <1>9, <2>2, <2>5, <3>1, <4>1 DEF RunnerFiles, WorkFrame, Moved
      <3> QED
        BY <1>1, <2>2, <2>6, <3>1, <3>2, <3>3, <3>4, <3>5, WorkGoesOn DEF UpdateInv, Moved
    <2> QED
      BY <2>7, <2>8
  <1> QED
    BY <1>4, <1>6, <1>7, <1>8, <1>9

LEMMA DropKeeps ==
    ASSUME UpdateInv, Drop PROVE UpdateInv'
  <1>1. /\ TypeOK /\ AtWork /\ Busy /\ runner.pc = "drop" /\ WorkFrame
        /\ UNCHANGED <<sound, faults>>
        /\ prev \in Saved /\ fwd \in Saved
    BY DEF UpdateInv, AtWork, Busy, Drop, WorkFrame, RunnerFrame, panelVars, TypeOK
  <1>2. /\ runner' \in Runners /\ runner'.pc \in {"drop", "finish"} /\ runner'.id = runner.id
        /\ runner'.why = runner.why
    BY <1>1, Moves DEF Drop, Moved, RunnerPcs, TypeOK
  <1>3. Less /\ (keepsPrev => prev' = prev)
    <2>1. CASE ~keepsPrev /\ (RemovesSome \/ dropPrev)
      BY <1>1, <2>1, Removing
    <2>2. CASE fwd' = [fwd EXCEPT !.copies = NoCopies] /\ UNCHANGED <<live, prev>>
      BY <1>1, <2>2, CopiesSet, Idle DEF Less
    <2>3. CASE fwd' = Empty /\ UNCHANGED <<live, prev>>
      BY <1>1, <2>3, Idle DEF Less
    <2> QED
      BY <2>1, <2>2, <2>3 DEF Drop
  <1>4. Kept' /\ PrevReal' /\ live' = live
    BY <1>3, LessKept DEF Less
  <1>5. TypeOK' /\ Busy'
    BY <1>1, <1>2, <1>3 DEF TypeOK, WorkFrame, Less, Busy, AtWork
  <1>6. /\ job.kind \in {"update", "rollback"}
        /\ runner.why \in IF job.kind = "update" THEN {"abort", "revert"} ELSE {"revert", "rollback"}
    BY <1>1 DEF UpdateInv, Path, TypeOK, Jobs
  <1>7. Path' /\ OnDisk'
    BY <1>1, <1>2, <1>6 DEF Path, OnDisk, WorkFrame
  <1>8. sound => IF runner.why = "rollback" THEN Whole(job.to) /\ panel \in {job.to, None}
                 ELSE Whole(job.from) /\ (job.kind = "rollback" => Ready)
    BY <1>1 DEF UpdateInv, RunnerFiles
  <1>9. job.kind = "rollback" /\ runner.why # "rollback" => Ready' = Ready
    BY <1>1, <1>3, <1>6 DEF keepsPrev, Ready, WholeCopies, WorkFrame
  <1>10. sound => IF runner.why = "rollback" THEN Whole(job.to)' /\ panel \in {job.to, None}
                  ELSE Whole(job.from)' /\ (job.kind = "rollback" => Ready')
    BY <1>1, <1>4, <1>8, <1>9 DEF Whole, WorkFrame
  <1>11. Undoable'
    <2>1. CASE runner.why = "rollback"
      BY <1>1, <1>6, <1>10, <2>1 DEF Undoable, WorkFrame
    <2>2. CASE runner.why # "rollback"
      BY <1>1, <1>2, <1>4, <1>8, <1>10, <2>2, FilesWhole DEF WorkFrame
    <2> QED
      BY <2>1, <2>2
  <1>12. Judged'
    BY <1>2, <1>6 DEF Judged
  <1>13. RunnerFiles'
    BY <1>1, <1>2, <1>10 DEF RunnerFiles, WorkFrame
  <1> QED
    BY <1>1, <1>2, <1>4, <1>5, <1>7, <1>11, <1>12, <1>13, WorkGoesOn DEF UpdateInv

LEMMA FinishKeeps ==
    ASSUME UpdateInv, Finish PROVE UpdateInv'
  <1>1. Busy /\ runner.pc = "finish"
    BY DEF Busy, AtWork, Finish
  <1>2. outcome \in {"ok", "failed", "rolled_back"}
        /\ (outcome = "ok" <=> runner.why = "rollback")
    BY DEF outcome
  <1>3. sound => Whole(IF outcome = "ok" THEN job.to ELSE job.from)
    BY <1>1, <1>2 DEF UpdateInv, RunnerFiles
  <1> HIDE DEF outcome
  <1> QED
    BY <1>1, <1>2, <1>3, RunnerEnds DEF Finish, NoFault

LEMMA ExitKeeps ==
    ASSUME UpdateInv, Exit PROVE UpdateInv'
  <1>1. /\ TypeOK /\ AtWork /\ runner' = idleRunner /\ lock' = "free"
        /\ UNCHANGED <<live, prev, fwd, job, fresh, starter, panel, watch, health, jobs, faults, sound, lost>>
    BY DEF UpdateInv, Exit, AtWork, disk, panelVars, ghosts
  <1>2. ~Unfinished /\ ~Unfinished' /\ ~Settling' /\ ~Writing' /\ starter' = "idle"
    BY <1>1, Working DEF Exit, Unfinished, Settling, Writing
  <1>3. runner' \in Runners /\ runner'.pc = "none" /\ runner'.id = 0 /\ runner'.why = "none"
        /\ ~AtWork'
    BY <1>1, Idle DEF AtWork
  <1>4. TypeOK'
    BY <1>1, <1>3 DEF TypeOK
  <1>5. Named'
    BY <1>1, <1>2, <1>3, Bounds DEF UpdateInv, Named, RealJob, TypeOK
  <1>6. OneWriter'
    BY <1>1, <1>2, <1>3 DEF UpdateInv, OneWriter
  <1>7. PrevReal' /\ Path' /\ OnDisk' /\ Kept'
    BY <1>1, <1>3 DEF UpdateInv, PrevReal, Path, OnDisk, Kept
  <1>8. RunnerFiles'
    BY <1>3 DEF RunnerFiles
  <1>9. ResultTrue'
    BY <1>1, <1>2 DEF UpdateInv, ResultTrue, Whole
  <1> QED
    BY <1>2, <1>4, <1>5, <1>6, <1>7, <1>8, <1>9
    DEF UpdateInv, Undoable, Judged, Untouched, Started, Stale, WatchFiles

\* RunJob: the runner takes the lock and finds the files untouched, or leaves.
LEMMA RunnerAway ==
    ASSUME ~AtWork' PROVE Path' /\ OnDisk' /\ RunnerFiles'
  BY DEF AtWork, Path, OnDisk, RunnerFiles

LEMMA RunJobKeeps ==
    ASSUME UpdateInv, RunJob PROVE UpdateInv'
  <1>1. /\ TypeOK /\ ~AtWork /\ runner.pc = "lock" /\ runner.why = "none" /\ watch.pc # "try"
        /\ UNCHANGED <<live, prev, fwd, job, starter, panel, watch, health, jobs, faults, sound, lost>>
    BY DEF UpdateInv, OneWriter, RunJob, AtWork, disk, panelVars, ghosts
  <1>2. UNCHANGED <<Unfinished, Settling, Writing>>
    BY <1>1 DEF Unfinished, Settling, Writing
  <1>3. PrevReal' /\ Kept' /\ Undoable' /\ Started' /\ Stale' /\ WatchFiles' /\ ResultTrue'
    BY <1>1, <1>2
    DEF UpdateInv, PrevReal, Kept, Undoable, Started, Stale, WatchFiles, ResultTrue,
        Ready, WholeCopies, Whole, copiesIn
  <1>4. CASE runner' = idleRunner /\ UNCHANGED <<lock, fresh>>
    <2>1. runner' \in Runners /\ runner'.pc = "none" /\ runner'.id = 0 /\ runner'.why = "none"
          /\ ~AtWork'
      BY <1>4, Idle DEF AtWork
    <2>2. TypeOK'
      BY <1>1, <1>4, <2>1 DEF TypeOK
    <2>3. Named'
      BY <1>1, <1>2, <2>1, Bounds DEF UpdateInv, Named, RealJob, TypeOK
    <2>4. OneWriter'
      BY <1>1, <1>2, <1>4, <2>1 DEF UpdateInv, OneWriter
    <2>5. Judged' /\ Untouched'
      BY <1>1, <1>2, <2>1 DEF UpdateInv, Judged, Untouched, Whole
    <2> QED
      BY <1>3, <2>1, <2>2, <2>3, <2>4, <2>5, RunnerAway DEF UpdateInv
  <1>5. CASE /\ lock = "free" /\ waits /\ lock' = "runner" /\ fresh' = TRUE
             /\ GoOn(IF job.kind = "update" THEN "wipe" ELSE "read")
    <2> DEFINE pc == IF job.kind = "update" THEN "wipe" ELSE "read"
    <2>1. Moved(pc) /\ pc \in {"wipe", "read"} /\ (pc = "wipe" <=> job.kind = "update")
      BY <1>1, <1>5, Moves DEF RunnerPcs
    <2> HIDE DEF pc
    <2>2. job.phase = "runner" /\ job.id = runner.id /\ Unfinished
      BY <1>5 DEF waits, Unfinished
    <2>3. starter = "idle" /\ ~Settling /\ ~Writing /\ AtWork'
          /\ runner'.pc \notin {"none", "lock", "exit"}
      BY <1>1, <1>5, <2>1, <2>2 DEF UpdateInv, OneWriter, Settling, Writing, AtWork, Moved
    <2>4. TypeOK'
      BY <1>1, <1>5, <2>1 DEF TypeOK, Moved
    <2>5. Named'
      BY <1>1, <1>2, <2>1 DEF UpdateInv, Named, RealJob, Moved
    <2>6. OneWriter'
      BY <1>1, <1>2, <1>5, <2>1, <2>2, <2>3 DEF UpdateInv, OneWriter
    <2>7. sound => Whole(job.from)' /\ Whole(job.from)
      BY <1>1, <1>5, <2>2 DEF UpdateInv, Untouched, Whole
    <2>8. job.kind \in {"update", "rollback"} /\ job.from # job.to /\ job.from \in Versions
      BY <1>1, <2>2 DEF UpdateInv, Named, RealJob, TypeOK, Jobs
    <2>9. sound /\ job.kind = "rollback" => Ready'
      <3>1. sound => ~Whole(job.to)
        <4>1. Whole(job.to) => live["tool"] = job.to
          BY DEF Whole, Parts
        <4>2. sound => live["tool"] = job.from
          BY <2>7 DEF Whole, Parts
        <4> QED
          BY <2>8, <4>1, <4>2
      <3>2. sound /\ job.kind = "rollback" => Ready
        BY <2>2, <3>1 DEF UpdateInv, Undoable
      <3> QED
        BY <1>1, <3>2 DEF Ready, WholeCopies
    <2>10. Path' /\ OnDisk'
      BY <1>1, <2>1, <2>8 DEF Path, OnDisk, Moved
    <2>11. RunnerFiles'
      BY <1>1, <2>1, <2>7, <2>8, <2>9 DEF RunnerFiles, Moved
    <2>12. Judged' /\ Untouched'
      BY <1>1, <1>2, <2>1, <2>2 DEF UpdateInv, Judged, Untouched, Whole, Moved
    <2> QED
      BY <1>3, <2>4, <2>5, <2>6, <2>10, <2>11, <2>12 DEF UpdateInv
  <1> QED
    BY <1>4, <1>5 DEF RunJob

----------------------------------------------------------------------------
\* The panel's half of a job.

LEMMA NewJobKeeps ==
    ASSUME UpdateInv, NEW kind \in {"update", "rollback"}, NEW to \in Versions,
           NEW phase \in {"panel", "runner"}, NewJob(kind, to, phase),
           panel # to, kind = "update" => panel < to,
           kind = "rollback" => prev.set.by = panel /\ prev.set.version = to,
           IF kind = "update" THEN phase = "panel" /\ lock' = "panel" /\ starter' = "steps"
                              ELSE phase = "runner" /\ lock' = lock /\ starter' = "start",
           fresh' \in BOOLEAN
    PROVE  UpdateInv'
  <1>1. /\ TypeOK /\ panel # None /\ starter = "idle" /\ lock = "free" /\ ~Unfinished
        /\ jobs < MaxJobs /\ jobs' = jobs + 1
        /\ UNCHANGED <<live, prev, fwd, runner, panel, watch, health, faults>>
    BY DEF UpdateInv, NewJob, disk
  <1>2. panel \in Versions /\ jobs \in Nat /\ jobs' \in 0..MaxJobs
    BY <1>1, Bounds DEF TypeOK
  <1>3. /\ job' \in Jobs /\ job'.id = jobs + 1 /\ job'.kind = kind /\ job'.from = panel
        /\ job'.to = to /\ job'.phase = phase
    BY <1>1, <1>2, Bounds DEF NewJob, Jobs
  <1>4. sound' \in BOOLEAN /\ lost' \in BOOLEAN /\ (sound' => Whole(panel))
        /\ (sound' /\ kind = "rollback" => WholeCopies)
    BY DEF NewJob
  <1>5. ~AtWork /\ ~Writing /\ runner.why = "none" /\ runner.id <= jobs /\ watch.job.id <= jobs
    BY <1>1 DEF UpdateInv, OneWriter, Named
  <1>6. Unfinished' /\ ~AtWork' /\ ~Writing' /\ Settling' = Settling /\ runner.id \in Nat
        /\ watch.job.id \in Nat
    BY <1>1, <1>3, <1>5, Bounds
    DEF Unfinished, AtWork, Writing, Settling, TypeOK, Runners, Watches, Jobs
  <1>7. TypeOK'
    BY <1>1, <1>2, <1>3, <1>4 DEF TypeOK
  <1>8. Named'
    <2>1. RealJob(job') /\ job'.id > 0
      BY <1>2, <1>3 DEF RealJob
    <2>2. job'.id <= jobs' /\ runner'.id <= jobs' /\ watch'.job.id <= jobs'
      BY <1>1, <1>2, <1>3, <1>5, <1>6
    <2>3. Settling => RealJob(watch.job)' /\ watch'.job.phase # "done"
      BY <1>1 DEF UpdateInv, Named, RealJob
    <2> QED
      BY <1>6, <2>1, <2>2, <2>3 DEF Named, RealJob
  <1>9. OneWriter'
    BY <1>1, <1>2, <1>3, <1>5, <1>6 DEF OneWriter
  <1>10. PrevReal' /\ Kept'
    BY <1>1 DEF UpdateInv, PrevReal, Kept
  <1>11. sound' => /\ \A p \in Parts : live'[p] = job'.from
                   /\ Whole(job.from)' /\ (job'.kind = "rollback" => Ready')
    BY <1>1, <1>3, <1>4 DEF Whole, Ready, WholeCopies
  <1>12. Undoable' /\ Untouched'
    BY <1>3, <1>11 DEF Undoable, Untouched
  <1>13. Judged'
    BY <1>1, <1>3, <1>11 DEF Judged, Parts
  <1>14. Started'
    BY <1>1, <1>3, <1>6, <1>11 DEF Started
  <1>15. Stale'
    <2>1. Settling => /\ watch.job # job /\ panel = watch.job.from
                      /\ watch.job.kind = "rollback" => prev.set.by = panel
      BY <1>1 DEF UpdateInv, Stale, Named, Unfinished
    <2> QED
      BY <1>1, <1>3, <1>6, <1>11, <2>1 DEF Stale
  <1> QED
    BY <1>6, <1>7, <1>8, <1>9, <1>10, <1>12, <1>13, <1>14, <1>15, RunnerAway
    DEF UpdateInv, WatchFiles, ResultTrue

LEMMA ApplyKeeps ==
    ASSUME UpdateInv, NEW v \in Versions, Apply(v) PROVE UpdateInv'
  <1>1. panel # v /\ panel < v /\ NewJob("update", v, "panel") /\ lock' = "panel"
        /\ starter' = "steps"
    BY Bounds DEF UpdateInv, TypeOK, Apply
  <1>2. fresh' \in BOOLEAN
    BY DEF UpdateInv, TypeOK, Apply
  <1> QED
    BY <1>1, <1>2, NewJobKeeps

LEMMA RollbackKeeps ==
    ASSUME UpdateInv, Rollback PROVE UpdateInv'
  <1>1. /\ prev.set.version \in Versions /\ prev.set.by \in Versions
        /\ prev.set.by = panel /\ prev.set.version < prev.set.by
    BY DEF UpdateInv, PrevReal, Rollback, rollbackWindow
  <1>2. panel # prev.set.version
    BY <1>1 DEF Versions
  <1>3. NewJob("rollback", prev.set.version, "runner") /\ lock' = lock /\ starter' = "start"
        /\ fresh' \in BOOLEAN
    BY DEF Rollback
  <1> QED
    BY <1>1, <1>2, <1>3, NewJobKeeps

\* The panel ends the job it has started, or hands it over: the files are untouched.
LEMMA PanelStepsFailKeeps ==
    ASSUME UpdateInv, PanelStepsFail PROVE UpdateInv'
  <1>1. /\ TypeOK /\ starter = "steps" /\ lock' = "free" /\ starter' = "idle"
        /\ UNCHANGED <<live, prev, fwd, fresh, runner, panel, watch, health, jobs, faults, sound, lost>>
    BY DEF UpdateInv, PanelStepsFail, disk, ghosts
  <1>2. /\ job' \in Jobs /\ job'.id = job.id /\ job'.kind = job.kind /\ job'.from = job.from
        /\ job'.to = job.to /\ job'.phase = "done" /\ job'.result = "failed"
    BY <1>1, Ends DEF PanelStepsFail, TypeOK
  <1>3. ~AtWork /\ ~Writing /\ job.kind = "update" /\ lock = "panel"
    BY <1>1 DEF UpdateInv, OneWriter
  <1>4. panel = job.from /\ (sound => Whole(panel))
    BY <1>1 DEF UpdateInv, Started
  <1>5. ~Unfinished' /\ ~AtWork' /\ ~Writing' /\ Settling' = Settling
    BY <1>1, <1>2, <1>3 DEF Unfinished, AtWork, Writing, Settling
  <1>6. TypeOK'
    BY <1>1, <1>2 DEF TypeOK
  <1>7. Named'
    BY <1>1, <1>2, <1>5 DEF UpdateInv, Named, RealJob
  <1>8. OneWriter'
    BY <1>1, <1>5 DEF UpdateInv, OneWriter
  <1>9. PrevReal' /\ Kept'
    BY <1>1 DEF UpdateInv, PrevReal, Kept
  <1>10. Stale' /\ ResultTrue'
    BY <1>1, <1>2, <1>3, <1>4, <1>5 DEF UpdateInv, Stale, ResultTrue, Whole
  <1> QED
    BY <1>1, <1>5, <1>6, <1>7, <1>8, <1>9, <1>10, RunnerAway
    DEF UpdateInv, Undoable, Judged, Untouched, Started, WatchFiles

LEMMA HandOffKeeps ==
    ASSUME UpdateInv, HandOff PROVE UpdateInv'
  <1>1. /\ TypeOK /\ starter = "steps" /\ lock' = "free" /\ starter' = "start" /\ fresh' = TRUE
        /\ UNCHANGED <<live, prev, fwd, runner, panel, watch, health, jobs, faults, sound, lost>>
    BY DEF UpdateInv, HandOff, disk, ghosts
  <1>2. /\ job' \in Jobs /\ job'.id = job.id /\ job'.kind = job.kind /\ job'.from = job.from
        /\ job'.to = job.to /\ job'.phase = "runner"
    BY <1>1 DEF HandOff, TypeOK, Jobs
  <1>3. ~AtWork /\ ~Writing /\ job.kind = "update" /\ Unfinished
    BY <1>1 DEF UpdateInv, OneWriter, Unfinished
  <1>4. panel = job.from /\ (sound => Whole(panel))
    BY <1>1 DEF UpdateInv, Started
  <1>5. Unfinished' /\ ~AtWork' /\ ~Writing' /\ Settling' = Settling
    BY <1>1, <1>2, <1>3 DEF Unfinished, AtWork, Writing, Settling
  <1>6. TypeOK'
    BY <1>1, <1>2 DEF TypeOK
  <1>7. Named'
    BY <1>1, <1>2, <1>5 DEF UpdateInv, Named, RealJob
  <1>8. OneWriter'
    BY <1>1, <1>2, <1>3, <1>5 DEF UpdateInv, OneWriter
  <1>9. PrevReal' /\ Kept'
    BY <1>1 DEF UpdateInv, PrevReal, Kept
  <1>10. Undoable' /\ Judged'
    BY <1>1, <1>2, <1>3 DEF UpdateInv, Undoable, Judged, Whole
  <1>11. Untouched'
    BY <1>1, <1>2, <1>3 DEF UpdateInv, OneWriter, Untouched, waits
  <1>12. Started' /\ Stale'
    BY <1>1, <1>2, <1>3, <1>4, <1>5 DEF UpdateInv, Started, Stale, Whole
  <1> QED
    BY <1>5, <1>6, <1>7, <1>8, <1>9, <1>10, <1>11, <1>12, RunnerAway
    DEF UpdateInv, WatchFiles, ResultTrue

LEMMA StartRunnerKeeps ==
    ASSUME UpdateInv, StartRunner PROVE UpdateInv'
  <1>1. /\ TypeOK /\ starter = "start" /\ starter' = "idle" /\ runner.pc = "none"
        /\ UNCHANGED <<live, prev, fwd, job, fresh, lock, panel, health, jobs, faults, sound, lost>>
    BY DEF UpdateInv, StartRunner, disk, ghosts
  <1>2. /\ runner' \in Runners /\ runner'.pc = "lock" /\ runner'.id = job.id
        /\ runner'.why = "none"
    <2>1. runner' = [idleRunner EXCEPT !.pc = "lock", !.id = job.id] /\ job.id \in 0..MaxJobs
      BY <1>1 DEF StartRunner, TypeOK, Jobs
    <2> HIDE DEF idleRunner
    <2> QED
      BY <2>1, Idle DEF Runners, RunnerPcs
  <1>3. /\ watch' \in Watches /\ watch'.pc \in {watch.pc, "watching"}
        /\ watch' = watch \/ (watch.pc = "idle" /\ watch'.pc = "watching" /\ watch'.job.id = 0)
    <2>1. CASE watch.pc = "idle"
      <3>1. watch' = [idleWatch EXCEPT !.pc = "watching"]
        BY <2>1 DEF StartRunner, following
      <3>2. watch' \in Watches /\ watch'.pc = "watching" /\ watch'.job = NoJob
        BY <3>1, Idle DEF Watches
      <3> QED
        BY <2>1, <3>2, Idle
    <2>2. CASE watch.pc # "idle"
      BY <1>1, <2>2 DEF StartRunner, following, TypeOK
    <2> QED
      BY <2>1, <2>2
  <1>4. ~AtWork /\ panel # None /\ starter # "idle"
    BY <1>1 DEF UpdateInv, OneWriter, AtWork
  <1>5. ~AtWork' /\ Settling' = Settling /\ Writing' = Writing /\ (Settling => watch' = watch)
        /\ Unfinished' = Unfinished
    BY <1>1, <1>2, <1>3 DEF AtWork, Settling, Writing, Unfinished
  <1>6. panel = job.from /\ (sound => Whole(panel))
    BY <1>1 DEF UpdateInv, Started
  <1>7. TypeOK'
    BY <1>1, <1>2, <1>3 DEF TypeOK
  <1>8. Named'
    BY <1>1, <1>2, <1>3, <1>5, Bounds DEF UpdateInv, Named, RealJob, TypeOK
  <1>9. OneWriter'
    BY <1>1, <1>2, <1>4, <1>5 DEF UpdateInv, OneWriter
  <1>10. PrevReal' /\ Kept' /\ Undoable'
    BY <1>1, <1>5 DEF UpdateInv, PrevReal, Kept, Undoable, Ready, WholeCopies, Whole
  <1>11. Judged'
    BY <1>1, <1>2, <1>4, <1>5 DEF UpdateInv, OneWriter, Judged, Whole
  <1>12. Untouched'
    BY <1>1, <1>6 DEF Untouched, Whole
  <1>13. Stale' /\ WatchFiles'
    <2>1. Writing => Settling
      BY DEF Writing, Settling
    <2> QED
      BY <1>1, <1>5, <2>1 DEF UpdateInv, Stale, WatchFiles, Whole, copiesIn
  <1>14. Started' /\ ResultTrue'
    BY <1>1 DEF UpdateInv, Started, ResultTrue, Unfinished, Whole
  <1> QED
    BY <1>5, <1>7, <1>8, <1>9, <1>10, <1>11, <1>12, <1>13, <1>14, RunnerAway DEF UpdateInv

LEMMA StartRunnerFailsKeeps ==
    ASSUME UpdateInv, StartRunnerFails PROVE UpdateInv'
  <1>1. /\ TypeOK /\ starter = "start" /\ starter' = "idle" /\ (Fault \/ NoFault)
        /\ UNCHANGED <<live, prev, fwd, fresh, lock, runner, panel, watch, health, jobs, sound, lost>>
    BY DEF UpdateInv, StartRunnerFails, disk, ghosts
  <1>2. /\ job' \in Jobs /\ job'.id = job.id /\ job'.kind = job.kind /\ job'.from = job.from
        /\ job'.to = job.to
        /\ job' = job \/ (job'.phase = "done" /\ job'.result = "failed")
    BY <1>1, Ends DEF StartRunnerFails, TypeOK
  <1>3. ~AtWork /\ panel # None /\ runner.why = "none"
    BY <1>1 DEF UpdateInv, OneWriter, AtWork
  <1>4. /\ ~AtWork' /\ Settling' = Settling /\ Writing' = Writing
        /\ Unfinished' => job' = job /\ Unfinished
    BY <1>1, <1>2, <1>3 DEF AtWork, Settling, Writing, Unfinished
  <1>5. panel = job.from /\ (sound => Whole(panel))
        /\ (job.kind = "rollback" => prev.set.by = panel)
        /\ (~Unfinished => job.result # "ok")
    BY <1>1 DEF UpdateInv, Started
  <1>6. TypeOK'
    BY <1>1, <1>2, FaultType DEF TypeOK
  <1>7. Named'
    BY <1>1, <1>2, <1>4 DEF UpdateInv, Named, RealJob
  <1>8. OneWriter'
    BY <1>1, <1>3, <1>4 DEF UpdateInv, OneWriter
  <1>9. PrevReal' /\ Kept' /\ Undoable' /\ Judged' /\ Untouched'
    <2>1. PrevReal' /\ Kept'
      BY <1>1 DEF UpdateInv, PrevReal, Kept
    <2>2. CASE ~Unfinished'
      BY <2>1, <2>2 DEF Undoable, Judged, Untouched
    <2>3. CASE Unfinished'
      <3>1. job' = job /\ Unfinished
        BY <1>4, <2>3
      <3> QED
        BY <1>1, <2>1, <3>1
        DEF UpdateInv, Undoable, Judged, Untouched, Ready, WholeCopies, Whole, waits
    <2> QED
      BY <2>2, <2>3
  <1>10. Stale'
    <2>1. ~Unfinished' => job'.result # "ok"
      BY <1>2, <1>5 DEF Unfinished
    <2> QED
      BY <1>1, <1>2, <1>4, <1>5, <2>1 DEF UpdateInv, Stale, Whole
  <1>11. WatchFiles'
    BY <1>1, <1>2, <1>4 DEF UpdateInv, WatchFiles, Whole, copiesIn
  <1>12. Started' /\ ResultTrue'
    <2>1. ~Unfinished' => job'.result # "ok"
      BY <1>2, <1>5 DEF Unfinished
    <2> QED
      BY <1>1, <1>2, <1>5, <2>1 DEF Started, ResultTrue, Whole
  <1> QED
    BY <1>4, <1>6, <1>7, <1>8, <1>9, <1>10, <1>11, <1>12, RunnerAway DEF UpdateInv

----------------------------------------------------------------------------
\* The panel's watch over a job.

LEMMA FollowKeeps ==
    ASSUME UpdateInv, Follow PROVE UpdateInv'
  <1>1. /\ TypeOK /\ panel # None /\ watch.pc = "idle" /\ fresh' = TRUE
        /\ UNCHANGED <<live, prev, fwd, job, lock, runner, starter, panel, health, jobs, faults, sound, lost>>
    BY DEF UpdateInv, Follow, disk, ghosts
  <1>2. watch' \in Watches /\ watch'.pc = "watching" /\ watch'.job.id = 0
    <2>1. watch' = [idleWatch EXCEPT !.pc = "watching"]
      BY <1>1 DEF Follow, following
    <2>2. watch' \in Watches /\ watch'.pc = "watching" /\ watch'.job = NoJob
      BY <2>1, Idle DEF Watches
    <2> QED
      BY <2>2, Idle
  <1>3. ~Settling' /\ ~Writing' /\ ~Settling /\ ~Writing /\ AtWork' = AtWork
        /\ Unfinished' = Unfinished
    BY <1>1, <1>2 DEF Settling, Writing, AtWork, Unfinished
  <1>4. TypeOK'
    BY <1>1, <1>2 DEF TypeOK
  <1>5. Named'
    BY <1>1, <1>2, <1>3, Bounds DEF UpdateInv, Named, RealJob, TypeOK
  <1>6. OneWriter'
    BY <1>1, <1>2, <1>3 DEF UpdateInv, OneWriter
  <1>7. PrevReal' /\ Path' /\ OnDisk' /\ Kept'
    BY <1>1 DEF UpdateInv, PrevReal, Path, OnDisk, Kept, setOf
  <1>8. Undoable' /\ Judged' /\ Untouched' /\ Started' /\ ResultTrue'
    BY <1>1, <1>3
    DEF UpdateInv, Undoable, Judged, Untouched, Started, ResultTrue, Ready, WholeCopies, Whole,
        waits
  <1>9. RunnerFiles'
    BY <1>1 DEF UpdateInv, RunnerFiles, Ready, WholeCopies, Whole, Replaced, copiesIn
  <1> QED
    BY <1>3, <1>4, <1>5, <1>6, <1>7, <1>8, <1>9 DEF UpdateInv, Stale, WatchFiles

LEMMA SilenceKeeps ==
    ASSUME UpdateInv, Silence PROVE UpdateInv'
  <1>1. /\ TypeOK /\ fresh' = FALSE /\ ~AtWork
        /\ UNCHANGED <<live, prev, fwd, job, lock, runner, starter, panel, watch, health, jobs, faults, sound, lost>>
    BY DEF UpdateInv, Silence, disk, panelVars, ghosts
  <1>2. UNCHANGED <<Settling, Writing, AtWork, Unfinished>>
    BY <1>1 DEF Settling, Writing, AtWork, Unfinished
  <1>3. TypeOK' /\ Named'
    BY <1>1, <1>2 DEF UpdateInv, TypeOK, Named, RealJob
  <1>4. OneWriter'
    BY <1>1, <1>2 DEF UpdateInv, OneWriter
  <1>5. PrevReal' /\ Kept' /\ Undoable' /\ Judged' /\ Untouched' /\ Started' /\ ResultTrue'
    BY <1>1, <1>2
    DEF UpdateInv, PrevReal, Kept, Undoable, Judged, Untouched, Started, ResultTrue, Ready,
        WholeCopies, Whole, waits
  <1>6. Stale' /\ WatchFiles'
    BY <1>1, <1>2 DEF UpdateInv, Stale, WatchFiles, Whole, copiesIn
  <1> QED
    BY <1>1, <1>2, <1>3, <1>4, <1>5, <1>6, RunnerAway DEF UpdateInv

\* The watch moves, and nothing else.
LEMMA WatchMoves ==
    ASSUME UpdateInv,
           UNCHANGED <<live, prev, fwd, job, fresh, lock, runner, starter, panel, health, jobs, sound, lost>>,
           Fault \/ NoFault, watch' \in Watches, watch'.job.id <= jobs,
           watch'.pc # "idle" => panel # None,
           Writing' <=> Writing,
           Settling' => ~AtWork /\ RealJob(watch'.job) /\ watch'.job.phase # "done",
           Stale', WatchFiles'
    PROVE  UpdateInv'
  <1>1. UNCHANGED <<AtWork, Unfinished>>
    BY DEF AtWork, Unfinished
  <1>2. TypeOK'
    BY FaultType DEF UpdateInv, TypeOK
  <1>3. Named'
    BY <1>1 DEF UpdateInv, Named, RealJob
  <1>4. OneWriter'
    BY <1>1 DEF UpdateInv, OneWriter
  <1>5. PrevReal' /\ Path' /\ OnDisk' /\ Kept'
    BY DEF UpdateInv, PrevReal, Path, OnDisk, Kept, setOf
  <1>6. Undoable' /\ Judged' /\ Untouched' /\ Started' /\ ResultTrue'
    BY <1>1
    DEF UpdateInv, Undoable, Judged, Untouched, Started, ResultTrue, Ready, WholeCopies, Whole,
        waits
  <1>7. RunnerFiles'
    BY DEF UpdateInv, RunnerFiles, Ready, WholeCopies, Whole, Replaced, copiesIn
  <1> QED
    BY <1>2, <1>3, <1>4, <1>5, <1>6, <1>7 DEF UpdateInv

LEMMA WatchLooksKeeps ==
    ASSUME UpdateInv, WatchLooks PROVE UpdateInv'
  <1>1. /\ TypeOK /\ watch.pc = "watching" /\ (Fault \/ NoFault)
        /\ UNCHANGED <<live, prev, fwd, job, fresh, lock, runner, starter, panel, health, jobs, sound, lost>>
    BY DEF UpdateInv, WatchLooks, disk, ghosts, NoFault
  <1>2. ~Writing /\ panel # None
    BY <1>1 DEF UpdateInv, OneWriter, Writing
  <1>3. CASE watch' = idleWatch
    <2>1. /\ watch' \in Watches /\ watch'.pc = "idle" /\ watch'.job.id = 0
          /\ ~Settling' /\ ~Writing' /\ 0 <= jobs
      BY <1>1, <1>3, Idle, Bounds DEF Settling, Writing, TypeOK
    <2>2. Stale' /\ WatchFiles'
      BY <2>1 DEF Stale, WatchFiles
    <2> QED
      BY <1>1, <1>2, <2>1, <2>2, WatchMoves
  <1>4. CASE Unfinished /\ ~fresh /\ watch' = [watch EXCEPT !.pc = "try", !.job = job]
    <2>1. watch' \in Watches /\ watch'.pc = "try" /\ watch'.job = job /\ ~Writing'
      BY <1>1, <1>4 DEF TypeOK, Watches, Writing
    <2>2. ~AtWork /\ RealJob(job) /\ job.phase # "done" /\ job.id <= jobs
      BY <1>4 DEF UpdateInv, OneWriter, Named, Unfinished
    <2>3. Stale' /\ WatchFiles'
      BY <1>1, <2>1 DEF Stale, WatchFiles
    <2> QED
      BY <1>1, <1>2, <2>1, <2>2, <2>3, WatchMoves
  <1> QED
    BY <1>3, <1>4 DEF WatchLooks

\* The watch ends the job it has read: with it the files agree.
LEMMA SettlesKeeps ==
    ASSUME UpdateInv, Settling, ~AtWork, starter # "steps", NEW r \in {"ok", "failed", "rolled_back"},
           Settles(r), Less, watch.job.kind = "rollback" => prev' = prev,
           UNCHANGED <<fresh, runner, starter, panel, health, jobs, sound, lost>>, Fault \/ NoFault,
           sound => Whole(IF r = "ok" THEN watch.job.to ELSE watch.job.from),
           r = "ok" => panel = watch.job.to
    PROVE  UpdateInv'
  <1> DEFINE j == watch.job
  <1>1. TypeOK /\ live' = live /\ Kept' /\ PrevReal' /\ lock' = "free" /\ j \in Jobs
    BY LessKept DEF UpdateInv, Less, Settles, TypeOK, Watches
  <1>2. RealJob(j) /\ j.id <= jobs
    BY DEF UpdateInv, Named
  <1>3. /\ job' \in Jobs /\ job'.id = j.id /\ job'.kind = j.kind /\ job'.from = j.from
        /\ job'.to = j.to /\ job'.phase = "done" /\ job'.result = r
    BY <1>1, Ends DEF Settles
  <1>4. watch' \in Watches /\ watch'.pc = "idle" /\ watch'.job.id = 0 /\ ~Settling' /\ ~Writing'
    BY Idle DEF Settles, Settling, Writing
  <1>5. ~AtWork' /\ ~Unfinished'
    BY <1>3 DEF AtWork, Unfinished
  <1>6. TypeOK'
    BY <1>1, <1>3, <1>4, FaultType DEF TypeOK, Less
  <1>7. Named'
    BY <1>2, <1>3, <1>4, <1>5, Bounds DEF UpdateInv, Named, RealJob, TypeOK
  <1>8. OneWriter'
    BY <1>1, <1>3, <1>4, <1>5 DEF UpdateInv, OneWriter
  <1>9. starter # "idle" => panel = j.from /\ (j.kind = "rollback" => prev.set.by = panel)
    BY DEF UpdateInv, Stale, Started
  <1>10. ResultTrue'
    BY <1>1, <1>3 DEF ResultTrue, Whole
  <1>11. Started'
    <2>1. starter # "idle" => r # "ok"
      BY <1>2, <1>9 DEF RealJob
    <2> QED
      BY <1>1, <1>3, <1>9, <2>1 DEF Started, Whole
  <1> QED
    BY <1>1, <1>4, <1>5, <1>6, <1>7, <1>8, <1>10, <1>11, RunnerAway
    DEF UpdateInv, Undoable, Judged, Untouched, Stale, WatchFiles

LEMMA Nothing ==
    ASSUME TypeOK, UNCHANGED <<live, prev, fwd>> PROVE Less
  BY DEF TypeOK, Less

LEMMA WatchTriesKeeps ==
    ASSUME UpdateInv, WatchTries PROVE UpdateInv'
  <1>1. /\ TypeOK /\ watch.pc = "try" /\ (Fault \/ NoFault)
        /\ UNCHANGED <<live, prev, fwd, fresh, runner, starter, panel, health, jobs, sound, lost>>
    BY DEF UpdateInv, WatchTries, disk, ghosts, NoFault
  <1>2. CASE watch' = [watch EXCEPT !.pc = "watching"] /\ UNCHANGED <<job, lock>>
    <2>1. watch' \in Watches /\ watch'.pc = "watching" /\ watch'.job = watch.job
      BY <1>1, <1>2 DEF TypeOK, Watches
    <2>2. panel # None /\ watch.job.id <= jobs
      BY <1>1 DEF UpdateInv, OneWriter, Named
    <2>3. ~Settling' /\ ~Writing' /\ ~Writing
      BY <1>1, <2>1 DEF Settling, Writing
    <2>4. Stale' /\ WatchFiles'
      BY <2>3 DEF Stale, WatchFiles
    <2> QED
      BY <1>1, <1>2, <2>1, <2>2, <2>3, <2>4, WatchMoves
  <1>3. CASE lock = "free" /\ interrupted
    <2> DEFINE j == watch.job
    <2>1. /\ Settling /\ ~AtWork /\ ~Writing /\ starter # "steps" /\ panel # None
          /\ runner.why = "none"
          /\ RealJob(j) /\ j.phase # "done" /\ j \in Jobs /\ Less
      BY <1>1, <1>3, Nothing DEF UpdateInv, OneWriter, Named, Settling, Writing, TypeOK, Watches
    <2>2. j.phase \in {"panel", "runner"} /\ j.kind \in {"update", "rollback"}
          /\ j.from \in Versions /\ j.to \in Versions /\ j.from # j.to
      BY <2>1 DEF Jobs, RealJob
    <2>3. Unfinished \/ j # job
      BY <2>1 DEF Unfinished
    \* a job that is not the one on disk any more has not changed a file
    <2>4. j # job => /\ panel = j.from /\ panel = job.from /\ (sound => Whole(j.from))
                     /\ "rollback" \in {job.kind, j.kind} => prev.set.by = panel
      BY <2>1 DEF UpdateInv, Stale
    <2>5. CASE Settles("failed") /\ j.phase = "panel"
      <3>1. sound => Whole(j.from)
        BY <2>3, <2>4, <2>5 DEF UpdateInv, Untouched
      <3> QED
        BY <1>1, <2>1, <2>5, <3>1, SettlesKeeps
    <2>6. CASE Settles("ok") /\ j.phase # "panel" /\ panel = j.to
      <3>1. j = job
        BY <2>2, <2>4, <2>6
      <3>2. sound => Whole(j.to)
        BY <2>1, <2>3, <2>6, <3>1 DEF UpdateInv, Judged
      <3> QED
        BY <1>1, <2>1, <2>6, <3>2, SettlesKeeps
    <2>7. ASSUME j = job, sound, panel # j.to
          PROVE  IF j.kind = "update"
                 THEN \A p \in Parts :
                        \/ live[p] = j.from
                        \/ prev.set.by = j.to /\ p \in prev.set.covers
                           /\ prev.copies[p] = j.from
                 ELSE /\ prev.set.by = j.from
                      /\ \A p \in Parts :
                           \/ live[p] = j.from
                           \/ fwd.set.by = j.to /\ p \in fwd.set.covers
                              /\ fwd.copies[p] = j.from
      BY <2>1, <2>2, <2>3, <2>7 DEF UpdateInv, Undoable, Ready
    <2>8. CASE /\ Settles("failed") /\ j.phase # "panel" /\ panel # j.to
               /\ IF j.kind = "update" THEN prev.set.by # j.to ELSE fwd.set = NoSet
      <3>1. sound /\ j = job => Whole(j.from)
        <4>1. j.kind # "update" => fwd.set.by # j.to
          BY <2>2, <2>8, Idle, Bounds
        <4>2. sound /\ j = job => \A p \in Parts : live[p] = j.from
          BY <2>7, <2>8, <4>1
        <4> QED
          BY <1>1, <4>2 DEF Whole, TypeOK
      <3>2. sound => Whole(j.from)
        BY <2>4, <3>1
      <3> QED
        BY <1>1, <2>1, <2>8, <3>2, SettlesKeeps
    <2>9. ASSUME NEW src \in {"prev", "fwd"}, NEW covers \in SUBSET Parts, WatchPutBack(src, covers),
                 j.phase # "panel", panel # j.to,
                 src = IF j.kind = "update" THEN "prev" ELSE "fwd",
                 covers = IF j.kind = "update" THEN prev.set.covers ELSE fwd.set.covers,
                 j.kind = "update" => prev.set.by = j.to
          PROVE  UpdateInv'
      <3>1. /\ watch' \in Watches /\ watch'.pc = "back" /\ watch'.job = j /\ watch'.src = src
            /\ watch'.todo = covers /\ ~watch'.err /\ lock' = "panel" /\ job' = job
        BY <1>1, <2>9 DEF WatchPutBack, TypeOK, Watches
      <3>2. Settling' /\ Writing' /\ ~AtWork' /\ Unfinished' = Unfinished
        BY <1>1, <2>1, <3>1 DEF Settling, Writing, AtWork, Unfinished
      <3>3. TypeOK'
        BY <1>1, <3>1, FaultType DEF TypeOK
      <3>4. Named'
        BY <1>1, <2>1, <3>1, <3>2 DEF UpdateInv, Named, RealJob
      <3>5. OneWriter'
        BY <1>1, <1>3, <2>1, <3>1, <3>2 DEF UpdateInv, OneWriter
      <3>6. PrevReal' /\ Kept' /\ Undoable' /\ Judged' /\ Untouched' /\ Started' /\ ResultTrue'
        BY <1>1, <3>1, <3>2
        DEF UpdateInv, PrevReal, Kept, Undoable, Judged, Untouched, Started, ResultTrue,
            Ready, WholeCopies, Whole, waits
      <3>7. Stale'
        BY <1>1, <2>1, <3>1, <3>2 DEF UpdateInv, Stale, Whole
      <3>8. j.kind = "update" => job.kind = "update"
        BY <2>2, <2>4, <2>9, <1>1 DEF TypeOK, Jobs
      <3>9. sound => \A p \in Parts : live[p] = j.from \/ p \in covers
        <4>1. CASE j = job
          BY <2>7, <2>9, <4>1
        <4>2. CASE j # job
          BY <2>4, <4>2 DEF Whole
        <4> QED
          BY <4>1, <4>2
      <3>10. sound => \A p \in covers : copiesIn(src)[p] \in {None, j.from}
        <4>1. SUFFICES ASSUME sound, NEW p \in Parts, p \in covers
                       PROVE  copiesIn(src)[p] \in {None, j.from}
          BY <2>9
        <4>2. prev.set.by = (IF j.kind = "update" THEN j.to ELSE j.from)
          BY <2>2, <2>4, <2>7, <2>9, <4>1
        <4>3. /\ prev.copies[p] \in {None, live[p]} \/ live[p] = prev.set.by
              /\ \/ fwd.copies[p] \in {None, prev.set.by}
                 \/ live[p] = fwd.copies[p] /\ prev.copies[p] \in {None, live[p]}
          BY <2>2, <4>1, <4>2, Idle, Bounds DEF UpdateInv, Kept
        <4>4. live[p] = j.from \/ copiesIn(src)[p] = j.from
          <5>1. CASE j = job
            BY <2>7, <2>9, <4>1, <5>1 DEF copiesIn
          <5>2. CASE j # job
            BY <2>4, <4>1, <5>2 DEF Whole
          <5> QED
            BY <5>1, <5>2
        <4> QED
          BY <2>2, <2>9, <4>2, <4>3, <4>4 DEF copiesIn
      <3>11. WatchFiles'
        <4>1. copiesIn(src)' = copiesIn(src)
          BY <1>1 DEF copiesIn
        <4> QED
          BY <1>1, <2>2, <2>9, <3>1, <3>8, <3>9, <3>10, <4>1 DEF WatchFiles
      <3> QED
        BY <3>2, <3>3, <3>4, <3>5, <3>6, <3>7, <3>11, RunnerAway DEF UpdateInv
    <2>10. prev.set.covers \in SUBSET Parts /\ fwd.set.covers \in SUBSET Parts
      BY <1>1, SavedFields DEF TypeOK
    <2> QED
      BY <1>3, <2>2, <2>5, <2>6, <2>8, <2>9, <2>10 DEF interrupted
  <1> QED
    BY <1>2, <1>3 DEF WatchTries

LEMMA WatchPutsBackKeeps ==
    ASSUME UpdateInv, WatchPutsBack PROVE UpdateInv'
  <1>1. /\ TypeOK /\ watch.pc = "back" /\ watch.todo # {}
        /\ UNCHANGED <<job, fresh, lock, runner, starter, panel, health, jobs, lost>>
    BY DEF UpdateInv, WatchPutsBack
  <1> DEFINE j == watch.job
             l == lastOf(watch.todo)
  <1>2. /\ watch.todo \in SUBSET Parts /\ watch.src \in {"prev", "fwd"} /\ l \in watch.todo
        /\ l \in Parts
        /\ "binary" \in watch.todo => l = "binary"
    BY <1>1, LastOf DEF TypeOK, Watches
  <1>3. /\ Settling /\ Writing /\ ~AtWork /\ starter # "steps" /\ panel # None /\ lock = "panel"
        /\ runner.why = "none" /\ RealJob(j) /\ j.phase # "done"
    BY <1>1 DEF UpdateInv, OneWriter, Named, Settling, Writing
  <1>4. /\ panel # j.to /\ j.phase = "runner"
        /\ watch.src = IF j.kind = "update" THEN "prev" ELSE "fwd"
        /\ j.kind = "update" => job.kind = "update"
    BY <1>3 DEF UpdateInv, WatchFiles
  <1>5. sound => /\ ~watch.err
                 /\ \A p \in Parts : live[p] = j.from \/ p \in watch.todo
                 /\ \A p \in watch.todo : copiesIn(watch.src)[p] \in {None, j.from}
    BY <1>1, <1>3 DEF UpdateInv, WatchFiles
  <1>6. j # job => /\ panel = j.from /\ panel = job.from /\ (sound => Whole(j.from))
                   /\ ~Unfinished => job.result # "ok"
                   /\ "rollback" \in {job.kind, j.kind} => prev.set.by = panel
    BY <1>3 DEF UpdateInv, Stale
  <1>7. ASSUME NEW err \in BOOLEAN, watch' = [watch EXCEPT !.todo = @ \ {l}, !.err = err]
        PROVE  /\ watch' \in Watches /\ watch'.pc = "back" /\ watch'.job = j
               /\ watch'.src = watch.src
               /\ watch'.todo = watch.todo \ {l} /\ watch'.err = err
               /\ Settling' /\ Writing' /\ ~AtWork' /\ Unfinished' = Unfinished
    BY <1>1, <1>3, <1>7 DEF TypeOK, Watches, Settling, Writing, AtWork, Unfinished
  <1>8. ASSUME NEW err \in BOOLEAN, watch' = [watch EXCEPT !.todo = @ \ {l}, !.err = err]
        PROVE  Named' /\ OneWriter'
    <2>1. /\ watch'.job = j /\ watch'.pc = "back" /\ Settling' /\ Writing' /\ ~AtWork'
          /\ Unfinished' = Unfinished
      BY <1>7, <1>8
    <2>2. Named'
      BY <1>1, <1>3, <2>1 DEF UpdateInv, Named, RealJob
    <2>3. OneWriter'
      BY <1>1, <1>3, <2>1 DEF UpdateInv, OneWriter
    <2> QED
      BY <2>2, <2>3
  <1>9. CASE CannotPutBack(watch.src, watch.todo, TRUE)
             /\ watch' = [watch EXCEPT !.todo = @ \ {l}, !.err = TRUE]
    <2>1. UNCHANGED <<live, prev, fwd>> /\ (Fault \/ NoFault) /\ ~sound' /\ sound' \in BOOLEAN
      BY <1>9 DEF CannotPutBack, disk
    <2>2. /\ watch' \in Watches /\ watch'.pc = "back" /\ watch'.job = j
          /\ watch'.src = watch.src
          /\ ~AtWork' /\ Unfinished' = Unfinished /\ Settling'
      BY <1>7, <1>9
    <2>3. TypeOK'
      BY <1>1, <2>1, <2>2, FaultType DEF TypeOK
    <2>4. PrevReal' /\ Kept'
      BY <2>1 DEF UpdateInv, PrevReal, Kept
    <2>5. Undoable' /\ Judged' /\ Untouched' /\ ResultTrue'
      BY <2>1 DEF Undoable, Judged, Untouched, ResultTrue
    <2>6. Started'
      BY <1>1, <2>1, <2>2 DEF UpdateInv, Started
    <2>7. Stale'
      BY <1>1, <1>6, <2>1, <2>2 DEF Stale
    <2>8. WatchFiles'
      BY <1>1, <1>4, <2>1, <2>2 DEF WatchFiles
    <2> QED
      BY <1>8, <1>9, <2>2, <2>3, <2>4, <2>5, <2>6, <2>7, <2>8, RunnerAway DEF UpdateInv
  <1>10. CASE PutsBack(watch.src, watch.todo) /\ watch' = [watch EXCEPT !.todo = @ \ {l}]
    <2>1. /\ live' \in [Parts -> Versions] /\ UNCHANGED <<prev, fwd, sound, faults>> /\ Kept'
          /\ \A p \in Parts : live'[p] = IF p = l THEN copiesIn(watch.src)[p] ELSE live[p]
          /\ copiesIn(watch.src)[l] # None
      BY <1>1, <1>2, <1>10, PutsBackKept DEF PutsBack
    <2>2. watch' = [watch EXCEPT !.todo = @ \ {l}, !.err = watch.err] /\ watch.err \in BOOLEAN
      BY <1>1, <1>10 DEF TypeOK, Watches
    <2>3. /\ watch' \in Watches /\ watch'.pc = "back" /\ watch'.job = j
          /\ watch'.src = watch.src
          /\ watch'.todo = watch.todo \ {l} /\ watch'.err = watch.err
          /\ ~AtWork' /\ Unfinished' = Unfinished /\ Settling' /\ Named' /\ OneWriter'
      BY <1>7, <1>8, <2>2
    <2> HIDE DEF l
    <2>4. TypeOK'
      BY <1>1, <2>1, <2>3 DEF TypeOK
    <2>5. PrevReal'
      BY <2>1 DEF UpdateInv, PrevReal
    \* what is put back is of the version before
    <2>6. sound => /\ \A p \in Parts : live'[p] = IF p = l THEN j.from ELSE live[p]
                   /\ \A p \in Parts : live'[p] = j.from \/ p \in watch'.todo
      BY <1>2, <1>5, <2>1, <2>3
    <2>7. sound /\ Whole(j.from) => live' = live
      BY <1>1, <2>1, <2>6 DEF Whole, TypeOK
    <2>8. j = job => Unfinished
      BY <1>3 DEF Unfinished
    <2>9. Undoable'
      <3>1. CASE j # job
        <4>1. sound => \A p \in Parts : live'[p] = live[p] /\ live[p] = job.from
          BY <1>6, <2>7, <3>1 DEF Whole
        <4>2. sound /\ Unfinished /\ job.kind # "update" /\ ~Ready => FALSE
          <5>1. sound => live["tool"] = job.from
            BY <4>1 DEF Parts
          <5>2. Whole(job.to) => live["tool"] = job.to
            BY DEF Whole, Parts
          <5>3. Unfinished => job.from # job.to
            BY DEF UpdateInv, Named, RealJob
          <5> QED
            BY <5>1, <5>2, <5>3 DEF UpdateInv, Undoable
        <4> QED
          BY <1>1, <2>1, <2>3, <4>1, <4>2 DEF Undoable, Ready, WholeCopies
      <3>2. CASE j = job
        <4>1. sound /\ job.kind # "update" => Ready
          BY <1>3, <1>4, <2>8, <3>2 DEF UpdateInv, Undoable
        <4>2. sound => IF job.kind = "update"
                       THEN \A p \in Parts :
                              \/ live[p] = job.from
                              \/ prev.set.by = job.to /\ p \in prev.set.covers
                                 /\ prev.copies[p] = job.from
                       ELSE \A p \in Parts :
                              \/ live[p] = job.from
                              \/ fwd.set.by = job.to /\ p \in fwd.set.covers
                                 /\ fwd.copies[p] = job.from
          BY <1>3, <1>4, <2>8, <3>2 DEF UpdateInv, Undoable
        <4> QED
          BY <1>1, <2>1, <2>6, <3>2, <4>1, <4>2 DEF Undoable, Ready, WholeCopies
      <3> QED
        BY <3>1, <3>2
    <2>10. Judged'
      <3>1. CASE j # job
        BY <1>1, <1>6, <2>1, <2>3, <2>7, <3>1 DEF UpdateInv, Judged, Whole
      <3>2. CASE j = job
        <4>1. sound => live'["binary"] = j.from
          BY <1>2, <1>5, <2>6 DEF Parts
        <4> QED
          BY <1>1, <1>3, <1>4, <2>1, <3>2, <4>1 DEF Judged, RealJob
      <3> QED
        BY <3>1, <3>2
    <2>11. Untouched'
      <3>1. sound /\ Unfinished /\ (job.phase = "panel" \/ (runner.pc = "lock" /\ waits)) =>
              live' = live
        <4>1. j # job => (sound => live' = live)
          BY <1>6, <2>7
        <4>2. j = job => (sound /\ Unfinished /\ runner.pc = "lock" /\ waits => live' = live)
          BY <2>7 DEF UpdateInv, Untouched
        <4> QED
          BY <1>4, <4>1, <4>2
      <3> QED
        BY <1>1, <2>1, <2>3, <3>1 DEF UpdateInv, Untouched, waits, Whole
    <2>12. Started'
      <3>1. starter # "idle" /\ sound => Whole(j.from)
        BY <1>6 DEF UpdateInv, Started
      <3> QED
        BY <1>1, <2>1, <2>3, <2>7, <3>1 DEF UpdateInv, Started, Whole
    <2>13. Stale'
      BY <1>1, <1>6, <2>1, <2>3, <2>7 DEF Stale, Whole
    <2>14. WatchFiles'
      <3>1. copiesIn(watch.src)' = copiesIn(watch.src)
        BY <2>1, <2>3 DEF copiesIn
      <3> QED
        BY <1>1, <1>4, <1>5, <2>1, <2>3, <2>6, <3>1 DEF WatchFiles
    <2>15. ResultTrue'
      BY <1>1, <1>6, <2>1, <2>3, <2>7, <2>8 DEF UpdateInv, ResultTrue, Whole
    <2> QED
      BY <2>1, <2>3, <2>4, <2>5, <2>9, <2>10, <2>11, <2>12, <2>13, <2>14, <2>15, RunnerAway
      DEF UpdateInv
  <1> QED
    BY <1>9, <1>10 DEF WatchPutsBack

LEMMA WatchReloadsKeeps ==
    ASSUME UpdateInv, WatchReloads PROVE UpdateInv'
  <1>1. /\ TypeOK /\ watch.pc = "back" /\ watch.todo = {} /\ (Fault \/ NoFault)
        /\ UNCHANGED <<live, prev, fwd, fresh, runner, starter, panel, health, jobs, sound, lost>>
    BY DEF UpdateInv, WatchReloads, disk, ghosts
  <1>2. /\ Settling /\ Writing /\ ~AtWork /\ starter # "steps" /\ panel # None /\ Less
        /\ RealJob(watch.job) /\ watch.job.phase # "done" /\ watch.job.id <= jobs
    BY <1>1, Nothing DEF UpdateInv, OneWriter, Named, Settling, Writing
  <1>3. sound => Whole(watch.job.from)
    <2>1. sound => \A p \in Parts : live[p] = watch.job.from
      BY <1>1, <1>2 DEF UpdateInv, WatchFiles
    <2> QED
      BY <1>1, <2>1 DEF Whole, TypeOK
  <1>4. CASE Settles("failed")
    BY <1>1, <1>2, <1>3, <1>4, SettlesKeeps
  <1>5. CASE watch.job.kind # "rollback" /\ watch' = [watch EXCEPT !.pc = "drop"]
             /\ UNCHANGED <<job, lock>>
    <2>1. watch' \in Watches /\ watch'.pc = "drop" /\ watch'.job = watch.job
          /\ watch'.src = watch.src
          /\ Writing' /\ watch.job.kind = "update"
      BY <1>1, <1>5 DEF TypeOK, Watches, Writing, Jobs
    <2>2. Stale'
      BY <1>1, <1>2, <1>5, <2>1 DEF UpdateInv, Stale, Unfinished, Whole
    <2>3. WatchFiles'
      BY <1>1, <1>2, <1>3, <1>5, <2>1 DEF UpdateInv, WatchFiles, Whole
    <2> QED
      BY <1>1, <1>2, <1>5, <2>1, <2>2, <2>3, WatchMoves
  <1> QED
    BY <1>4, <1>5 DEF WatchReloads

LEMMA WatchDropsKeeps ==
    ASSUME UpdateInv, WatchDrops PROVE UpdateInv'
  <1>1. /\ TypeOK /\ watch.pc = "drop" /\ (Fault \/ NoFault)
        /\ UNCHANGED <<fresh, runner, starter, panel, health, jobs, faults, sound, lost>>
    BY DEF UpdateInv, WatchDrops, ghosts, NoFault
  <1>2. /\ Settling /\ Writing /\ ~AtWork /\ starter # "steps" /\ runner.why = "none"
        /\ watch.job.kind = "update" /\ job.kind = "update" /\ (sound => Whole(watch.job.from))
    BY <1>1 DEF UpdateInv, OneWriter, Settling, Writing, WatchFiles
  <1>3. Less /\ live' = live /\ Kept' /\ PrevReal'
    BY <1>1, Removing, LessKept DEF WatchDrops, Less
  <1>4. CASE Settles("rolled_back")
    BY <1>1, <1>2, <1>3, <1>4, SettlesKeeps
  <1>5. CASE UNCHANGED <<watch, job, lock>>
    <2>1. UNCHANGED <<AtWork, Unfinished, Settling, Writing>>
      BY <1>1, <1>5 DEF AtWork, Unfinished, Settling, Writing
    <2>2. TypeOK'
      BY <1>1, <1>3, <1>5 DEF TypeOK, Less
    <2>3. Named' /\ OneWriter'
      BY <1>1, <1>5, <2>1 DEF UpdateInv, Named, OneWriter, RealJob
    <2>4. Undoable'
      <3>1. sound => \A p \in Parts : live[p] = job.from
        BY <1>2 DEF UpdateInv, Stale, Whole
      <3> QED
        BY <1>1, <1>2, <1>3, <1>5, <3>1 DEF Undoable
    <2>5. Judged' /\ Untouched' /\ ResultTrue'
      BY <1>1, <1>3, <1>5, <2>1 DEF UpdateInv, Judged, Untouched, ResultTrue, Whole, waits
    <2>6. Started' /\ Stale'
      BY <1>1, <1>2, <1>3, <1>5, <2>1 DEF UpdateInv, Started, Stale, Whole
    <2>7. WatchFiles'
      BY <1>1, <1>2, <1>3, <1>5, <2>1 DEF UpdateInv, WatchFiles, Whole
    <2> QED
      BY <1>2, <1>3, <2>1, <2>2, <2>3, <2>4, <2>5, <2>6, <2>7, RunnerAway DEF UpdateInv
  <1> QED
    BY <1>4, <1>5 DEF WatchDrops

----------------------------------------------------------------------------
\* Deaths.

\* A process that is gone leaves the files and the job as they were.
LEMMA RunnerDiesKeeps ==
    ASSUME UpdateInv, RunnerDies PROVE UpdateInv'
  <1>1. /\ TypeOK /\ (Fault \/ NoFault) /\ runner' = idleRunner
        /\ lock' = IF lock = "runner" THEN "free" ELSE lock
        /\ UNCHANGED <<live, prev, fwd, job, fresh, starter, panel, watch, health, jobs>>
    BY DEF UpdateInv, RunnerDies, disk, panelVars
  <1>2. sound' \in BOOLEAN /\ lost' \in BOOLEAN /\ (sound' => sound /\ ~Misjudged)
    BY DEF RunnerDies
  <1>3. runner' \in Runners /\ runner'.pc = "none" /\ runner'.id = 0 /\ runner'.why = "none"
        /\ ~AtWork'
    BY <1>1, Idle DEF AtWork
  <1>4. UNCHANGED <<Unfinished, Settling, Writing>>
    BY <1>1 DEF Unfinished, Settling, Writing
  <1>5. TypeOK'
    BY <1>1, <1>2, <1>3, FaultType DEF TypeOK
  <1>6. Named'
    BY <1>1, <1>3, <1>4, Bounds DEF UpdateInv, Named, RealJob, TypeOK
  <1>7. OneWriter'
    BY <1>1, <1>3, <1>4 DEF UpdateInv, OneWriter
  <1>8. PrevReal' /\ Kept' /\ Undoable'
    BY <1>1, <1>2, <1>4 DEF UpdateInv, PrevReal, Kept, Undoable, Ready, WholeCopies, Whole
  <1>9. Judged'
    BY <1>1, <1>2, <1>4 DEF UpdateInv, Judged, Misjudged, Whole
  <1>10. Untouched' /\ Started' /\ Stale' /\ ResultTrue'
    BY <1>1, <1>2, <1>3, <1>4 DEF UpdateInv, Untouched, Started, Stale, ResultTrue, Whole
  <1>11. WatchFiles'
    BY <1>1, <1>2, <1>4 DEF UpdateInv, WatchFiles, Whole, copiesIn
  <1> QED
    BY <1>3, <1>5, <1>6, <1>7, <1>8, <1>9, <1>10, <1>11, RunnerAway DEF UpdateInv

LEMMA PanelDiesKeeps ==
    ASSUME UpdateInv, PanelDies PROVE UpdateInv'
  <1>1. /\ TypeOK /\ (Fault \/ NoFault) /\ panel' = None /\ starter' = "idle"
        /\ watch' = idleWatch
        /\ lock' = IF lock = "panel" THEN "free" ELSE lock
        /\ UNCHANGED <<live, prev, fwd, job, fresh, runner, health, jobs, sound, lost>>
    BY DEF UpdateInv, PanelDies, disk, ghosts
  <1>2. watch' \in Watches /\ watch'.pc = "idle" /\ watch'.job.id = 0 /\ ~Settling' /\ ~Writing'
    BY <1>1, Idle DEF Settling, Writing
  <1>3. UNCHANGED <<AtWork, Unfinished>>
    BY <1>1 DEF AtWork, Unfinished
  <1>4. Unfinished => job.to \in Versions
    BY DEF UpdateInv, Named, RealJob
  <1>5. TypeOK'
    BY <1>1, <1>2, FaultType, Bounds DEF TypeOK
  <1>6. Named'
    BY <1>1, <1>2, <1>3, Bounds DEF UpdateInv, Named, RealJob, TypeOK
  <1>7. OneWriter'
    BY <1>1, <1>2, <1>3 DEF UpdateInv, OneWriter
  <1>8. PrevReal' /\ Path' /\ OnDisk' /\ Kept'
    BY <1>1 DEF UpdateInv, PrevReal, Path, OnDisk, Kept, setOf
  <1>9. Undoable'
    BY <1>1, <1>3 DEF UpdateInv, Undoable, Ready, WholeCopies, Whole
  <1>10. Judged'
    BY <1>1, <1>3, <1>4, Bounds DEF UpdateInv, Judged, Whole
  <1>11. RunnerFiles'
    BY <1>1 DEF UpdateInv, RunnerFiles, Ready, WholeCopies, Whole, Replaced, copiesIn
  <1>12. Untouched' /\ ResultTrue'
    BY <1>1, <1>3 DEF UpdateInv, Untouched, ResultTrue, Whole, waits
  <1> QED
    BY <1>1, <1>2, <1>5, <1>6, <1>7, <1>8, <1>9, <1>10, <1>11, <1>12
    DEF UpdateInv, Started, Stale, WatchFiles

LEMMA RebootKeeps ==
    ASSUME UpdateInv, Reboot PROVE UpdateInv'
  <1>1. /\ TypeOK /\ (Fault \/ NoFault) /\ panel' = None /\ starter' = "idle"
        /\ watch' = idleWatch
        /\ runner' = idleRunner /\ lock' = "free"
        /\ UNCHANGED <<live, prev, fwd, job, fresh, health, jobs>>
    BY DEF UpdateInv, Reboot, disk
  <1>2. sound' \in BOOLEAN /\ lost' \in BOOLEAN /\ (sound' => sound /\ ~Misjudged)
    BY DEF Reboot
  <1>3. runner' \in Runners /\ runner'.pc = "none" /\ runner'.id = 0 /\ runner'.why = "none"
        /\ ~AtWork'
    BY <1>1, Idle DEF AtWork
  <1>4. watch' \in Watches /\ watch'.pc = "idle" /\ watch'.job.id = 0 /\ ~Settling' /\ ~Writing'
    BY <1>1, Idle DEF Settling, Writing
  <1>5. Unfinished' = Unfinished /\ (Unfinished => job.to \in Versions)
    BY <1>1 DEF UpdateInv, Named, RealJob, Unfinished
  <1>6. TypeOK'
    BY <1>1, <1>2, <1>3, <1>4, FaultType, Bounds DEF TypeOK
  <1>7. Named'
    BY <1>1, <1>3, <1>4, <1>5, Bounds DEF UpdateInv, Named, RealJob, TypeOK
  <1>8. OneWriter'
    BY <1>1, <1>3, <1>4 DEF OneWriter
  <1>9. PrevReal' /\ Kept' /\ Undoable'
    BY <1>1, <1>2, <1>5 DEF UpdateInv, PrevReal, Kept, Undoable, Ready, WholeCopies, Whole
  <1>10. Judged'
    BY <1>1, <1>2, <1>5, Bounds DEF UpdateInv, Judged, Misjudged, Whole
  <1>11. Untouched' /\ ResultTrue'
    BY <1>1, <1>2, <1>3, <1>5 DEF UpdateInv, Untouched, ResultTrue, Whole
  <1> QED
    BY <1>1, <1>3, <1>4, <1>6, <1>7, <1>8, <1>9, <1>10, <1>11, RunnerAway
    DEF UpdateInv, Started, Stale, WatchFiles

LEMMA PanelStartsKeeps ==
    ASSUME UpdateInv, PanelStarts PROVE UpdateInv'
  <1>1. /\ TypeOK /\ panel = None
        /\ UNCHANGED <<live, prev, fwd, job, fresh, lock, starter, runner, watch, health, jobs, faults, sound, lost>>
    BY DEF UpdateInv, PanelStarts, disk, ghosts
  <1>2. panel' = live["binary"] /\ panel' # None /\ panel' \in 0..MaxVersion
    BY <1>1, Booted DEF PanelStarts
  <1>3. watch.pc = "idle" /\ starter = "idle"
    BY <1>1 DEF UpdateInv, OneWriter
  <1>4. ~Settling /\ ~Writing /\ UNCHANGED <<AtWork, Unfinished, Settling, Writing>>
    BY <1>1, <1>3 DEF AtWork, Unfinished, Settling, Writing
  <1>5. TypeOK'
    BY <1>1, <1>2 DEF TypeOK
  <1>6. Named' /\ OneWriter'
    BY <1>1, <1>2, <1>3, <1>4 DEF UpdateInv, Named, OneWriter, RealJob
  <1>7. PrevReal' /\ Path' /\ OnDisk' /\ Kept'
    BY <1>1 DEF UpdateInv, PrevReal, Path, OnDisk, Kept, setOf
  <1>8. \A v : Whole(v) => live["binary"] = v
    BY DEF Whole, Parts
  <1>9. Undoable'
    <2>1. Undoable /\ Ready' = Ready /\ Whole(job.to)' = Whole(job.to)
      BY <1>1 DEF UpdateInv, Ready, WholeCopies, Whole
    <2> QED
      BY <1>1, <1>2, <1>4, <1>8, <2>1 DEF Undoable
  <1>10. Judged'
    BY <1>1, <1>2, <1>4 DEF UpdateInv, Judged, Whole
  <1>11. RunnerFiles'
    <2>1. runner.pc \in {"drop", "finish"} /\ runner.why = "rollback" /\ sound =>
            panel' = job.to
      BY <1>2, <1>8 DEF UpdateInv, RunnerFiles
    <2> QED
      BY <1>1, <1>2, <2>1
      DEF UpdateInv, RunnerFiles, Ready, WholeCopies, Whole, Replaced, copiesIn
  <1>12. Untouched' /\ ResultTrue'
    BY <1>1, <1>4 DEF UpdateInv, Untouched, ResultTrue, Whole, waits
  <1> QED
    BY <1>1, <1>3, <1>4, <1>5, <1>6, <1>7, <1>9, <1>10, <1>11, <1>12
    DEF UpdateInv, Started, Stale, WatchFiles

----------------------------------------------------------------------------
LEMMA UpdateInit ==
    Init => UpdateInv
  <1> SUFFICES ASSUME Init PROVE UpdateInv
    OBVIOUS
  <1>1. /\ live = [p \in Parts |-> 1] /\ prev = Empty /\ fwd = Empty /\ job = NoJob
        /\ lock = "free"
        /\ fresh = FALSE /\ starter = "idle" /\ runner = idleRunner /\ panel = 1
        /\ watch = idleWatch
        /\ health \in [Versions -> {"good", "sick", "dead"}] /\ jobs = 0 /\ faults = 0
        /\ sound = TRUE /\ lost = FALSE
    BY DEF Init
  <1>2. ~AtWork /\ ~Settling /\ ~Writing /\ ~Unfinished
    BY <1>1, Idle DEF AtWork, Settling, Writing, Unfinished
  <1>3. TypeOK
    BY <1>1, Idle, Bounds DEF TypeOK
  <1>4. Named /\ OneWriter
    BY <1>1, <1>2, Idle, Bounds DEF Named, OneWriter
  <1>5. PrevReal /\ Kept /\ Path /\ OnDisk /\ RunnerFiles
    BY <1>1, Idle DEF PrevReal, Kept, Path, OnDisk, RunnerFiles
  <1>6. ResultTrue
    BY <1>1, Idle DEF ResultTrue
  <1> QED
    BY <1>1, <1>2, <1>3, <1>4, <1>5, <1>6
    DEF UpdateInv, Undoable, Judged, Untouched, Started, Stale, WatchFiles

\* What does not move keeps the invariant.
LEMMA UpdateStutters ==
    ASSUME UpdateInv, UNCHANGED vars PROVE UpdateInv'
  <1>1. /\ UNCHANGED <<live, prev, fwd, job, fresh, lock, runner, starter, panel, watch>>
        /\ UNCHANGED <<health, jobs, faults, sound, lost>>
    BY DEF vars, disk, panelVars, ghosts
  <1>2. UNCHANGED <<AtWork, Unfinished, Settling, Writing>>
    BY <1>1 DEF AtWork, Unfinished, Settling, Writing
  <1>3. TypeOK' /\ Named' /\ OneWriter'
    BY <1>1, <1>2 DEF UpdateInv, TypeOK, Named, OneWriter, RealJob
  <1>4. PrevReal' /\ Path' /\ OnDisk' /\ Kept'
    BY <1>1 DEF UpdateInv, PrevReal, Path, OnDisk, Kept, setOf
  <1>5. Undoable' /\ Judged' /\ Untouched' /\ Started' /\ ResultTrue'
    BY <1>1, <1>2
    DEF UpdateInv, Undoable, Judged, Untouched, Started, ResultTrue, Ready, WholeCopies, Whole,
        waits
  <1>6. RunnerFiles'
    BY <1>1 DEF UpdateInv, RunnerFiles, Ready, WholeCopies, Whole, Replaced, copiesIn
  <1>7. Stale' /\ WatchFiles'
    BY <1>1, <1>2 DEF UpdateInv, Stale, WatchFiles, Whole, copiesIn
  <1> QED
    BY <1>3, <1>4, <1>5, <1>6, <1>7 DEF UpdateInv

LEMMA UpdateSteps ==
    ASSUME UpdateInv, [Next]_vars PROVE UpdateInv'
  <1>1. CASE UNCHANGED vars
    BY <1>1, UpdateStutters
  <1>2. CASE RunnerSteps
    <2>1. CASE RunJob \/ Wipe \/ SaveSystem \/ WriteSystem \/ UpdateSystem \/ Save
      BY <2>1, RunJobKeeps, WipeKeeps, SaveSystemKeeps, WriteSystemKeeps, UpdateSystemKeeps,
         SaveKeeps
    <2>2. CASE WriteSet \/ installFile \/ ReadSet \/ SaveForward \/ WriteForward \/ Restart
      BY <2>2, WriteSetKeeps, InstallKeeps, ReadSetKeeps, SaveForwardKeeps, WriteForwardKeeps,
         RestartKeeps
    <2>3. CASE trial \/ RunnerPutsBack \/ DaemonReload \/ Drop \/ Finish \/ Exit
      BY <2>3, TrialKeeps, RunnerPutsBackKeeps, DaemonReloadKeeps, DropKeeps, FinishKeeps,
         ExitKeeps
    <2> QED
      BY <1>2, <2>1, <2>2, <2>3 DEF RunnerSteps
  <1>3. CASE Follow \/ Silence \/ WatchSteps
    BY <1>3, FollowKeeps, SilenceKeeps, WatchLooksKeeps, WatchTriesKeeps, WatchPutsBackKeeps,
       WatchReloadsKeeps, WatchDropsKeeps DEF WatchSteps
  <1>4. CASE RunnerDies \/ PanelDies \/ Reboot \/ PanelStarts
    BY <1>4, RunnerDiesKeeps, PanelDiesKeeps, RebootKeeps, PanelStartsKeeps
  <1>5. CASE \E v \in Versions : Apply(v)
    BY <1>5, ApplyKeeps
  <1>6. CASE Rollback \/ PanelStepsFail \/ HandOff \/ StartRunner \/ StartRunnerFails
    BY <1>6, RollbackKeeps, PanelStepsFailKeeps, HandOffKeeps, StartRunnerKeeps,
       StartRunnerFailsKeeps
  <1> QED
    BY <1>1, <1>2, <1>3, <1>4, <1>5, <1>6 DEF Next

\* The invariant holds whatever fails and whoever dies: of every number of jobs, versions
\* and faults.
THEOREM UpdateInvariance ==
    Spec => []UpdateInv
  BY UpdateInit, UpdateSteps, PTL DEF Spec

\* The result of a job is what happened (domain/update.go:31-33), whether the runner, the
\* panel or the watch of a later panel finished it.
THEOREM TrueResult ==
    Spec => []ResultTrue
  <1>1. UpdateInv => ResultTrue
    BY DEF UpdateInv
  <1> QED
    BY <1>1, UpdateInvariance, PTL

\* At every moment of a job what it has replaced can be put back from the disk alone
\* (runner.go, swap.go): the copy is named, covered and of the version before.
THEOREM AlwaysUndoable ==
    Spec => []UndoKept
  <1>1. UpdateInv => UndoKept
    <2> SUFFICES ASSUME UpdateInv, Unfinished, sound, NEW p \in Parts, live[p] # job.from,
                        job.kind = "rollback" => ~Whole(job.to)
                 PROVE  LET undo == IF job.kind = "update" THEN prev ELSE fwd
                        IN  undo.set.by = job.to /\ p \in undo.set.covers
                        /\ undo.copies[p] = job.from
      BY DEF UndoKept
    <2>1. job.kind \in {"update", "rollback"}
      BY DEF UpdateInv, TypeOK, Jobs
    <2> QED
      BY <2>1 DEF UpdateInv, Undoable
  <1> QED
    BY <1>1, UpdateInvariance, PTL
====
