----------------------------- MODULE JobEngine -----------------------------
(***************************************************************************)
(* The background-job engine of the remote-nodes plugin                    *)
(* (src/internal/remotenodes/jobs).  Every method of Engine and Run takes  *)
(* the engine's one mutex, so each is one action here; what runs between   *)
(* two of them, a reader taking a value off its channel, a job's goroutine *)
(* ending, the caller of Close waiting, is an action of its own.           *)
(*                                                                         *)
(* A member of Jobs is a job object and its id at once: newID never hands  *)
(* out the id of a remembered job, and the model never reuses one.  The    *)
(* code's order slice holds the jobs of byID sorted by start; the two are  *)
(* always changed together and only byID is kept here.  A step's key, the  *)
(* kind, the target, the install form and the start time of a job never    *)
(* change after Start and are left out.                                    *)
(***************************************************************************)
EXTENDS Naturals, FiniteSets

CONSTANTS
    Jobs,       \* job objects, one for every successful Start
    Nodes,      \* node ids other than zero
    Followers,  \* readers: each holds at most one channel at a time
    StepNames,  \* names of steps, longer names already clipped
    MaxSteps,   \* how many steps a job may hold
    Keep,       \* how many finished jobs are remembered
    MaxAge,     \* and for how long after they ended
    MaxNow,     \* bound on the clock
    NoNode,     \* node id zero: a job that works on no node
    NoJob       \* nil

ASSUME EngineAssumption ==
    /\ Keep \in Nat \ {0}
    /\ MaxAge \in Nat \ {0}
    /\ MaxSteps \in Nat \ {0}
    /\ MaxNow \in Nat
    /\ NoNode \notin Nodes
    /\ NoJob \notin Jobs
    /\ IsFiniteSet(Jobs)

VARIABLES
    closed,    \* Close has been called
    closer,    \* the caller of Close
    wg,        \* the WaitGroup: goroutines that have not called Done
    leaving,   \* goroutines past finish and not yet past wg.Done
    now,       \* the clock
    ended,     \* jobs finished so far
    byID,      \* every job still remembered
    onNode,    \* the running job of each node that has one
    view,      \* what the page sees of each job
    hide,      \* the job still holds the hider of its secrets
    finished,  \* when the job ended
    endSeq,    \* 1 for the first job to end, and so on
    subs,      \* who is following the job, until it ends
    chan       \* the channel each follower holds, and what it last read

engineVars == <<closed, closer, wg, leaving>>
jobVars == <<view, hide, finished, endSeq, ended, onNode>>
chanVars == <<subs, chan>>
vars == <<engineVars, jobVars, chanVars, now, byID>>

----------------------------------------------------------------------------
(* Data *)

StepStates == {"pending", "running", "ok", "failed"}

\* What a text that reaches the engine may hold: nothing, ordinary words, or
\* one of the job's secrets among the words.
Texts == {"", "plain", "secret"}

Step == [state : StepStates, detail : Texts]

StepMaps == UNION {[S -> Step] : S \in SUBSET StepNames}

View == [node : Nodes \cup {NoNode}, state : {"none", "running", "ok", "failed"},
         steps : StepMaps, error : Texts]

NoView == [node |-> NoNode, state |-> "none", steps |-> <<>>, error |-> ""]

\* A channel with room for one value: while it is full, value is what waits in
\* it, and once it is empty, value is what its reader took from it last.
Channel == [phase : {"idle", "following", "done"}, job : Jobs \cup {NoJob},
            full : BOOLEAN, value : View,
            closed : BOOLEAN, cancelled : BOOLEAN]

NoChannel == [phase |-> "idle", job |-> NoJob, full |-> FALSE, value |-> NoView,
              closed |-> FALSE, cancelled |-> FALSE]

Over(v) == v.state \in {"ok", "failed"}

Running == {j \in Jobs : view[j].state = "running"}

\* job.text: the secrets are taken out while the job has its hider.
text(j, t) == IF hide[j] /\ t = "secret" THEN "plain" ELSE t

----------------------------------------------------------------------------
(* Helpers that run with the engine's lock held *)

\* (mutant of Newest: sorted the other way)
NewestReversed(F, seq) == {j \in F : Cardinality({k \in F : seq[k] < seq[j]}) < Keep}

\* The Keep jobs of F that ended last.
Newest(F, seq) == {j \in F : Cardinality({k \in F : seq[k] > seq[j]}) < Keep}

\* prune: running jobs stay; finished ones go when too old, then all but the
\* newest Keep.  ids, v, fin and seq are the engine's fields as the caller
\* leaves them.
prune(ids, v, fin, seq) ==
    {j \in ids : v[j].state = "running"}
      \cup Newest({j \in ids : v[j].state # "running" /\ now - fin[j] =< MaxAge}, seq)

\* (mutants of send: skipped while a value waits; after the close; no close)
sendIfEmpty(c, v) ==
    [c EXCEPT !.full = TRUE, !.closed = Over(v), !.value = IF c.full THEN @ ELSE v]
sendAfterClose(c, v) ==
    IF Over(v) THEN [c EXCEPT !.closed = TRUE] ELSE [c EXCEPT !.full = TRUE, !.value = v]
sendNoClose(c, v) == [c EXCEPT !.full = TRUE, !.value = v]

\* What one follower's channel is after publish: the newest view takes the place
\* of one nobody has read, and the final one is followed by the close.
send(c, v) == [c EXCEPT !.full = TRUE, !.value = v, !.closed = Over(v)]

\* publish: everyone following the job gets it, and a job that is over forgets
\* its followers.
publish(j, v) ==
    /\ chan' = [f \in Followers |-> IF f \in subs[j] THEN send(chan[f], v) ELSE chan[f]]
    /\ subs' = IF Over(v) THEN [subs EXCEPT ![j] = {}] ELSE subs

\* Job.step: the steps with the named one in them, added as pending when it is
\* new and there is room.
step(steps, s) ==
    IF s \in DOMAIN steps \/ Cardinality(DOMAIN steps) >= MaxSteps THEN steps
    ELSE [n \in DOMAIN steps \cup {s} |->
            IF n \in DOMAIN steps THEN steps[n] ELSE [state |-> "pending", detail |-> ""]]

----------------------------------------------------------------------------
(* Engine *)

\* New
Init ==
    /\ closed = FALSE
    /\ closer = "idle"
    /\ wg = 0
    /\ leaving = 0
    /\ now = 0
    /\ ended = 0
    /\ byID = {}
    /\ onNode = [n \in Nodes |-> NoJob]
    /\ view = [j \in Jobs |-> NoView]
    /\ hide = [j \in Jobs |-> FALSE]
    /\ finished = [j \in Jobs |-> 0]
    /\ endSeq = [j \in Jobs |-> 0]
    /\ subs = [j \in Jobs |-> {}]
    /\ chan = [f \in Followers |-> NoChannel]

\* (mutants of accepts and busy: the check is missing)
acceptsClosed == TRUE
neverBusy(n) == FALSE

\* Start refuses once the engine is closed, and a node with a job running.
accepts == ~closed

busy(n) == n \in Nodes /\ onNode[n] # NoJob

\* Start, for a call that is not refused: a closed engine, and a node with a
\* job running, answer an error and change nothing.
Start(j, n, plan) ==
    /\ accepts
    /\ ~busy(n)
    /\ view[j].state = "none"
    /\ Cardinality(plan) =< MaxSteps     \* plan has cut what is beyond it
    /\ view' = [view EXCEPT ![j] = [node |-> n, state |-> "running",
                                    steps |-> [s \in plan |-> [state |-> "pending", detail |-> ""]],
                                    error |-> ""]]
    /\ hide' = [hide EXCEPT ![j] = TRUE]
    /\ onNode' = IF n \in Nodes THEN [onNode EXCEPT ![n] = j] ELSE onNode
    /\ byID' = prune(byID \cup {j}, view', finished, endSeq)
    /\ wg' = wg + 1
    /\ UNCHANGED <<closed, closer, leaving, now, ended, finished, endSeq, chanVars>>

\* (mutant of reports: a late call is applied)
reportsLate(j) == view[j].state # "none"

\* A report counts while the job runs.
reports(j) == view[j].state = "running"

\* Run.change: x is the step as the report leaves it.  A report on a job that
\* is over, or of a step there is no room for, does nothing; followers hear of
\* a change only.
change(j, s, x) ==
    LET all == step(view[j].steps, s)
        new == [view[j] EXCEPT !.steps = [all EXCEPT ![s] = x]]
    IN  /\ reports(j)
        /\ s \in DOMAIN all
        /\ new # view[j]
        /\ view' = [view EXCEPT ![j] = new]
        /\ publish(j, new)
        /\ UNCHANGED <<engineVars, now, byID, hide, finished, endSeq, ended, onNode>>

stepOf(j, s) == step(view[j].steps, s)[s]

Begin(j, s) == change(j, s, [stepOf(j, s) EXCEPT !.state = "running"])

Done(j, s) == change(j, s, [stepOf(j, s) EXCEPT !.state = "ok"])

Detail(j, s, t) == change(j, s, [stepOf(j, s) EXCEPT !.detail = text(j, t)])

Fail(j, s, t) == change(j, s, [state |-> "failed", detail |-> text(j, t)])

Set(j, s, st, t) == change(j, s, [state |-> st, detail |-> text(j, t)])

\* How finish leaves a step: one still running is closed the way the job ends.
closeStep(x, ok, t) ==
    IF x.state # "running" THEN x
    ELSE IF ok THEN [x EXCEPT !.state = "ok"]
    ELSE [state |-> "failed", detail |-> t]

\* The view finish leaves, when fn's result is ok or an error whose text is t.
\* Steps a good job never reached are dropped; a bad one keeps them.
finalView(j, ok, t) ==
    LET old   == view[j].steps
        kept  == {s \in DOMAIN old : ~ok \/ old[s].state # "pending"}
        shown == IF ok THEN "" ELSE text(j, t)
    IN  [node |-> view[j].node, state |-> IF ok THEN "ok" ELSE "failed",
         steps |-> [s \in kept |-> closeStep(old[s], ok, shown)], error |-> shown]

\* finish, at the end of run.  A panic and a Goexit end the job with an error,
\* the plain words of errInternal.
finish(j, ok, t) ==
    LET new == finalView(j, ok, t)
    IN  /\ view[j].state = "running"
        /\ view' = [view EXCEPT ![j] = new]
        /\ finished' = [finished EXCEPT ![j] = now]
        /\ hide' = [hide EXCEPT ![j] = FALSE]
        /\ ended' = ended + 1
        /\ endSeq' = [endSeq EXCEPT ![j] = ended + 1]
        /\ onNode' = [n \in Nodes |-> IF n = new.node /\ onNode[n] = j THEN NoJob ELSE onNode[n]]
        /\ publish(j, new)
        /\ byID' = prune(byID, view', finished', endSeq')
        /\ leaving' = leaving + 1
        /\ UNCHANGED <<closed, closer, wg, now>>

\* wg.Done takes one off the WaitGroup.
taken == wg - 1

\* The deferred wg.Done of a goroutine that is past finish.
wgDone ==
    /\ leaving > 0
    /\ leaving' = leaving - 1
    /\ wg' = taken
    /\ UNCHANGED <<closed, closer, now, byID, jobVars, chanVars>>

\* Get, and List: both prune before they answer.
Get ==
    /\ byID' = prune(byID, view, finished, endSeq)
    /\ UNCHANGED <<engineVars, now, jobVars, chanVars>>

\* Close takes the lock, sets closed and ends the jobs' context, then waits.
Close ==
    /\ closer = "idle"
    /\ closed' = TRUE
    /\ closer' = "waiting"
    /\ UNCHANGED <<wg, leaving, now, byID, jobVars, chanVars>>

\* The wait ends: every goroutine is done ...
CloseIdle ==
    /\ closer = "waiting"
    /\ wg = 0
    /\ closer' = "nil"
    /\ UNCHANGED <<closed, wg, leaving, now, byID, jobVars, chanVars>>

\* ... or the caller's context has ended first.
CloseGivesUp ==
    /\ closer = "waiting"
    /\ closer' = "ctx"
    /\ UNCHANGED <<closed, wg, leaving, now, byID, jobVars, chanVars>>

----------------------------------------------------------------------------
(* Followers *)

\* Subscribe, to a job that prune has left; any other answers ok = false.
Subscribe(f, j) ==
    LET ids == prune(byID, view, finished, endSeq)
    IN  /\ chan[f].phase # "following"
        /\ byID' = ids
        /\ j \in ids
        /\ chan' = [chan EXCEPT ![f] = [phase |-> "following", job |-> j,
                                        full |-> TRUE, value |-> view[j],
                                        closed |-> Over(view[j]), cancelled |-> FALSE]]
        /\ subs' = IF Over(view[j]) THEN subs ELSE [subs EXCEPT ![j] = @ \cup {f}]
        /\ UNCHANGED <<engineVars, now, jobVars>>

\* cancel: unsubscribe closes the channel unless finish has; the reader is gone.
unsubscribe(f) ==
    /\ chan[f].phase = "following"
    /\ chan' = [chan EXCEPT ![f].phase = "done", ![f].closed = TRUE, ![f].cancelled = TRUE]
    /\ subs' = [subs EXCEPT ![chan[f].job] = @ \ {f}]
    /\ UNCHANGED <<engineVars, now, byID, jobVars>>

\* A follower receives a value.
Receive(f) ==
    /\ chan[f].phase = "following"
    /\ chan[f].full
    /\ chan' = [chan EXCEPT ![f].full = FALSE]
    /\ UNCHANGED <<engineVars, now, byID, jobVars, subs>>

\* A follower finds its channel closed and empty.
ReceiveClosed(f) ==
    /\ chan[f].phase = "following"
    /\ ~chan[f].full
    /\ chan[f].closed
    /\ chan' = [chan EXCEPT ![f].phase = "done"]
    /\ UNCHANGED <<engineVars, now, byID, jobVars, subs>>

Tick ==
    /\ now < MaxNow
    /\ now' = now + 1
    /\ UNCHANGED <<engineVars, byID, jobVars, chanVars>>

Next ==
    \/ \E j \in Jobs, n \in Nodes \cup {NoNode}, plan \in SUBSET StepNames : Start(j, n, plan)
    \/ \E j \in Jobs, s \in StepNames : Begin(j, s) \/ Done(j, s)
    \/ \E j \in Jobs, s \in StepNames, t \in Texts : Detail(j, s, t) \/ Fail(j, s, t)
    \/ \E j \in Jobs, s \in StepNames, st \in StepStates, t \in Texts : Set(j, s, st, t)
    \/ \E j \in Jobs : finish(j, TRUE, "")
    \/ \E j \in Jobs, t \in Texts : finish(j, FALSE, t)
    \/ wgDone
    \/ Get
    \/ Close
    \/ CloseIdle
    \/ CloseGivesUp
    \/ \E f \in Followers, j \in Jobs : Subscribe(f, j)
    \/ \E f \in Followers : unsubscribe(f) \/ Receive(f) \/ ReceiveClosed(f)
    \/ Tick

Spec == Init /\ [][Next]_vars

\* What the code's scheduling guarantees: a goroutine past finish reaches its
\* deferred wg.Done, the goroutine that waits for the WaitGroup is woken, and a
\* reader keeps reading.  That a job's function returns once Close has ended its
\* context is the contract of the functions given to Start.
Fairness ==
    /\ WF_vars(wgDone)
    /\ WF_vars(CloseIdle)
    /\ \A f \in Followers : WF_vars(Receive(f)) /\ WF_vars(ReceiveClosed(f))
    /\ \A j \in Jobs : WF_vars(closed /\ \E t \in Texts : finish(j, FALSE, t))

FairSpec == Spec /\ Fairness

----------------------------------------------------------------------------
(* Properties *)

ShowsSecret(v) ==
    \/ v.error = "secret"
    \/ \E s \in DOMAIN v.steps : v.steps[s].detail = "secret"

\* Every variable keeps its type (the fields of Engine, job and Job).
TypeOK ==
    /\ closed \in BOOLEAN
    /\ closer \in {"idle", "waiting", "nil", "ctx"}
    /\ wg \in Nat
    /\ leaving \in Nat
    /\ now \in Nat
    /\ ended \in Nat
    /\ byID \in SUBSET Jobs
    /\ onNode \in [Nodes -> Jobs \cup {NoJob}]
    /\ view \in [Jobs -> View]
    /\ hide \in [Jobs -> BOOLEAN]
    /\ finished \in [Jobs -> Nat]
    /\ endSeq \in [Jobs -> Nat]
    /\ subs \in [Jobs -> SUBSET Followers]
    /\ chan \in [Followers -> Channel]

\* "Only one job runs on a node at a time: two on one box step on each other"
\* (jobs.go, Spec.NodeID): the jobs running on a node are exactly the one that
\* onNode names, so Start refuses when it must and only when it must.
OneJobPerNode ==
    \A n \in Nodes : {j \in Running : view[j].node = n} = {onNode[n]} \ {NoJob}

\* "a job that is still running is never dropped" (jobs.go, package comment),
\* by prune, whatever the clock and the history do.
RunningRemembered == Running \subseteq byID

\* "Finished jobs are kept ... (the newest 20, for an hour)": what prune has
\* forgotten ended before everything it still remembers, and what it remembers
\* is never more than Keep jobs.
HistoryIsNewest ==
    LET over == {j \in Jobs : Over(view[j])}
    IN  /\ \A j \in over \cap byID, k \in over \ byID : endSeq[k] < endSeq[j]
        /\ Cardinality(over \cap byID) =< Keep

\* "what a slow reader gets next is always the latest state" (subscribe.go):
\* while a follower is registered, the value waiting for it, or the last it took
\* when none waits, is the job as it stands, so no change is ever lost to it.
FollowerCurrent ==
    \A j \in Jobs : \A f \in subs[j] :
        /\ chan[f].phase = "following" /\ chan[f].job = j /\ ~chan[f].closed
        /\ chan[f].value = view[j]

\* "the channel is closed right after the final state" (subscribe.go): a channel
\* the engine closed belongs to a job that is over, and its reader has the final
\* view or will get it before it sees the close.
FinalStateDelivered ==
    \A f \in Followers :
        chan[f].closed /\ ~chan[f].cancelled =>
            /\ Over(view[chan[f].job])
            /\ chan[f].value = view[chan[f].job]

\* A follower of a running job is registered with it until it cancels: between
\* Subscribe and the end of the job nothing else may drop it (subscribe.go).
NoFollowerForgotten ==
    \A f \in Followers :
        chan[f].phase = "following" /\ ~chan[f].closed => f \in subs[chan[f].job]

\* "Secrets are values that must never show up in the job ... and the engine
\* forgets them when the job ends" (jobs.go, Spec.Secrets): a report that comes
\* after the hider is gone must not reach the page either.
NoSecretShown ==
    /\ \A j \in Jobs : ~ShowsSecret(view[j])
    /\ \A f \in Followers : ~ShowsSecret(chan[f].value)

\* Close answers nil only when no job is running, and the WaitGroup counts the
\* goroutines exactly (it never goes below zero, which panics).
CloseMeansIdle ==
    /\ wg = Cardinality(Running) + leaving
    /\ closer = "nil" => Running = {}

\* "Once the function has returned the job is over, and a late call does
\* nothing" (run.go): no step changes the view of a job that is over, and none
\* makes a job running once the engine is closed.
OverKept ==
    /\ \A j \in Jobs : Over(view[j]) => view'[j] = view[j]
    /\ closed => Running' \subseteq Running

OverIsFinal == [][OverKept]_vars

\* A reader that keeps reading a job that is over gets to the end of its channel.
FollowerReleased ==
    \A f \in Followers, j \in Jobs :
        chan[f].phase = "following" /\ chan[f].job = j /\ Over(view[j])
            ~> chan[f].phase = "done" \/ chan[f].job # j

============================================================================
