-------------------------- MODULE JobEngineProofs --------------------------
(***************************************************************************)
(* Proofs about JobEngine, for any number of jobs, nodes and followers.    *)
(*                                                                         *)
(* Most of the properties that JobEngine states are proved together, as    *)
(* one inductive invariant.  What it adds to them is that a running job    *)
(* still has its hider and that a job object nobody has started is not     *)
(* followed and not remembered.  The history of finished jobs needs an     *)
(* invariant of its own: jobs end in an order that the clock follows, so   *)
(* that what is too old, and what is beyond the newest Keep, ended first.  *)
(***************************************************************************)
EXTENDS JobEngine, FiniteSetTheorems, WellFoundedInduction, TLAPS

\* What the properties leave out and their induction needs.
Unstarted ==
    /\ \A j \in Jobs : view[j].state = "running" => hide[j]
    /\ \A j \in byID : view[j].state # "none"
    /\ \A j \in Jobs : view[j].state # "running" => subs[j] = {}
    /\ \A f \in Followers : chan[f].phase # "idle" => chan[f].job \in Jobs
    /\ \A f \in Followers : chan[f].phase = "idle" => ~chan[f].closed
    /\ closer # "idle" => closed

IInv ==
    /\ TypeOK
    /\ Unstarted
    /\ OneJobPerNode
    /\ RunningRemembered
    /\ FollowerCurrent
    /\ NoFollowerForgotten
    /\ FinalStateDelivered
    /\ NoSecretShown
    /\ CloseMeansIdle

----------------------------------------------------------------------------
(* What the helpers return *)

\* prune only forgets, and never a job that is running.
LEMMA PruneKeepsRunning ==
    ASSUME NEW ids, NEW v, NEW fin, NEW seq
    PROVE  /\ prune(ids, v, fin, seq) \subseteq ids
           /\ \A j \in ids : v[j].state = "running" => j \in prune(ids, v, fin, seq)
  BY DEF prune, Newest

\* A map of steps is a function from some step names to steps.
LEMMA StepMapsIntro ==
    ASSUME NEW S \in SUBSET StepNames, NEW m \in [S -> Step]
    PROVE  m \in StepMaps
  BY DEF StepMaps

\* And nothing else is.
LEMMA StepMapsElim ==
    ASSUME NEW m \in StepMaps
    PROVE  \E S \in SUBSET StepNames : m \in [S -> Step]
  BY DEF StepMaps

\* Job.step gives a map of steps whatever the name, and the new step shows no
\* text.
LEMMA StepType ==
    ASSUME NEW steps \in StepMaps, NEW s \in StepNames
    PROVE  /\ step(steps, s) \in StepMaps
           /\ DOMAIN steps \subseteq DOMAIN step(steps, s)
           /\ \A n \in DOMAIN step(steps, s) :
                IF n \in DOMAIN steps THEN step(steps, s)[n] = steps[n]
                ELSE step(steps, s)[n].detail = ""
  <1>1. PICK S \in SUBSET StepNames : steps \in [S -> Step]
    BY StepMapsElim
  <1>2. CASE step(steps, s) = steps
    BY <1>1, <1>2
  <1>3. CASE step(steps, s) # steps
    <2> DEFINE new == [n \in S \cup {s} |->
                         IF n \in S THEN steps[n] ELSE [state |-> "pending", detail |-> ""]]
    <2>1. step(steps, s) = new
      BY <1>1, <1>3 DEF step
    <2>2. [state |-> "pending", detail |-> ""] \in Step
      BY DEF Step, StepStates, Texts
    <2>3. new \in [S \cup {s} -> Step]
      BY <1>1, <2>2
    <2>4. S \cup {s} \in SUBSET StepNames
      OBVIOUS
    <2>5. new \in StepMaps
      BY <2>3, <2>4, StepMapsIntro
    <2>6. /\ DOMAIN new = S \cup {s} /\ DOMAIN steps = S
          /\ \A n \in S \cup {s} : IF n \in S THEN new[n] = steps[n] ELSE new[n].detail = ""
      BY <1>1
    <2> HIDE DEF new
    <2> QED
      BY <2>1, <2>5, <2>6
  <1> QED
    BY <1>2, <1>3

\* The text a job with its hider shows holds none of its secrets.
LEMMA TextClean ==
    ASSUME NEW j \in Jobs, NEW t \in Texts, hide[j] = TRUE
    PROVE  text(j, t) \in Texts /\ text(j, t) # "secret"
  BY DEF text, Texts

----------------------------------------------------------------------------
(* What a report and the end of a job do, whatever their text *)

\* A report replaces the view of a running job by one of the same job, still
\* running, and hands it to the followers.
Reported(j, new) ==
    /\ new \in View
    /\ view[j].state = "running"
    /\ new.state = "running"
    /\ new.node = view[j].node
    /\ ~ShowsSecret(new)
    /\ view' = [view EXCEPT ![j] = new]
    /\ publish(j, new)
    /\ UNCHANGED <<engineVars, now, byID, hide, finished, endSeq, ended, onNode>>

\* Replacing one step of a view that shows no secret by one that shows none.
LEMMA ChangedView ==
    ASSUME NEW v \in View, ~ShowsSecret(v), NEW s \in StepNames,
           s \in DOMAIN step(v.steps, s), NEW x \in Step, x.detail # "secret",
           NEW new, new = [v EXCEPT !.steps = [step(v.steps, s) EXCEPT ![s] = x]]
    PROVE  /\ new \in View /\ new.state = v.state /\ new.node = v.node
           /\ ~ShowsSecret(new)
  <1> DEFINE all == step(v.steps, s)
             chg == [all EXCEPT ![s] = x]
  <1>1. v.steps \in StepMaps
    BY DEF View
  <1>2. PICK S \in SUBSET StepNames : all \in [S -> Step]
    BY <1>1, StepType, StepMapsElim
  <1>3. chg \in [S -> Step]
    BY <1>2
  <1>4. chg \in StepMaps
    BY <1>3, StepMapsIntro
  <1>5. new = [node |-> v.node, state |-> v.state, steps |-> chg, error |-> v.error]
    BY DEF View
  <1>6. new \in View
    BY <1>4, <1>5 DEF View
  <1>7. \A n \in DOMAIN chg : chg[n].detail # "secret"
    BY <1>1, <1>2, <1>3, StepType DEF ShowsSecret
  <1> HIDE DEF chg
  <1> QED
    BY <1>5, <1>6, <1>7 DEF ShowsSecret

\* Every report of Run is a Reported step.
LEMMA ReportIsReported ==
    ASSUME IInv, NEW j \in Jobs, NEW s \in StepNames, NEW st \in StepStates, NEW t \in Texts,
           \/ Begin(j, s) \/ Done(j, s) \/ Detail(j, s, t) \/ Fail(j, s, t) \/ Set(j, s, st, t)
    PROVE  \E new : Reported(j, new)
  <1> DEFINE all == step(view[j].steps, s)
  <1>1. /\ view[j] \in View /\ view \in [Jobs -> View] /\ ~ShowsSecret(view[j])
        /\ view[j].steps \in StepMaps
    BY DEF IInv, TypeOK, NoSecretShown, View
  <1>2. ASSUME NEW x \in Step, x.detail # "secret", change(j, s, x)
        PROVE  \E new : Reported(j, new)
    <2> DEFINE new == [view[j] EXCEPT !.steps = [all EXCEPT ![s] = x]]
    <2>1. /\ new \in View /\ new.state = view[j].state /\ new.node = view[j].node
          /\ ~ShowsSecret(new)
      BY <1>1, <1>2, ChangedView DEF change
    <2>2. /\ view[j].state = "running" /\ view' = [view EXCEPT ![j] = new] /\ publish(j, new)
          /\ UNCHANGED <<engineVars, now, byID, hide, finished, endSeq, ended, onNode>>
      BY <1>2 DEF change, reports
    <2> HIDE DEF new
    <2>3. Reported(j, new)
      BY <2>1, <2>2 DEF Reported
    <2> QED
      BY <2>3
  <1>3. ASSUME s \in DOMAIN all
        PROVE  all[s] \in Step /\ all[s].detail # "secret"
    <2>1. PICK S \in SUBSET StepNames : all \in [S -> Step]
      BY <1>1, StepType, StepMapsElim
    <2>2. all[s] \in Step
      BY <1>3, <2>1
    <2>3. CASE s \in DOMAIN view[j].steps
      BY <1>1, <1>3, <2>2, <2>3, StepType DEF ShowsSecret
    <2>4. CASE s \notin DOMAIN view[j].steps
      BY <1>1, <1>3, <2>2, <2>4, StepType
    <2> QED
      BY <2>2, <2>3, <2>4
  <1>4. view[j].state = "running" => text(j, t) \in Texts /\ text(j, t) # "secret"
    BY TextClean DEF IInv, TypeOK, Unstarted
  <1> HIDE DEF all
  <1>5. CASE Begin(j, s)
    <2> DEFINE x == [all[s] EXCEPT !.state = "running"]
    <2>1. change(j, s, x)
      BY <1>5 DEF Begin, stepOf, all
    <2>2. s \in DOMAIN all /\ view[j].state = "running"
      BY <2>1 DEF change, reports, all
    <2>3. x \in Step /\ x.detail # "secret"
      BY <1>3, <2>2 DEF Step, StepStates
    <2> HIDE DEF x
    <2> QED
      BY <1>2, <2>1, <2>3
  <1>6. CASE Done(j, s)
    <2> DEFINE x == [all[s] EXCEPT !.state = "ok"]
    <2>1. change(j, s, x)
      BY <1>6 DEF Done, stepOf, all
    <2>2. s \in DOMAIN all /\ view[j].state = "running"
      BY <2>1 DEF change, reports, all
    <2>3. x \in Step /\ x.detail # "secret"
      BY <1>3, <2>2 DEF Step, StepStates
    <2> HIDE DEF x
    <2> QED
      BY <1>2, <2>1, <2>3
  <1>7. CASE Detail(j, s, t)
    <2> DEFINE x == [all[s] EXCEPT !.detail = text(j, t)]
    <2>1. change(j, s, x)
      BY <1>7 DEF Detail, stepOf, all
    <2>2. s \in DOMAIN all /\ view[j].state = "running"
      BY <2>1 DEF change, reports, all
    <2>3. x \in Step /\ x.detail # "secret"
      BY <1>3, <1>4, <2>2 DEF Step, StepStates
    <2> HIDE DEF x
    <2> QED
      BY <1>2, <2>1, <2>3
  <1>8. CASE Fail(j, s, t)
    <2> DEFINE x == [state |-> "failed", detail |-> text(j, t)]
    <2>1. change(j, s, x)
      BY <1>8 DEF Fail, stepOf, all
    <2>2. s \in DOMAIN all /\ view[j].state = "running"
      BY <2>1 DEF change, reports, all
    <2>3. x \in Step /\ x.detail # "secret"
      BY <1>4, <2>2 DEF Step, StepStates
    <2> HIDE DEF x
    <2> QED
      BY <1>2, <2>1, <2>3
  <1>9. CASE Set(j, s, st, t)
    <2> DEFINE x == [state |-> st, detail |-> text(j, t)]
    <2>1. change(j, s, x)
      BY <1>9 DEF Set, stepOf, all
    <2>2. s \in DOMAIN all /\ view[j].state = "running"
      BY <2>1 DEF change, reports, all
    <2>3. x \in Step /\ x.detail # "secret"
      BY <1>4, <2>2 DEF Step, StepStates
    <2> HIDE DEF x
    <2> QED
      BY <1>2, <2>1, <2>3
  <1> QED
    BY <1>5, <1>6, <1>7, <1>8, <1>9

\* finish replaces the view of a running job by one of the same job that is over.
Finished(j, new) ==
    /\ new \in View
    /\ view[j].state = "running"
    /\ Over(new)
    /\ new.node = view[j].node
    /\ ~ShowsSecret(new)
    /\ view' = [view EXCEPT ![j] = new]
    /\ finished' = [finished EXCEPT ![j] = now]
    /\ hide' = [hide EXCEPT ![j] = FALSE]
    /\ ended' = ended + 1
    /\ endSeq' = [endSeq EXCEPT ![j] = ended + 1]
    /\ onNode' = [n \in Nodes |-> IF n = new.node /\ onNode[n] = j THEN NoJob ELSE onNode[n]]
    /\ publish(j, new)
    /\ byID' = prune(byID, view', finished', endSeq')
    /\ leaving' = leaving + 1
    /\ UNCHANGED <<closed, closer, wg, now>>

\* Whatever fn's result, finish is a Finished step.
LEMMA FinishIsFinished ==
    ASSUME IInv, NEW j \in Jobs, NEW ok \in BOOLEAN, NEW t \in Texts, finish(j, ok, t)
    PROVE  \E new : Finished(j, new)
  <1> DEFINE old   == view[j].steps
             kept  == {s \in DOMAIN old : ~ok \/ old[s].state # "pending"}
             shown == IF ok THEN "" ELSE text(j, t)
             steps == [s \in kept |-> closeStep(old[s], ok, shown)]
             st    == IF ok THEN "ok" ELSE "failed"
             new   == [node |-> view[j].node, state |-> st, steps |-> steps, error |-> shown]
  <1>1. /\ view[j] \in View /\ ~ShowsSecret(view[j]) /\ view[j].steps \in StepMaps
        /\ view[j].state = "running"
    BY DEF IInv, TypeOK, NoSecretShown, View, finish
  <1>2. shown \in Texts /\ shown # "secret"
    <2>1. text(j, t) \in Texts /\ text(j, t) # "secret"
      BY <1>1, TextClean DEF IInv, TypeOK, Unstarted
    <2> QED
      BY <2>1 DEF Texts
  <1>3. PICK S \in SUBSET StepNames : old \in [S -> Step]
    BY <1>1, StepMapsElim
  <1>4. kept \in SUBSET StepNames /\ kept \subseteq S
    BY <1>3
  <1> HIDE DEF shown
  <1>5. \A s \in S : /\ closeStep(old[s], ok, shown) \in Step
                     /\ closeStep(old[s], ok, shown).detail # "secret"
    <2> SUFFICES ASSUME NEW s \in S
                 PROVE  /\ closeStep(old[s], ok, shown) \in Step
                        /\ closeStep(old[s], ok, shown).detail # "secret"
      OBVIOUS
    <2>1. old[s] \in Step /\ old[s].detail # "secret"
      BY <1>1, <1>3 DEF ShowsSecret
    <2> HIDE DEF old
    <2> QED
      BY <1>2, <2>1 DEF closeStep, Step, StepStates
  <1> HIDE DEF kept, old
  <1>6. steps \in [kept -> Step] /\ \A s \in kept : steps[s].detail # "secret"
    BY <1>4, <1>5
  <1>7. steps \in StepMaps
    BY <1>4, <1>6, StepMapsIntro
  <1>8. DOMAIN steps = kept
    OBVIOUS
  <1> HIDE DEF steps
  <1>9. new \in View
    BY <1>1, <1>2, <1>7 DEF View
  <1>10. ~ShowsSecret(new) /\ Over(new) /\ new.node = view[j].node
    BY <1>2, <1>6, <1>8 DEF ShowsSecret, Over
  <1>11. new = finalView(j, ok, t)
    BY DEF finalView, steps, old, kept, shown
  <1> HIDE DEF new
  <1>12. Finished(j, new)
    BY <1>1, <1>9, <1>10, <1>11 DEF Finished, finish
  <1> QED
    BY <1>12

----------------------------------------------------------------------------
(* The inductive steps *)

\* New
LEMMA InitIInv == Init => IInv
  <1> SUFFICES ASSUME Init PROVE IInv
    OBVIOUS
  <1> USE DEF Init
  <1>1. NoView \in View /\ ~ShowsSecret(NoView)
    <2>1. <<>> \in [{} -> Step] /\ DOMAIN <<>> = {}
      OBVIOUS
    <2>2. <<>> \in StepMaps
      BY <2>1, StepMapsIntro
    <2> QED
      BY <2>1, <2>2 DEF NoView, View, Texts, ShowsSecret
  <1>2. TypeOK
    BY <1>1 DEF TypeOK, NoChannel, Channel
  <1>3. Running = {}
    BY DEF Running, NoView
  <1>4. Unstarted /\ OneJobPerNode /\ RunningRemembered
    BY <1>3 DEF Unstarted, OneJobPerNode, RunningRemembered, NoView, NoChannel
  <1>5. FollowerCurrent /\ NoFollowerForgotten /\ FinalStateDelivered
    BY DEF FollowerCurrent, NoFollowerForgotten, FinalStateDelivered, NoChannel
  <1>6. NoSecretShown
    BY <1>1 DEF NoSecretShown, NoChannel
  <1>7. CloseMeansIdle
    BY <1>3, FS_EmptySet DEF CloseMeansIdle
  <1> QED
    BY <1>2, <1>4, <1>5, <1>6, <1>7 DEF IInv

\* Steps that touch no job and no channel: the clock, Get, the WaitGroup, Close.
Quiet ==
    /\ UNCHANGED <<jobVars, chanVars>>
    /\ byID' = byID \/ byID' = prune(byID, view, finished, endSeq)

LEMMA QuietStep ==
    ASSUME IInv, Quiet, TypeOK', CloseMeansIdle', (closer # "idle" => closed)'
    PROVE  IInv'
  <1>1. Running' = Running
    BY DEF Quiet, jobVars, Running
  <1>2. byID' \subseteq byID /\ Running \subseteq byID'
    BY PruneKeepsRunning DEF Quiet, IInv, RunningRemembered, Running
  <1>3. Unstarted'
    BY <1>2 DEF IInv, Unstarted, Quiet, jobVars, chanVars
  <1>4. OneJobPerNode' /\ RunningRemembered'
    BY <1>1, <1>2 DEF IInv, OneJobPerNode, RunningRemembered, Quiet, jobVars
  <1>5. FollowerCurrent' /\ NoFollowerForgotten' /\ FinalStateDelivered' /\ NoSecretShown'
    BY DEF IInv, FollowerCurrent, NoFollowerForgotten, FinalStateDelivered, NoSecretShown,
           Quiet, jobVars, chanVars
  <1> QED
    BY <1>3, <1>4, <1>5 DEF IInv

\* The set of running jobs is finite, and how it changes with one view.
LEMMA RunningCount ==
    ASSUME TypeOK
    PROVE  IsFiniteSet(Running) /\ Cardinality(Running) \in Nat
  BY FS_Subset, FS_CardinalityType, EngineAssumption DEF Running

\* A new job of its own is added to the running ones.
LEMMA StartStep ==
    ASSUME IInv, NEW j \in Jobs, NEW n \in Nodes \cup {NoNode}, NEW plan \in SUBSET StepNames,
           Start(j, n, plan)
    PROVE  IInv'
  <1> DEFINE steps == [s \in plan |-> [state |-> "pending", detail |-> ""]]
             new == [node |-> n, state |-> "running", steps |-> steps, error |-> ""]
  <1>1. /\ view[j].state = "none" /\ view' = [view EXCEPT ![j] = new]
        /\ hide' = [hide EXCEPT ![j] = TRUE]
        /\ ~closed
        /\ n \in Nodes => onNode[n] = NoJob
        /\ onNode' = IF n \in Nodes THEN [onNode EXCEPT ![n] = j] ELSE onNode
        /\ byID' = prune(byID \cup {j}, view', finished, endSeq)
        /\ wg' = wg + 1
        /\ UNCHANGED <<closed, closer, leaving, now, ended, finished, endSeq, chanVars>>
    BY DEF Start, accepts, busy
  <1>2. new \in View /\ ~ShowsSecret(new)
    <2>1. steps \in [plan -> Step]
      BY DEF Step, StepStates, Texts
    <2>2. steps \in StepMaps
      BY <2>1, StepMapsIntro
    <2>3. \A s \in DOMAIN steps : steps[s].detail # "secret"
      OBVIOUS
    <2> HIDE DEF steps
    <2> QED
      BY <2>2, <2>3 DEF View, ShowsSecret, Texts
  <1>3. new.state = "running" /\ new.node = n
    OBVIOUS
  <1> HIDE DEF new
  <1>4. byID' \subseteq byID \cup {j} /\ \A k \in byID \cup {j} : view'[k].state = "running" =>
          k \in byID'
    BY <1>1, PruneKeepsRunning
  <1>0. TypeOK /\ Unstarted /\ OneJobPerNode /\ CloseMeansIdle
    BY DEF IInv
  <1>5. Running' = Running \cup {j} /\ j \notin Running
    BY <1>0, <1>1, <1>2, <1>3 DEF Running, TypeOK
  <1>6. TypeOK'
    <2>1. onNode' \in [Nodes -> Jobs \cup {NoJob}]
      BY <1>0, <1>1 DEF TypeOK
    <2>2. view' \in [Jobs -> View] /\ hide' \in [Jobs -> BOOLEAN] /\ byID' \in SUBSET Jobs
      BY <1>0, <1>1, <1>2, <1>4 DEF TypeOK
    <2>3. wg' \in Nat
      BY <1>0, <1>1 DEF TypeOK
    <2> QED
      BY <1>0, <1>1, <2>1, <2>2, <2>3 DEF TypeOK, chanVars
  <1>7. Unstarted'
    BY <1>0, <1>1, <1>2, <1>3, <1>4 DEF Unstarted, TypeOK, chanVars
  <1>8. OneJobPerNode'
    <2> SUFFICES ASSUME NEW m \in Nodes
                 PROVE  {k \in Running' : view'[k].node = m} = {onNode'[m]} \ {NoJob}
      BY DEF OneJobPerNode
    <2>1. {k \in Running : view[k].node = m} = {onNode[m]} \ {NoJob}
      BY <1>0 DEF OneJobPerNode
    <2>2. view'[j].node = n /\ \A k \in Running : view'[k].node = view[k].node
      BY <1>0, <1>1, <1>3, <1>5 DEF Running, TypeOK
    <2>3. onNode'[m] = IF m = n THEN j ELSE onNode[m]
      BY <1>0, <1>1 DEF TypeOK
    <2>4. CASE m = n
      <3>1. onNode[m] = NoJob /\ onNode'[m] = j /\ j # NoJob
        BY <1>1, <2>3, <2>4, EngineAssumption
      <3>2. \A k \in Running : view'[k].node # m
        BY <2>1, <2>2, <3>1
      <3> QED
        BY <1>5, <2>2, <2>4, <3>1, <3>2
    <2>5. CASE m # n
      BY <1>5, <2>1, <2>2, <2>3, <2>5
    <2> QED
      BY <2>4, <2>5
  <1>9. RunningRemembered'
    BY <1>4, <1>5 DEF IInv, RunningRemembered, Running
  <1>10. FollowerCurrent' /\ NoFollowerForgotten' /\ NoSecretShown'
    BY <1>0, <1>1, <1>2 DEF IInv, TypeOK, FollowerCurrent, NoFollowerForgotten, NoSecretShown,
                            Unstarted, chanVars
  <1>11. FinalStateDelivered'
    BY <1>0, <1>1 DEF IInv, TypeOK, FinalStateDelivered, Unstarted, chanVars, Over
  <1>12. CloseMeansIdle'
    <2>1. Cardinality(Running') = Cardinality(Running) + 1
      BY <1>0, <1>5, RunningCount, FS_AddElement
    <2> QED
      <3>1. closer' # "nil"
        BY <1>0, <1>1 DEF Unstarted
      <3>2. wg' = Cardinality(Running') + leaving'
        BY <1>0, <1>1, <2>1, RunningCount DEF CloseMeansIdle, TypeOK
      <3> QED
        BY <3>1, <3>2 DEF CloseMeansIdle
  <1> QED
    BY <1>6, <1>7, <1>8, <1>9, <1>10, <1>11, <1>12 DEF IInv

\* What send makes of a channel.
LEMMA SendType ==
    ASSUME NEW c \in Channel, NEW v \in View
    PROVE  /\ send(c, v) \in Channel
           /\ send(c, v).phase = c.phase /\ send(c, v).job = c.job
           /\ send(c, v).value = v /\ send(c, v).closed = Over(v)
           /\ send(c, v).cancelled = c.cancelled
  <1> DEFINE a == [c EXCEPT !.full = TRUE]
             b == [a EXCEPT !.value = v]
             o == Over(v)
             d == [b EXCEPT !.closed = o]
  <1>0. o \in BOOLEAN
    BY DEF Over
  <1> HIDE DEF o
  <1>1. a \in Channel /\ a.phase = c.phase /\ a.job = c.job /\ a.cancelled = c.cancelled
    BY DEF Channel
  <1> HIDE DEF a
  <1>2. /\ b \in Channel /\ b.phase = c.phase /\ b.job = c.job /\ b.cancelled = c.cancelled
        /\ b.value = v
    BY <1>1 DEF Channel
  <1> HIDE DEF b
  <1>3. /\ d \in Channel /\ d.phase = c.phase /\ d.job = c.job /\ d.cancelled = c.cancelled
        /\ d.value = v /\ d.closed = o
    BY <1>0, <1>2 DEF Channel
  <1>4. send(c, v) = d
    BY DEF send, a, b, o
  <1> QED
    BY <1>3, <1>4 DEF o

\* Where publish leaves the followers: those of the job have the new view, and
\* are registered unless the job is over.
LEMMA PublishEffect ==
    ASSUME TypeOK, NEW j \in Jobs, NEW v \in View, publish(j, v)
    PROVE  /\ chan' \in [Followers -> Channel] /\ subs' \in [Jobs -> SUBSET Followers]
           /\ \A f \in Followers : f \notin subs[j] => chan'[f] = chan[f]
           /\ \A f \in subs[j] : /\ chan'[f].phase = chan[f].phase
                                 /\ chan'[f].job = chan[f].job
                                 /\ chan'[f].value = v
                                 /\ chan'[f].closed = Over(v)
                                 /\ chan'[f].cancelled = chan[f].cancelled
           /\ \A k \in Jobs : subs'[k] = IF k = j /\ Over(v) THEN {} ELSE subs[k]
  <1>1. \A f \in Followers : chan[f] \in Channel
    BY DEF TypeOK
  <1>2. chan' = [f \in Followers |-> IF f \in subs[j] THEN send(chan[f], v) ELSE chan[f]]
    BY DEF publish
  <1>3. chan' \in [Followers -> Channel]
    BY <1>1, <1>2, SendType
  <1>4. \A f \in subs[j] : f \in Followers /\ chan'[f] = send(chan[f], v)
    BY <1>2 DEF TypeOK
  <1>5. subs' \in [Jobs -> SUBSET Followers]
        /\ \A k \in Jobs : subs'[k] = IF k = j /\ Over(v) THEN {} ELSE subs[k]
    BY DEF publish, TypeOK
  <1> QED
    BY <1>1, <1>2, <1>3, <1>4, <1>5, SendType

\* What publish does to the five properties of channels, given that it hands on
\* the view the step has just stored.
LEMMA PublishStep ==
    ASSUME IInv, NEW j \in Jobs, NEW new \in View, ~ShowsSecret(new),
           view[j].state = "running", new.state # "none",
           view' = [view EXCEPT ![j] = new], publish(j, new)
    PROVE  /\ FollowerCurrent' /\ NoFollowerForgotten' /\ FinalStateDelivered' /\ NoSecretShown'
           /\ \A k \in Jobs : view'[k].state # "running" => subs'[k] = {}
           /\ \A f \in Followers : chan'[f].phase # "idle" => chan'[f].job \in Jobs
           /\ \A f \in Followers : chan'[f].phase = "idle" => ~chan'[f].closed
  <1>0. /\ TypeOK /\ Unstarted /\ FollowerCurrent /\ NoFollowerForgotten
        /\ FinalStateDelivered /\ NoSecretShown
    BY DEF IInv
  <1>1. /\ \A f \in Followers : f \notin subs[j] => chan'[f] = chan[f]
        /\ \A f \in subs[j] : /\ chan'[f].phase = chan[f].phase
                              /\ chan'[f].job = chan[f].job
                              /\ chan'[f].value = new
                              /\ chan'[f].closed = Over(new)
                              /\ chan'[f].cancelled = chan[f].cancelled
        /\ \A k \in Jobs : subs'[k] = IF k = j /\ Over(new) THEN {} ELSE subs[k]
    BY <1>0, PublishEffect
  <1>2. view'[j] = new /\ \A k \in Jobs : k # j => view'[k] = view[k]
    BY <1>0 DEF TypeOK
  <1>3. \A k \in Jobs : subs[k] \subseteq Followers
    BY <1>0 DEF TypeOK
  <1>4. \A f \in subs[j] : chan[f].phase = "following" /\ chan[f].job = j /\ ~chan[f].closed
    BY <1>0 DEF FollowerCurrent
  <1>5. new.state = "running" \/ Over(new)
    BY DEF View, Over
  <1>6. FollowerCurrent'
    <2> SUFFICES ASSUME NEW k \in Jobs, NEW f \in subs'[k]
                 PROVE  /\ chan'[f].phase = "following" /\ chan'[f].job = k /\ ~chan'[f].closed
                        /\ chan'[f].value = view'[k]
      BY DEF FollowerCurrent
    <2>1. f \in subs[k] /\ f \in Followers
      BY <1>1, <1>3
    <2>2. chan[f].phase = "following" /\ chan[f].job = k /\ ~chan[f].closed
          /\ chan[f].value = view[k]
      BY <1>0, <2>1 DEF FollowerCurrent
    <2>3. CASE k = j
      BY <1>1, <1>2, <2>1, <2>2, <2>3
    <2>4. CASE k # j
      <3>1. f \notin subs[j]
        BY <1>4, <2>2, <2>4
      <3> QED
        BY <1>1, <1>2, <2>1, <2>2, <2>4, <3>1
    <2> QED
      BY <2>3, <2>4
  <1>7. NoFollowerForgotten'
    <2> SUFFICES ASSUME NEW f \in Followers, chan'[f].phase = "following", ~chan'[f].closed
                 PROVE  f \in subs'[chan'[f].job]
      BY DEF NoFollowerForgotten
    <2>1. CASE f \in subs[j]
      BY <1>1, <1>4, <2>1
    <2>2. CASE f \notin subs[j]
      BY <1>0, <1>1, <2>2 DEF NoFollowerForgotten, Unstarted
    <2> QED
      BY <2>1, <2>2
  <1>8. FinalStateDelivered'
    <2> SUFFICES ASSUME NEW f \in Followers, chan'[f].closed, ~chan'[f].cancelled
                 PROVE  Over(view'[chan'[f].job]) /\ chan'[f].value = view'[chan'[f].job]
      BY DEF FinalStateDelivered
    <2>1. CASE f \in subs[j]
      BY <1>1, <1>2, <1>4, <2>1
    <2>2. CASE f \notin subs[j]
      <3>1. chan'[f] = chan[f] /\ chan[f].job \in Jobs
        BY <1>0, <1>1, <2>2 DEF Unstarted
      <3>2. Over(view[chan[f].job]) /\ chan[f].value = view[chan[f].job]
        BY <1>0, <3>1 DEF FinalStateDelivered
      <3>3. chan[f].job # j
        BY <3>2 DEF Over
      <3> QED
        BY <1>2, <3>1, <3>2, <3>3
    <2> QED
      BY <2>1, <2>2
  <1>9. NoSecretShown'
    BY <1>0, <1>1, <1>2 DEF NoSecretShown
  <1>10. \A k \in Jobs : view'[k].state # "running" => subs'[k] = {}
    BY <1>0, <1>1, <1>2, <1>5 DEF Unstarted
  <1>11. \A f \in Followers : /\ chan'[f].phase # "idle" => chan'[f].job \in Jobs
                              /\ chan'[f].phase = "idle" => ~chan'[f].closed
    BY <1>0, <1>1, <1>4 DEF Unstarted
  <1> QED
    BY <1>6, <1>7, <1>8, <1>9, <1>10, <1>11

\* A report leaves every job where it was, running or not.
LEMMA ReportStep ==
    ASSUME IInv, NEW j \in Jobs, NEW new, Reported(j, new)
    PROVE  IInv'
  <1>0. TypeOK /\ Unstarted /\ OneJobPerNode /\ RunningRemembered /\ CloseMeansIdle
    BY DEF IInv
  <1>1. /\ new \in View /\ view[j].state = "running" /\ new.state = "running"
        /\ new.node = view[j].node /\ view' = [view EXCEPT ![j] = new]
        /\ UNCHANGED <<closed, closer, wg, leaving, now, byID, hide, finished, endSeq, ended, onNode>>
    BY DEF Reported, engineVars
  <1>2. /\ FollowerCurrent' /\ NoFollowerForgotten' /\ FinalStateDelivered' /\ NoSecretShown'
        /\ \A k \in Jobs : view'[k].state # "running" => subs'[k] = {}
        /\ \A f \in Followers : chan'[f].phase # "idle" => chan'[f].job \in Jobs
        /\ \A f \in Followers : chan'[f].phase = "idle" => ~chan'[f].closed
    BY <1>1, PublishStep DEF Reported
  <1>3. Running' = Running /\ \A k \in Jobs : view'[k].node = view[k].node
    BY <1>0, <1>1 DEF Running, TypeOK
  <1>4. chan' \in [Followers -> Channel] /\ subs' \in [Jobs -> SUBSET Followers]
    BY <1>0, <1>1, PublishEffect DEF Reported
  <1>5. TypeOK'
    BY <1>0, <1>1, <1>4 DEF TypeOK
  <1>6. Unstarted'
    BY <1>0, <1>1, <1>2 DEF Unstarted, TypeOK
  <1>7. OneJobPerNode' /\ RunningRemembered' /\ CloseMeansIdle'
    BY <1>0, <1>1, <1>3 DEF OneJobPerNode, RunningRemembered, CloseMeansIdle, Running
  <1> QED
    BY <1>2, <1>5, <1>6, <1>7 DEF IInv

\* The end of a job takes it off its node and out of the running ones.
LEMMA FinishStep ==
    ASSUME IInv, NEW j \in Jobs, NEW new, Finished(j, new)
    PROVE  IInv'
  <1>0. TypeOK /\ Unstarted /\ OneJobPerNode /\ RunningRemembered /\ CloseMeansIdle
    BY DEF IInv
  <1>1. /\ new \in View /\ view[j].state = "running" /\ Over(new)
        /\ new.node = view[j].node /\ view' = [view EXCEPT ![j] = new]
        /\ onNode' = [n \in Nodes |-> IF n = new.node /\ onNode[n] = j THEN NoJob ELSE onNode[n]]
        /\ byID' = prune(byID, view', finished', endSeq')
        /\ leaving' = leaving + 1
        /\ UNCHANGED <<closed, closer, wg, now>>
    BY DEF Finished
  <1>2. /\ FollowerCurrent' /\ NoFollowerForgotten' /\ FinalStateDelivered' /\ NoSecretShown'
        /\ \A k \in Jobs : view'[k].state # "running" => subs'[k] = {}
        /\ \A f \in Followers : chan'[f].phase # "idle" => chan'[f].job \in Jobs
        /\ \A f \in Followers : chan'[f].phase = "idle" => ~chan'[f].closed
    <2>1. new.state # "none"
      BY <1>1 DEF Over
    <2> QED
      BY <1>1, <2>1, PublishStep DEF Finished
  <1>3. /\ Running' = Running \ {j} /\ j \in Running
        /\ \A k \in Jobs : view'[k].node = view[k].node
    BY <1>0, <1>1 DEF Running, TypeOK, Over
  <1>4. chan' \in [Followers -> Channel] /\ subs' \in [Jobs -> SUBSET Followers]
    BY <1>0, <1>1, PublishEffect DEF Finished
  <1>5. byID' \subseteq byID /\ \A k \in byID : view'[k].state = "running" => k \in byID'
    BY <1>1, PruneKeepsRunning
  <1>6. TypeOK'
    <2>1. finished' \in [Jobs -> Nat] /\ endSeq' \in [Jobs -> Nat] /\ ended' \in Nat
      BY <1>0 DEF Finished, TypeOK
    <2>2. hide' \in [Jobs -> BOOLEAN] /\ view' \in [Jobs -> View] /\ byID' \in SUBSET Jobs
      BY <1>0, <1>1, <1>5 DEF Finished, TypeOK
    <2>3. onNode' \in [Nodes -> Jobs \cup {NoJob}] /\ leaving' \in Nat
      BY <1>0, <1>1 DEF TypeOK
    <2> QED
      BY <1>0, <1>1, <1>4, <2>1, <2>2, <2>3 DEF TypeOK
  <1>7. Unstarted'
    <2>1. \A k \in Jobs : view'[k].state = "running" => hide'[k]
      BY <1>0, <1>1 DEF Unstarted, Finished, TypeOK, Over
    <2>2. \A k \in byID' : view'[k].state # "none"
      BY <1>0, <1>1, <1>5 DEF Unstarted, TypeOK, Over
    <2> QED
      BY <1>0, <1>1, <1>2, <2>1, <2>2 DEF Unstarted
  <1>8. OneJobPerNode'
    <2> SUFFICES ASSUME NEW m \in Nodes
                 PROVE  {k \in Running' : view'[k].node = m} = {onNode'[m]} \ {NoJob}
      BY DEF OneJobPerNode
    <2>1. {k \in Running : view[k].node = m} = {onNode[m]} \ {NoJob}
      BY <1>0 DEF OneJobPerNode
    <2>2. onNode'[m] = IF m = view[j].node /\ onNode[m] = j THEN NoJob ELSE onNode[m]
      BY <1>1
    <2>3. Running \subseteq Jobs
      BY DEF Running
    <2>4. {k \in Running' : view'[k].node = m} = {k \in Running : view[k].node = m} \ {j}
      BY <1>3, <2>3
    <2>5. CASE view[j].node = m
      <3>1. onNode[m] = j
        BY <1>3, <2>1, <2>5
      <3> QED
        BY <2>1, <2>2, <2>4, <2>5, <3>1
    <2>6. CASE view[j].node # m
      <3>1. j \notin {k \in Running : view[k].node = m}
        BY <2>6
      <3> QED
        BY <2>1, <2>2, <2>4, <2>6, <3>1
    <2> QED
      BY <2>5, <2>6
  <1>9. RunningRemembered'
    BY <1>0, <1>3, <1>5 DEF RunningRemembered, Running
  <1>10. CloseMeansIdle'
    <2>1. Cardinality(Running') = Cardinality(Running) - 1
      BY <1>0, <1>3, RunningCount, FS_RemoveElement
    <2>2. wg' = Cardinality(Running') + leaving'
      BY <1>0, <1>1, <2>1, RunningCount DEF CloseMeansIdle, TypeOK
    <2>3. closer' = "nil" => Running' = {}
      BY <1>0, <1>1, <1>3 DEF CloseMeansIdle
    <2> QED
      BY <2>2, <2>3 DEF CloseMeansIdle
  <1> QED
    BY <1>2, <1>6, <1>7, <1>8, <1>9, <1>10 DEF IInv

\* A follower that subscribes gets the job as it stands and is registered with it
\* while it runs.
LEMMA SubscribeStep ==
    ASSUME IInv, NEW f \in Followers, NEW j \in Jobs, Subscribe(f, j)
    PROVE  IInv'
  <1> DEFINE c == [phase |-> "following", job |-> j, full |-> TRUE, value |-> view[j],
                   closed |-> Over(view[j]), cancelled |-> FALSE]
  <1>0. /\ TypeOK /\ Unstarted /\ OneJobPerNode /\ RunningRemembered /\ CloseMeansIdle
        /\ FollowerCurrent /\ NoFollowerForgotten /\ FinalStateDelivered /\ NoSecretShown
    BY DEF IInv
  <1>1. /\ chan[f].phase # "following"
        /\ byID' = prune(byID, view, finished, endSeq)
        /\ j \in byID'
        /\ chan' = [chan EXCEPT ![f] = c]
        /\ subs' = IF Over(view[j]) THEN subs ELSE [subs EXCEPT ![j] = @ \cup {f}]
        /\ UNCHANGED <<closed, closer, wg, leaving, now, view, hide, finished, endSeq, ended, onNode>>
    BY DEF Subscribe, engineVars, jobVars
  <1>2. /\ c.phase = "following" /\ c.job = j /\ c.value = view[j] /\ ~c.cancelled
        /\ c.closed = Over(view[j])
    OBVIOUS
  <1>3. c \in Channel
    <2>1. Over(view[j]) \in BOOLEAN
      BY DEF Over
    <2> QED
      BY <1>0, <2>1 DEF TypeOK, Channel
  <1> HIDE DEF c
  <1>4. byID' \subseteq byID /\ \A k \in byID : view[k].state = "running" => k \in byID'
    BY <1>1, PruneKeepsRunning
  <1>5. view[j].state = "running" \/ Over(view[j])
    BY <1>0, <1>1, <1>4 DEF Unstarted, TypeOK, View, Over
  <1>6. chan'[f] = c /\ \A g \in Followers : g # f => chan'[g] = chan[g]
    BY <1>0, <1>1 DEF TypeOK
  <1>7. \A k \in Jobs : subs'[k] = IF k = j /\ ~Over(view[j]) THEN subs[k] \cup {f} ELSE subs[k]
    BY <1>0, <1>1 DEF TypeOK
  <1>8. \A k \in Jobs : f \notin subs[k] /\ subs[k] \subseteq Followers
    BY <1>0, <1>1 DEF FollowerCurrent, TypeOK
  <1>9. TypeOK'
    <2>1. chan' \in [Followers -> Channel]
      BY <1>0, <1>1, <1>3 DEF TypeOK
    <2>2. subs' \in [Jobs -> SUBSET Followers]
      BY <1>0, <1>1 DEF TypeOK
    <2> QED
      BY <1>0, <1>1, <1>4, <2>1, <2>2 DEF TypeOK
  <1>10. Unstarted'
    BY <1>0, <1>1, <1>2, <1>4, <1>5, <1>6, <1>7 DEF Unstarted, Over
  <1>11. Running' = Running
    BY <1>1 DEF Running
  <1>12. OneJobPerNode' /\ RunningRemembered' /\ CloseMeansIdle'
    BY <1>0, <1>1, <1>4, <1>11 DEF OneJobPerNode, RunningRemembered, CloseMeansIdle, Running
  <1>13. FollowerCurrent'
    <2> SUFFICES ASSUME NEW k \in Jobs, NEW g \in subs'[k]
                 PROVE  /\ chan'[g].phase = "following" /\ chan'[g].job = k /\ ~chan'[g].closed
                        /\ chan'[g].value = view[k]
      BY <1>1 DEF FollowerCurrent
    <2>1. CASE g = f
      <3>1. k = j /\ ~Over(view[j])
        BY <1>7, <1>8, <2>1
      <3>2. ~c.closed
        BY <1>2, <3>1
      <3> QED
        BY <1>2, <1>6, <2>1, <3>1, <3>2
    <2>2. CASE g # f
      <3>1. g \in subs[k] /\ g \in Followers
        BY <1>7, <1>8, <2>2
      <3>2. chan'[g] = chan[g]
        BY <1>6, <2>2, <3>1
      <3> QED
        BY <1>0, <3>1, <3>2 DEF FollowerCurrent
    <2> QED
      BY <2>1, <2>2
  <1>14. NoFollowerForgotten'
    <2> SUFFICES ASSUME NEW g \in Followers, chan'[g].phase = "following", ~chan'[g].closed
                 PROVE  g \in subs'[chan'[g].job]
      BY DEF NoFollowerForgotten
    <2>1. CASE g = f
      <3>1. chan'[g].job = j /\ ~Over(view[j])
        BY <1>2, <1>6, <2>1
      <3> QED
        BY <1>7, <2>1, <3>1
    <2>2. CASE g # f
      <3>1. chan'[g] = chan[g]
        BY <1>6, <2>2
      <3>2. chan[g].job \in Jobs /\ g \in subs[chan[g].job]
        BY <1>0, <3>1 DEF NoFollowerForgotten, Unstarted
      <3> QED
        BY <1>7, <3>1, <3>2
    <2> QED
      BY <2>1, <2>2
  <1>15. FinalStateDelivered' /\ NoSecretShown'
    BY <1>0, <1>1, <1>2, <1>6 DEF FinalStateDelivered, NoSecretShown
  <1> QED
    BY <1>9, <1>10, <1>12, <1>13, <1>14, <1>15 DEF IInv

\* What a follower does to its own channel changes no other and no job.
LEMMA FollowerStep ==
    ASSUME IInv, NEW f \in Followers, unsubscribe(f) \/ Receive(f) \/ ReceiveClosed(f)
    PROVE  IInv'
  <1>0. /\ TypeOK /\ Unstarted /\ OneJobPerNode /\ RunningRemembered /\ CloseMeansIdle
        /\ FollowerCurrent /\ NoFollowerForgotten /\ FinalStateDelivered /\ NoSecretShown
    BY DEF IInv
  <1>1. /\ chan[f].phase = "following" /\ chan[f].job \in Jobs
        /\ UNCHANGED <<closed, closer, wg, leaving, now, byID, view, hide, finished, endSeq, ended, onNode>>
    BY <1>0 DEF unsubscribe, Receive, ReceiveClosed, engineVars, jobVars, Unstarted
  <1>2. Running' = Running
    BY <1>1 DEF Running
  <1>3. OneJobPerNode' /\ RunningRemembered' /\ CloseMeansIdle'
    BY <1>0, <1>1, <1>2 DEF OneJobPerNode, RunningRemembered, CloseMeansIdle
  <1>4. chan[f] \in Channel
    BY <1>0 DEF TypeOK
  <1>5. CASE unsubscribe(f)
    <2> DEFINE c == [[[chan[f] EXCEPT !.phase = "done"] EXCEPT !.closed = TRUE] EXCEPT !.cancelled = TRUE]
    <2>1. chan' = [chan EXCEPT ![f] = c] /\ subs' = [subs EXCEPT ![chan[f].job] = @ \ {f}]
      BY <1>0, <1>5 DEF unsubscribe, TypeOK
    <2>2. c \in Channel /\ c.phase = "done" /\ c.job = chan[f].job /\ c.value = chan[f].value
          /\ c.cancelled
      BY <1>4 DEF Channel
    <2> HIDE DEF c
    <2>3. chan'[f] = c /\ \A g \in Followers : g # f => chan'[g] = chan[g]
      BY <1>0, <2>1 DEF TypeOK
    <2>4. \A k \in Jobs : subs'[k] = subs[k] \ {f} /\ subs[k] \subseteq Followers
      BY <1>0, <1>1, <2>1 DEF TypeOK, FollowerCurrent
    <2>5. TypeOK'
      BY <1>0, <1>1, <2>1, <2>2 DEF TypeOK
    <2>6. Unstarted'
      BY <1>0, <1>1, <2>2, <2>3, <2>4 DEF Unstarted
    <2>7. FollowerCurrent' /\ NoFollowerForgotten'
      BY <1>0, <1>1, <2>2, <2>3, <2>4 DEF FollowerCurrent, NoFollowerForgotten, Unstarted
    <2>8. FinalStateDelivered' /\ NoSecretShown'
      BY <1>0, <1>1, <2>2, <2>3 DEF FinalStateDelivered, NoSecretShown
    <2> QED
      BY <1>3, <2>5, <2>6, <2>7, <2>8 DEF IInv
  <1>6. CASE Receive(f) \/ ReceiveClosed(f)
    <2>1. PICK c : /\ chan' = [chan EXCEPT ![f] = c] /\ c \in Channel
                   /\ c.phase = "following" \/ (c.phase = "done" /\ chan[f].closed)
                   /\ c.job = chan[f].job /\ c.value = chan[f].value
                   /\ c.closed = chan[f].closed /\ c.cancelled = chan[f].cancelled
      <3>1. CASE Receive(f)
        <4> DEFINE c == [chan[f] EXCEPT !.full = FALSE]
        <4>1. chan' = [chan EXCEPT ![f] = c]
          BY <3>1 DEF Receive
        <4>2. /\ c \in Channel /\ c.phase = "following" /\ c.job = chan[f].job
              /\ c.value = chan[f].value /\ c.closed = chan[f].closed
              /\ c.cancelled = chan[f].cancelled
          BY <1>1, <1>4 DEF Channel
        <4> QED
          BY <4>1, <4>2
      <3>2. CASE ReceiveClosed(f)
        <4> DEFINE c == [chan[f] EXCEPT !.phase = "done"]
        <4>1. chan' = [chan EXCEPT ![f] = c] /\ chan[f].closed
          BY <3>2 DEF ReceiveClosed
        <4>2. /\ c \in Channel /\ c.phase = "done" /\ c.job = chan[f].job
              /\ c.value = chan[f].value /\ c.closed = chan[f].closed
              /\ c.cancelled = chan[f].cancelled
          BY <1>4 DEF Channel
        <4> QED
          BY <4>1, <4>2
      <3> QED
        BY <1>6, <3>1, <3>2
    <2>2. subs' = subs
      BY <1>6 DEF Receive, ReceiveClosed
    <2>3. chan'[f] = c /\ \A g \in Followers : g # f => chan'[g] = chan[g]
      BY <1>0, <2>1 DEF TypeOK
    <2>4. TypeOK'
      BY <1>0, <1>1, <2>1, <2>2 DEF TypeOK
    <2>5. Unstarted'
      BY <1>0, <1>1, <2>1, <2>2, <2>3 DEF Unstarted
    <2>6. FollowerCurrent'
      BY <1>0, <1>1, <2>1, <2>2, <2>3 DEF FollowerCurrent, TypeOK
    <2>7. NoFollowerForgotten'
      BY <1>0, <1>1, <2>1, <2>2, <2>3 DEF NoFollowerForgotten
    <2>8. FinalStateDelivered' /\ NoSecretShown'
      BY <1>0, <1>1, <2>1, <2>3 DEF FinalStateDelivered, NoSecretShown
    <2> QED
      BY <1>3, <2>4, <2>5, <2>6, <2>7, <2>8 DEF IInv
  <1> QED
    BY <1>5, <1>6

\* The WaitGroup, Close, Get and the clock.
LEMMA QuietSteps ==
    ASSUME IInv, wgDone \/ Get \/ Close \/ CloseIdle \/ CloseGivesUp \/ Tick
    PROVE  IInv'
  <1>0. TypeOK /\ CloseMeansIdle /\ (closer # "idle" => closed)
    BY DEF IInv, Unstarted
  <1>1. Running' = Running /\ Cardinality(Running) \in Nat
    BY <1>0, RunningCount
    DEF wgDone, Get, Close, CloseIdle, CloseGivesUp, Tick, jobVars, Running
  <1>2. Quiet
    BY DEF wgDone, Get, Close, CloseIdle, CloseGivesUp, Tick, Quiet, engineVars, jobVars
  <1>3. byID' \in SUBSET Jobs
    BY <1>0, <1>2, PruneKeepsRunning DEF Quiet, TypeOK
  <1>4. CASE wgDone
    <2>1. wg' \in Nat /\ leaving' \in Nat /\ wg' = Cardinality(Running) + leaving'
      BY <1>0, <1>1, <1>4 DEF wgDone, taken, TypeOK, CloseMeansIdle
    <2>2. TypeOK' /\ CloseMeansIdle' /\ (closer # "idle" => closed)'
      BY <1>0, <1>1, <1>3, <1>4, <2>1 DEF wgDone, TypeOK, CloseMeansIdle, jobVars, chanVars
    <2> QED
      BY <1>2, <2>2, QuietStep
  <1>5. CASE Get
    <2>1. TypeOK' /\ CloseMeansIdle' /\ (closer # "idle" => closed)'
      BY <1>0, <1>1, <1>3, <1>5 DEF Get, TypeOK, CloseMeansIdle, engineVars, jobVars, chanVars
    <2> QED
      BY <1>2, <2>1, QuietStep
  <1>6. CASE Close
    <2>1. TypeOK' /\ CloseMeansIdle' /\ (closer # "idle" => closed)'
      BY <1>0, <1>1, <1>3, <1>6 DEF Close, TypeOK, CloseMeansIdle, jobVars, chanVars
    <2> QED
      BY <1>2, <2>1, QuietStep
  <1>7. CASE CloseIdle
    <2>1. closed = TRUE /\ Running = {}
      BY <1>0, <1>1, <1>7, RunningCount, FS_EmptySet DEF CloseIdle, CloseMeansIdle, TypeOK
    <2>2. TypeOK' /\ CloseMeansIdle' /\ (closer # "idle" => closed)'
      BY <1>0, <1>1, <1>3, <1>7, <2>1 DEF CloseIdle, TypeOK, CloseMeansIdle, jobVars, chanVars
    <2> QED
      BY <1>2, <2>2, QuietStep
  <1>8. CASE CloseGivesUp
    <2>1. TypeOK' /\ CloseMeansIdle' /\ (closer # "idle" => closed)'
      BY <1>0, <1>1, <1>3, <1>8 DEF CloseGivesUp, TypeOK, CloseMeansIdle, jobVars, chanVars
    <2> QED
      BY <1>2, <2>1, QuietStep
  <1>9. CASE Tick
    <2>1. TypeOK' /\ CloseMeansIdle' /\ (closer # "idle" => closed)'
      BY <1>0, <1>1, <1>3, <1>9 DEF Tick, TypeOK, CloseMeansIdle, engineVars, jobVars, chanVars
    <2> QED
      BY <1>2, <2>1, QuietStep
  <1> QED
    BY <1>4, <1>5, <1>6, <1>7, <1>8, <1>9

----------------------------------------------------------------------------
(* The theorems *)

\* Every operation of the engine, whoever calls it, keeps the invariant.
THEOREM Induction == IInv /\ [Next]_vars => IInv'
  <1> SUFFICES ASSUME IInv, [Next]_vars PROVE IInv'
    OBVIOUS
  <1>1. ASSUME NEW j \in Jobs, NEW n \in Nodes \cup {NoNode}, NEW plan \in SUBSET StepNames,
               Start(j, n, plan)
        PROVE  IInv'
    BY <1>1, StartStep
  <1>2. ASSUME NEW j \in Jobs, NEW s \in StepNames, NEW st \in StepStates, NEW t \in Texts,
               \/ Begin(j, s) \/ Done(j, s) \/ Detail(j, s, t) \/ Fail(j, s, t) \/ Set(j, s, st, t)
        PROVE  IInv'
    BY <1>2, ReportIsReported, ReportStep
  <1>3. ASSUME NEW j \in Jobs, NEW ok \in BOOLEAN, NEW t \in Texts, finish(j, ok, t)
        PROVE  IInv'
    BY <1>3, FinishIsFinished, FinishStep
  <1>4. ASSUME NEW f \in Followers, NEW j \in Jobs, Subscribe(f, j)
        PROVE  IInv'
    BY <1>4, SubscribeStep
  <1>5. ASSUME NEW f \in Followers, unsubscribe(f) \/ Receive(f) \/ ReceiveClosed(f)
        PROVE  IInv'
    BY <1>5, FollowerStep
  <1>6. CASE wgDone \/ Get \/ Close \/ CloseIdle \/ CloseGivesUp \/ Tick
    BY <1>6, QuietSteps
  <1>7. CASE UNCHANGED vars
    BY <1>7 DEF vars, engineVars, jobVars, chanVars, IInv, TypeOK, Unstarted, OneJobPerNode,
                RunningRemembered, FollowerCurrent, NoFollowerForgotten, FinalStateDelivered,
                NoSecretShown, CloseMeansIdle, Running
  <1>8. "pending" \in StepStates /\ "" \in Texts
    BY DEF StepStates, Texts
  <1> QED
    BY <1>1, <1>2, <1>3, <1>4, <1>5, <1>6, <1>7, <1>8 DEF Next

\* The invariant holds of every behaviour of the engine.
THEOREM Invariance == Spec => []IInv
  BY InitIInv, Induction, PTL DEF Spec

\* The fields of the engine keep their types; in particular the WaitGroup never
\* goes below zero, which would panic.
THEOREM TypeCorrect == Spec => []TypeOK
  <1>1. IInv => TypeOK
    BY DEF IInv
  <1> QED
    BY <1>1, Invariance, PTL

\* At any time at most one job runs on a node, and it is the one that Start
\* answers BusyError with.
THEOREM OneJob == Spec => []OneJobPerNode
  <1>1. IInv => OneJobPerNode
    BY DEF IInv
  <1> QED
    BY <1>1, Invariance, PTL

\* A job that is running is always remembered, whatever prune drops.
THEOREM NeverDropped == Spec => []RunningRemembered
  <1>1. IInv => RunningRemembered
    BY DEF IInv
  <1> QED
    BY <1>1, Invariance, PTL

\* A registered follower always has, or is about to read, the job as it stands.
THEOREM Current == Spec => []FollowerCurrent
  <1>1. IInv => FollowerCurrent
    BY DEF IInv
  <1> QED
    BY <1>1, Invariance, PTL

\* A channel the engine has closed carries the final state of its job.
THEOREM Delivered == Spec => []FinalStateDelivered
  <1>1. IInv => FinalStateDelivered
    BY DEF IInv
  <1> QED
    BY <1>1, Invariance, PTL

\* No text the page can read holds a secret, before and after the job has ended.
THEOREM SecretsHidden == Spec => []NoSecretShown
  <1>1. IInv => NoSecretShown
    BY DEF IInv
  <1> QED
    BY <1>1, Invariance, PTL

\* When Close has answered nil no job is running, and the WaitGroup is exact.
THEOREM ClosedIsIdle == Spec => []CloseMeansIdle
  <1>1. IInv => CloseMeansIdle
    BY DEF IInv
  <1> QED
    BY <1>1, Invariance, PTL

\* What one step may do to the views and to the set of running jobs.
LEMMA StepKeepsOver ==
    ASSUME IInv, [Next]_vars
    PROVE  OverKept
  <1>0. view \in [Jobs -> View]
    BY DEF IInv, TypeOK
  <1>1. ASSUME NEW j \in Jobs, NEW n \in Nodes \cup {NoNode}, NEW plan \in SUBSET StepNames,
               Start(j, n, plan)
        PROVE  OverKept
    <2>1. ~closed /\ view[j].state = "none" /\ \A k \in Jobs : k # j => view'[k] = view[k]
      BY <1>0, <1>1 DEF Start, accepts
    <2> QED
      BY <2>1 DEF OverKept, Over
  <1>2. ASSUME NEW j \in Jobs, NEW new, Reported(j, new)
        PROVE  OverKept
    <2>1. /\ view[j].state = "running" /\ view'[j].state = "running"
          /\ \A k \in Jobs : k # j => view'[k] = view[k]
      BY <1>0, <1>2 DEF Reported
    <2> QED
      BY <2>1 DEF OverKept, Over, Running
  <1>3. ASSUME NEW j \in Jobs, NEW new, Finished(j, new)
        PROVE  OverKept
    <2>1. /\ view[j].state = "running" /\ Over(view'[j])
          /\ \A k \in Jobs : k # j => view'[k] = view[k]
      BY <1>0, <1>3 DEF Finished
    <2> QED
      BY <2>1 DEF OverKept, Over, Running
  <1>4. ASSUME UNCHANGED view
        PROVE  OverKept
    BY <1>4 DEF OverKept, Running
  <1>5. ASSUME NEW j \in Jobs, NEW s \in StepNames, NEW st \in StepStates, NEW t \in Texts,
               \/ Begin(j, s) \/ Done(j, s) \/ Detail(j, s, t) \/ Fail(j, s, t) \/ Set(j, s, st, t)
        PROVE  OverKept
    BY <1>2, <1>5, ReportIsReported
  <1>6. ASSUME NEW j \in Jobs, NEW ok \in BOOLEAN, NEW t \in Texts, finish(j, ok, t)
        PROVE  OverKept
    BY <1>3, <1>6, FinishIsFinished
  <1>7. ASSUME NEW f \in Followers, NEW j \in Jobs,
               Subscribe(f, j) \/ unsubscribe(f) \/ Receive(f) \/ ReceiveClosed(f)
        PROVE  OverKept
    BY <1>4, <1>7 DEF Subscribe, unsubscribe, Receive, ReceiveClosed, jobVars
  <1>8. ASSUME NEW f \in Followers, unsubscribe(f) \/ Receive(f) \/ ReceiveClosed(f)
        PROVE  OverKept
    BY <1>4, <1>8 DEF unsubscribe, Receive, ReceiveClosed, jobVars
  <1>9. ASSUME wgDone \/ Get \/ Close \/ CloseIdle \/ CloseGivesUp \/ Tick \/ UNCHANGED vars
        PROVE  OverKept
    BY <1>4, <1>9 DEF wgDone, Get, Close, CloseIdle, CloseGivesUp, Tick, vars, jobVars
  <1>10. "pending" \in StepStates /\ "" \in Texts
    BY DEF StepStates, Texts
  <1> QED
    BY <1>1, <1>5, <1>6, <1>7, <1>8, <1>9, <1>10 DEF Next

\* A late report never changes a job that is over, and nothing starts once the
\* engine is closed.
THEOREM OverStaysOver == Spec => OverIsFinal
  <1>1. IInv /\ [Next]_vars => [OverKept]_vars
    BY StepKeepsOver
  <1> QED
    BY <1>1, Invariance, PTL DEF Spec, OverIsFinal

----------------------------------------------------------------------------
(* The history of finished jobs *)

OverIn(v) == {j \in Jobs : Over(v[j])}

\* Jobs end one after the other, and the clock does not run backwards.
Ordered(v, fin, seq) ==
    \A j, k \in OverIn(v) :
        /\ seq[j] = seq[k] => j = k
        /\ seq[j] < seq[k] => fin[j] <= fin[k]

\* What has been forgotten ended before everything that is remembered.
ForgottenFirst(ids, v, seq) ==
    \A j \in OverIn(v) \cap ids, k \in OverIn(v) \ ids : seq[k] < seq[j]

\* A set of numbers has a smallest.
LEMMA Smallest ==
    ASSUME NEW T \in SUBSET Nat, T # {}
    PROVE  \E m \in T : \A x \in T : m <= x
  <1> DEFINE R == OpToRel(<, Nat)
  <1>1. PICK m \in T : \A x \in T : ~ (<<x, m>> \in R)
    <2>1. IsWellFoundedOn(R, Nat)
      BY NatLessThanWellFounded
    <2> HIDE DEF R
    <2> QED
      BY <2>1, WFMin
  <1>2. \A x \in T : ~ (x < m)
    BY <1>1 DEF OpToRel
  <1> QED
    BY <1>2

\* Newest keeps at most Keep jobs of a finite set.
LEMMA NewestCount ==
    ASSUME NEW F \in SUBSET Jobs, NEW seq \in [Jobs -> Nat],
           \A j, k \in F : seq[j] = seq[k] => j = k
    PROVE  Cardinality(Newest(F, seq)) =< Keep
  <1> DEFINE N == Newest(F, seq)
  <1>1. IsFiniteSet(N) /\ IsFiniteSet(F) /\ N \subseteq F
    BY EngineAssumption, FS_Subset DEF Newest
  <1>2. CASE N = {}
    BY <1>2, FS_EmptySet, EngineAssumption
  <1>3. CASE N # {}
    <2>1. PICK m \in N : \A k \in N : seq[m] <= seq[k]
      <3> DEFINE T == {seq[k] : k \in N}
      <3>1. T \in SUBSET Nat /\ T # {}
        BY <1>1, <1>3
      <3>2. PICK x \in T : \A y \in T : x <= y
        <4> HIDE DEF T
        <4> QED
          BY <3>1, Smallest
      <3> QED
        BY <3>2
    <2> DEFINE later == {k \in F : seq[k] > seq[m]}
    <2>2. Cardinality(later) < Keep /\ IsFiniteSet(later) /\ Cardinality(later) \in Nat
      BY <1>1, <2>1, FS_Subset, FS_CardinalityType DEF Newest
    <2>3. N \ {m} \subseteq later
      <3> SUFFICES ASSUME NEW k \in N, k # m PROVE seq[k] > seq[m]
        BY <1>1
      <3>1. seq[k] \in Nat /\ seq[m] \in Nat /\ seq[k] # seq[m] /\ seq[m] <= seq[k]
        BY <1>1, <2>1
      <3> QED
        BY <3>1
    <2>4. Cardinality(N \ {m}) <= Cardinality(later) /\ Cardinality(N \ {m}) \in Nat
      <3> HIDE DEF N, later
      <3> QED
        BY <1>1, <2>2, <2>3, FS_Subset, FS_CardinalityType
    <2>5. Cardinality(N \ {m}) = Cardinality(N) - 1 /\ Cardinality(N) \in Nat
      <3> HIDE DEF N
      <3> QED
        BY <1>1, <2>1, FS_RemoveElement, FS_CardinalityType
    <2>6. Cardinality(N) =< Keep
      <3> HIDE DEF N, later
      <3> QED
        BY <2>2, <2>4, <2>5, EngineAssumption
    <2> QED
      BY <2>6
  <1> QED
    BY <1>2, <1>3

\* Between two jobs of which prune keeps one, it keeps the one that ended last.
LEMMA PruneHistory ==
    ASSUME NEW ids \in SUBSET Jobs, NEW v, NEW fin \in [Jobs -> Nat], NEW seq \in [Jobs -> Nat],
           now \in Nat, Ordered(v, fin, seq), ForgottenFirst(ids, v, seq),
           \A j \in ids : v[j].state = "running" \/ Over(v[j])
    PROVE  /\ ForgottenFirst(prune(ids, v, fin, seq), v, seq)
           /\ Cardinality(OverIn(v) \cap prune(ids, v, fin, seq)) =< Keep
  <1> DEFINE F == {j \in ids : v[j].state # "running" /\ now - fin[j] =< MaxAge}
             N == Newest(F, seq)
  <1>0. F \in SUBSET Jobs /\ IsFiniteSet(F) /\ F \subseteq OverIn(v)
    BY EngineAssumption, FS_Subset DEF OverIn
  <1>1. OverIn(v) \cap prune(ids, v, fin, seq) = N
    BY DEF prune, OverIn, Over, Newest
  <1>2. ASSUME NEW j \in N, NEW k \in OverIn(v) \ N PROVE seq[k] < seq[j]
    <2>1. j \in F /\ j \in ids /\ Cardinality({i \in F : seq[i] > seq[j]}) < Keep
      BY DEF Newest
    <2>2. seq[j] \in Nat /\ seq[k] \in Nat /\ fin[j] \in Nat /\ fin[k] \in Nat /\ j # k
      BY <1>2, <2>1 DEF OverIn
    <2>3. CASE k \notin ids
      BY <1>0, <2>1, <2>3 DEF ForgottenFirst
    <2>4. CASE k \in ids /\ k \notin F
      <3>1. now - fin[j] =< MaxAge /\ ~(now - fin[k] =< MaxAge)
        BY <2>1, <2>4 DEF OverIn, Over
      <3>2. fin[k] < fin[j]
        BY <2>2, <3>1, EngineAssumption
      <3>3. ~(seq[j] < seq[k]) /\ seq[j] # seq[k]
        BY <1>0, <2>1, <2>2, <3>2 DEF Ordered
      <3> QED
        BY <2>2, <3>3
    <2>5. CASE k \in F
      <3> DEFINE A == {i \in F : seq[i] > seq[j]}
                 B == {i \in F : seq[i] > seq[k]}
      <3>1. ~(Cardinality(B) < Keep)
        BY <1>2, <2>5 DEF Newest
      <3>2. SUFFICES ASSUME ~(seq[k] < seq[j]) PROVE FALSE
        OBVIOUS
      <3>3. B \subseteq A
        <4>1. \A i \in F : seq[i] \in Nat
          BY <1>0
        <4> QED
          BY <2>2, <3>2, <4>1
      <3>4. IsFiniteSet(A) /\ IsFiniteSet(B)
        BY <1>0, FS_Subset
      <3>5. Cardinality(B) <= Cardinality(A) /\ Cardinality(A) \in Nat /\ Cardinality(B) \in Nat
        <4> HIDE DEF A, B
        <4> QED
          BY <3>3, <3>4, FS_Subset, FS_CardinalityType
      <3>6. Cardinality(A) < Keep
        BY <2>1
      <3> HIDE DEF A, B
      <3> QED
        BY <3>1, <3>5, <3>6, EngineAssumption
    <2> QED
      BY <2>3, <2>4, <2>5
  <1>3. Cardinality(N) =< Keep
    <2>1. \A j, k \in F : seq[j] = seq[k] => j = k
      BY <1>0 DEF Ordered
    <2> HIDE DEF F
    <2> QED
      BY <1>0, <2>1, NewestCount
  <1> HIDE DEF N, F
  <1> QED
    BY <1>1, <1>2, <1>3 DEF ForgottenFirst

\* The invariant of the history: with the order of the ends, and nothing ended later
\* than now.
History ==
    /\ Ordered(view, finished, endSeq)
    /\ \A j \in OverIn(view) : endSeq[j] <= ended /\ finished[j] <= now
    /\ ForgottenFirst(byID, view, endSeq)
    /\ Cardinality(OverIn(view) \cap byID) =< Keep

LEMMA HistoryIsProperty == History => HistoryIsNewest
  BY DEF History, HistoryIsNewest, ForgottenFirst, OverIn

\* Steps that change no job that is over, and forget nothing.
LEMMA HistoryUntouched ==
    ASSUME IInv, History, byID' = byID, now' \in Nat, now <= now', UNCHANGED <<finished, endSeq, ended>>,
           OverIn(view') = OverIn(view)
    PROVE  History'
  <1>1. \A j \in OverIn(view) : finished[j] <= now'
    <2> TAKE j \in OverIn(view)
    <2>1. finished[j] \in Nat /\ now \in Nat /\ finished[j] <= now
      BY DEF IInv, TypeOK, History, OverIn
    <2> QED
      BY <2>1
  <1> QED
    BY <1>1 DEF History, Ordered, ForgottenFirst, OverIn

\* Steps that change no job that is over, and prune.
LEMMA HistoryPruned ==
    ASSUME IInv, History, NEW ids \in SUBSET Jobs, byID' = prune(ids, view', finished, endSeq),
           ids \cap OverIn(view) = byID \cap OverIn(view),
           OverIn(view') = OverIn(view),
           \A j \in ids : view'[j].state = "running" \/ Over(view'[j]),
           UNCHANGED <<finished, endSeq, ended, now>>
    PROVE  History'
  <1>1. Ordered(view', finished, endSeq) /\ ForgottenFirst(ids, view', endSeq)
    BY DEF History, Ordered, ForgottenFirst
  <1>2. now \in Nat /\ finished \in [Jobs -> Nat] /\ endSeq \in [Jobs -> Nat]
    BY DEF IInv, TypeOK
  <1>3. /\ ForgottenFirst(byID', view', endSeq)
        /\ Cardinality(OverIn(view') \cap byID') =< Keep
    BY <1>1, <1>2, PruneHistory
  <1> QED
    BY <1>1, <1>3 DEF History, Ordered, ForgottenFirst, OverIn

LEMMA StartHistory ==
    ASSUME IInv, History, NEW j \in Jobs, NEW n \in Nodes \cup {NoNode}, NEW plan \in SUBSET StepNames,
           Start(j, n, plan)
    PROVE  History'
  <1>1. /\ view \in [Jobs -> View] /\ byID \in SUBSET Jobs /\ view[j].state = "none"
        /\ view'[j].state = "running" /\ \A k \in Jobs : k # j => view'[k] = view[k]
        /\ \A k \in byID : view[k].state # "none"
        /\ \A k \in Jobs : view[k].state \in {"none", "running", "ok", "failed"}
    BY DEF Start, IInv, TypeOK, Unstarted, View
  <1>2. OverIn(view') = OverIn(view) /\ j \notin OverIn(view)
    BY <1>1 DEF OverIn, Over
  <1>3. \A k \in byID \cup {j} : view'[k].state = "running" \/ Over(view'[k])
    BY <1>1 DEF Over
  <1>4. /\ byID' = prune(byID \cup {j}, view', finished, endSeq)
        /\ UNCHANGED <<finished, endSeq, ended, now>>
    BY DEF Start
  <1> QED
    BY <1>1, <1>2, <1>3, <1>4, HistoryPruned

\* The job that ends now is the last to have ended so far.
LEMMA FinishHistory ==
    ASSUME IInv, History, NEW j \in Jobs, NEW new, Finished(j, new)
    PROVE  History'
  <1>1. /\ view \in [Jobs -> View] /\ byID \in SUBSET Jobs /\ view[j].state = "running"
        /\ Over(new)
        /\ view' = [view EXCEPT ![j] = new] /\ j \in byID
        /\ \A k \in byID : view[k].state # "none"
        /\ \A k \in Jobs : view[k].state \in {"none", "running", "ok", "failed"}
    BY DEF Finished, IInv, TypeOK, Unstarted, View, RunningRemembered, Running, Over
  <1>2. /\ finished \in [Jobs -> Nat] /\ endSeq \in [Jobs -> Nat] /\ now \in Nat
        /\ ended \in Nat
        /\ finished' = [finished EXCEPT ![j] = now]
        /\ endSeq' = [endSeq EXCEPT ![j] = ended + 1]
        /\ ended' = ended + 1 /\ now' = now
        /\ byID' = prune(byID, view', finished', endSeq')
    BY DEF Finished, IInv, TypeOK
  <1>3. OverIn(view') = OverIn(view) \cup {j} /\ j \notin OverIn(view)
    BY <1>1 DEF OverIn, Over
  <1>4. /\ \A k \in OverIn(view) : /\ finished'[k] = finished[k] /\ endSeq'[k] = endSeq[k]
                                   /\ endSeq[k] <= ended /\ finished[k] <= now
                                   /\ endSeq[k] \in Nat /\ finished[k] \in Nat
        /\ finished'[j] = now /\ endSeq'[j] = ended + 1
    BY <1>2, <1>3 DEF History, OverIn
  <1>5. Ordered(view', finished', endSeq')
    BY <1>2, <1>3, <1>4 DEF History, Ordered
  <1>6. ForgottenFirst(byID, view', endSeq')
    <2> SUFFICES ASSUME NEW i \in OverIn(view') \cap byID, NEW k \in OverIn(view') \ byID
                 PROVE  endSeq'[k] < endSeq'[i]
      BY DEF ForgottenFirst
    <2>1. k \in OverIn(view) /\ endSeq'[k] = endSeq[k] /\ endSeq[k] <= ended
          /\ endSeq[k] \in Nat
      BY <1>1, <1>3, <1>4
    <2>2. CASE i = j
      BY <1>2, <1>4, <2>1, <2>2
    <2>3. CASE i # j
      <3>1. i \in OverIn(view) \cap byID /\ endSeq'[i] = endSeq[i]
        BY <1>3, <1>4, <2>3
      <3> QED
        BY <2>1, <3>1 DEF History, ForgottenFirst
    <2> QED
      BY <2>2, <2>3
  <1>7. \A k \in byID : view'[k].state = "running" \/ Over(view'[k])
    BY <1>1 DEF Over
  <1>8. finished' \in [Jobs -> Nat] /\ endSeq' \in [Jobs -> Nat]
    BY <1>2
  <1>9. /\ ForgottenFirst(byID', view', endSeq')
        /\ Cardinality(OverIn(view') \cap byID') =< Keep
    BY <1>1, <1>2, <1>5, <1>6, <1>7, <1>8, PruneHistory
  <1>10. \A k \in OverIn(view') : endSeq'[k] <= ended' /\ finished'[k] <= now'
    BY <1>2, <1>3, <1>4
  <1> QED
    BY <1>5, <1>9, <1>10 DEF History, Ordered, ForgottenFirst, OverIn

\* Every operation of the engine keeps the history.
LEMMA HistoryKept ==
    ASSUME IInv, History, [Next]_vars
    PROVE  History'
  <1>0. /\ view \in [Jobs -> View] /\ byID \in SUBSET Jobs /\ now \in Nat
        /\ \A k \in byID : view[k].state = "running" \/ Over(view[k])
    BY DEF IInv, TypeOK, Unstarted, View, Over
  <1>1. ASSUME NEW j \in Jobs, NEW n \in Nodes \cup {NoNode}, NEW plan \in SUBSET StepNames,
               Start(j, n, plan)
        PROVE  History'
    BY <1>1, StartHistory
  <1>2. ASSUME NEW j \in Jobs, NEW new, Reported(j, new)
        PROVE  History'
    <2>1. /\ view[j].state = "running" /\ view'[j].state = "running"
          /\ \A k \in Jobs : k # j => view'[k] = view[k]
      BY <1>0, <1>2 DEF Reported
    <2>2. OverIn(view') = OverIn(view)
      BY <2>1 DEF OverIn, Over
    <2> QED
      BY <1>0, <1>2, <2>2, HistoryUntouched DEF Reported
  <1>3. ASSUME NEW j \in Jobs, NEW ok \in BOOLEAN, NEW t \in Texts, finish(j, ok, t)
        PROVE  History'
    BY <1>3, FinishIsFinished, FinishHistory
  <1>4. ASSUME UNCHANGED <<view, finished, endSeq, ended, byID>>, now' \in Nat, now <= now'
        PROVE  History'
    BY <1>4, HistoryUntouched
  <1>5. ASSUME UNCHANGED <<view, finished, endSeq, ended, now>>,
               byID' = prune(byID, view, finished, endSeq)
        PROVE  History'
    BY <1>0, <1>5, HistoryPruned
  <1>6. ASSUME NEW j \in Jobs, NEW s \in StepNames, NEW st \in StepStates, NEW t \in Texts,
               \/ Begin(j, s) \/ Done(j, s) \/ Detail(j, s, t) \/ Fail(j, s, t) \/ Set(j, s, st, t)
        PROVE  History'
    BY <1>2, <1>6, ReportIsReported
  <1>7. ASSUME NEW f \in Followers, NEW j \in Jobs, Subscribe(f, j)
        PROVE  History'
    BY <1>5, <1>7 DEF Subscribe, jobVars
  <1>8. ASSUME NEW f \in Followers, unsubscribe(f) \/ Receive(f) \/ ReceiveClosed(f)
        PROVE  History'
    BY <1>0, <1>4, <1>8 DEF unsubscribe, Receive, ReceiveClosed, jobVars
  <1>9. CASE Get
    BY <1>5, <1>9 DEF Get, jobVars
  <1>10. CASE wgDone \/ Close \/ CloseIdle \/ CloseGivesUp \/ Tick \/ UNCHANGED vars
    BY <1>0, <1>4, <1>10 DEF wgDone, Close, CloseIdle, CloseGivesUp, Tick, vars, jobVars
  <1>11. "pending" \in StepStates /\ "" \in Texts
    BY DEF StepStates, Texts
  <1> QED
    BY <1>1, <1>3, <1>6, <1>7, <1>8, <1>9, <1>10, <1>11 DEF Next

\* What prune has forgotten ended before everything it still remembers, and it never
\* remembers more than Keep finished jobs (jobs.go, prune).
THEOREM HistoryNewest == Spec => []HistoryIsNewest
  <1>1. Init => History
    <2> SUFFICES ASSUME Init PROVE History
      OBVIOUS
    <2>1. OverIn(view) = {}
      BY DEF Init, OverIn, Over, NoView
    <2> QED
      BY <2>1, FS_EmptySet, EngineAssumption DEF History, Ordered, ForgottenFirst
  <1>2. IInv /\ History /\ [Next]_vars => History'
    BY HistoryKept
  <1> QED
    BY <1>1, <1>2, HistoryIsProperty, Invariance, PTL DEF Spec

============================================================================
