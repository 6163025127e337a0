------------------------- MODULE EngineHistoryProofs --------------------------
(***************************************************************************)
(* What Engine writes down and what it owes, for any number of tasks,      *)
(* providers, engines and runs: the run history tells the truth about the  *)
(* runs, and an outcome in it is final; a one-shot stays queued until it   *)
(* has completed and is not started again after that, a join waits for the *)
(* jobs it depends on, a session the operator stopped is not continued by  *)
(* the queue, and no two processes write to one session.                   *)
(*                                                                         *)
(* Each theorem names the requests it leaves out; with any of them the     *)
(* property is false, as the code leaves it to the operator.  Manual       *)
(* starts and canceled resumes act on what they read before a probe or     *)
(* between two locks, so that they can bring a task or a session back; and *)
(* a daemon that starts after a crash lets the operator continue what the  *)
(* last one left, and starts it again itself.                              *)
(***************************************************************************)
EXTENDS EngineProofs

-----------------------------------------------------------------------------
\* The operators on the history, by the entries they leave.

\* AppendRun replaces what is known of a run and leaves the rest,
LEMMA HistPutRange ==
  ASSUME NEW h \in Seq(RunRecord), NEW rec \in RunRecord
  PROVE  \A x \in Range(HistPut(h, rec)) : x = rec \/ (x \in Range(h) /\ x.run # rec.run)
<1>1. CASE \E i \in 1..Len(h) : h[i].run = rec.run
  <2>1. HistPut(h, rec) = [i \in 1..Len(h) |-> IF h[i].run = rec.run THEN rec ELSE h[i]]
    BY <1>1 DEF HistPut
  <2> QED  BY <2>1 DEF Range
<1>2. CASE ~ \E i \in 1..Len(h) : h[i].run = rec.run
  <2>1. HistPut(h, rec) = Append(h, rec)
    BY <1>2 DEF HistPut
  <2>2. \A i \in 1..Len(h) + 1 : Append(h, rec)[i] = IF i <= Len(h) THEN h[i] ELSE rec
    OBVIOUS
  <2>3. DOMAIN Append(h, rec) = 1..Len(h) + 1 /\ DOMAIN h = 1..Len(h)
    OBVIOUS
  <2> QED  BY <1>2, <2>1, <2>2, <2>3 DEF Range
<1> QED  BY <1>1, <1>2

\* pruning only drops entries,
LEMMA PruneRange ==
  ASSUME NEW h \in Seq(RunRecord)
  PROVE  Range(Prune(h)) \subseteq Range(h)
<1>1. CASE Len(h) <= HistoryLimit
  BY <1>1 DEF Prune
<1>2. CASE Len(h) > HistoryLimit
  <2> DEFINE m == Len(h) - HistoryLimit + 1
  <2>1. m \in Int /\ m >= 1 /\ \A i \in m .. Len(h) : h[i] \in RunRecord
    BY <1>2, BoundsAssumption
  <2>2. /\ Prune(h) = SubSeq(h, m, Len(h))
        /\ DOMAIN Prune(h) = 1..(Len(h) - m + 1)
        /\ \A i \in 1..(Len(h) - m + 1) : Prune(h)[i] = h[m + i - 1]
    BY <1>2, <2>1, SubSeqProperties, BoundsAssumption DEF Prune
  <2>3. \A i \in 1..(Len(h) - m + 1) : m + i - 1 \in 1..Len(h)
    BY <2>1
  <2>4. DOMAIN h = 1..Len(h)
    OBVIOUS
  <2> HIDE DEF m
  <2>5. ASSUME NEW i \in 1..(Len(h) - m + 1)  PROVE Prune(h)[i] \in Range(h)
    BY <2>2, <2>3, <2>4 DEF Range
  <2>6. Range(Prune(h)) = {Prune(h)[i] : i \in 1..(Len(h) - m + 1)}
    BY <2>2 DEF Range
  <2> QED  BY <2>5, <2>6
<1> QED  BY <1>1, <1>2, BoundsAssumption

\* and reconciling leaves none running and changes no other.
LEMMA ReconcileRange ==
  ASSUME NEW h \in Seq(RunRecord)
  PROVE  \A x \in Range(Reconcile(h)) :
           /\ x.status # "running"
           /\ \/ x \in Range(h)
              \/ \E y \in Range(h) : y.status = "running" /\ x = [y EXCEPT !.status = "failed"]
<1>1. \A y \in RunRecord : [y EXCEPT !.status = "failed"].status = "failed"
  BY DEF RunRecord
<1>2. DOMAIN h = 1..Len(h) /\ \A i \in 1..Len(h) : h[i] \in RunRecord
  OBVIOUS
<1>3. /\ DOMAIN Reconcile(h) = 1..Len(h)
      /\ \A i \in 1..Len(h) : Reconcile(h)[i] = IF h[i].status = "running"
                              THEN [h[i] EXCEPT !.status = "failed"] ELSE h[i]
  BY DEF Reconcile
<1>4. ASSUME NEW i \in 1..Len(h)
      PROVE  /\ Reconcile(h)[i].status # "running"
             /\ \/ Reconcile(h)[i] \in Range(h)
                \/ \E y \in Range(h) : /\ y.status = "running"
                                       /\ Reconcile(h)[i] = [y EXCEPT !.status = "failed"]
  <2>1. h[i] \in Range(h)
    BY <1>2 DEF Range
  <2> QED  BY <1>1, <1>2, <1>3, <2>1
<1>5. Range(Reconcile(h)) = {Reconcile(h)[i] : i \in 1..Len(h)}
  BY <1>3 DEF Range
<1> SUFFICES ASSUME NEW x \in Range(Reconcile(h))
             PROVE  /\ x.status # "running"
                    /\ \/ x \in Range(h)
                       \/ \E y \in Range(h) : /\ y.status = "running"
                                              /\ x = [y EXCEPT !.status = "failed"]
  OBVIOUS
<1>6. PICK i \in 1..Len(h) : x = Reconcile(h)[i]
  BY <1>5
<1> QED  BY <1>4, <1>6

\* The history is written at the launch of a run and at its record, when a
\* resume is canceled, and when the daemon starts.
LEMMA StepKeepsHist ==
  ASSUME TypeInv, [Next]_vars
  PROVE  \/ hist' = hist
         \/ \E t \in Tasks : TickLaunch(t)
         \/ \E n \in now : NowStart(n)
         \/ \E r \in DOMAIN run : FinishRecord(r)
         \/ \E q \in request : CancelResumeRecord(q)
         \/ Restart
<1> USE DEF vars, disk, memory, operator, config, state
<1>1. ASSUME NEW r \in DOMAIN run, Finish(r), ~FinishRecord(r)  PROVE hist' = hist
  BY <1>1, SMTT(60) DEF Finish, FinishLock, FinishLimited, FinishRetire, FinishUnqueue, FinishDeactivate
<1>2. ASSUME Tick, \A t \in Tasks : ~TickLaunch(t)  PROVE hist' = hist
  BY <1>2 DEF Tick, TickBegin, TickAbandoned, TickLock, TickRecord, TickLaunchFails
<1>3. ASSUME RunRequest, \A q \in request : ~CancelResumeRecord(q)  PROVE hist' = hist
  BY <1>3 DEF RunRequest, CancelRun, TakeOverRun, TakeOverAnswered, TakeOverTimesOut,
              ContinueFinished, CancelResume, CloseTerminal, CancelResumeRetire,
              CancelResumeUnqueue
<1>4. ASSUME QueueRequest  PROVE hist' = hist
  BY <1>4 DEF QueueRequest, AddTask, AddTaskCommit, RemoveTask, ForgetTask, EditTask,
              SetPaused, Move
<1>5. ASSUME Manual, \A n \in now : ~NowStart(n)  PROVE hist' = hist
  BY <1>5 DEF Manual, NowBegin, NowRefused
<1>6. ASSUME NEW r \in DOMAIN run, NEW o \in {"success", "failed", "rate_limited"},
             RunExits(r, o)
      PROVE  hist' = hist
  BY <1>6 DEF RunExits
<1>7. ASSUME NEW t \in Tasks, TriggerComes(t)  PROVE hist' = hist
  BY <1>7 DEF TriggerComes
<1>8. ASSUME NEW e \in Engines, NEW p \in Providers, GateReopens(e, p)  PROVE hist' = hist
  BY <1>8 DEF GateReopens
<1>9. ASSUME Stop \/ Exit \/ Crash \/ UNCHANGED vars  PROVE hist' = hist
  BY <1>9 DEF Stop, Exit, Crash
<1> QED  BY <1>1, <1>2, <1>3, <1>4, <1>5, <1>6, <1>7, <1>8, <1>9 DEF Next

-----------------------------------------------------------------------------
\* What a step can do to one run: nothing, a request to stop, the end of its
\* process, a step of its finish, or the loss of its daemon.
RunStays(r) ==
  /\ run'[r].phase = run[r].phase /\ run'[r].status = run[r].status
  /\ run[r].canceled => run'[r].canceled
  /\ run'[r].canceled => run[r].canceled \/ run[r].phase \in Holding

RunGoesTo(r, to) ==
  /\ run'[r].phase \in to /\ run'[r].status = run[r].status
  /\ run'[r].canceled = run[r].canceled

RunStep(r) ==
  \/ RunStays(r)
  \/ /\ run[r].phase = "executing" /\ run'[r].phase = "exited"
     /\ run'[r].status \in {"success", "failed", "rate_limited"}
     /\ run'[r].canceled = run[r].canceled
  \/ /\ FinishLock(r) /\ run'[r].phase = "released" /\ run'[r].status = FinishStatus(r)
     /\ run'[r].canceled = run[r].canceled
  \/ FinishLimited(r) /\ RunGoesTo(r, {"settled"})
  \/ FinishRetire(r) /\ RunGoesTo(r, {"retiring", "settled"})
  \/ FinishUnqueue(r) /\ RunGoesTo(r, {"settled"})
  \/ FinishDeactivate(r) /\ RunGoesTo(r, {"inactive"})
  \/ FinishRecord(r) /\ RunGoesTo(r, {"done"})
  \/ /\ Crash /\ run[r].engine = Daemon /\ run[r].phase \in Unfinished
     /\ RunGoesTo(r, {"lost"})

LEMMA EachRunSteps ==
  ASSUME TypeInv, [Next]_vars, NEW r \in DOMAIN run
  PROVE  RunStep(r)
<1> USE DEF vars, disk, memory, operator, config, state
<1>t. \A s \in DOMAIN run : run[s] \in RunType
  BY RunElement DEF TypeInv, TypeOK
<1>0. run \in Seq(RunType) /\ Len(run) \in Nat /\ DOMAIN run = 1..Len(run)
  BY DEF TypeInv, TypeOK, RunsOK
<1>u. ASSUME run'[r] = run[r]  PROVE RunStep(r)
  BY <1>u DEF RunStep, RunStays
<1>a. ASSUME NEW x, run' = Append(run, x)  PROVE RunStep(r)
  <2>1. r \in 1..Len(run) /\ \A i \in 1..Len(run) : Append(run, x)[i] = run[i]
    BY <1>0
  <2>2. run'[r] = run[r]
    BY <2>1, <1>a
  <2> QED  BY <2>2, <1>u
<1>1. ASSUME Tick  PROVE RunStep(r)
  <2>1. CASE \E t \in Tasks : TickLaunch(t)
    BY <2>1, <1>a, SMTT(60) DEF TickLaunch, Launch
  <2>2. CASE ~ \E t \in Tasks : TickLaunch(t)
    BY <1>1, <1>u, <2>2 DEF Tick, TickBegin, TickAbandoned, TickLock, TickRecord, TickLaunchFails
  <2> QED  BY <2>1, <2>2
<1>2. ASSUME NEW s \in DOMAIN run, Finish(s)  PROVE RunStep(r)
  <2>1. CASE s # r
    <3>1. run'[r] = run[r]
      BY <1>2, <2>1 DEF Finish, FinishLock, FinishLimited, FinishRetire, FinishUnqueue,
                        FinishDeactivate, FinishRecord
    <3> QED  BY <3>1, <1>u
  <2>2. ASSUME NEW to, run' = [run EXCEPT ![r].phase = to]  PROVE RunGoesTo(r, {to})
    BY <1>t, <2>2 DEF RunGoesTo, RunType
  <2>3. CASE FinishLock(r)
    <3>1. run' = [run EXCEPT ![r].phase = "released", ![r].status = FinishStatus(r)]
      BY <2>3 DEF FinishLock
    <3>2. /\ run'[r].phase = "released" /\ run'[r].status = FinishStatus(r)
          /\ run'[r].canceled = run[r].canceled
      BY <1>t, <3>1 DEF RunType
    <3> QED  BY <2>3, <3>2 DEF RunStep
  <2>4. CASE FinishLimited(r)
    <3>1. RunGoesTo(r, {"settled"})
      BY <2>2, <2>4 DEF FinishLimited
    <3> QED  BY <2>4, <3>1 DEF RunStep
  <2>5. CASE FinishRetire(r)
    <3>1. PICK to \in {"retiring", "settled"} : run' = [run EXCEPT ![r].phase = to]
      BY <2>5 DEF FinishRetire
    <3>2. RunGoesTo(r, {"retiring", "settled"})
      BY <2>2, <3>1 DEF RunGoesTo
    <3> QED  BY <2>5, <3>2 DEF RunStep
  <2>6. CASE FinishUnqueue(r)
    <3>1. RunGoesTo(r, {"settled"})
      BY <2>2, <2>6 DEF FinishUnqueue
    <3> QED  BY <2>6, <3>1 DEF RunStep
  <2>7. CASE FinishDeactivate(r)
    <3>1. RunGoesTo(r, {"inactive"})
      BY <2>2, <2>7 DEF FinishDeactivate
    <3> QED  BY <2>7, <3>1 DEF RunStep
  <2>8. CASE FinishRecord(r)
    <3>1. RunGoesTo(r, {"done"})
      BY <2>2, <2>8 DEF FinishRecord
    <3> QED  BY <2>8, <3>1 DEF RunStep
  <2> QED  BY <1>2, <2>1, <2>3, <2>4, <2>5, <2>6, <2>7, <2>8 DEF Finish
<1>3. ASSUME NEW s \in DOMAIN run, NEW o \in {"success", "failed", "rate_limited"},
             RunExits(s, o)
      PROVE  RunStep(r)
  <2>1. run' = [run EXCEPT ![s].phase = "exited", ![s].status = o] /\ run[s].phase = "executing"
    BY <1>3 DEF RunExits
  <2>2. CASE s # r
    BY <2>1, <2>2, <1>u
  <2>3. CASE s = r
    <3>1. run'[r].phase = "exited" /\ run'[r].status = o /\ run'[r].canceled = run[r].canceled
      BY <1>t, <2>1, <2>3 DEF RunType
    <3> QED  BY <2>1, <2>3, <3>1 DEF RunStep
  <2> QED  BY <2>2, <2>3
<1>4. ASSUME Manual  PROVE RunStep(r)
  <2>1. CASE \E n \in now : NowStart(n)
    BY <2>1, <1>a DEF NowStart, Launch
  <2>2. CASE ~ \E n \in now : NowStart(n)
    BY <1>4, <1>u, <2>2 DEF Manual, NowBegin, NowRefused
  <2> QED  BY <2>1, <2>2
<1>5. ASSUME RunRequest  PROVE RunStep(r)
  <2>1. ASSUME NEW s \in DOMAIN run, CancelRun(s) \/ TakeOverRun(s)  PROVE RunStep(r)
    <3>1. run' = [run EXCEPT ![s].canceled = TRUE] /\ run[s].phase \in Holding
      BY <2>1 DEF CancelRun, TakeOverRun, Cancelable
    <3>2. RunStays(r)
      BY <1>t, <3>1 DEF RunStays, RunType
    <3> QED  BY <3>2 DEF RunStep
  <2>2. CASE \E s \in DOMAIN run : CancelRun(s) \/ TakeOverRun(s)
    BY <2>1, <2>2
  <2>3. CASE ~ \E s \in DOMAIN run : CancelRun(s) \/ TakeOverRun(s)
    BY <1>5, <1>u, <2>3
       DEF RunRequest, TakeOverAnswered, TakeOverTimesOut, ContinueFinished, CancelResume,
           CloseTerminal, CancelResumeRetire, CancelResumeUnqueue, CancelResumeRecord
  <2> QED  BY <2>2, <2>3
<1>6. ASSUME QueueRequest  PROVE RunStep(r)
  BY <1>6, <1>u
     DEF QueueRequest, AddTask, AddTaskCommit, RemoveTask, ForgetTask, EditTask, SetPaused, Move
<1>7. ASSUME Stop \/ Exit \/ Restart \/ UNCHANGED vars  PROVE RunStep(r)
  BY <1>7, <1>u DEF Stop, Exit, Restart
<1>8. ASSUME Crash  PROVE RunStep(r)
  <2>1. run'[r] = IF run[r].engine = Daemon /\ run[r].phase \in Unfinished
                  THEN [run[r] EXCEPT !.phase = "lost"] ELSE run[r]
    BY <1>8 DEF Crash
  <2>2. CASE run'[r] = run[r]
    BY <2>2, <1>u
  <2>3. CASE run[r].engine = Daemon /\ run[r].phase \in Unfinished
    <3>1. RunGoesTo(r, {"lost"})
      BY <1>t, <2>1, <2>3 DEF RunGoesTo, RunType
    <3> QED  BY <1>8, <2>3, <3>1 DEF RunStep
  <2> QED  BY <2>1, <2>2, <2>3
<1>9. ASSUME NEW t \in Tasks, TriggerComes(t)  PROVE RunStep(r)
  BY <1>9, <1>u DEF TriggerComes
<1>10. ASSUME NEW e \in Engines, NEW p \in Providers, GateReopens(e, p)  PROVE RunStep(r)
  BY <1>10, <1>u DEF GateReopens
<1> QED  BY <1>1, <1>2, <1>3, <1>4, <1>5, <1>6, <1>7, <1>8, <1>9, <1>10 DEF Next

\* A run keeps its number, and is what it was.
LEMMA RunsStay ==
  ASSUME TypeInv, [Next]_vars, NEW r \in DOMAIN run
  PROVE  r \in DOMAIN run' /\ SameRun(run[r], run'[r])
<1>1. CASE SameRuns
  BY <1>1 DEF SameRuns
<1>2. ASSUME NEW t \in Tasks, TickLaunch(t)  PROVE r \in DOMAIN run' /\ SameRun(run[r], run'[r])
  <2>1. Launch(Daemon, t, tick.def[t], tick.target[t], tick.waiting[t], FALSE)
    BY <1>2 DEF TickLaunch
  <2> QED  BY <2>1, LaunchAdds DEF SameRun
<1>3. ASSUME NEW n \in now, NowStart(n)  PROVE r \in DOMAIN run' /\ SameRun(run[r], run'[r])
  <2>1. Launch(n.engine, n.task, n.def, n.provider, n.waiting, TRUE)
    BY <1>3 DEF NowStart
  <2> QED  BY <2>1, LaunchAdds DEF SameRun
<1> QED  BY <1>1, <1>2, <1>3, StepKeepsRuns

\* The daemon goes down by its exit or a crash, and comes back by a restart.
LEMMA StageStep ==
  ASSUME [Next]_vars
  PROVE  /\ stage' # "down" => stage # "down" \/ Restart
         /\ stage' = "down" => stage = "down" \/ Exit \/ Crash
<1> USE DEF vars, disk, memory, operator, config, state
<1>1. ASSUME NEW r \in DOMAIN run, Finish(r)  PROVE stage' = stage
  BY <1>1 DEF Finish, FinishLock, FinishLimited, FinishRetire, FinishUnqueue, FinishDeactivate,
              FinishRecord
<1>2. ASSUME Tick  PROVE stage' = stage \/ (stage # "down" /\ stage' # "down")
  BY <1>2 DEF Tick, TickBegin, TickAbandoned, TickLock, TickRecord, TickLaunchFails, TickLaunch,
              NextStart
<1>3. ASSUME RunRequest \/ QueueRequest \/ Manual  PROVE stage' = stage
  BY <1>3 DEF RunRequest, CancelRun, TakeOverRun, TakeOverAnswered, TakeOverTimesOut,
              ContinueFinished, CancelResume, CloseTerminal, CancelResumeRetire,
              CancelResumeUnqueue, CancelResumeRecord,
              QueueRequest, AddTask, AddTaskCommit, RemoveTask, ForgetTask, EditTask,
              SetPaused, Move, Manual, NowBegin, NowRefused, NowStart
<1>4. ASSUME NEW r \in DOMAIN run, NEW o \in {"success", "failed", "rate_limited"},
             RunExits(r, o)
      PROVE  stage' = stage
  BY <1>4 DEF RunExits
<1>5. ASSUME NEW t \in Tasks, TriggerComes(t)  PROVE stage' = stage
  BY <1>5 DEF TriggerComes
<1>6. ASSUME NEW e \in Engines, NEW p \in Providers, GateReopens(e, p)  PROVE stage' = stage
  BY <1>6 DEF GateReopens
<1>7. ASSUME Stop \/ UNCHANGED vars  PROVE stage' = stage \/ (stage # "down" /\ stage' # "down")
  BY <1>7 DEF Stop
<1>8. ASSUME Restart  PROVE stage' # "down"
  BY <1>8 DEF Restart
<1>9. ASSUME Exit \/ Crash  PROVE stage' = "down"
  BY <1>9 DEF Exit, Crash, DaemonGone
<1> QED  BY <1>1, <1>2, <1>3, <1>4, <1>5, <1>6, <1>7, <1>8, <1>9 DEF Next

\* What the writers of the history leave in it: a launch adds its run as running
\* unless the task is quiet,
LEMMA LaunchEntries ==
  ASSUME TypeInv, NEW e, NEW t \in Tasks, NEW d, NEW p, NEW waiting \in PendingResume,
         NEW manual \in BOOLEAN, Len(run) < MaxRuns,
         Launch(e, t, d, p, waiting, manual)
  PROVE  \A x \in Range(hist') :
           \/ x \in Range(hist)
           \/ /\ ~d.quiet /\ x.run = Len(run) + 1 /\ x.status = "running" /\ x.task = t
              /\ x.session = SessionFor(Len(run) + 1, p, waiting)
<1> DEFINE r == Len(run) + 1
           rec == [run |-> r, task |-> t, status |-> "running", session |-> SessionFor(r, p, waiting)]
<1>1. hist \in Seq(RunRecord) /\ run \in Seq(RunType)
  BY DEF TypeInv, TypeOK, RunsOK
<1>2. rec \in RunRecord
  <2>1. r \in RunIds
    BY <1>1, BoundsAssumption DEF RunIds
  <2>2. SessionFor(r, p, waiting) \in Sessions
    BY <2>1 DEF SessionFor, Sessions, PendingResume
  <2> QED  BY <2>1, <2>2 DEF RunRecord, Statuses
<1>3. hist' = IF d.quiet THEN hist ELSE HistPut(hist, rec)
  BY DEF Launch
<1>4. rec.run = r /\ rec.status = "running" /\ rec.task = t /\ rec.session = SessionFor(r, p, waiting)
  OBVIOUS
<1> HIDE DEF rec
<1> QED  BY <1>1, <1>2, <1>3, <1>4, HistPutRange

\* the record of a run replaces what is known of it,
LEMMA RecordEntries ==
  ASSUME TypeInv, NEW r \in DOMAIN run, FinishRecord(r)
  PROVE  /\ run[r].phase = "inactive"
         /\ \A x \in Range(hist') :
              \/ x = Record(r)
              \/ x \in Range(hist) /\ (x.run = r => run[r].def.quiet /\ run[r].status = "success")
<1>1. hist \in Seq(RunRecord) /\ Record(r) \in RunRecord /\ Record(r).run = r
  <2>1. run[r] \in RunType /\ r \in RunIds
    BY RunElement DEF TypeInv, TypeOK
  <2> QED  BY <2>1 DEF Record, RunRecord, RunType, TypeInv, TypeOK
<1>2. hist' = IF run[r].def.quiet /\ run[r].status = "success" THEN hist
              ELSE Prune(HistPut(hist, Record(r)))
  BY DEF FinishRecord
<1>3. HistPut(hist, Record(r)) \in Seq(RunRecord)
  BY <1>1, HistPutType
<1>4. Range(Prune(HistPut(hist, Record(r)))) \subseteq Range(HistPut(hist, Record(r)))
  BY <1>3, PruneRange
<1>5. \A x \in Range(HistPut(hist, Record(r))) :
        x = Record(r) \/ (x \in Range(hist) /\ x.run # Record(r).run)
  BY <1>1, HistPutRange
<1> QED  BY <1>1, <1>2, <1>4, <1>5 DEF FinishRecord

\* so does the record of a canceled resume,
LEMMA CancelEntries ==
  ASSUME TypeInv, NEW q \in request, CancelResumeRecord(q)
  PROVE  \A x \in Range(hist') :
           \/ x = [run |-> q.run, task |-> q.task, status |-> "canceled",
                   session |-> run[q.run].session]
           \/ x \in Range(hist) /\ x.run # q.run
<1> DEFINE rec == [run |-> q.run, task |-> q.task, status |-> "canceled",
                   session |-> run[q.run].session]
<1>1. q.kind = "record" /\ q.run \in DOMAIN run /\ q.task \in Tasks
  BY DEF CancelResumeRecord, TypeInv, TypeOK, OperatorOK, RequestRuns
<1>2. rec \in RunRecord
  <2>1. run[q.run] \in RunType /\ q.run \in RunIds
    BY <1>1, RunElement DEF TypeInv, TypeOK
  <2> QED  BY <1>1, <2>1 DEF RunRecord, RunType, Statuses
<1>3. hist' = HistPut(hist, rec) /\ hist \in Seq(RunRecord) /\ rec.run = q.run
  BY DEF CancelResumeRecord, TypeInv, TypeOK
<1> HIDE DEF rec
<1>4. \A x \in Range(hist') : x = rec \/ (x \in Range(hist) /\ x.run # q.run)
  BY <1>2, <1>3, HistPutRange
<1> QED  BY <1>4 DEF rec

\* and a daemon that starts finds nothing running.
LEMMA RestartEntries ==
  ASSUME TypeInv, Restart
  PROVE  \A x \in Range(hist') :
           /\ x.status # "running"
           /\ \/ x \in Range(hist)
              \/ \E y \in Range(hist) : y.status = "running" /\ x = [y EXCEPT !.status = "failed"]
<1>1. hist \in Seq(RunRecord) /\ hist' = Prune(Reconcile(hist))
  BY DEF TypeInv, TypeOK, Restart
<1>2. Reconcile(hist) \in Seq(RunRecord)
  BY <1>1, ReconcileType
<1>3. Range(hist') \subseteq Range(Reconcile(hist))
  BY <1>1, <1>2, PruneRange
<1> QED  BY <1>1, <1>3, ReconcileRange

\* What a sequence has at a place is one of its elements.
LEMMA InRange ==
  ASSUME NEW S, NEW s \in Seq(S), NEW i \in 1..Len(s)
  PROVE  s[i] \in Range(s)
BY DEF Range

\* An entry is a run record.
LEMMA EntriesType == TypeInv => \A x \in Range(hist) : x \in RunRecord
BY DEF TypeInv, TypeOK, Range

\* All in all, an entry is an old one, or one of the four kinds of news.
StartEntry(x) ==
  /\ x.run \notin DOMAIN run /\ x.run \in DOMAIN run' /\ x.status = "running"
  /\ ~run'[x.run].def.quiet /\ run'[x.run].phase = "executing"
  /\ x.task = run'[x.run].task /\ x.session = run'[x.run].session

LEMMA StartEntries ==
  ASSUME TypeInv, (\E t \in Tasks : TickLaunch(t)) \/ (\E n \in now : NowStart(n))
  PROVE  \A x \in Range(hist') : x \in Range(hist) \/ StartEntry(x)
<1>1. ASSUME NEW e, NEW t \in Tasks, NEW d, NEW p, NEW w \in PendingResume, NEW m \in BOOLEAN,
             Len(run) < MaxRuns, Launch(e, t, d, p, w, m)
      PROVE  \A x \in Range(hist') : x \in Range(hist) \/ StartEntry(x)
  <2>1. \A x \in Range(hist') :
           \/ x \in Range(hist)
           \/ /\ ~d.quiet /\ x.run = Len(run) + 1 /\ x.status = "running" /\ x.task = t
              /\ x.session = SessionFor(Len(run) + 1, p, w)
    BY <1>1, LaunchEntries
  <2>2. LET r == Len(run) + 1
        IN /\ r \notin DOMAIN run /\ r \in DOMAIN run' /\ run'[r].task = t /\ run'[r].def = d
           /\ run'[r].session = SessionFor(r, p, w) /\ run'[r].phase = "executing"
    BY <1>1, LaunchAdds
  <2> QED  BY <2>1, <2>2 DEF StartEntry
<1>2. ASSUME NEW t \in Tasks, TickLaunch(t)
      PROVE  \A x \in Range(hist') : x \in Range(hist) \/ StartEntry(x)
  <2>1. tick.waiting[t] \in PendingResume
    BY <1>2 DEF TickLaunch, NextStart, TypeInv, TickWaits
  <2> QED  BY <1>1, <1>2, <2>1 DEF TickLaunch
<1>3. ASSUME NEW n \in now, NowStart(n)
      PROVE  \A x \in Range(hist') : x \in Range(hist) \/ StartEntry(x)
  <2>1. n.waiting \in PendingResume /\ n.task \in Tasks
    BY DEF NowType, TypeInv, TypeOK
  <2> QED  BY <1>1, <1>3, <2>1 DEF NowStart
<1> QED  BY <1>2, <1>3

LEMMA StepEntries ==
  ASSUME TypeInv, [Next]_vars
  PROVE  \A x \in Range(hist') :
           \/ x \in Range(hist)
           \/ StartEntry(x)
           \/ \E r \in DOMAIN run : FinishRecord(r) /\ x = Record(r)
           \/ \E q \in request :
                /\ CancelResumeRecord(q)
                /\ x = [run |-> q.run, task |-> q.task, status |-> "canceled",
                        session |-> run[q.run].session]
           \/ /\ Restart
              /\ \E y \in Range(hist) : y.status = "running" /\ x = [y EXCEPT !.status = "failed"]
BY StepKeepsHist, StartEntries, RecordEntries, CancelEntries, RestartEntries

-----------------------------------------------------------------------------
\* What the history calls running is running.

\* Every entry is about a run,
HistRuns == \A x \in Range(hist) : x.run \in DOMAIN run

\* a run has an outcome once its process is gone,
OutcomeKnown ==
  \A r \in DOMAIN run : run[r].phase \notin {"executing", "lost"} => run[r].status # "running"

\* and a running entry, which no quiet task's run has, stands for a live run.
RunningEntries ==
  \A x \in Range(hist) : x.status = "running" =>
     /\ ~run[x.run].def.quiet
     /\ stage # "down" => run[x.run].phase \in Unfinished

HistInv == HistRuns /\ OutcomeKnown /\ RunningEntries

\* The history is empty at first.
LEMMA HistInvInit == Init => HistInv
BY DEF Init, HistInv, HistRuns, OutcomeKnown, RunningEntries, Range

\* The outcome of a run is set when its process ends.
LEMMA OutcomeStep ==
  ASSUME TypeInv, OutcomeKnown, [Next]_vars
  PROVE  OutcomeKnown'
<1>1. ASSUME NEW r \in DOMAIN run, run'[r].phase \notin {"executing", "lost"}
      PROVE  run'[r].status # "running"
  <2>1. run[r].phase \notin {"executing", "lost"} => run[r].status # "running"
    BY DEF OutcomeKnown
  <2>2. FinishStatus(r) \in {run[r].status, "canceled"}
    BY DEF FinishStatus
  <2>3. RunStep(r)
    BY EachRunSteps
  <2> QED  BY <1>1, <2>1, <2>2, <2>3
           DEF RunStep, RunStays, RunGoesTo, FinishLock, FinishLimited, FinishRetire, FinishUnqueue,
               FinishDeactivate, FinishRecord
<1>2. CASE SameRuns
  BY <1>1, <1>2 DEF SameRuns, OutcomeKnown
<1>3. ASSUME NEW e, NEW t, NEW d, NEW p, NEW w, NEW m \in BOOLEAN, Launch(e, t, d, p, w, m)
      PROVE  OutcomeKnown'
  BY <1>1, <1>3, LaunchAdds DEF OutcomeKnown
<1>4. ASSUME NEW t \in Tasks, TickLaunch(t)  PROVE OutcomeKnown'
  BY <1>3, <1>4 DEF TickLaunch
<1>5. ASSUME NEW n \in now, NowStart(n)  PROVE OutcomeKnown'
  BY <1>3, <1>5 DEF NowStart
<1> QED  BY <1>2, <1>4, <1>5, StepKeepsRuns

\* HistInv is inductive, given the types.
LEMMA HistInvStep ==
  ASSUME TypeInv, HistInv, [Next]_vars
  PROVE  HistInv'
<1> USE DEF HistInv
<1>1. OutcomeKnown'
  BY OutcomeStep
<1>2. ASSUME NEW x \in Range(hist')
      PROVE  /\ x.run \in DOMAIN run'
             /\ x.status = "running" =>
                  /\ ~run'[x.run].def.quiet
                  /\ stage' # "down" => run'[x.run].phase \in Unfinished
  <2>1. CASE StartEntry(x)
    BY <2>1 DEF StartEntry, Unfinished, Occupying, Holding
  <2>2. ASSUME NEW r \in DOMAIN run, FinishRecord(r), x = Record(r)
        PROVE  x.run \in DOMAIN run' /\ x.status # "running"
    <3>1. run[r].phase = "inactive" /\ r \in DOMAIN run'
      BY <2>2, RunsStay DEF FinishRecord
    <3> QED  BY <2>2, <3>1 DEF Record, OutcomeKnown
  <2>3. ASSUME NEW q \in request, CancelResumeRecord(q),
               x = [run |-> q.run, task |-> q.task, status |-> "canceled",
                    session |-> run[q.run].session]
        PROVE  x.run \in DOMAIN run' /\ x.status # "running"
    <3>1. q.run \in DOMAIN run
      BY <2>3 DEF CancelResumeRecord, TypeInv, RequestRuns
    <3> QED  BY <2>3, <3>1, RunsStay
  <2>4. ASSUME Restart, NEW y \in Range(hist), x = [y EXCEPT !.status = "failed"]
        PROVE  x.run \in DOMAIN run' /\ x.status # "running"
    <3>1. y \in RunRecord /\ y.run \in DOMAIN run'
      BY RunsStay, EntriesType DEF HistRuns
    <3> QED  BY <2>4, <3>1 DEF RunRecord
  <2>5. CASE x \in Range(hist)
    <3>1. x.run \in DOMAIN run /\ x.run \in DOMAIN run' /\ SameRun(run[x.run], run'[x.run])
      BY <2>5, RunsStay DEF HistRuns
    <3>2. ASSUME x.status = "running"  PROVE ~run'[x.run].def.quiet
      BY <2>5, <3>1, <3>2 DEF RunningEntries, SameRun
    <3>3. ASSUME x.status = "running", stage' # "down"  PROVE run'[x.run].phase \in Unfinished
      <4>1. stage # "down"
        BY <3>3, StageStep, RestartEntries
      <4>2. run[x.run].phase \in Unfinished /\ ~run[x.run].def.quiet
        BY <2>5, <3>3, <4>1 DEF RunningEntries
      <4>3. ~Crash
        BY <3>3 DEF Crash, DaemonGone
      <4>4. ~FinishRecord(x.run)
        <5>1. SUFFICES ASSUME FinishRecord(x.run)  PROVE FALSE
          OBVIOUS
        <5>2. x = Record(x.run) /\ run[x.run].phase = "inactive"
          BY <3>1, <4>2, <5>1, RecordEntries
        <5>3. x.status = run[x.run].status
          BY <5>2 DEF Record
        <5> QED  BY <3>1, <3>3, <5>2, <5>3 DEF OutcomeKnown
      <4>5. RunStep(x.run)
        BY <3>1, EachRunSteps
      <4> QED  BY <4>2, <4>3, <4>4, <4>5
               DEF RunStep, RunStays, RunGoesTo, Unfinished, Occupying, Holding
    <3> QED  BY <3>1, <3>2, <3>3
  <2> QED  BY <2>1, <2>2, <2>3, <2>4, <2>5, StepEntries
<1>3. HistRuns'
  BY <1>2 DEF HistRuns
<1>4. RunningEntries'
  BY <1>2 DEF RunningEntries, Unfinished, Occupying, Holding
<1> QED  BY <1>1, <1>3, <1>4

\* While the daemon is up, what the history calls running is a run that is not
\* finished: a run leaves an outcome behind before it is over, a quiet one never
\* shows, and a daemon that starts declares failed what the last one left.
THEOREM RunningIsTrue == Spec => []RunningIsRunning
<1>1. Init => TypeInv /\ HistInv
  BY InitType, HistInvInit
<1>2. (TypeInv /\ HistInv) /\ [Next]_vars => (TypeInv /\ HistInv)'
  BY TypeStep, HistInvStep
<1>3. TypeInv /\ HistInv => RunningIsRunning
  <2>1. TypeInv => \A i \in 1..Len(hist) : hist[i] \in Range(hist)
    BY DEF TypeInv, TypeOK, Range
  <2> QED  BY <2>1 DEF HistInv, RunningEntries, RunningIsRunning
<1> QED  BY <1>1, <1>2, <1>3, PTL DEF Spec

-----------------------------------------------------------------------------
\* A recorded outcome is final, as long as all runs are the daemon's: a restart
\* declares failed what another process is still running, and that process
\* records its outcome over it.

\* A run that is over is over for good.
LEMMA StaysFinished ==
  ASSUME TypeInv, [Next]_vars, NEW r \in DOMAIN run, run[r].phase \notin Unfinished
  PROVE  r \in DOMAIN run' /\ run'[r].phase \notin Unfinished
<1>1. CASE SameRuns
  BY <1>1 DEF SameRuns, MovesOn
<1>2. ASSUME NEW t \in Tasks, TickLaunch(t)  PROVE run'[r] = run[r]
  <2>1. Launch(Daemon, t, tick.def[t], tick.target[t], tick.waiting[t], FALSE)
    BY <1>2 DEF TickLaunch
  <2> QED  BY <2>1, LaunchAdds
<1>3. ASSUME NEW n \in now, NowStart(n)  PROVE run'[r] = run[r]
  <2>1. Launch(n.engine, n.task, n.def, n.provider, n.waiting, TRUE)
    BY <1>3 DEF NowStart
  <2> QED  BY <2>1, LaunchAdds
<1>4. r \in DOMAIN run'
  BY RunsStay
<1> QED  BY <1>1, <1>2, <1>3, <1>4, StepKeepsRuns

\* All runs are the daemon's, and none of them outlives it.
DaemonAlone ==
  /\ \A n \in now : n.engine = Daemon
  /\ \A r \in DOMAIN run : run[r].engine = Daemon
  /\ stage = "down" => \A r \in DOMAIN run : run[r].phase \notin Unfinished

LEMMA DaemonAloneStep ==
  ASSUME "now from the CLI" \notin Requests, TypeInv, DaemonAlone, [Next]_vars
  PROVE  DaemonAlone'
<1> USE DEF DaemonAlone
<1>1. \A n \in now' : n.engine = Daemon
  <2> USE DEF vars, disk, memory, operator, config, state
  <2>1. ASSUME NEW e \in Engines, NEW t \in Tasks, NowBegin(e, t)
        PROVE  \A n \in now' : n.engine = Daemon
    <3>1. e = Daemon
      BY <2>1 DEF NowBegin, Asked
    <3>2. PICK p : now' = now \cup {[engine |-> e, task |-> t, def |-> def[t],
                                     waiting |-> pending[t], provider |-> p]}
      BY <2>1 DEF NowBegin
    <3> DEFINE new == [engine |-> e, task |-> t, def |-> def[t],
                       waiting |-> pending[t], provider |-> p]
    <3>4. new.engine = e /\ now' = now \cup {new}
      BY <3>2
    <3> HIDE DEF new
    <3>3. \A n \in now' : n \in now \/ n.engine = e
      BY <3>4
    <3> QED  BY <3>1, <3>3
  <2>2. ASSUME Manual  PROVE \A n \in now' : n.engine = Daemon
    BY <2>1, <2>2 DEF Manual, NowRefused, NowStart
  <2>3. ASSUME NEW r \in DOMAIN run, Finish(r)  PROVE now' = now
    BY <2>3 DEF Finish, FinishLock, FinishLimited, FinishRetire, FinishUnqueue,
                FinishDeactivate, FinishRecord
  <2>4. ASSUME RunRequest \/ QueueRequest  PROVE now' = now
    BY <2>4 DEF RunRequest, CancelRun, TakeOverRun, TakeOverAnswered, TakeOverTimesOut,
                ContinueFinished, CancelResume, CloseTerminal, CancelResumeRetire,
                CancelResumeUnqueue, CancelResumeRecord, QueueRequest, AddTask, AddTaskCommit,
                RemoveTask, ForgetTask, EditTask, SetPaused, Move
  <2>5. ASSUME Tick \/ Stop \/ Exit \/ Crash \/ Restart \/ UNCHANGED vars  PROVE now' \subseteq now
    BY <2>5 DEF Tick, TickBegin, TickAbandoned, TickLock, TickRecord, TickLaunch,
                TickLaunchFails, Stop, Exit, Crash, DaemonGone, Restart
  <2>6. ASSUME NEW t \in Tasks, TriggerComes(t)  PROVE now' = now
    BY <2>6 DEF TriggerComes
  <2>7. ASSUME NEW e \in Engines, NEW p \in Providers, GateReopens(e, p)  PROVE now' = now
    BY <2>7 DEF GateReopens
  <2>8. ASSUME NEW r \in DOMAIN run, NEW o \in {"success", "failed", "rate_limited"},
               RunExits(r, o)
        PROVE  now' = now
    BY <2>8 DEF RunExits
  <2> QED  BY <2>2, <2>3, <2>4, <2>5, <2>6, <2>7, <2>8 DEF Next
<1>2. CASE SameRuns
  <2>1. \A r \in DOMAIN run' : run'[r].engine = Daemon
    BY <1>2 DEF SameRuns, SameRun
  <2>2. ASSUME stage' = "down", NEW r \in DOMAIN run'  PROVE run'[r].phase \notin Unfinished
    <3>1. r \in DOMAIN run
      BY <1>2 DEF SameRuns
    <3>2. CASE stage = "down" \/ Exit
      <4>1. run[r].phase \notin Unfinished
        BY <3>1, <3>2 DEF Exit
      <4> QED  BY <3>1, <4>1, StaysFinished
    <3>3. CASE Crash
      <4>1. run[r] \in RunType
        BY <3>1, RunElement DEF TypeInv, TypeOK
      <4>2. run'[r] = IF run[r].phase \in Unfinished
                      THEN [run[r] EXCEPT !.phase = "lost"] ELSE run[r]
        BY <3>1, <3>3 DEF Crash
      <4> QED  BY <4>1, <4>2 DEF RunType, Unfinished, Occupying, Holding
    <3> QED  BY <2>2, <3>2, <3>3, StageStep
  <2> QED  BY <1>1, <2>1, <2>2 DEF Unfinished, Occupying, Holding
<1>3. ASSUME NEW t \in Tasks, TickLaunch(t)  PROVE DaemonAlone'
  <2>1. /\ Launch(Daemon, t, tick.def[t], tick.target[t], tick.waiting[t], FALSE)
        /\ stage' = stage /\ stage # "down"
    BY <1>3 DEF TickLaunch, NextStart
  <2>2. PICK r : /\ DOMAIN run' = DOMAIN run \cup {r} /\ run'[r].engine = Daemon
                 /\ \A s \in DOMAIN run : run'[s] = run[s]
    BY <2>1, LaunchAdds
  <2> QED  BY <1>1, <2>1, <2>2
<1>4. ASSUME NEW n \in now, NowStart(n)  PROVE DaemonAlone'
  <2>1. /\ Launch(n.engine, n.task, n.def, n.provider, n.waiting, TRUE)
        /\ stage' = stage /\ stage # "down" /\ n.engine = Daemon
    BY <1>4 DEF NowStart, Alive
  <2>2. PICK r : /\ DOMAIN run' = DOMAIN run \cup {r} /\ run'[r].engine = n.engine
                 /\ \A s \in DOMAIN run : run'[s] = run[s]
    BY <2>1, LaunchAdds
  <2> QED  BY <1>1, <2>1, <2>2
<1> QED  BY <1>2, <1>3, <1>4, StepKeepsRuns
-----------------------------------------------------------------------------
\* What the history says of a run.

\* There is one entry per run, and it names the run's task and session,
EntriesAgree == \A x, y \in Range(hist) : x.run = y.run => x = y

EntriesFit ==
  \A x \in Range(hist) : x.task = run[x.run].task /\ x.session = run[x.run].session

\* an outcome is recorded of a run that is over,
EndedEntries ==
  \A x \in Range(hist) : x.status # "running" => run[x.run].phase \notin Unfinished

\* and the run whose resume is being canceled is over too, and waits on a limit.
ResumeEntries ==
  \A q \in request : q.kind \in {"retire", "unqueue", "record"} =>
     /\ q.task = run[q.run].task
     /\ run[q.run].phase \notin Unfinished
     /\ \A x \in Range(hist) : x.run = q.run => x.status = "rate_limited"

FinalInv ==
  /\ HistInv /\ DaemonAlone
  /\ EntriesAgree /\ EntriesFit /\ EndedEntries /\ ResumeEntries

\* Two records with the same fields are one.
LEMMA SameRecord ==
  ASSUME NEW x \in RunRecord, NEW y \in RunRecord,
         x.run = y.run, x.task = y.task, x.status = y.status, x.session = y.session
  PROVE  x = y
BY DEF RunRecord

\* A handler takes its request from the first check to the last write.
LEMMA StepKeepsRequest ==
  ASSUME [Next]_vars
  PROVE  \A q \in request' :
           \/ q \in request
           \/ \E r \in DOMAIN run :
                CancelResume(r) /\ q = [kind |-> "retire", run |-> r, task |-> run[r].task]
           \/ \E p \in request :
                \/ /\ CancelResumeRetire(p)
                   /\ \E kind \in {"unqueue", "record"} :
                        /\ kind = "unqueue" => p.task \in completed'
                        /\ q = [p EXCEPT !.kind = kind]
                \/ CancelResumeUnqueue(p) /\ q = [p EXCEPT !.kind = "record"]
           \/ \E t \in Tasks :
                \/ AddTask(t) /\ q = [kind |-> "add", run |-> 0, task |-> t]
                \/ RemoveTask(t) /\ q = [kind |-> "forget", run |-> 0, task |-> t]
<1> USE DEF vars, disk, memory, operator, config, state
<1>1. ASSUME RunRequest, \A r \in DOMAIN run : ~CancelResume(r),
             \A p \in request : ~CancelResumeRetire(p) /\ ~CancelResumeUnqueue(p)
      PROVE  request' \subseteq request
  BY <1>1 DEF RunRequest, CancelRun, TakeOverRun, TakeOverAnswered, TakeOverTimesOut,
              ContinueFinished, CloseTerminal, CancelResumeRecord
<1>2. ASSUME QueueRequest, \A t \in Tasks : ~AddTask(t) /\ ~RemoveTask(t)
      PROVE  request' \subseteq request
  BY <1>2 DEF QueueRequest, AddTaskCommit, ForgetTask, EditTask, SetPaused, Move
<1>3. ASSUME NEW p \in request, CancelResumeRetire(p), NEW q \in request'
      PROVE  \E kind \in {"unqueue", "record"} :
               /\ kind = "unqueue" => p.task \in completed'
               /\ q = [p EXCEPT !.kind = kind]
  <2> DEFINE oneShot == OneShot(IF p.task \in Queued THEN def[p.task] ELSE run[p.run].def)
  <2>1. /\ request' = {[p EXCEPT !.kind = IF oneShot THEN "unqueue" ELSE "record"]}
        /\ completed' = IF oneShot THEN completed \cup {p.task} ELSE completed
    BY <1>3, SMTT(60) DEF CancelResumeRetire, Retire
  <2> HIDE DEF oneShot
  <2> QED  BY <1>3, <2>1
<1>4. ASSUME Tick \/ Manual  PROVE request' = request
  BY <1>4 DEF Tick, TickBegin, TickAbandoned, TickLock, TickRecord, TickLaunch, TickLaunchFails,
              Manual, NowBegin, NowRefused, NowStart, Asked
<1>5. ASSUME NEW r \in DOMAIN run, Finish(r)  PROVE request' = request
  BY <1>5 DEF Finish, FinishLock, FinishLimited, FinishRetire, FinishUnqueue, FinishDeactivate,
              FinishRecord
<1>6. ASSUME NEW r \in DOMAIN run, NEW o \in {"success", "failed", "rate_limited"},
             RunExits(r, o)
      PROVE  request' = request
  BY <1>6 DEF RunExits
<1>7. ASSUME NEW t \in Tasks, TriggerComes(t)  PROVE request' = request
  BY <1>7 DEF TriggerComes
<1>8. ASSUME NEW e \in Engines, NEW p \in Providers, GateReopens(e, p)
      PROVE  request' = request
  BY <1>8 DEF GateReopens
<1>9. ASSUME Stop \/ Exit \/ Crash \/ Restart \/ UNCHANGED vars  PROVE request' \subseteq request
  BY <1>9 DEF Stop, Exit, Crash, DaemonGone, Restart
<1>10. ASSUME NEW r \in DOMAIN run, CancelResume(r), NEW q \in request'
       PROVE  q = [kind |-> "retire", run |-> r, task |-> run[r].task]
  BY <1>10 DEF CancelResume
<1>11. ASSUME NEW p \in request, CancelResumeUnqueue(p), NEW q \in request'
       PROVE  q = [p EXCEPT !.kind = "record"]
  BY <1>11 DEF CancelResumeUnqueue
<1>12. ASSUME NEW t \in Tasks, AddTask(t), NEW q \in request'
       PROVE  q = [kind |-> "add", run |-> 0, task |-> t]
  BY <1>12 DEF AddTask
<1>13. ASSUME NEW t \in Tasks, RemoveTask(t), NEW q \in request'
       PROVE  q = [kind |-> "forget", run |-> 0, task |-> t]
  BY <1>13 DEF RemoveTask
<1> QED  BY <1>1, <1>2, <1>3, <1>4, <1>5, <1>6, <1>7, <1>8, <1>9, <1>10, <1>11, <1>12, <1>13
         DEF Next
\* A run stays over, and is over when its daemon has been down.
LEMMA EndedStep ==
  ASSUME "now from the CLI" \notin Requests, TypeInv, FinalInv, [Next]_vars
  PROVE  /\ EndedEntries' /\ EntriesFit'
         /\ \A x \in Range(hist') : x \in Range(hist) => x.run \in DOMAIN run
<1> USE DEF FinalInv, HistInv
<1>0. ASSUME NEW r \in DOMAIN run
      PROVE  /\ r \in DOMAIN run' /\ SameRun(run[r], run'[r])
             /\ run[r].phase \notin Unfinished => run'[r].phase \notin Unfinished
  BY RunsStay, StaysFinished
<1>1. ASSUME NEW x \in Range(hist')
      PROVE  /\ x.status # "running" => run'[x.run].phase \notin Unfinished
             /\ x.task = run'[x.run].task /\ x.session = run'[x.run].session
  <2>1. CASE x \in Range(hist)
    BY <1>0, <2>1 DEF HistRuns, EndedEntries, EntriesFit, SameRun
  <2>2. CASE StartEntry(x)
    BY <2>2 DEF StartEntry
  <2>3. ASSUME NEW r \in DOMAIN run, FinishRecord(r), x = Record(r)
        PROVE  /\ run'[x.run].phase \notin Unfinished
               /\ x.task = run'[x.run].task /\ x.session = run'[x.run].session
    <3>1. x.run = r /\ x.task = run[r].task /\ x.session = run[r].session
      BY <2>3 DEF Record
    <3>2. run'[r].phase = "done"
      <4>1. run' = [run EXCEPT ![r].phase = "done"] /\ run[r] \in RunType
        BY <2>3, RunElement DEF FinishRecord, TypeInv, TypeOK
      <4> QED  BY <4>1 DEF RunType
    <3> QED  BY <1>0, <3>1, <3>2 DEF SameRun, Unfinished, Occupying, Holding
  <2>4. ASSUME NEW q \in request, CancelResumeRecord(q),
               x = [run |-> q.run, task |-> q.task, status |-> "canceled",
                    session |-> run[q.run].session]
        PROVE  /\ run'[x.run].phase \notin Unfinished
               /\ x.task = run'[x.run].task /\ x.session = run'[x.run].session
    <3>1. q.kind = "record" /\ q.run \in DOMAIN run
      BY <2>4 DEF CancelResumeRecord, TypeInv, RequestRuns
    <3>2. q.task = run[q.run].task /\ run[q.run].phase \notin Unfinished
      BY <3>1 DEF ResumeEntries
    <3> QED  BY <1>0, <2>4, <3>1, <3>2 DEF SameRun
  <2>5. ASSUME Restart, NEW y \in Range(hist), x = [y EXCEPT !.status = "failed"]
        PROVE  /\ run'[x.run].phase \notin Unfinished
               /\ x.task = run'[x.run].task /\ x.session = run'[x.run].session
    <3>1. y \in RunRecord /\ y.run \in DOMAIN run /\ run[y.run].phase \notin Unfinished
      BY <2>5, EntriesType DEF HistRuns, DaemonAlone, Restart
    <3>2. x.run = y.run /\ x.task = y.task /\ x.session = y.session
      BY <2>5, <3>1 DEF RunRecord
    <3>3. y.task = run[y.run].task /\ y.session = run[y.run].session
      BY <2>5 DEF EntriesFit
    <3> QED  BY <1>0, <3>1, <3>2, <3>3 DEF SameRun
  <2> QED  BY <2>1, <2>2, <2>3, <2>4, <2>5, StepEntries
<1> QED  BY <1>1 DEF EndedEntries, EntriesFit, HistRuns

\* A run is never entered twice.
LEMMA AgreeStep ==
  ASSUME TypeInv, FinalInv, [Next]_vars
  PROVE  EntriesAgree'
<1> USE DEF FinalInv, HistInv, EntriesAgree
<1>t. \A x \in Range(hist) : x \in RunRecord /\ x.run \in DOMAIN run
  BY EntriesType DEF HistRuns
<1>1. ASSUME \A x \in Range(hist') : x \in Range(hist) \/ StartEntry(x)
      PROVE  EntriesAgree'
  <2>1. SUFFICES ASSUME NEW x \in Range(hist'), NEW y \in Range(hist'), x.run = y.run
                 PROVE  x = y
    OBVIOUS
  <2>2. CASE StartEntry(x) /\ StartEntry(y)
    <3>1. x \in RunRecord /\ y \in RunRecord
      <4>1. hist' \in Seq(RunRecord)
        BY TypeStep DEF TypeInv, TypeOK
      <4> QED  BY <4>1 DEF Range
    <3> QED  BY <2>1, <2>2, <3>1, SameRecord DEF StartEntry
  <2> QED  BY <1>1, <1>t, <2>1, <2>2 DEF StartEntry
<1>2. ASSUME (\E t \in Tasks : TickLaunch(t)) \/ (\E n \in now : NowStart(n))
      PROVE  EntriesAgree'
  BY <1>1, <1>2, StartEntries
<1>4. ASSUME NEW r \in DOMAIN run, FinishRecord(r)  PROVE EntriesAgree'
  <2>1. CASE run[r].def.quiet /\ run[r].status = "success"
    BY <1>4, <2>1 DEF FinishRecord
  <2>2. CASE ~(run[r].def.quiet /\ run[r].status = "success")
    <3>1. \A x \in Range(hist') : x = Record(r) \/ (x \in Range(hist) /\ x.run # r)
      BY <1>4, <2>2, RecordEntries
    <3>2. Record(r).run = r
      BY DEF Record
    <3> QED  BY <3>1, <3>2
  <2> QED  BY <2>1, <2>2
<1>5. ASSUME NEW q \in request, CancelResumeRecord(q)  PROVE EntriesAgree'
  <2> DEFINE rec == [run |-> q.run, task |-> q.task, status |-> "canceled",
                     session |-> run[q.run].session]
  <2>1. rec.run = q.run
    OBVIOUS
  <2>2. \A x \in Range(hist') : x = rec \/ (x \in Range(hist) /\ x.run # q.run)
    BY <1>5, CancelEntries
  <2> HIDE DEF rec
  <2> QED  BY <2>1, <2>2
<1>6. CASE Restart
  <2>1. \A x \in Range(hist') : \E y \in Range(hist) :
           /\ x.run = y.run
           /\ x = IF y.status = "running" THEN [y EXCEPT !.status = "failed"] ELSE y
    <3>1. SUFFICES ASSUME NEW x \in Range(hist')
                   PROVE  \E y \in Range(hist) :
                            /\ x.run = y.run
                            /\ x = IF y.status = "running" THEN [y EXCEPT !.status = "failed"] ELSE y
      OBVIOUS
    <3>2. x.status # "running"
      BY <1>6, RestartEntries
    <3>3. CASE x \in Range(hist)
      BY <3>2, <3>3
    <3>4. ASSUME NEW y \in Range(hist), y.status = "running", x = [y EXCEPT !.status = "failed"]
          PROVE  x.run = y.run
      BY <1>t, <3>4 DEF RunRecord
    <3> QED  BY <1>6, <3>3, <3>4, RestartEntries
  <2> QED  BY <2>1
<1>7. ASSUME hist' = hist  PROVE EntriesAgree'
  BY <1>7
<1> QED  BY <1>2, <1>4, <1>5, <1>6, <1>7, StepKeepsHist
\* Nothing is recorded of a run whose resume is being canceled but that.
LEMMA ResumeStep ==
  ASSUME TypeInv, FinalInv, [Next]_vars
  PROVE  ResumeEntries'
<1> USE DEF FinalInv, HistInv
<1>t. \A q \in request : q.kind \in {"retire", "unqueue", "record"} => q.run \in DOMAIN run
  BY DEF TypeInv, RequestRuns
<1>0. ASSUME NEW r \in DOMAIN run
      PROVE  /\ r \in DOMAIN run' /\ run'[r].task = run[r].task
             /\ run[r].phase \notin Unfinished => run'[r].phase \notin Unfinished
  BY RunsStay, StaysFinished DEF SameRun
<1>1. ASSUME NEW q \in request', q \in request, q.kind \in {"retire", "unqueue", "record"}
      PROVE  /\ q.task = run'[q.run].task
             /\ run'[q.run].phase \notin Unfinished
             /\ \A x \in Range(hist') : x.run = q.run => x.status = "rate_limited"
  <2>1. /\ q.run \in DOMAIN run /\ q.task = run[q.run].task
        /\ run[q.run].phase \notin Unfinished
        /\ \A x \in Range(hist) : x.run = q.run => x.status = "rate_limited"
    BY <1>t, <1>1 DEF ResumeEntries
  <2>2. ASSUME NEW x \in Range(hist'), x.run = q.run  PROVE x.status = "rate_limited"
    <3>1. ~StartEntry(x)
      BY <2>1, <2>2 DEF StartEntry
    <3>2. ASSUME NEW r \in DOMAIN run, FinishRecord(r), x = Record(r)  PROVE FALSE
      BY <2>1, <2>2, <3>2 DEF FinishRecord, Record, Unfinished, Occupying, Holding
    <3>3. ASSUME NEW p \in request, CancelResumeRecord(p)  PROVE FALSE
      BY <1>1, <3>3 DEF CancelResumeRecord
    <3>4. ASSUME NEW y \in Range(hist), y.status = "running", x = [y EXCEPT !.status = "failed"]
          PROVE  FALSE
      <4>1. y.run = x.run
        BY <3>4, EntriesType DEF RunRecord
      <4> QED  BY <2>1, <2>2, <3>4, <4>1
    <3> QED  BY <2>1, <2>2, <3>1, <3>2, <3>3, <3>4, StepEntries
  <2> QED  BY <1>0, <2>1, <2>2
<1>2. ASSUME NEW r \in DOMAIN run, CancelResume(r),
             NEW q, q = [kind |-> "retire", run |-> r, task |-> run[r].task]
      PROVE  /\ q.task = run'[q.run].task
             /\ run'[q.run].phase \notin Unfinished
             /\ \A x \in Range(hist') : x.run = q.run => x.status = "rate_limited"
  <2>1. hist' = hist /\ q.run = r /\ q.task = run[r].task
    BY <1>2 DEF CancelResume, disk
  <2>2. PICK i \in 1..Len(hist) : hist[i].run = r /\ hist[i].status = "rate_limited"
    BY <1>2 DEF CancelResume, InHistory, Entry
  <2>3. hist[i] \in Range(hist)
    BY <2>2 DEF TypeInv, TypeOK, Range
  <2> QED  BY <1>0, <2>1, <2>2, <2>3 DEF EntriesAgree, EndedEntries
<1>3. ASSUME NEW p \in request, CancelResumeRetire(p) \/ CancelResumeUnqueue(p),
             NEW q, NEW kind, q = [p EXCEPT !.kind = kind]
      PROVE  /\ q.task = run'[q.run].task
             /\ run'[q.run].phase \notin Unfinished
             /\ \A x \in Range(hist') : x.run = q.run => x.status = "rate_limited"
  <2>1. hist' = hist /\ p.kind \in {"retire", "unqueue"}
    BY <1>3 DEF CancelResumeRetire, CancelResumeUnqueue
  <2>2. q.run = p.run /\ q.task = p.task
    BY <1>3 DEF TypeInv, TypeOK, OperatorOK
  <2> QED  BY <1>t, <1>0, <2>1, <2>2 DEF ResumeEntries
<1>4. SUFFICES ASSUME NEW q \in request', q.kind \in {"retire", "unqueue", "record"}
               PROVE  /\ q.task = run'[q.run].task
                      /\ run'[q.run].phase \notin Unfinished
                      /\ \A x \in Range(hist') : x.run = q.run => x.status = "rate_limited"
  BY DEF ResumeEntries
<1> QED  BY <1>1, <1>2, <1>3, <1>4, StepKeepsRequest

\* There is nothing to say at first.
LEMMA FinalInvInit == Init => FinalInv
BY HistInvInit DEF Init, FinalInv, DaemonAlone, EntriesAgree, EntriesFit, EndedEntries,
                   ResumeEntries, Range

\* FinalInv is inductive, given the types.
LEMMA FinalInvStep ==
  ASSUME "now from the CLI" \notin Requests, TypeInv, FinalInv, [Next]_vars
  PROVE  FinalInv'
<1>1. HistInv' /\ DaemonAlone'
  BY HistInvStep, DaemonAloneStep DEF FinalInv
<1>2. EntriesAgree' /\ EntriesFit' /\ EndedEntries' /\ ResumeEntries'
  BY AgreeStep, EndedStep, ResumeStep
<1> QED  BY <1>1, <1>2 DEF FinalInv

\* No event of a run comes after its outcome.
LEMMA OutcomeStays ==
  ASSUME TypeInv, FinalInv, [Next]_vars,
         NEW x \in Range(hist), Terminal(x.status), NEW y \in Range(hist'), y.run = x.run
  PROVE  y = x
<1> USE DEF FinalInv, HistInv
<1>1. x.status \notin {"running", "rate_limited"} /\ x.run \in DOMAIN run
      /\ run[x.run].phase \notin Unfinished
  BY DEF Terminal, HistRuns, EndedEntries
<1>2. ~StartEntry(y)
  BY <1>1 DEF StartEntry
<1>3. ASSUME NEW r \in DOMAIN run, FinishRecord(r), y = Record(r)  PROVE FALSE
  BY <1>1, <1>3 DEF FinishRecord, Record, Unfinished, Occupying, Holding
<1>4. ASSUME NEW q \in request, CancelResumeRecord(q),
             y = [run |-> q.run, task |-> q.task, status |-> "canceled",
                  session |-> run[q.run].session]
      PROVE  FALSE
  <2>1. x.run = q.run /\ q.kind = "record"
    BY <1>4 DEF CancelResumeRecord
  <2> QED  BY <1>1, <2>1 DEF ResumeEntries
<1>5. ASSUME NEW z \in Range(hist), z.status = "running", y = [z EXCEPT !.status = "failed"]
      PROVE  FALSE
  <2>1. z.run = x.run
    BY <1>5, EntriesType DEF RunRecord
  <2> QED  BY <1>1, <1>5, <2>1 DEF EntriesAgree
<1> QED  BY <1>2, <1>3, <1>4, <1>5, StepEntries DEF EntriesAgree

\* A recorded outcome is final: neither a late event of the same run, nor the
\* record of a canceled resume, nor the reconciliation of a daemon that starts
\* changes it.
THEOREM OutcomesAreFinal ==
  ASSUME "now from the CLI" \notin Requests
  PROVE  Spec => OutcomeIsFinal
<1>1. Init => TypeInv /\ FinalInv
  BY InitType, FinalInvInit
<1>2. (TypeInv /\ FinalInv) /\ [Next]_vars => (TypeInv /\ FinalInv)'
  BY TypeStep, FinalInvStep
<1>3. TypeInv /\ FinalInv /\ [Next]_vars =>
        [\A i \in 1..Len(hist) : Terminal(hist[i].status) =>
           \A j \in 1..Len(hist') : hist'[j].run = hist[i].run => hist'[j] = hist[i]]_vars
  <2>1. SUFFICES ASSUME TypeInv, FinalInv, [Next]_vars,
                        NEW i \in 1..Len(hist), Terminal(hist[i].status),
                        NEW j \in 1..Len(hist'), hist'[j].run = hist[i].run
                 PROVE  hist'[j] = hist[i]
    OBVIOUS
  <2>2. hist \in Seq(RunRecord) /\ hist' \in Seq(RunRecord)
    BY <2>1, TypeStep DEF TypeInv, TypeOK
  <2>3. hist[i] \in Range(hist) /\ hist'[j] \in Range(hist')
    BY <2>2, InRange
  <2> QED  BY <2>1, <2>2, <2>3, OutcomeStays
<1> QED  BY <1>1, <1>2, <1>3, PTL DEF Spec, OutcomeIsFinal

-----------------------------------------------------------------------------

\* The operators on the queue, by the tasks they leave in it.

LEMMA SubSeqRange ==
  ASSUME NEW q \in Seq(Tasks), NEW m \in 1..Len(q) + 1, NEW n \in 0..Len(q)
  PROVE  SubSeq(q, m, n) \in Seq(Tasks) /\ Range(SubSeq(q, m, n)) = {q[i] : i \in m..n}
<1>1. \A i \in m..n : q[i] \in Tasks
  OBVIOUS
<1> DEFINE s == SubSeq(q, m, n)
<1>2. /\ s \in Seq(Tasks) /\ Len(s) = IF m <= n THEN n - m + 1 ELSE 0
      /\ \A i \in 1..(n - m + 1) : s[i] = q[m + i - 1]
  BY <1>1, SubSeqProperties
<1> HIDE DEF s
<1>3. Range(s) = {s[i] : i \in 1..Len(s)}
  BY <1>2, RangeEquality
<1>4. ASSUME NEW i \in m..n  PROVE q[i] \in Range(s)
  <2>1. /\ i \in Int /\ m \in Int /\ n \in Int /\ m <= i /\ i <= n
        /\ i - m + 1 \in 1..n - m + 1 /\ m + (i - m + 1) - 1 = i
    OBVIOUS
  <2>2. i - m + 1 \in 1..Len(s)
    BY <1>2, <2>1
  <2>3. s[i - m + 1] = q[i]
    BY <1>2, <2>1
  <2> QED  BY <1>3, <2>2, <2>3
<1>5. ASSUME NEW j \in 1..Len(s)  PROVE s[j] \in {q[i] : i \in m..n}
  <2>1. m + j - 1 \in m..n /\ s[j] = q[m + j - 1]
    BY <1>2
  <2> QED  BY <2>1
<1>6. Range(s) = {q[i] : i \in m..n}
  BY <1>3, <1>4, <1>5
<1> QED  BY <1>2, <1>6 DEF s

\* Taking a task out of the queue takes no other.
LEMMA WithoutRange ==
  ASSUME NEW q \in Seq(Tasks), NEW t
  PROVE  Range(Without(q, t)) \subseteq Range(q) /\ Range(q) \subseteq Range(Without(q, t)) \cup {t}
<1>1. CASE \E i \in 1..Len(q) : q[i] = t
  <2> DEFINE k  == CHOOSE i \in 1..Len(q) : q[i] = t
             s1 == SubSeq(q, 1, k - 1)
             s2 == SubSeq(q, k + 1, Len(q))
  <2>1. k \in 1..Len(q) /\ q[k] = t
    BY <1>1
  <2>2. Without(q, t) = s1 \o s2
    BY <1>1 DEF Without, RemoveAt
  <2> HIDE DEF k
  <2>3. s1 \in Seq(Tasks) /\ Range(s1) = {q[i] : i \in 1..k - 1}
    BY <2>1, SubSeqRange
  <2>4. s2 \in Seq(Tasks) /\ Range(s2) = {q[i] : i \in k + 1..Len(q)}
    BY <2>1, SubSeqRange
  <2> HIDE DEF s1, s2
  <2>5. Range(Without(q, t)) = Range(s1) \cup Range(s2)
    BY <2>2, <2>3, <2>4, RangeConcatenation
  <2>6. Range(q) = {q[i] : i \in 1..Len(q)}
    BY RangeEquality
  <2>7. \A i \in 1..Len(q) : i \in 1..k - 1 \/ i = k \/ i \in k + 1..Len(q)
    BY <2>1
  <2> QED  BY <2>1, <2>3, <2>4, <2>5, <2>6, <2>7
<1>2. CASE ~ \E i \in 1..Len(q) : q[i] = t
  BY <1>2 DEF Without
<1> QED  BY <1>1, <1>2

\* Moving a task keeps all of them.
LEMMA MoveRange ==
  ASSUME NEW q \in Seq(Tasks), NEW t \in Range(q), NEW to \in 1..Len(q)
  PROVE  Range(InsertAt(Without(q, t), to, t)) = Range(q)
<1> DEFINE w  == Without(q, t)
           s1 == SubSeq(w, 1, to - 1)
           s2 == SubSeq(w, to, Len(w))
<1>1. w \in Seq(Tasks) /\ Len(w) = Len(q) - 1 /\ t \in Tasks
  BY WithoutType, QueuedType
<1>2. Range(w) \subseteq Range(q) /\ Range(q) \subseteq Range(w) \cup {t}
  BY WithoutRange
<1>3. InsertAt(w, to, t) = s1 \o <<t>> \o s2
  BY DEF InsertAt
<1> HIDE DEF w
<1>4. s1 \in Seq(Tasks) /\ Range(s1) = {w[i] : i \in 1..to - 1}
  <2>1. 1 \in 1..Len(w) + 1 /\ to - 1 \in 0..Len(w)
    BY <1>1
  <2> HIDE DEF s1, s2
  <2>2. SubSeq(w, 1, to - 1) \in Seq(Tasks)
        /\ Range(SubSeq(w, 1, to - 1)) = {w[i] : i \in 1..to - 1}
    BY <1>1, <2>1, SubSeqRange
  <2> QED  BY <2>2 DEF s1
<1>5. s2 \in Seq(Tasks) /\ Range(s2) = {w[i] : i \in to..Len(w)}
  <2>1. to \in 1..Len(w) + 1 /\ Len(w) \in 0..Len(w)
    BY <1>1
  <2> HIDE DEF s1, s2
  <2>2. SubSeq(w, to, Len(w)) \in Seq(Tasks)
        /\ Range(SubSeq(w, to, Len(w))) = {w[i] : i \in to..Len(w)}
    BY <1>1, <2>1, SubSeqRange
  <2> QED  BY <2>2 DEF s2
<1>6. <<t>> \in Seq(Tasks) /\ Range(<<t>>) = {t}
  BY <1>1 DEF Range
<1> HIDE DEF s1, s2
<1> DEFINE m == <<t>>
<1> HIDE DEF m
<1>m. m \in Seq(Tasks) /\ Range(m) = {t}
  BY <1>6 DEF m
<1>7. s1 \o m \in Seq(Tasks)
  BY <1>4, <1>m, ConcatProperties
<1>8. Range(s1 \o m) = Range(s1) \cup Range(m)
  BY <1>4, <1>m, RangeConcatenation
<1>9. Range((s1 \o m) \o s2) = Range(s1 \o m) \cup Range(s2)
  <2> DEFINE u == s1 \o m
  <2>1. u \in Seq(Tasks) /\ s2 \in Seq(Tasks)
    BY <1>5, <1>7
  <2> HIDE DEF u
  <2>2. Range(u \o s2) = Range(u) \cup Range(s2)
    BY <2>1, RangeConcatenation
  <2> QED  BY <2>2 DEF u
<1>10. Range(w) = {w[i] : i \in 1..Len(w)}
  BY <1>1, RangeEquality
<1>11. /\ \A i \in 1..to - 1 : i \in 1..Len(w)
       /\ \A i \in to..Len(w) : i \in 1..Len(w)
       /\ \A i \in 1..Len(w) : i \in 1..to - 1 \/ i \in to..Len(w)
  BY <1>1
<1>12. Range(w) = Range(s1) \cup Range(s2)
  <2>1. ASSUME NEW x \in Range(w)  PROVE x \in Range(s1) \cup Range(s2)
    BY <1>4, <1>5, <1>10, <1>11
  <2>2. Range(s1) \subseteq Range(w) /\ Range(s2) \subseteq Range(w)
    BY <1>4, <1>5, <1>10, <1>11
  <2> QED  BY <2>1, <2>2
<1>13. InsertAt(w, to, t) = (s1 \o m) \o s2
  BY <1>3 DEF m
<1>14. Range(InsertAt(w, to, t)) = Range(w) \cup {t}
  BY <1>m, <1>8, <1>9, <1>12, <1>13
<1> QED  BY <1>2, <1>14 DEF w

\* A task joins the queue by a request to add it, and leaves it by one to
\* remove it, or once it is retired.
LEMMA StepKeepsQueue ==
  ASSUME TypeInv, [Next]_vars
  PROVE  /\ \/ Queued' \subseteq Queued
            \/ \E q \in request : q.kind = "add"
         /\ \/ Queued \subseteq Queued'
            \/ \E t \in Tasks : RemoveTask(t)
            \/ \E r \in DOMAIN run : FinishUnqueue(r) /\ Queued \subseteq Queued' \cup {run[r].task}
            \/ \E q \in request : CancelResumeUnqueue(q) /\ Queued \subseteq Queued' \cup {q.task}
<1> USE DEF vars, disk, memory, operator, config, state, Queued
<1>q. queue \in Seq(Tasks)
  BY DEF TypeInv, TypeOK, ConfigOK
<1>w. \A t : Range(Without(queue, t)) \subseteq Queued /\ Queued \subseteq Range(Without(queue, t)) \cup {t}
  BY <1>q, WithoutRange
<1> DEFINE Same == queue' = queue
<1>1. ASSUME NEW r \in DOMAIN run, Finish(r), ~FinishUnqueue(r)  PROVE Same
  BY <1>1 DEF Finish, FinishLock, FinishLimited, FinishRetire, FinishDeactivate, FinishRecord
<1>2. ASSUME NEW r \in DOMAIN run, FinishUnqueue(r)
      PROVE  Queued' \subseteq Queued /\ Queued \subseteq Queued' \cup {run[r].task}
  BY <1>2, <1>w DEF FinishUnqueue
<1>3. ASSUME RunRequest, \A q \in request : ~CancelResumeUnqueue(q)  PROVE Same
  BY <1>3 DEF RunRequest, CancelRun, TakeOverRun, TakeOverAnswered, TakeOverTimesOut,
              ContinueFinished, CancelResume, CloseTerminal, CancelResumeRetire, CancelResumeRecord
<1>4. ASSUME NEW q \in request, CancelResumeUnqueue(q)
      PROVE  Queued' \subseteq Queued /\ Queued \subseteq Queued' \cup {q.task}
  BY <1>4, <1>w DEF CancelResumeUnqueue
<1>5. ASSUME NEW t \in Tasks, RemoveTask(t)  PROVE Queued' \subseteq Queued
  BY <1>5, <1>w DEF RemoveTask
<1>6. ASSUME NEW q \in request, NEW d \in Definitions[q.task], AddTaskCommit(q, d)
      PROVE  q.kind = "add" /\ Queued \subseteq Queued'
  <2>1. q.kind = "add" /\ (queue' = queue \/ queue' = Append(queue, q.task)) /\ q.task \in Tasks
    BY <1>6 DEF AddTaskCommit, TypeInv, TypeOK, OperatorOK
  <2>2. ASSUME NEW t \in Tasks  PROVE Range(queue) \subseteq Range(Append(queue, t))
    <3>1. /\ DOMAIN queue = 1..Len(queue) /\ DOMAIN Append(queue, t) = 1..Len(queue) + 1
          /\ \A i \in 1..Len(queue) : i \in 1..Len(queue) + 1 /\ Append(queue, t)[i] = queue[i]
      BY <1>q
    <3> QED  BY <3>1 DEF Range
  <2> QED  BY <2>1, <2>2
<1>7. ASSUME NEW t \in Tasks, NEW to \in 1..Len(queue), Move(t, to)  PROVE Queued' = Queued
  BY <1>7, <1>q, MoveRange DEF Move
<1>8. ASSUME QueueRequest, \A t \in Tasks : ~RemoveTask(t),
             \A q \in request : \A d \in Definitions[q.task] : ~AddTaskCommit(q, d),
             \A t \in Tasks : \A to \in 1..Len(queue) : ~Move(t, to)
      PROVE  Same
  BY <1>8, SMTT(60) DEF QueueRequest, AddTask, ForgetTask, EditTask, SetPaused
<1>9. ASSUME Tick \/ Manual \/ Stop \/ Exit \/ Crash \/ Restart \/ UNCHANGED vars  PROVE Same
  BY <1>9 DEF Tick, TickBegin, TickAbandoned, TickLock, TickRecord, TickLaunch, TickLaunchFails,
              Manual, NowBegin, NowRefused, NowStart, Stop, Exit, Crash, Restart
<1>10. ASSUME NEW r \in DOMAIN run, NEW o \in {"success", "failed", "rate_limited"},
              RunExits(r, o)
       PROVE  Same
  BY <1>10 DEF RunExits
<1>11. ASSUME NEW t \in Tasks, TriggerComes(t)  PROVE Same
  BY <1>11 DEF TriggerComes
<1>12. ASSUME NEW e \in Engines, NEW p \in Providers, GateReopens(e, p)  PROVE Same
  BY <1>12 DEF GateReopens
<1> QED  BY <1>1, <1>2, <1>3, <1>4, <1>5, <1>6, <1>7, <1>8, <1>9, <1>10, <1>11, <1>12 DEF Next

\* A task completes when a run of it is retired, or its resume is canceled, and
\* is forgotten only when it is removed.
LEMMA StepKeepsCompleted ==
  ASSUME TypeInv, [Next]_vars
  PROVE  /\ \/ completed \subseteq completed'
            \/ \E q \in request : ForgetTask(q)
         /\ \/ completed' \subseteq completed
            \/ \E r \in DOMAIN run :
                 FinishRetire(r) /\ completed' \subseteq completed \cup {run[r].task}
            \/ \E q \in request : CancelResumeRetire(q)
<1> USE DEF vars, disk, memory, operator, config, state
<1> DEFINE Same == completed' = completed
<1>1. ASSUME NEW r \in DOMAIN run, Finish(r), ~FinishRetire(r)  PROVE Same
  BY <1>1 DEF Finish, FinishLock, FinishLimited, FinishUnqueue, FinishDeactivate, FinishRecord
<1>2. ASSUME NEW r \in DOMAIN run, FinishRetire(r)
      PROVE  completed \subseteq completed' /\ completed' \subseteq completed \cup {run[r].task}
  BY <1>2 DEF FinishRetire, Retire
<1>3. ASSUME RunRequest, \A q \in request : ~CancelResumeRetire(q)  PROVE Same
  BY <1>3 DEF RunRequest, CancelRun, TakeOverRun, TakeOverAnswered, TakeOverTimesOut,
              ContinueFinished, CancelResume, CloseTerminal, CancelResumeUnqueue,
              CancelResumeRecord
<1>4. ASSUME NEW q \in request, CancelResumeRetire(q)  PROVE completed \subseteq completed'
  BY <1>4 DEF CancelResumeRetire, Retire
<1>5. ASSUME QueueRequest, \A q \in request : ~ForgetTask(q)  PROVE Same
  BY <1>5 DEF QueueRequest, AddTask, AddTaskCommit, RemoveTask, EditTask, SetPaused, Move
<1>6. ASSUME NEW q \in request, ForgetTask(q)  PROVE completed' \subseteq completed
  BY <1>6 DEF ForgetTask
<1>7. ASSUME Tick \/ Manual \/ Stop \/ Exit \/ Crash \/ Restart \/ UNCHANGED vars  PROVE Same
  BY <1>7 DEF Tick, TickBegin, TickAbandoned, TickLock, TickRecord, TickLaunch, TickLaunchFails,
              Manual, NowBegin, NowRefused, NowStart, RecordStart, Stop, Exit, Crash, Restart
<1>8. ASSUME NEW r \in DOMAIN run, NEW o \in {"success", "failed", "rate_limited"},
             RunExits(r, o)
      PROVE  Same
  BY <1>8 DEF RunExits
<1>9. ASSUME NEW t \in Tasks, TriggerComes(t)  PROVE Same
  BY <1>9 DEF TriggerComes
<1>10. ASSUME NEW e \in Engines, NEW p \in Providers, GateReopens(e, p)  PROVE Same
  BY <1>10 DEF GateReopens
<1> QED  BY <1>1, <1>2, <1>3, <1>4, <1>5, <1>6, <1>7, <1>8, <1>9, <1>10 DEF Next
-----------------------------------------------------------------------------
\* No task is lost.

\* A task leaves the queue only after it has been marked completed, and what is
\* completed is not forgotten.
OwedInv ==
  /\ Range(InitialQueue) \subseteq Queued \cup completed
  /\ \A r \in DOMAIN run : run[r].phase = "retiring" => run[r].task \in completed
  /\ \A q \in request : /\ q.kind = "unqueue" => q.task \in completed
                        /\ q.kind # "forget"

LEMMA OwedStep ==
  ASSUME "remove" \notin Requests, TypeInv, OwedInv, [Next]_vars
  PROVE  OwedInv'
<1> USE DEF OwedInv
<1>r. \A t \in Tasks : ~RemoveTask(t)
  BY DEF RemoveTask, Asked
<1>c. completed \subseteq completed'
  <2>1. \A q \in request : ~ForgetTask(q)
    BY DEF ForgetTask
  <2> QED  BY <2>1, StepKeepsCompleted
<1>1. Range(InitialQueue) \subseteq Queued' \cup completed'
  <2>1. ASSUME NEW r \in DOMAIN run, FinishUnqueue(r)  PROVE run[r].task \in completed
    BY <2>1 DEF FinishUnqueue
  <2>2. ASSUME NEW q \in request, CancelResumeUnqueue(q)  PROVE q.task \in completed
    BY <2>2 DEF CancelResumeUnqueue
  <2> QED  BY <1>r, <1>c, <2>1, <2>2, StepKeepsQueue
<1>2. ASSUME NEW r \in DOMAIN run', run'[r].phase = "retiring"  PROVE run'[r].task \in completed'
  <2>1. CASE r \in DOMAIN run
    <3>1. RunStep(r) /\ run'[r].task = run[r].task
      BY <2>1, EachRunSteps, RunsStay DEF SameRun
    <3>2. CASE FinishRetire(r)
      <4> DEFINE oneShot == OneShot(run[r].def)
      <4>1. /\ run' = [run EXCEPT ![r].phase = IF oneShot THEN "retiring" ELSE "settled"]
            /\ completed' = IF oneShot THEN completed \cup {run[r].task} ELSE completed
            /\ run[r] \in RunType
        BY <2>1, <3>2, RunElement DEF FinishRetire, Retire, TypeInv, TypeOK
      <4> HIDE DEF oneShot
      <4>2. run'[r].phase = IF oneShot THEN "retiring" ELSE "settled"
        BY <2>1, <4>1 DEF RunType
      <4> QED  BY <1>2, <3>1, <4>1, <4>2
    <3>3. CASE run[r].phase = "retiring"
      BY <1>c, <2>1, <3>1, <3>3
    <3> QED  BY <1>2, <3>1, <3>2, <3>3 DEF RunStep, RunStays, RunGoesTo
  <2>2. CASE r \notin DOMAIN run
    <3>1. ASSUME NEW e, NEW t, NEW d, NEW p, NEW w, NEW m \in BOOLEAN, Launch(e, t, d, p, w, m)
          PROVE  run'[r].phase = "executing"
      BY <1>2, <2>2, <3>1, LaunchAdds
    <3>2. ~SameRuns
      BY <1>2, <2>2 DEF SameRuns
    <3>3. run'[r].phase = "executing"
      BY <3>1, <3>2, StepKeepsRuns DEF TickLaunch, NowStart
    <3> QED  BY <1>2, <3>3
  <2> QED  BY <2>1, <2>2
<1>3. ASSUME NEW q \in request'
      PROVE  (q.kind = "unqueue" => q.task \in completed') /\ q.kind # "forget"
  <2>1. CASE q \in request
    BY <1>c, <2>1
  <2>2. ASSUME NEW r \in DOMAIN run, q = [kind |-> "retire", run |-> r, task |-> run[r].task]
        PROVE  q.kind = "retire"
    BY <2>2
  <2>3. ASSUME NEW p \in request, NEW kind \in {"unqueue", "record"},
               kind = "unqueue" => p.task \in completed', q = [p EXCEPT !.kind = kind]
        PROVE  (q.kind = "unqueue" => q.task \in completed') /\ q.kind # "forget"
    <3>1. q.task = p.task /\ q.kind = kind
      BY <2>3 DEF TypeInv, TypeOK, OperatorOK
    <3> QED  BY <2>3, <3>1
  <2>4. ASSUME NEW t \in Tasks, q = [kind |-> "add", run |-> 0, task |-> t]
        PROVE  q.kind = "add"
    BY <2>4
  <2> QED  BY <1>r, <2>1, <2>2, <2>3, <2>4, StepKeepsRequest
<1> QED  BY <1>1, <1>2, <1>3

\* A one-shot of the queue stays in it until a run of it has completed, through
\* crashes, restarts, edits and canceled resumes; only the operator removes it.
THEOREM NothingIsLost ==
  ASSUME "remove" \notin Requests
  PROVE  Spec => []NoTaskLost
<1>1. Init => TypeInv /\ OwedInv
  <2>1. Init => OwedInv
    BY DEF Init, OwedInv, Queued
  <2> QED  BY <2>1, InitType
<1>2. (TypeInv /\ OwedInv) /\ [Next]_vars => (TypeInv /\ OwedInv)'
  BY TypeStep, OwedStep
<1>3. OwedInv => NoTaskLost
  BY TasksAssumption, InRange DEF OwedInv, NoTaskLost
<1> QED  BY <1>1, <1>2, <1>3, PTL DEF Spec

-----------------------------------------------------------------------------
\* A one-shot that has completed is not started again.

\* A run that is not a manual one is launched by a tick that holds Engine.mu, as
\* one of the tasks it selected.
LEMMA TickLaunches ==
  ASSUME TypeInv, [Next]_vars, NEW r, LaunchedByTick(r)
  PROVE  \E t \in tick.starts :
           /\ tick.pc = "launching" /\ tick \in TickType
           /\ run'[r].task = t /\ run'[r].def = tick.def[t]
           /\ run'[r].provider = tick.target[t]
           /\ run'[r].session = SessionFor(r, tick.target[t], tick.waiting[t])
           /\ run'[r].resumed = ContinuesSession(tick.target[t], tick.waiting[t])
<1> USE DEF LaunchedByTick
<1>1. ~SameRuns
  BY DEF SameRuns
<1>2. ASSUME NEW n \in now, NowStart(n)  PROVE FALSE
  <2>1. Launch(n.engine, n.task, n.def, n.provider, n.waiting, TRUE)
    BY <1>2 DEF NowStart
  <2>2. DOMAIN run' = DOMAIN run \cup {Len(run) + 1} /\ (run'[Len(run) + 1].manual <=> TRUE)
    BY <2>1, LaunchAdds
  <2> QED  BY <2>2
<1>3. PICK t \in Tasks : TickLaunch(t)
  BY <1>1, <1>2, StepKeepsRuns
<1>4. /\ Launch(Daemon, t, tick.def[t], tick.target[t], tick.waiting[t], FALSE)
      /\ t \in tick.starts /\ tick.pc = "launching"
  BY <1>3 DEF TickLaunch, NextStart
<1>5. tick \in TickType
  BY <1>4 DEF TypeInv, TypeOK, NoTick
<1>6. ASSUME NEW d, NEW p, NEW w, NEW m \in BOOLEAN, Launch(Daemon, t, d, p, w, m)
      PROVE  /\ r = Len(run) + 1
             /\ run'[r].task = t /\ run'[r].def = d /\ run'[r].provider = p
             /\ run'[r].session = SessionFor(r, p, w)
             /\ run'[r].resumed = ContinuesSession(p, w)
  BY <1>6, LaunchAdds, SMTT(30)
<1>7. PICK d, p, w : d = tick.def[t] /\ p = tick.target[t] /\ w = tick.waiting[t]
  OBVIOUS
<1>8. Launch(Daemon, t, d, p, w, FALSE)
  BY <1>4, <1>7
<1>9. /\ r = Len(run) + 1 /\ run'[r].task = t /\ run'[r].def = d /\ run'[r].provider = p
      /\ run'[r].session = SessionFor(r, p, w)
      /\ run'[r].resumed = ContinuesSession(p, w)
  BY <1>6, <1>8
<1> QED  BY <1>4, <1>5, <1>7, <1>9


\* What a tick is about to start has not completed: the second look was under
\* Engine.mu, and a run that completes its task since then would have kept the
\* task in the running set.
StartsOwed ==
  tick.pc \in {"locked", "launching"} =>
    \A t \in tick.starts : OneShot(tick.def[t]) => t \notin completed

\* Nobody is canceling a resume.
NoResumeCanceled == \A q \in request : q.kind \notin {"retire", "unqueue", "record"}

LEMMA NoResumeCanceledStep ==
  ASSUME "cancel resume" \notin Requests, NoResumeCanceled, [Next]_vars
  PROVE  NoResumeCanceled'
<1> USE DEF NoResumeCanceled
<1>1. \A r \in DOMAIN run : ~CancelResume(r)
  BY DEF CancelResume, Asked
<1>2. \A p \in request : ~CancelResumeRetire(p) /\ ~CancelResumeUnqueue(p)
  BY DEF CancelResumeRetire, CancelResumeUnqueue
<1>3. ASSUME NEW t \in Tasks, NEW kind \in {"add", "forget"}, NEW q,
             q = [kind |-> kind, run |-> 0, task |-> t]
      PROVE  q.kind \notin {"retire", "unqueue", "record"}
  BY <1>3
<1>4. \A q \in request' :
        \/ q \in request
        \/ \E t \in Tasks : \E kind \in {"add", "forget"} : q = [kind |-> kind, run |-> 0, task |-> t]
  BY <1>1, <1>2, StepKeepsRequest
<1> QED  BY <1>3, <1>4

LEMMA StartsOwedStep ==
  ASSUME "now from the CLI" \notin Requests, "cancel resume" \notin Requests,
         TypeInv, RunInv, DaemonAlone, NoResumeCanceled, StartsOwed, [Next]_vars
  PROVE  StartsOwed'
<1>n. NoTick.pc = "idle" /\ tick \in TickType \cup {NoTick}
  BY DEF NoTick, TypeInv, TypeOK
<1>1. SUFFICES ASSUME tick'.pc \in {"locked", "launching"}, NEW t \in tick'.starts,
                      OneShot(tick'.def[t])
               PROVE  t \notin completed'
  BY DEF StartsOwed
<1>2. CASE TickLock
  <2>1. PICK starts :
          /\ \A u \in starts : OneShot(tick.def[u]) => u \notin completed
          /\ tick' = NoTick \/ tick' = [tick EXCEPT !.pc = "locked", !.assigned = {},
                                                   !.starts = starts, !.waiting = pending]
    BY <1>2 DEF TickLock, Select, IsDue, Due, OneShot
  <2>2. tick'.starts = starts /\ tick'.def = tick.def
    BY <1>n, <1>1, <1>2, <2>1 DEF TickLock, TickType
  <2>3. completed' = completed
    BY <1>2 DEF TickLock, disk, state
  <2> QED  BY <1>1, <2>1, <2>2, <2>3
<1>3. CASE ~TickLock
  <2>1. /\ tick.pc \in {"locked", "launching"}
        /\ t \in tick.starts /\ tick'.def = tick.def
    <3>1. CASE tick' = tick
      BY <1>1, <3>1
    <3>2. CASE TickRecord \/ \E u \in Tasks : TickLaunch(u)
      BY <1>n, <1>1, <3>2, ZenonT(60) DEF TickRecord, TickLaunch, NextStart, Launched, TickType
    <3> QED  BY <1>1, <1>3, <3>1, <3>2, StepKeepsStarts
  <2>2. t \notin completed
    BY <1>1, <2>1 DEF StartsOwed
  <2>3. \A q \in request : ~CancelResumeRetire(q)
    BY DEF NoResumeCanceled, CancelResumeRetire
  <2>4. ASSUME NEW r \in DOMAIN run, FinishRetire(r)  PROVE run[r].task # t
    <3>1. run[r].engine = Daemon /\ run[r].task \in active[Daemon]
      BY <2>4 DEF DaemonAlone, RunInv, ActiveRuns, FinishRetire, Occupying
    <3> QED  BY <2>1, <3>1 DEF RunInv, StartsFree
  <2> QED  BY <2>2, <2>3, <2>4, StepKeepsCompleted
<1> QED  BY <1>2, <1>3

\* A tick never starts a one-shot that has completed, although it looked at the
\* queue before the completion was written and the task is still in it.
THEOREM CompletedStaysDone ==
  ASSUME "now from the CLI" \notin Requests, "cancel resume" \notin Requests
  PROVE  Spec => OneShotRunsOnce
<1> DEFINE Inv == TypeInv /\ RunInv /\ DaemonAlone /\ NoResumeCanceled /\ StartsOwed
<1>1. Init => Inv
  BY InitType, RunInvInit, FinalInvInit
     DEF Init, FinalInv, NoResumeCanceled, StartsOwed, NoTick
<1>2. Inv /\ [Next]_vars => Inv'
  BY TypeStep, RunInvStep, DaemonAloneStep, NoResumeCanceledStep, StartsOwedStep
<1>3. Inv /\ [Next]_vars =>
        [\A r \in RunIds : LaunchedByTick(r) /\ OneShot(run'[r].def)
           => run'[r].task \notin completed]_vars
  <2>1. SUFFICES ASSUME Inv, [Next]_vars, NEW r \in RunIds, LaunchedByTick(r),
                        OneShot(run'[r].def)
                 PROVE  run'[r].task \notin completed
    OBVIOUS
  <2>2. PICK t \in tick.starts :
          /\ tick.pc = "launching" /\ run'[r].task = t /\ run'[r].def = tick.def[t]
    BY <2>1, TickLaunches
  <2> QED  BY <2>1, <2>2 DEF StartsOwed
<1> HIDE DEF Inv
<1> QED  BY <1>1, <1>2, <1>3, PTL DEF Spec, OneShotRunsOnce

-----------------------------------------------------------------------------
\* A join comes last.

\* A set of places in a sequence has a last one.
LEMMA LargestElement ==
  ASSUME NEW n \in Nat, NEW T, T \subseteq 1..n, T # {}
  PROVE  \E x \in T : \A y \in T : y <= x
<1> DEFINE U == {n - x : x \in T}
<1>0. ASSUME NEW x \in T  PROVE x \in Int /\ n - x \in Nat
  <2>1. x \in 1..n
    OBVIOUS
  <2> QED  BY <2>1
<1>1. U \subseteq Nat /\ U # {}
  BY <1>0
<1>2. PICK u \in U : \A v \in U : u <= v
  <2> HIDE DEF U
  <2> QED  BY <1>1, SmallestElement
<1>3. PICK x \in T : u = n - x
  OBVIOUS
<1>4. ASSUME NEW y \in T  PROVE y <= x
  <2>1. n - x <= n - y
    BY <1>2, <1>3
  <2> QED  BY <1>0, <2>1
<1> QED  BY <1>4

\* The history is a log of the runs, each in its place, as long as no run is
\* left out of it and none is pruned.
HistIsLog ==
  /\ DOMAIN hist = DOMAIN run
  /\ \A i \in DOMAIN hist : hist[i].run = i

\* No task is quiet, and none is about to be started as one.
AllLoud ==
  /\ \A t \in Tasks : ~def[t].quiet
  /\ \A n \in now : ~n.def.quiet
  /\ tick.pc # "idle" => \A t \in Tasks : ~tick.def[t].quiet
  /\ \A r \in DOMAIN run : ~run[r].def.quiet

\* A task is only ever redefined as one of its definitions.
LEMMA StepKeepsDef ==
  ASSUME TypeInv, [Next]_vars, NEW t \in Tasks
  PROVE  def'[t] = def[t] \/ def'[t] \in Definitions[t]
<1> USE DEF vars, disk, memory, operator, config, state
<1>0. def \in [Tasks -> Definition]
  BY DEF TypeInv, TypeOK, ConfigOK
<1>1. ASSUME NEW q \in request, NEW d, AddTaskCommit(q, d)
      PROVE  def'[t] = def[t] \/ def'[t] \in Definitions[t]
  BY <1>0, <1>1 DEF AddTaskCommit
<1>2. ASSUME NEW u \in Tasks, NEW d, EditTask(u, d)
      PROVE  def'[t] = def[t] \/ def'[t] \in Definitions[t]
  BY <1>0, <1>2 DEF EditTask
<1>3. ASSUME QueueRequest, \A q \in request : \A d : ~AddTaskCommit(q, d),
             \A u \in Tasks : \A d : ~EditTask(u, d)
      PROVE  def' = def
  BY <1>3 DEF QueueRequest, AddTask, RemoveTask, ForgetTask, SetPaused, Move
<1>4. ASSUME NEW r \in DOMAIN run, Finish(r)  PROVE def' = def
  BY <1>4 DEF Finish, FinishLock, FinishLimited, FinishRetire, FinishUnqueue,
              FinishDeactivate, FinishRecord
<1>5. ASSUME RunRequest  PROVE def' = def
  BY <1>5 DEF RunRequest, CancelRun, TakeOverRun, TakeOverAnswered, TakeOverTimesOut,
              ContinueFinished, CancelResume, CloseTerminal, CancelResumeRetire,
              CancelResumeUnqueue, CancelResumeRecord
<1>6. ASSUME Tick \/ Manual \/ Stop \/ Exit \/ Crash \/ Restart \/ UNCHANGED vars
      PROVE  def' = def
  BY <1>6 DEF Tick, TickBegin, TickAbandoned, TickLock, TickRecord, TickLaunch, TickLaunchFails,
              Manual, NowBegin, NowRefused, NowStart, Stop, Exit, Crash, Restart
<1>7. ASSUME NEW r \in DOMAIN run, NEW o \in {"success", "failed", "rate_limited"},
             RunExits(r, o)
      PROVE  def' = def
  BY <1>7 DEF RunExits
<1>8. ASSUME NEW u \in Tasks, TriggerComes(u)  PROVE def' = def
  BY <1>8 DEF TriggerComes
<1>9. ASSUME NEW e \in Engines, NEW p \in Providers, GateReopens(e, p)  PROVE def' = def
  BY <1>9 DEF GateReopens
<1> QED  BY <1>1, <1>2, <1>3, <1>4, <1>5, <1>6, <1>7, <1>8, <1>9 DEF Next

\* A manual start has the definition it read.
LEMMA StepKeepsNowDef ==
  ASSUME TypeInv, [Next]_vars
  PROVE  \A n \in now' : n \in now \/ \E t \in Tasks : n.def = def[t]
<1> USE DEF vars, disk, memory, operator, config, state
<1>1. ASSUME Manual  PROVE \A n \in now' : n \in now \/ \E t \in Tasks : n.def = def[t]
  <2>1. ASSUME NEW e \in Engines, NEW t \in Tasks, NowBegin(e, t)
        PROVE  \A n \in now' : n \in now \/ n.def = def[t]
    <3>1. PICK p : now' = now \cup {[engine |-> e, task |-> t, def |-> def[t],
                                     waiting |-> pending[t], provider |-> p]}
      BY <2>1 DEF NowBegin
    <3> QED  BY <3>1
  <2>2. ASSUME NEW n \in now, NowRefused(n) \/ NowStart(n)  PROVE now' \subseteq now
    BY <2>2 DEF NowRefused, NowStart
  <2> QED  BY <1>1, <2>1, <2>2 DEF Manual
<1>2. ASSUME NEW r \in DOMAIN run, Finish(r)  PROVE now' = now
  BY <1>2 DEF Finish, FinishLock, FinishLimited, FinishRetire, FinishUnqueue,
              FinishDeactivate, FinishRecord
<1>3. ASSUME RunRequest \/ QueueRequest  PROVE now' = now
  BY <1>3 DEF RunRequest, CancelRun, TakeOverRun, TakeOverAnswered, TakeOverTimesOut,
              ContinueFinished, CancelResume, CloseTerminal, CancelResumeRetire,
              CancelResumeUnqueue, CancelResumeRecord, QueueRequest, AddTask, AddTaskCommit,
              RemoveTask, ForgetTask, EditTask, SetPaused, Move
<1>4. ASSUME Tick \/ Stop \/ Exit \/ Crash \/ Restart \/ UNCHANGED vars  PROVE now' \subseteq now
  BY <1>4 DEF Tick, TickBegin, TickAbandoned, TickLock, TickRecord, TickLaunch, TickLaunchFails,
              Stop, Exit, Crash, DaemonGone, Restart
<1>5. ASSUME NEW t \in Tasks, TriggerComes(t)  PROVE now' = now
  BY <1>5 DEF TriggerComes
<1>6. ASSUME NEW e \in Engines, NEW p \in Providers, GateReopens(e, p)  PROVE now' = now
  BY <1>6 DEF GateReopens
<1>7. ASSUME NEW r \in DOMAIN run, NEW o \in {"success", "failed", "rate_limited"},
             RunExits(r, o)
      PROVE  now' = now
  BY <1>7 DEF RunExits
<1> QED  BY <1>1, <1>2, <1>3, <1>4, <1>5, <1>6, <1>7 DEF Next

\* A job a join waits for is over, of the runs up to n: the latest has ended, or
\* pauses on a limit; or it is gone without one.
RunsUpTo(u, n) == {s \in 1..n : run[s].task = u}

Over(u, n) ==
  \/ RunsUpTo(u, n) = {} /\ u \notin Queued
  \/ \E s \in RunsUpTo(u, n) :
       /\ \A q \in RunsUpTo(u, n) : q <= s
       /\ Ended(s) \/ PausesOnLimit(s)

\* That is what workflow.Resolve finds out from the history.
LEMMA DependencyOver ==
  ASSUME TypeInv, FinalInv, HistIsLog, NEW u, DependencyDone(u, Queued, hist)
  PROVE  Over(u, Len(run))
<1> DEFINE T == RunsOfTask(u, hist)
           i == CHOOSE k \in T : \A j \in T : j <= k
<1>1. /\ hist \in Seq(RunRecord) /\ Len(hist) \in Nat /\ T \subseteq 1..Len(hist)
      /\ run \in Seq(RunType) /\ Len(run) = Len(hist) /\ DOMAIN run = 1..Len(run)
  BY DEF TypeInv, TypeOK, RunsOK, RunsOfTask, HistIsLog
<1>2. T = RunsUpTo(u, Len(run))
  <2>1. ASSUME NEW k \in 1..Len(hist)  PROVE hist[k].task = run[k].task
    <3>1. hist[k] \in Range(hist) /\ hist[k].run = k
      BY <1>1, InRange DEF HistIsLog
    <3> QED  BY <3>1 DEF FinalInv, EntriesFit
  <2> QED  BY <1>1, <2>1 DEF RunsOfTask, RunsUpTo
<1>3. CASE T = {}
  BY <1>2, <1>3 DEF DependencyDone, Missing, Over
<1>4. CASE T # {}
  <2>1. \E k \in T : \A j \in T : j <= k
    <3> HIDE DEF T
    <3> QED  BY <1>1, <1>4, LargestElement
  <2>2. i \in T /\ \A j \in T : j <= i
    BY <2>1
  <2>3. LatestRun(u, hist) = hist[i]
    BY DEF LatestRun
  <2>4. i \in 1..Len(hist) /\ hist[i].run = i
    BY <1>1, <2>2 DEF HistIsLog
  <2> HIDE DEF i
  <2>5. hist[i].status # "running"
    BY <1>4, <2>3 DEF DependencyDone, Terminal
  <2>6. hist[i] \in Range(hist)
    BY <1>1, <2>4, InRange
  <2>7. run[i].phase \notin Unfinished
    BY <2>4, <2>5, <2>6 DEF FinalInv, EndedEntries
  <2>8. run[i] \in RunType
    BY <1>1, <2>4
  <2>9. run[i].phase \in {"done", "lost"}
    BY <2>7, <2>8 DEF RunType, Phases, Unfinished, Occupying, Holding
  <2>10. run[i].phase = "done" => run[i].status # "running"
    BY <1>1, <2>4 DEF FinalInv, HistInv, OutcomeKnown
  <2>11. Ended(i) \/ PausesOnLimit(i)
    BY <2>8, <2>9, <2>10 DEF Ended, PausesOnLimit, Terminal, RunType, Statuses
  <2> HIDE DEF T
  <2> QED  BY <1>2, <2>2, <2>11 DEF Over
<1> QED  BY <1>3, <1>4

\* What a tick means to start does not have to wait any more,
WaitsOver ==
  /\ tick.pc # "idle" => tick.began <= Len(run)
  /\ tick.pc = "probing" =>
       \A t \in tick.assigned : \A u \in DependsOn[t] : Over(u, tick.began)
  /\ tick.pc \in {"locked", "launching"} =>
       \A t \in tick.starts : \A u \in DependsOn[t] : Over(u, tick.began)

\* nor will it: nothing is added to the queue.
NothingAdded == \A q \in request : q.kind # "add"

LEMMA NothingAddedStep ==
  ASSUME "add" \notin Requests, TypeInv, NothingAdded, [Next]_vars
  PROVE  NothingAdded'
<1> USE DEF NothingAdded
<1>1. \A t \in Tasks : ~AddTask(t)
  BY DEF AddTask, Asked
<1>2. ASSUME NEW p \in request, NEW kind \in {"unqueue", "record"}, NEW q,
             q = [p EXCEPT !.kind = kind]
      PROVE  q.kind # "add"
  BY <1>2 DEF TypeInv, TypeOK, OperatorOK
<1>3. ASSUME NEW t \in Tasks, NEW q, q = [kind |-> "forget", run |-> 0, task |-> t]
      PROVE  q.kind # "add"
  BY <1>3
<1>4. ASSUME NEW r \in DOMAIN run, NEW q, q = [kind |-> "retire", run |-> r, task |-> run[r].task]
      PROVE  q.kind # "add"
  BY <1>4
<1> QED  BY <1>1, <1>2, <1>3, <1>4, StepKeepsRequest

LEMMA OverStays ==
  ASSUME TypeInv, NothingAdded, [Next]_vars, NEW u, NEW n \in 0..Len(run), Over(u, n)
  PROVE  Over(u, n)'
<1>1. Queued' \subseteq Queued
  BY StepKeepsQueue DEF NothingAdded
<1>2. run \in Seq(RunType) /\ DOMAIN run = 1..Len(run) /\ 1..n \subseteq DOMAIN run
  BY DEF TypeInv, TypeOK, RunsOK
<1>3. ASSUME NEW s \in 1..n  PROVE run'[s].task = run[s].task
  BY <1>2, RunsStay DEF SameRun
<1>4. RunsUpTo(u, n)' = RunsUpTo(u, n)
  BY <1>3 DEF RunsUpTo
<1>5. ASSUME NEW s \in RunsUpTo(u, n), run[s].phase \in {"done", "lost"}
      PROVE  run'[s].phase = run[s].phase /\ run'[s].status = run[s].status
  <2>1. s \in DOMAIN run
    BY <1>2 DEF RunsUpTo
  <2>2. RunStep(s)
    BY <2>1, EachRunSteps
  <2> QED  BY <1>5, <2>2
          DEF RunStep, RunStays, FinishLock, FinishLimited, FinishRetire, FinishUnqueue,
              FinishDeactivate, FinishRecord, Unfinished, Occupying, Holding
<1>6. ASSUME NEW s \in RunsUpTo(u, n), Ended(s) \/ PausesOnLimit(s)
      PROVE  Ended(s)' \/ PausesOnLimit(s)'
  BY <1>5, <1>6 DEF Ended, PausesOnLimit
<1>7. CASE RunsUpTo(u, n) = {} /\ u \notin Queued
  BY <1>1, <1>4, <1>7 DEF Over
<1>8. CASE \E s \in RunsUpTo(u, n) :
             (\A q \in RunsUpTo(u, n) : q <= s) /\ (Ended(s) \/ PausesOnLimit(s))
  <2>1. PICK s \in RunsUpTo(u, n) :
          (\A q \in RunsUpTo(u, n) : q <= s) /\ (Ended(s) \/ PausesOnLimit(s))
    BY <1>8
  <2>2. Ended(s)' \/ PausesOnLimit(s)'
    BY <1>6, <2>1
  <2>3. s \in RunsUpTo(u, n)' /\ \A q \in RunsUpTo(u, n)' : q <= s
    BY <1>4, <2>1
  <2> QED  BY <2>2, <2>3 DEF Over
<1> QED  BY <1>7, <1>8 DEF Over

\* A tick probes what it was assigned, until it takes the lock.
LEMMA StepKeepsProbing ==
  ASSUME TypeInv, [Next]_vars, tick'.pc = "probing"
  PROVE  tick' = tick \/ TickBegin
<1> USE DEF vars, disk, memory, operator, config, state
<1>n. NoTick.pc = "idle" /\ tick \in TickType \cup {NoTick}
  BY DEF NoTick, TypeInv, TypeOK
<1>1. ASSUME Tick, ~TickBegin  PROVE FALSE
  <2>1. CASE TickAbandoned \/ \E t \in Tasks : TickLaunchFails(t)
    BY <1>n, <2>1 DEF TickAbandoned, TickLaunchFails
  <2>2. CASE TickLock
    <3>1. PICK starts : tick' = NoTick \/ tick' = [tick EXCEPT !.pc = "locked", !.assigned = {},
                                                   !.starts = starts, !.waiting = pending]
      BY <2>2 DEF TickLock
    <3> QED  BY <1>n, <2>2, <3>1 DEF TickLock, TickType
  <2>3. CASE TickRecord
    BY <1>n, <2>3 DEF TickRecord, TickType
  <2>4. CASE \E t \in Tasks : TickLaunch(t)
    BY <1>n, <2>4 DEF TickLaunch, NextStart, Launched, TickType
  <2> QED  BY <1>1, <2>1, <2>2, <2>3, <2>4 DEF Tick
<1>2. ASSUME RunRequest \/ QueueRequest \/ Manual  PROVE tick' = tick
  BY <1>2 DEF RunRequest, CancelRun, TakeOverRun, TakeOverAnswered, TakeOverTimesOut,
              ContinueFinished, CancelResume, CloseTerminal, CancelResumeRetire,
              CancelResumeUnqueue, CancelResumeRecord,
              QueueRequest, AddTask, AddTaskCommit, RemoveTask, ForgetTask, EditTask,
              SetPaused, Move, Manual, NowBegin, NowRefused, NowStart
<1>3. ASSUME NEW r \in DOMAIN run, Finish(r)  PROVE tick' = tick
  BY <1>3 DEF Finish, FinishLock, FinishLimited, FinishRetire, FinishUnqueue,
              FinishDeactivate, FinishRecord
<1>4. ASSUME NEW r \in DOMAIN run, NEW o \in {"success", "failed", "rate_limited"},
             RunExits(r, o)
      PROVE  tick' = tick
  BY <1>4 DEF RunExits
<1>5. ASSUME NEW t \in Tasks, TriggerComes(t)  PROVE tick' = tick
  BY <1>5 DEF TriggerComes
<1>6. ASSUME NEW e \in Engines, NEW p \in Providers, GateReopens(e, p)  PROVE tick' = tick
  BY <1>6 DEF GateReopens
<1>7. ASSUME Stop \/ Restart \/ UNCHANGED vars  PROVE tick' = tick
  BY <1>7 DEF Stop, Restart
<1>8. ~Exit /\ ~Crash
  BY <1>n DEF Exit, Crash, DaemonGone
<1> QED  BY <1>1, <1>2, <1>3, <1>4, <1>5, <1>6, <1>7, <1>8 DEF Next

\* A tick under way keeps what it read when it looked.
LEMMA StepKeepsTick ==
  ASSUME TypeInv, [Next]_vars, tick'.pc # "idle"
  PROVE  \/ tick.pc # "idle" /\ tick'.def = tick.def /\ tick'.began = tick.began
         \/ TickBegin /\ tick'.def = def /\ tick'.began = Len(run)
<1>n. NoTick.pc = "idle" /\ tick \in TickType \cup {NoTick}
  BY DEF NoTick, TypeInv, TypeOK
<1>t. tick' \in TickType \cup {NoTick}
  BY TypeStep DEF TypeInv, TypeOK
<1>1. CASE tick' = tick
  BY <1>1
<1>2. CASE TickBegin
  BY <1>n, <1>2 DEF TickBegin, NoTick
<1>3. CASE TickLock
  <2>1. PICK starts : tick' = NoTick \/ tick' = [tick EXCEPT !.pc = "locked", !.assigned = {},
                                                 !.starts = starts, !.waiting = pending]
    BY <1>3 DEF TickLock
  <2> QED  BY <1>n, <1>3, <2>1 DEF TickLock, TickType
<1>4. CASE TickRecord \/ \E v \in Tasks : TickLaunch(v)
  BY <1>n, <1>4, ZenonT(60) DEF TickRecord, TickLaunch, NextStart, Launched, TickType
<1>5. tick'.pc = "probing" \/ tick'.pc \in {"locked", "launching"}
  BY <1>n, <1>t DEF TickType
<1> QED  BY <1>1, <1>2, <1>3, <1>4, <1>5, StepKeepsProbing, StepKeepsStarts

\* The history has nothing to log at first,
LEMMA HistIsLogInit == Init => HistIsLog
<1> SUFFICES ASSUME Init  PROVE HistIsLog
  OBVIOUS
<1>1. hist \in Seq(RunRecord) /\ run \in Seq(RunType) /\ hist = <<>> /\ run = <<>>
  BY InitType DEF TypeInv, TypeOK, RunsOK, Init
<1>2. Len(hist) = 0 /\ Len(run) = 0
  BY <1>1, EmptySeq
<1>3. DOMAIN hist = {} /\ DOMAIN run = {}
  BY <1>1, <1>2
<1> QED  BY <1>3, Zenon DEF HistIsLog

\* and no task that could be quiet ever is.
NoQuietTasks == \A t \in Tasks : \A d \in Definitions[t] : ~d.quiet

LEMMA AllLoudInit ==
  ASSUME NoQuietTasks
  PROVE  Init => AllLoud
<1> SUFFICES ASSUME Init  PROVE AllLoud
  OBVIOUS
<1>1. now = {} /\ run = <<>> /\ hist = <<>> /\ tick = NoTick
      /\ \A t \in Tasks : def[t] \in Definitions[t]
  BY DEF Init
<1>2. \A t \in Tasks : ~def[t].quiet
  BY <1>1, Zenon DEF NoQuietTasks
<1>3. tick.pc = "idle"
  BY <1>1 DEF NoTick
<1>4. DOMAIN run = {}
  <2>1. run \in Seq(RunType) /\ Len(run) = 0
    BY <1>1, InitType, EmptySeq DEF TypeInv, TypeOK, RunsOK
  <2> QED  BY <2>1
<1> QED  BY <1>1, <1>2, <1>3, <1>4, Zenon DEF AllLoud

LEMMA AllLoudStep ==
  ASSUME NoQuietTasks, TypeInv, AllLoud, [Next]_vars
  PROVE  AllLoud'
<1>1. \A t \in Tasks : ~def'[t].quiet
  BY StepKeepsDef, Zenon DEF AllLoud, NoQuietTasks
<1>2. \A n \in now' : ~n.def.quiet
  BY StepKeepsNowDef DEF AllLoud
<1>3. tick'.pc # "idle" => \A t \in Tasks : ~tick'.def[t].quiet
  BY StepKeepsTick DEF AllLoud
<1>4. ASSUME NEW e, NEW t, NEW d, NEW p, NEW w, NEW m \in BOOLEAN, ~d.quiet,
             Launch(e, t, d, p, w, m)
      PROVE  \A r \in DOMAIN run' : ~run'[r].def.quiet
  BY <1>4, LaunchAdds DEF AllLoud
<1>5. ASSUME NEW t \in Tasks, TickLaunch(t)  PROVE \A r \in DOMAIN run' : ~run'[r].def.quiet
  <2>1. Launch(Daemon, t, tick.def[t], tick.target[t], tick.waiting[t], FALSE)
    BY <1>5 DEF TickLaunch
  <2>2. ~tick.def[t].quiet
    BY <1>5 DEF TickLaunch, NextStart, AllLoud
  <2> QED  BY <1>4, <2>1, <2>2
<1>6. ASSUME NEW n \in now, NowStart(n)  PROVE \A r \in DOMAIN run' : ~run'[r].def.quiet
  <2>1. Launch(n.engine, n.task, n.def, n.provider, n.waiting, TRUE)
    BY <1>6 DEF NowStart
  <2> QED  BY <1>4, <2>1 DEF AllLoud
<1>7. CASE SameRuns
  BY <1>1, <1>2, <1>3, <1>7 DEF AllLoud, SameRuns, SameRun
<1> QED  BY <1>1, <1>2, <1>3, <1>5, <1>6, <1>7, StepKeepsRuns DEF AllLoud

\* What the writers of the history do to a log of the runs: the record of a run
\* in it goes to its place, that of a new run to the end,
LEMMA HistPutPlace ==
  ASSUME NEW h \in Seq(RunRecord), NEW rec \in RunRecord,
         \A i \in 1..Len(h) : h[i].run = i, rec.run \in 1..(Len(h) + 1)
  PROVE  /\ DOMAIN HistPut(h, rec) = DOMAIN h \cup {rec.run}
         /\ \A i \in DOMAIN HistPut(h, rec) : HistPut(h, rec)[i].run = i
<1>0. Len(h) \in Nat /\ DOMAIN h = 1..Len(h)
  OBVIOUS
<1>1. CASE rec.run \in 1..Len(h)
  <2>1. HistPut(h, rec) = [i \in 1..Len(h) |-> IF h[i].run = rec.run THEN rec ELSE h[i]]
    BY <1>1 DEF HistPut
  <2> QED  BY <1>0, <1>1, <2>1
<1>2. CASE rec.run = Len(h) + 1
  <2>0. \A i \in 1..Len(h) : i # Len(h) + 1
    BY <1>0
  <2>n. ~ \E i \in 1..Len(h) : h[i].run = rec.run
    BY <1>2, <2>0
  <2>1. HistPut(h, rec) = Append(h, rec)
    BY <2>n, Zenon DEF HistPut
  <2>2. /\ DOMAIN Append(h, rec) = 1..(Len(h) + 1)
        /\ \A i \in 1..(Len(h) + 1) : Append(h, rec)[i] = IF i <= Len(h) THEN h[i] ELSE rec
    OBVIOUS
  <2> QED  BY <1>0, <1>2, <2>1, <2>2
<1> QED  BY <1>0, <1>1, <1>2

\* pruning takes nothing from a short one,
LEMMA PruneKeeps ==
  ASSUME NEW h \in Seq(RunRecord), Len(h) <= HistoryLimit
  PROVE  Prune(h) = h
BY DEF Prune

\* and reconciling leaves every entry in its place.
LEMMA ReconcilePlace ==
  ASSUME NEW h \in Seq(RunRecord), \A i \in 1..Len(h) : h[i].run = i
  PROVE  /\ DOMAIN Reconcile(h) = DOMAIN h
         /\ \A i \in DOMAIN h : Reconcile(h)[i].run = i
<1>1. ASSUME NEW i \in 1..Len(h)  PROVE [h[i] EXCEPT !.status = "failed"].run = i
  <2>1. h[i] \in RunRecord
    OBVIOUS
  <2> QED  BY <2>1 DEF RunRecord
<1> QED  BY <1>1 DEF Reconcile

LEMMA HistIsLogStep ==
  ASSUME HistoryLimit >= MaxRuns, TypeInv, AllLoud, HistIsLog, [Next]_vars
  PROVE  HistIsLog'
<1>0. /\ hist \in Seq(RunRecord) /\ run \in Seq(RunType) /\ Len(run) <= MaxRuns
      /\ Len(hist) \in Nat /\ Len(hist) = Len(run)
      /\ DOMAIN hist = 1..Len(hist) /\ DOMAIN run = 1..Len(hist)
      /\ \A i \in 1..Len(hist) : hist[i].run = i
  BY DEF TypeInv, TypeOK, RunsOK, HistIsLog
<1>1. ASSUME NEW e, NEW t \in Tasks, NEW d, NEW p, NEW w \in PendingResume, NEW m \in BOOLEAN,
             Len(run) < MaxRuns, ~d.quiet, Launch(e, t, d, p, w, m)
      PROVE  HistIsLog'
  <2> DEFINE r == Len(run) + 1
             rec == [run |-> r, task |-> t, status |-> "running", session |-> SessionFor(r, p, w)]
  <2>1. rec \in RunRecord
    <3>1. r \in RunIds
      BY <1>0, <1>1, BoundsAssumption DEF RunIds
    <3>2. SessionFor(r, p, w) \in Sessions
      BY <3>1, <1>1 DEF SessionFor, Sessions, PendingResume
    <3> QED  BY <1>1, <3>1, <3>2 DEF RunRecord, Statuses
  <2>2. hist' = HistPut(hist, rec)
    BY <1>1 DEF Launch
  <2>3. DOMAIN run' = DOMAIN run \cup {r}
    BY <1>1, LaunchAdds
  <2>4. rec.run = r /\ r \in 1..(Len(hist) + 1)
    BY <1>0
  <2> HIDE DEF r, rec
  <2> QED  BY <1>0, <2>1, <2>2, <2>3, <2>4, HistPutPlace DEF HistIsLog
<1>2. ASSUME NEW t \in Tasks, TickLaunch(t)  PROVE HistIsLog'
  <2>1. Launch(Daemon, t, tick.def[t], tick.target[t], tick.waiting[t], FALSE)
    BY <1>2 DEF TickLaunch
  <2>2. tick.waiting[t] \in PendingResume /\ ~tick.def[t].quiet /\ Len(run) < MaxRuns
    BY <1>2 DEF TickLaunch, NextStart, AllLoud, TypeInv, TickWaits
  <2> QED  BY <1>1, <2>1, <2>2
<1>3. ASSUME NEW n \in now, NowStart(n)  PROVE HistIsLog'
  <2>1. Launch(n.engine, n.task, n.def, n.provider, n.waiting, TRUE) /\ Len(run) < MaxRuns
    BY <1>3 DEF NowStart
  <2>2. n.waiting \in PendingResume /\ n.task \in Tasks /\ ~n.def.quiet
    BY DEF NowType, TypeInv, TypeOK, AllLoud
  <2> QED  BY <1>1, <2>1, <2>2
<1>4. CASE SameRuns /\ hist' = hist
  BY <1>4 DEF HistIsLog, SameRuns
<1>5. ASSUME SameRuns, NEW rec \in RunRecord, rec.run \in DOMAIN run,
             hist' = HistPut(hist, rec) \/ hist' = Prune(HistPut(hist, rec))
      PROVE  HistIsLog'
  <2>1. /\ DOMAIN HistPut(hist, rec) = DOMAIN hist \cup {rec.run}
        /\ \A i \in DOMAIN HistPut(hist, rec) : HistPut(hist, rec)[i].run = i
    <3>1. rec.run \in 1..(Len(hist) + 1)
      BY <1>0, <1>5
    <3> QED  BY <1>0, <3>1, HistPutPlace
  <2>2. DOMAIN HistPut(hist, rec) = DOMAIN hist
    BY <1>0, <1>5, <2>1
  <2>3. HistPut(hist, rec) \in Seq(RunRecord)
    BY <1>0, HistPutType
  <2>4. Len(HistPut(hist, rec)) = Len(hist)
    BY <1>0, <2>2, <2>3
  <2>5. Prune(HistPut(hist, rec)) = HistPut(hist, rec)
    BY <1>0, <2>3, <2>4, PruneKeeps, BoundsAssumption
  <2>6. hist' = HistPut(hist, rec)
    BY <1>5, <2>5
  <2> QED  BY <1>0, <1>5, <2>1, <2>2, <2>6 DEF HistIsLog, SameRuns
<1>6. ASSUME SameRuns, NEW r \in DOMAIN run, FinishRecord(r)  PROVE HistIsLog'
  <2>1. Record(r) \in RunRecord /\ Record(r).run = r
    <3>1. run[r] \in RunType /\ r \in RunIds
      BY RunElement DEF TypeInv, TypeOK
    <3> QED  BY <3>1 DEF Record, RunRecord, RunType, TypeInv, TypeOK
  <2>2. hist' = Prune(HistPut(hist, Record(r)))
    BY <1>6 DEF FinishRecord, AllLoud
  <2> QED  BY <1>5, <1>6, <2>1, <2>2
<1>7. ASSUME SameRuns, NEW q \in request, CancelResumeRecord(q)  PROVE HistIsLog'
  <2> DEFINE rec == [run |-> q.run, task |-> q.task, status |-> "canceled",
                     session |-> run[q.run].session]
  <2>1. q.kind = "record" /\ q.run \in DOMAIN run /\ q.task \in Tasks
    BY <1>7 DEF CancelResumeRecord, TypeInv, TypeOK, OperatorOK, RequestRuns
  <2>2. rec \in RunRecord
    <3>1. run[q.run] \in RunType /\ q.run \in RunIds
      BY <2>1, RunElement DEF TypeInv, TypeOK
    <3> QED  BY <2>1, <3>1 DEF RunRecord, RunType, Statuses
  <2>3. hist' = HistPut(hist, rec) /\ rec.run = q.run
    BY <1>7 DEF CancelResumeRecord
  <2> HIDE DEF rec
  <2> QED  BY <1>5, <1>7, <2>1, <2>2, <2>3
<1>8. ASSUME SameRuns, Restart  PROVE HistIsLog'
  <2>1. hist' = Prune(Reconcile(hist))
    BY <1>8 DEF Restart
  <2>2. /\ DOMAIN Reconcile(hist) = DOMAIN hist /\ Reconcile(hist) \in Seq(RunRecord)
        /\ \A i \in DOMAIN hist : Reconcile(hist)[i].run = i
    BY <1>0, ReconcilePlace, ReconcileType
  <2>3. Len(Reconcile(hist)) = Len(hist)
    BY <1>0, <2>2
  <2>4. hist' = Reconcile(hist)
    BY <1>0, <2>1, <2>2, <2>3, PruneKeeps, BoundsAssumption
  <2> QED  BY <1>0, <1>8, <2>2, <2>4 DEF HistIsLog, SameRuns
<1> QED  BY <1>2, <1>3, <1>4, <1>6, <1>7, <1>8, StepKeepsRuns, StepKeepsHist

LEMMA WaitsOverStep ==
  ASSUME TypeInv, FinalInv, HistIsLog, NothingAdded, WaitsOver, [Next]_vars
  PROVE  WaitsOver'
<1>n. NoTick.pc = "idle" /\ tick \in TickType \cup {NoTick}
  BY DEF NoTick, TypeInv, TypeOK
<1>0. Len(run) \in Nat /\ Len(run') \in Nat /\ Len(run) <= Len(run')
  <2>1. run \in Seq(RunType) /\ run' \in Seq(RunType)
    BY TypeStep DEF TypeInv, TypeOK, RunsOK
  <2>2. DOMAIN run \subseteq DOMAIN run'
    BY RunsStay
  <2>3. /\ DOMAIN run = 1..Len(run) /\ DOMAIN run' = 1..Len(run')
        /\ Len(run) \in Nat /\ Len(run') \in Nat
    BY <2>1
  <2> QED  BY <2>2, <2>3
<1>b. tick.pc # "idle" => tick.began \in 0..Len(run)
  BY <1>n, <1>0 DEF WaitsOver, TickType
<1>o. ASSUME NEW u, tick.pc # "idle", Over(u, tick.began)  PROVE Over(u, tick.began)'
            \/ tick'.began # tick.began
  <2>1. PICK n : n = tick.began
    OBVIOUS
  <2>2. n \in 0..Len(run) /\ Over(u, n)
    BY <1>b, <1>o, <2>1
  <2>3. Over(u, n)'
    BY <2>2, OverStays
  <2> QED  BY <2>1, <2>3
<1>1. ASSUME tick'.pc # "idle"  PROVE tick'.began <= Len(run')
  BY <1>0, <1>1, <1>b, StepKeepsTick
<1>2. ASSUME tick'.pc = "probing", NEW t \in tick'.assigned, NEW u \in DependsOn[t]
      PROVE  Over(u, tick.began)'
  <2>1. CASE tick' = tick
    BY <1>o, <1>2, <2>1 DEF WaitsOver
  <2>2. CASE TickBegin
    <3>1. PICK usable : tick'.assigned = Assigned(usable) /\ tick'.began = Len(run)
      BY <1>n, <1>2, <2>2 DEF TickBegin, NoTick
    <3>2. DependenciesMet(t)
      BY <1>2, <3>1 DEF Assigned, DueTasks, IsDue, Due
    <3>3. DependencyDone(u, Queued, hist)
      BY <1>2, <3>2 DEF DependenciesMet, Ready
    <3>4. PICK n : n = Len(run)
      OBVIOUS
    <3>5. Over(u, n)'
      BY <1>0, <3>3, <3>4, DependencyOver, OverStays
    <3> QED  BY <3>1, <3>4, <3>5
  <2> QED  BY <1>2, <2>1, <2>2, StepKeepsProbing
<1>3. ASSUME tick'.pc \in {"locked", "launching"}, NEW t \in tick'.starts, NEW u \in DependsOn[t]
      PROVE  Over(u, tick.began)'
  <2>1. CASE TickLock
    <3>1. PICK starts :
            /\ starts \subseteq tick.assigned
            /\ tick' = NoTick \/ tick' = [tick EXCEPT !.pc = "locked", !.assigned = {},
                                                     !.starts = starts, !.waiting = pending]
      BY <2>1 DEF TickLock, Select
    <3>2. tick'.starts = starts /\ tick.pc = "probing" /\ tick'.began = tick.began
      BY <1>n, <1>3, <2>1, <3>1 DEF TickLock, TickType
    <3> QED  BY <1>o, <1>3, <3>1, <3>2 DEF WaitsOver
  <2>2. CASE tick' = tick
    BY <1>o, <1>3, <2>2 DEF WaitsOver
  <2>3. CASE TickRecord \/ \E v \in Tasks : TickLaunch(v)
    <3>1. t \in tick.starts /\ tick.pc \in {"locked", "launching"} /\ tick'.began = tick.began
      BY <1>n, <1>3, <2>3, ZenonT(60) DEF TickRecord, TickLaunch, NextStart, Launched, TickType
    <3> QED  BY <1>o, <1>3, <3>1 DEF WaitsOver
  <2> QED  BY <1>3, <2>1, <2>2, <2>3, StepKeepsStarts
<1> QED  BY <1>1, <1>2, <1>3 DEF WaitsOver

\* A tick starts a join only when the latest run of each job it waits for was
\* over at its look, although it reads the history long before it starts
\* anything: where the history is long enough for every run and no task is quiet,
\* it is a log of the runs, and its last entry of a job is that job's latest run.
THEOREM JoinsComeLast ==
  ASSUME "now from the CLI" \notin Requests, "add" \notin Requests,
         HistoryLimit >= MaxRuns, NoQuietTasks
  PROVE  Spec => JoinComesLast
<1> DEFINE Inv == TypeInv /\ FinalInv /\ AllLoud /\ HistIsLog /\ NothingAdded /\ WaitsOver
<1>1. Init => Inv
  <2>1. Init => NothingAdded
    BY DEF Init, NothingAdded
  <2>2. NoTick.pc = "idle" /\ (Init => tick = NoTick)
    BY DEF Init, NoTick
  <2>3. Init => WaitsOver
    BY <2>2 DEF WaitsOver
  <2>4. Init => AllLoud /\ HistIsLog
    BY AllLoudInit, HistIsLogInit
  <2> QED  BY <2>1, <2>3, <2>4, InitType, FinalInvInit
<1>2. Inv /\ [Next]_vars => Inv'
  BY TypeStep, FinalInvStep, AllLoudStep, HistIsLogStep, NothingAddedStep, WaitsOverStep
<1>3. Inv /\ [Next]_vars =>
        [\A r \in RunIds : LaunchedByTick(r) =>
           \A u \in DependsOn[run'[r].task] :
              \/ RunsAtTheLook(u) = {} /\ u \notin Queued
              \/ \E s \in RunsAtTheLook(u) :
                   /\ \A q \in RunsAtTheLook(u) : q <= s
                   /\ Ended(s) \/ PausesOnLimit(s) \/ run[s].def.quiet]_vars
  <2>1. SUFFICES ASSUME Inv, [Next]_vars, NEW r \in RunIds, LaunchedByTick(r),
                        NEW u \in DependsOn[run'[r].task]
                 PROVE  Over(u, tick.began)
    BY DEF Over, RunsUpTo, RunsAtTheLook
  <2>2. PICK t \in tick.starts : tick.pc = "launching" /\ run'[r].task = t
    BY <2>1, TickLaunches
  <2> QED  BY <2>1, <2>2 DEF WaitsOver
<1> HIDE DEF Inv
<1> QED  BY <1>1, <1>2, <1>3, PTL DEF Spec, JoinComesLast

-----------------------------------------------------------------------------
\* Nobody starts a run by hand.

NothingByHand == now = {}

LEMMA NothingByHandStep ==
  ASSUME "now" \notin Requests, "now from the CLI" \notin Requests, NothingByHand, [Next]_vars
  PROVE  NothingByHand'
<1> USE DEF vars, disk, memory, operator, config, state, NothingByHand
<1>1. ASSUME Manual  PROVE FALSE
  BY <1>1 DEF Manual, NowBegin, Asked
<1>2. ASSUME NEW r \in DOMAIN run, Finish(r)  PROVE now' = now
  BY <1>2 DEF Finish, FinishLock, FinishLimited, FinishRetire, FinishUnqueue,
              FinishDeactivate, FinishRecord
<1>3. ASSUME RunRequest \/ QueueRequest  PROVE now' = now
  BY <1>3 DEF RunRequest, CancelRun, TakeOverRun, TakeOverAnswered, TakeOverTimesOut,
              ContinueFinished, CancelResume, CloseTerminal, CancelResumeRetire,
              CancelResumeUnqueue, CancelResumeRecord, QueueRequest, AddTask, AddTaskCommit,
              RemoveTask, ForgetTask, EditTask, SetPaused, Move
<1>4. ASSUME Tick \/ Stop \/ Exit \/ Crash \/ Restart \/ UNCHANGED vars  PROVE now' \subseteq now
  BY <1>4 DEF Tick, TickBegin, TickAbandoned, TickLock, TickRecord, TickLaunch, TickLaunchFails,
              Stop, Exit, Crash, DaemonGone, Restart
<1>5. ASSUME NEW t \in Tasks, TriggerComes(t)  PROVE now' = now
  BY <1>5 DEF TriggerComes
<1>6. ASSUME NEW e \in Engines, NEW p \in Providers, GateReopens(e, p)  PROVE now' = now
  BY <1>6 DEF GateReopens
<1>7. ASSUME NEW r \in DOMAIN run, NEW o \in {"success", "failed", "rate_limited"},
             RunExits(r, o)
      PROVE  now' = now
  BY <1>7 DEF RunExits
<1> QED  BY <1>1, <1>2, <1>3, <1>4, <1>5, <1>6, <1>7 DEF Next

-----------------------------------------------------------------------------
\* A session belongs to one task.

OfTask(runs, session, t) ==
  session # NoSession => session \in DOMAIN runs /\ runs[session].task = t

SessionTasks ==
  /\ \A r \in DOMAIN run : OfTask(run, run[r].session, run[r].task)
  /\ \A t \in Tasks : OfTask(run, pending[t].session, t)
  /\ tick.pc \in {"locked", "launching"} => \A t \in Tasks : OfTask(run, tick.waiting[t].session, t)

LEMMA OfTaskStays ==
  ASSUME TypeInv, [Next]_vars, NEW session, NEW t, OfTask(run, session, t)
  PROVE  OfTask(run', session, t)
BY RunsStay DEF OfTask, SameRun

\* The sessions a tick has read change only when it takes the lock.
LEMMA StepKeepsWaiting ==
  ASSUME TypeInv, [Next]_vars, tick'.pc \in {"locked", "launching"}
  PROVE  \/ TickLock /\ tick'.waiting = pending
         \/ /\ tick.pc \in {"locked", "launching"} /\ tick'.waiting = tick.waiting
            /\ tick'.starts \subseteq tick.starts
<1>n. NoTick.pc = "idle" /\ tick \in TickType \cup {NoTick}
  BY DEF NoTick, TypeInv, TypeOK
<1>1. CASE TickLock
  <2>1. PICK starts : tick' = NoTick \/ tick' = [tick EXCEPT !.pc = "locked", !.assigned = {},
                                                 !.starts = starts, !.waiting = pending]
    BY <1>1 DEF TickLock
  <2>2. tick'.waiting = pending
    BY <1>n, <1>1, <2>1 DEF TickLock, TickType
  <2> QED  BY <1>1, <2>2
<1>2. CASE TickRecord \/ \E t \in Tasks : TickLaunch(t)
  BY <1>n, <1>2, ZenonT(60) DEF TickRecord, TickLaunch, NextStart, Launched, TickType
<1> QED  BY <1>1, <1>2, StepKeepsStarts

LEMMA SessionTasksStep ==
  ASSUME TypeInv, SessionTasks, NothingByHand, [Next]_vars
  PROVE  SessionTasks'
<1>o. \A s, t : OfTask(run, s, t) => OfTask(run', s, t)
  BY OfTaskStays
<1>m. \A n \in now : ~NowStart(n)
  BY DEF NothingByHand
<1>1. ASSUME NEW r \in DOMAIN run'  PROVE OfTask(run', run'[r].session, run'[r].task)
  <2>1. CASE r \in DOMAIN run
    <3>1. OfTask(run, run[r].session, run[r].task)
      BY <2>1 DEF SessionTasks
    <3> QED  BY <1>o, <2>1, <3>1, RunsStay DEF SameRun, OfTask
  <2>2. CASE r \notin DOMAIN run
    <3>1. ASSUME NEW t \in Tasks, NEW d, NEW p, NEW w \in PendingResume, NEW m \in BOOLEAN,
                 OfTask(run, w.session, t), Launch(Daemon, t, d, p, w, m)
          PROVE  OfTask(run', run'[r].session, run'[r].task)
      <4>1. run'[r].task = t /\ run'[r].session = SessionFor(r, p, w)
        BY <2>2, <3>1, LaunchAdds
      <4>2. run'[r].session \in {w.session, r, NoSession}
        BY <4>1 DEF SessionFor
      <4>3. OfTask(run', w.session, t)
        BY <1>o, <3>1
      <4> QED  BY <4>1, <4>2, <4>3 DEF OfTask
    <3>2. PICK t \in Tasks : TickLaunch(t)
      BY <1>1, <1>m, <2>2, StepKeepsRuns DEF SameRuns
    <3>3. /\ Launch(Daemon, t, tick.def[t], tick.target[t], tick.waiting[t], FALSE)
          /\ tick.waiting[t] \in PendingResume /\ OfTask(run, tick.waiting[t].session, t)
      BY <3>2 DEF TickLaunch, NextStart, TypeInv, TickWaits, SessionTasks
    <3> QED  BY <3>1, <3>3
  <2> QED  BY <2>1, <2>2
<1>2. ASSUME NEW t \in Tasks  PROVE OfTask(run', pending'[t].session, t)
  <2>1. OfTask(run, pending[t].session, t) /\ pending \in [Tasks -> PendingResume]
    BY DEF SessionTasks, TypeInv, TypeOK, StateOK
  <2>2. CASE pending'[t] = pending[t]
    BY <1>o, <2>1, <2>2
  <2>3. CASE pending'[t] = NothingPending
    BY <2>3 DEF NothingPending, OfTask
  <2>4. ASSUME NEW r \in DOMAIN run, FinishLimited(r), pending'[t] # pending[t]
        PROVE  OfTask(run', pending'[t].session, t)
    <3>1. t = run[r].task /\ pending'[t].session = run[r].session
      BY <2>1, <2>4 DEF FinishLimited
    <3> QED  BY <1>o, <3>1 DEF SessionTasks
  <2> QED  BY <2>1, <2>2, <2>3, <2>4, StepKeepsPending
<1>3. ASSUME tick'.pc \in {"locked", "launching"}, NEW t \in Tasks
      PROVE  OfTask(run', tick'.waiting[t].session, t)
  <2>1. tick'.waiting = pending
        \/ (tick.pc \in {"locked", "launching"} /\ tick'.waiting = tick.waiting)
    BY <1>3, StepKeepsWaiting
  <2> QED  BY <1>o, <2>1 DEF SessionTasks
<1> QED  BY <1>1, <1>2, <1>3 DEF SessionTasks

-----------------------------------------------------------------------------
\* A session whose run was retired is dead: nothing waits to continue it, no
\* tick is about to, and no run that will be retired, or put aside, has it.

Keeps == {"executing", "exited", "released"}

Dead(session) ==
  /\ \A t \in Tasks : pending[t].session # session
  /\ tick.pc \in {"locked", "launching"} =>
       \A t \in tick.starts : tick.waiting[t].session # session
  /\ \A r \in DOMAIN run : run[r].session = session => run[r].phase \notin Keeps

Retired(r) ==
  /\ run[r].phase \in {"retiring", "settled", "inactive", "done"}
  /\ run[r].status # "rate_limited"

RetiredDead ==
  \A r \in DOMAIN run, S \in RunIds : Retired(r) /\ run[r].session = S => Dead(S)

\* A dead session does not come back.
LEMMA DeadStays ==
  ASSUME TypeInv, SessionTasks, NothingByHand, [Next]_vars,
         NEW session \in DOMAIN run, Dead(session)
  PROVE  Dead(session)'
<1>s. session \in Nat \ {0} /\ NoSession = 0
  BY DEF TypeInv, TypeOK, RunsOK, NoSession
<1>1. ASSUME NEW t \in Tasks  PROVE pending'[t].session # session
  <2>1. pending[t].session # session /\ pending \in [Tasks -> PendingResume]
    BY DEF Dead, TypeInv, TypeOK, StateOK
  <2>2. CASE pending'[t] = NothingPending
    BY <1>s, <2>2 DEF NothingPending
  <2>3. ASSUME NEW r \in DOMAIN run, FinishLimited(r), pending'[t] # pending[t]
        PROVE  pending'[t].session # session
    <3>1. pending'[t].session = run[r].session /\ run[r].phase = "released"
      BY <2>1, <2>3 DEF FinishLimited
    <3> QED  BY <3>1 DEF Dead, Keeps
  <2> QED  BY <2>1, <2>2, <2>3, StepKeepsPending
<1>2. ASSUME tick'.pc \in {"locked", "launching"}, NEW t \in tick'.starts
      PROVE  tick'.waiting[t].session # session
  <2>1. CASE TickLock /\ tick'.waiting = pending
    <3>1. t \in Tasks
      BY <1>2, TypeStep DEF TypeInv, TypeOK, TickType, NoTick
    <3> QED  BY <2>1, <3>1 DEF Dead
  <2>2. CASE /\ tick.pc \in {"locked", "launching"} /\ tick'.waiting = tick.waiting
             /\ tick'.starts \subseteq tick.starts
    BY <1>2, <2>2 DEF Dead
  <2> QED  BY <1>2, <2>1, <2>2, StepKeepsWaiting
<1>3. ASSUME NEW r \in DOMAIN run', run'[r].session = session  PROVE run'[r].phase \notin Keeps
  <2>1. CASE r \in DOMAIN run
    <3>1. run[r].session = session /\ RunStep(r)
      BY <1>3, <2>1, RunsStay, EachRunSteps DEF SameRun
    <3>2. run[r].phase \notin Keeps
      BY <2>1, <3>1 DEF Dead
    <3> QED  BY <3>1, <3>2 DEF RunStep, RunStays, RunGoesTo, FinishLock, Keeps
  <2>2. CASE r \notin DOMAIN run
    <3>1. ASSUME NEW t \in Tasks, NEW d, NEW p, NEW w, NEW m \in BOOLEAN, w.session # session,
                 Launch(Daemon, t, d, p, w, m)
          PROVE  FALSE
      <4>1. run'[r].session = SessionFor(r, p, w)
        BY <2>2, <3>1, LaunchAdds
      <4> QED  BY <1>s, <1>3, <2>2, <3>1, <4>1 DEF SessionFor
    <3>2. PICK t \in Tasks : TickLaunch(t)
      BY <1>3, <2>2, StepKeepsRuns DEF SameRuns, NothingByHand
    <3>3. /\ Launch(Daemon, t, tick.def[t], tick.target[t], tick.waiting[t], FALSE)
          /\ tick.waiting[t].session # session
      BY <3>2 DEF TickLaunch, NextStart, Dead
    <3> QED  BY <3>1, <3>3
  <2> QED  BY <2>1, <2>2
<1> QED  BY <1>1, <1>2, <1>3 DEF Dead, Keeps

\* Retiring a run is the end of its session: the task has no other run, and is
\* not about to be started while its run is retired.
LEMMA RetireEnds ==
  ASSUME TypeInv, RunInv, SessionTasks, DaemonAlone, NEW r \in DOMAIN run,
         FinishRetire(r), NEW S, S = run[r].session, S # NoSession, [Next]_vars
  PROVE  Dead(S)'
<1> DEFINE t == run[r].task
<1>1. /\ run[r].phase = "released" /\ pending' = [pending EXCEPT ![t] = NothingPending]
      /\ tick' = tick /\ S # 0 /\ NoSession = 0
  BY DEF FinishRetire, Retire, NoSession
<1>2. /\ run[r] \in RunType /\ t \in Tasks /\ pending \in [Tasks -> PendingResume]
      /\ \A s \in DOMAIN run : run[s] \in RunType /\ run[s].engine = Daemon
  BY RunElement DEF RunType, TypeInv, TypeOK, StateOK, DaemonAlone
<1>3. S \in DOMAIN run /\ run[S].task = t
  BY DEF SessionTasks, OfTask
<1>4. ASSUME NEW u \in Tasks  PROVE pending'[u].session # S
  <2>1. CASE u = t
    BY <1>1, <1>2, <2>1 DEF NothingPending
  <2>2. CASE u # t
    <3>1. pending'[u] = pending[u]
      BY <1>1, <1>2, <2>2
    <3> QED  BY <1>1, <1>3, <2>2, <3>1 DEF SessionTasks, OfTask
  <2> QED  BY <2>1, <2>2
<1>5. ASSUME tick'.pc \in {"locked", "launching"}, NEW u \in tick'.starts
      PROVE  tick'.waiting[u].session # S
  <2>1. u \in Tasks
    BY <1>1, <1>5 DEF TypeInv, TypeOK, TickType, NoTick
  <2>2. t \in active[Daemon]
    BY <1>1, <1>2 DEF RunInv, ActiveRuns, Occupying
  <2>3. u # t
    BY <1>1, <1>5, <2>2 DEF RunInv, StartsFree
  <2> QED  BY <1>1, <1>3, <1>5, <2>1, <2>3 DEF SessionTasks, OfTask
<1>6. ASSUME NEW s \in DOMAIN run', run'[s].session = S  PROVE run'[s].phase \notin Keeps
  <2>1. PICK to \in {"retiring", "settled"} : run' = [run EXCEPT ![r].phase = to]
    BY DEF FinishRetire
  <2>2. s \in DOMAIN run
    BY <2>1
  <2>3. CASE s = r
    BY <1>2, <2>1, <2>3 DEF RunType, Keeps
  <2>4. CASE s # r
    <3>1. run'[s] = run[s]
      BY <2>1, <2>4
    <3>2. run[s].task = t
      BY <1>1, <1>3, <1>6, <2>2, <3>1 DEF SessionTasks, OfTask
    <3> QED  BY <1>1, <1>2, <2>2, <2>4, <3>1, <3>2
             DEF RunInv, OneRunPerTask, Keeps, Occupying, Holding
  <2> QED  BY <2>3, <2>4
<1> QED  BY <1>4, <1>5, <1>6 DEF Dead, Keeps

LEMMA RetiredDeadStep ==
  ASSUME TypeInv, RunInv, SessionTasks, DaemonAlone, NothingByHand, RetiredDead, [Next]_vars
  PROVE  RetiredDead'
<1>1. ASSUME NEW r \in DOMAIN run', Retired(r)', NEW S \in RunIds, run'[r].session = S
      PROVE  Dead(S)'
  <2>1. /\ run'[r].phase \in {"retiring", "settled", "inactive", "done"}
        /\ run'[r].status # "rate_limited" /\ S # NoSession
    BY <1>1 DEF Retired, RunIds, NoSession
  <2>2. r \in DOMAIN run
    <3>1. ASSUME NEW t, NEW d, NEW p, NEW w, NEW m \in BOOLEAN, Launch(Daemon, t, d, p, w, m),
                 r \notin DOMAIN run
          PROVE  FALSE
      <4>1. run'[r].phase = "executing"
        BY <1>1, <3>1, LaunchAdds
      <4> QED  BY <2>1, <4>1
    <3> QED  BY <1>1, <3>1, StepKeepsRuns DEF SameRuns, NothingByHand, TickLaunch
  <2>3. run[r].session = S /\ RunStep(r)
    BY <1>1, <2>2, RunsStay, EachRunSteps DEF SameRun
  <2>4. CASE FinishRetire(r)
    BY <2>1, <2>2, <2>3, <2>4, RetireEnds
  <2>5. CASE Retired(r)
    <3>1. Dead(S) /\ S \in DOMAIN run
      BY <2>1, <2>2, <2>3, <2>5 DEF RetiredDead, SessionTasks, OfTask
    <3> QED  BY <3>1, DeadStays
  <2> QED  BY <2>1, <2>2, <2>3, <2>4, <2>5
           DEF RunStep, RunStays, RunGoesTo, Retired, FinishLimited, FinishUnqueue,
               FinishDeactivate, FinishRecord
<1> QED  BY <1>1 DEF RetiredDead

-----------------------------------------------------------------------------
\* A canceled run is not continued.

\* With no resume being canceled, a canceled entry is that of a canceled run.
CanceledEntries ==
  \A x \in Range(hist) : x.status = "canceled" =>
     run[x.run].phase = "done" /\ run[x.run].status = "canceled"

\* What is done stays as it is.
LEMMA DoneStays ==
  ASSUME TypeInv, [Next]_vars, NEW r \in DOMAIN run, run[r].phase = "done"
  PROVE  run'[r].phase = "done" /\ run'[r].status = run[r].status
<1>1. RunStep(r)
  BY EachRunSteps
<1> QED  BY <1>1 DEF RunStep, RunStays, RunGoesTo, FinishLock, FinishLimited, FinishRetire,
                     FinishUnqueue, FinishDeactivate, FinishRecord, Unfinished, Occupying, Holding

\* A run is done once it is recorded, with the outcome it had.
LEMMA RecordIsDone ==
  ASSUME TypeInv, NEW r \in DOMAIN run, FinishRecord(r)
  PROVE  run'[r].phase = "done" /\ run'[r].status = run[r].status
<1>1. run' = [run EXCEPT ![r].phase = "done"] /\ run[r] \in RunType
  BY RunElement DEF FinishRecord, TypeInv, TypeOK
<1> QED  BY <1>1 DEF RunType

LEMMA CanceledEntriesStep ==
  ASSUME TypeInv, HistInv, NoResumeCanceled, CanceledEntries, [Next]_vars
  PROVE  CanceledEntries'
<1>1. SUFFICES ASSUME NEW x \in Range(hist'), x.status = "canceled"
               PROVE  run'[x.run].phase = "done" /\ run'[x.run].status = "canceled"
  BY DEF CanceledEntries
<1>2. CASE x \in Range(hist)
  BY <1>1, <1>2, DoneStays DEF CanceledEntries, HistInv, HistRuns
<1>3. ~StartEntry(x)
  BY <1>1 DEF StartEntry
<1>4. ASSUME NEW r \in DOMAIN run, FinishRecord(r), x = Record(r)
      PROVE  run'[x.run].phase = "done" /\ run'[x.run].status = "canceled"
  BY <1>1, <1>4, RecordIsDone DEF Record
<1>5. ASSUME NEW q \in request, CancelResumeRecord(q)  PROVE FALSE
  BY <1>5 DEF CancelResumeRecord, NoResumeCanceled
<1>6. ASSUME NEW y \in Range(hist), x = [y EXCEPT !.status = "failed"]  PROVE FALSE
  BY <1>1, <1>6, EntriesType DEF RunRecord
<1> QED  BY <1>2, <1>3, <1>4, <1>5, <1>6, StepEntries

\* What the two theorems rest on.
StopInv ==
  /\ RunInv /\ FinalInv /\ NothingByHand /\ NoResumeCanceled
  /\ SessionTasks /\ RetiredDead /\ CanceledEntries

LEMMA StopInvInit == Init => StopInv
<1> SUFFICES ASSUME Init  PROVE StopInv
  OBVIOUS
<1>1. RunInv /\ FinalInv
  BY RunInvInit, FinalInvInit
<1>2. NothingByHand /\ NoResumeCanceled
  BY DEF Init, NothingByHand, NoResumeCanceled
<1>3. RetiredDead /\ CanceledEntries
  BY DEF Init, RetiredDead, CanceledEntries, Range
<1>4. tick.pc = "idle" /\ run = <<>> /\ \A t \in Tasks : pending[t].session = NoSession
  BY DEF Init, NoTick, NothingPending
<1>5. SessionTasks
  BY <1>4 DEF SessionTasks, OfTask
<1> QED  BY <1>1, <1>2, <1>3, <1>5 DEF StopInv

LEMMA StopInvStep ==
  ASSUME "now" \notin Requests, "now from the CLI" \notin Requests,
         "cancel resume" \notin Requests, TypeInv, StopInv, [Next]_vars
  PROVE  StopInv'
<1> USE DEF StopInv
<1>1. DaemonAlone /\ HistInv
  BY DEF FinalInv
<1>2. RunInv' /\ FinalInv'
  BY TypeStep, RunInvStep, FinalInvStep
<1>3. NothingByHand' /\ NoResumeCanceled'
  BY NothingByHandStep, NoResumeCanceledStep
<1>4. SessionTasks'
  BY SessionTasksStep
<1>5. RetiredDead'
  BY <1>1, RetiredDeadStep
<1>6. CanceledEntries'
  BY <1>1, CanceledEntriesStep
<1> QED  BY <1>2, <1>3, <1>4, <1>5, <1>6

\* A session the operator stopped does not come back: when its run is retired
\* nothing is left that could continue it, whatever has been put aside, read by a
\* tick or lost in a crash.
THEOREM StoppedSessionsStay ==
  ASSUME "now" \notin Requests, "now from the CLI" \notin Requests,
         "cancel resume" \notin Requests
  PROVE  Spec => StoppedStaysStopped
<1>1. Init => TypeInv /\ StopInv
  BY InitType, StopInvInit
<1>2. (TypeInv /\ StopInv) /\ [Next]_vars => (TypeInv /\ StopInv)'
  BY TypeStep, StopInvStep
<1>3. TypeInv /\ StopInv /\ [Next]_vars =>
        [\A r \in RunIds : LaunchedByTick(r) /\ run'[r].resumed
           => \A i \in 1..Len(hist) :
                hist[i].status = "canceled" => hist[i].session # run'[r].session]_vars
  <2>1. SUFFICES ASSUME TypeInv, StopInv, [Next]_vars,
                        NEW r \in RunIds, LaunchedByTick(r), run'[r].resumed,
                        NEW i \in 1..Len(hist), hist[i].status = "canceled",
                        hist[i].session = run'[r].session
                 PROVE  FALSE
    OBVIOUS
  <2>2. PICK t \in tick.starts :
          /\ tick.pc = "launching" /\ tick \in TickType
          /\ run'[r].session = SessionFor(r, tick.target[t], tick.waiting[t])
          /\ run'[r].resumed = ContinuesSession(tick.target[t], tick.waiting[t])
    BY <2>1, TickLaunches
  <2>3. run'[r].session = tick.waiting[t].session /\ run'[r].session # NoSession
    BY <2>1, <2>2 DEF SessionFor, ContinuesSession
  <2>4. hist[i] \in Range(hist)
    BY <2>1, InRange DEF TypeInv, TypeOK
  <2>5. /\ hist[i].run \in DOMAIN run /\ run[hist[i].run].phase = "done"
        /\ run[hist[i].run].status = "canceled" /\ run[hist[i].run].session = hist[i].session
    BY <2>1, <2>4 DEF StopInv, CanceledEntries, FinalInv, HistInv, HistRuns, EntriesFit
  <2>6. hist[i].session \in RunIds
    BY <2>1, <2>3, <2>4, EntriesType DEF RunRecord, Sessions
  <2>7. Dead(hist[i].session)
    BY <2>1, <2>5, <2>6 DEF StopInv, RetiredDead, Retired
  <2> QED  BY <2>1, <2>2, <2>3, <2>7 DEF Dead
<1> QED  BY <1>1, <1>2, <1>3, PTL DEF Spec, StoppedStaysStopped

-----------------------------------------------------------------------------
\* Two processes never write to one session.

\* Whoever takes a run over has had it stopped, and what was stopped is not put
\* aside for later;
TakersStop ==
  /\ \A r \in takers : r \in DOMAIN run /\ run[r].canceled
  /\ \A r \in DOMAIN run : run[r].canceled /\ run[r].phase \notin Holding \cup {"lost"}
                           => run[r].status \in {"canceled", "success"}

\* with no crash, an outcome in the history is that of a recorded run,
TerminalEntries ==
  /\ \A x \in Range(hist) : Terminal(x.status) =>
        run[x.run].phase = "done" /\ run[x.run].status = x.status
  /\ stage = "down" => \A x \in Range(hist) : x.status # "running"

\* so that the sessions continued in a terminal are dead ones.
TerminalsDead == \A S \in byHand : S \in DOMAIN run /\ Dead(S)

SharedInv == StopInv /\ TakersStop /\ TerminalEntries /\ TerminalsDead

\* A run is taken over, and a session continued in a terminal, by request only.
LEMMA StepKeepsTerminals ==
  ASSUME [Next]_vars
  PROVE  /\ \A r \in takers' : r \in takers \/ (r \in DOMAIN run /\ TakeOverRun(r))
         /\ \A S \in byHand' :
              \/ S \in byHand
              \/ S # NoSession /\ \E r \in DOMAIN run :
                   \/ TakeOverAnswered(r) /\ S = run[r].session
                   \/ ContinueFinished(r) /\ S = Entry(r).session
<1> USE DEF vars, disk, memory, operator, config, state
<1> DEFINE Same == takers' \subseteq takers /\ byHand' \subseteq byHand
<1>1. ASSUME RunRequest
      PROVE  /\ \A r \in takers' : r \in takers \/ (r \in DOMAIN run /\ TakeOverRun(r))
             /\ \A S \in byHand' :
                  \/ S \in byHand
                  \/ S # NoSession /\ \E r \in DOMAIN run :
                       \/ TakeOverAnswered(r) /\ S = run[r].session
                       \/ ContinueFinished(r) /\ S = Entry(r).session
  <2>1. ASSUME NEW r \in DOMAIN run, TakeOverRun(r)
        PROVE  takers' = takers \cup {r} /\ byHand' = byHand
    BY <2>1 DEF TakeOverRun
  <2>2. ASSUME NEW r \in DOMAIN run, TakeOverAnswered(r)
        PROVE  takers' \subseteq takers /\ byHand' = byHand \cup ({run[r].session} \ {NoSession})
    BY <2>2 DEF TakeOverAnswered
  <2>3. ASSUME NEW r \in DOMAIN run, ContinueFinished(r)
        PROVE  /\ takers' = takers /\ byHand' = byHand \cup {Entry(r).session}
               /\ Entry(r).session # NoSession
    BY <2>3 DEF ContinueFinished
  <2>4. CASE \E r \in DOMAIN run : TakeOverRun(r) \/ TakeOverAnswered(r) \/ ContinueFinished(r)
    BY <2>1, <2>2, <2>3, <2>4
  <2>5. CASE ~ \E r \in DOMAIN run : TakeOverRun(r) \/ TakeOverAnswered(r) \/ ContinueFinished(r)
    <3>1. Same
      BY <1>1, <2>5 DEF RunRequest, CancelRun, TakeOverTimesOut, CancelResume, CloseTerminal,
                        CancelResumeRetire, CancelResumeUnqueue, CancelResumeRecord
    <3> QED  BY <3>1
  <2> QED  BY <2>4, <2>5
<1>2. ASSUME QueueRequest  PROVE Same
  BY <1>2 DEF QueueRequest, AddTask, AddTaskCommit, RemoveTask, ForgetTask, EditTask, SetPaused,
              Move
<1>3. ASSUME Tick \/ Manual \/ Stop \/ Exit \/ Crash \/ Restart \/ UNCHANGED vars  PROVE Same
  BY <1>3 DEF Tick, TickBegin, TickAbandoned, TickLock, TickRecord, TickLaunch, TickLaunchFails,
              Manual, NowBegin, NowRefused, NowStart, Stop, Exit, Crash, DaemonGone, Restart
<1>4. ASSUME NEW r \in DOMAIN run, Finish(r)  PROVE Same
  BY <1>4 DEF Finish, FinishLock, FinishLimited, FinishRetire, FinishUnqueue, FinishDeactivate,
              FinishRecord
<1>5. ASSUME NEW r \in DOMAIN run, NEW o \in {"success", "failed", "rate_limited"},
             RunExits(r, o)
      PROVE  Same
  BY <1>5 DEF RunExits
<1>6. ASSUME NEW t \in Tasks, TriggerComes(t)  PROVE Same
  BY <1>6 DEF TriggerComes
<1>7. ASSUME NEW e \in Engines, NEW p \in Providers, GateReopens(e, p)  PROVE Same
  BY <1>7 DEF GateReopens
<1> QED  BY <1>1, <1>2, <1>3, <1>4, <1>5, <1>6, <1>7 DEF Next

LEMMA TerminalsInit == Init => TakersStop /\ TerminalEntries /\ TerminalsDead
<1>1. Init => TakersStop
  BY DEF Init, TakersStop
<1>2. Init => TerminalEntries
  BY DEF Init, TerminalEntries, Range
<1>3. Init => TerminalsDead
  BY DEF Init, TerminalsDead
<1> QED  BY <1>1, <1>2, <1>3

LEMMA TakersStopStep ==
  ASSUME TypeInv, TakersStop, NothingByHand, [Next]_vars
  PROVE  TakersStop'
<1>1. ASSUME NEW r \in takers'  PROVE r \in DOMAIN run' /\ run'[r].canceled
  <2>1. CASE r \in takers
    <3>1. r \in DOMAIN run /\ run[r].canceled /\ r \in DOMAIN run' /\ RunStep(r)
      BY <2>1, RunsStay, EachRunSteps DEF TakersStop
    <3> QED  BY <3>1 DEF RunStep, RunStays, RunGoesTo
  <2>2. CASE r \in DOMAIN run /\ TakeOverRun(r)
    <3>1. run' = [run EXCEPT ![r].canceled = TRUE] /\ run[r] \in RunType
      BY <2>2, RunElement DEF TakeOverRun, TypeInv, TypeOK
    <3> QED  BY <2>2, <3>1 DEF RunType
  <2> QED  BY <2>1, <2>2, StepKeepsTerminals
<1>2. ASSUME NEW r \in DOMAIN run', run'[r].canceled, run'[r].phase \notin Holding \cup {"lost"}
      PROVE  run'[r].status \in {"canceled", "success"}
  <2>1. r \in DOMAIN run
    <3>1. ASSUME NEW t, NEW d, NEW p, NEW w, NEW m \in BOOLEAN, Launch(Daemon, t, d, p, w, m),
                 r \notin DOMAIN run
          PROVE  FALSE
      <4>1. run'[r].phase = "executing"
        BY <1>2, <3>1, LaunchAdds
      <4> QED  BY <1>2, <4>1 DEF Holding
    <3> QED  BY <1>2, <3>1, StepKeepsRuns DEF SameRuns, NothingByHand, TickLaunch
  <2>2. /\ run[r].canceled /\ run[r].phase \notin Holding \cup {"lost"}
           => run[r].status \in {"canceled", "success"}
        /\ RunStep(r)
    BY <2>1, EachRunSteps DEF TakersStop
  <2>3. CASE FinishLock(r) /\ run'[r].status = FinishStatus(r) /\ run'[r].canceled = run[r].canceled
    BY <1>2, <2>3 DEF FinishStatus
  <2> QED  BY <1>2, <2>2, <2>3
           DEF RunStep, RunStays, RunGoesTo, Holding, FinishLimited, FinishRetire, FinishUnqueue,
               FinishDeactivate, FinishRecord
<1> QED  BY <1>1, <1>2 DEF TakersStop

\* A daemon that exits, rather than crashes, has recorded all its runs.
LEMMA TerminalEntriesStep ==
  ASSUME "crash" \notin Requests, TypeInv, StopInv, TerminalEntries, [Next]_vars
  PROVE  TerminalEntries'
<1>i. DaemonAlone /\ HistRuns /\ RunningEntries /\ NothingByHand /\ NoResumeCanceled
  BY DEF StopInv, FinalInv, HistInv
<1>1. ASSUME NEW x \in Range(hist'), Terminal(x.status)
      PROVE  run'[x.run].phase = "done" /\ run'[x.run].status = x.status
  <2>1. CASE x \in Range(hist)
    BY <1>i, <1>1, <2>1, DoneStays DEF TerminalEntries, HistRuns
  <2>2. ~StartEntry(x)
    BY <1>1 DEF StartEntry, Terminal
  <2>3. ASSUME NEW r \in DOMAIN run, FinishRecord(r), x = Record(r)
        PROVE  run'[x.run].phase = "done" /\ run'[x.run].status = x.status
    BY <2>3, RecordIsDone DEF Record
  <2>4. ASSUME NEW q \in request, CancelResumeRecord(q)  PROVE FALSE
    BY <1>i, <2>4 DEF CancelResumeRecord, NoResumeCanceled
  <2>5. ASSUME Restart, NEW y \in Range(hist), y.status = "running"  PROVE FALSE
    BY <2>5 DEF Restart, TerminalEntries
  <2> QED  BY <2>1, <2>2, <2>3, <2>4, <2>5, StepEntries
<1>2. ASSUME stage' = "down", NEW x \in Range(hist')  PROVE x.status # "running"
  <2>1. CASE stage = "down"
    <3>1. ~StartEntry(x)
      <4>1. \A t \in Tasks : ~TickLaunch(t)
        BY <2>1 DEF TickLaunch, NextStart
      <4> QED  BY <1>i, <4>1, StepKeepsRuns DEF StartEntry, SameRuns, NothingByHand
    <3>2. ASSUME NEW r \in DOMAIN run, FinishRecord(r)  PROVE FALSE
      BY <1>i, <2>1, <3>2 DEF FinishRecord, DaemonAlone, Unfinished
    <3>3. ASSUME NEW q \in request, CancelResumeRecord(q)  PROVE FALSE
      BY <1>i, <3>3 DEF CancelResumeRecord, NoResumeCanceled
    <3>4. ~Restart
      BY <1>2 DEF Restart
    <3> QED  BY <2>1, <3>1, <3>2, <3>3, <3>4, StepEntries DEF TerminalEntries
  <2>2. CASE Exit
    <3>1. hist' = hist /\ stage # "down"
      BY <2>2 DEF Exit, disk
    <3>2. x.run \in DOMAIN run /\ run[x.run].phase \notin Unfinished
      BY <1>i, <2>2, <3>1 DEF Exit, HistRuns, DaemonAlone
    <3> QED  BY <1>i, <3>1, <3>2 DEF RunningEntries
  <2>3. ~Crash
    BY DEF Crash, Asked
  <2> QED  BY <1>2, <2>1, <2>2, <2>3, StageStep
<1> QED  BY <1>1, <1>2 DEF TerminalEntries

LEMMA TerminalsDeadStep ==
  ASSUME TypeInv, StopInv, TakersStop, TerminalEntries, TerminalsDead, [Next]_vars
  PROVE  TerminalsDead'
<1>i. SessionTasks /\ NothingByHand /\ RetiredDead
  BY DEF StopInv
<1>1. ASSUME NEW S \in DOMAIN run, Dead(S)  PROVE S \in DOMAIN run' /\ Dead(S)'
  BY <1>i, <1>1, DeadStays, RunsStay
<1>2. ASSUME NEW r \in DOMAIN run, Retired(r), run[r].session # NoSession
      PROVE  run[r].session \in DOMAIN run /\ Dead(run[r].session)
  <2>1. run[r].session \in RunIds
    BY <1>2, RunElement DEF TypeInv, TypeOK, RunType, Sessions
  <2> QED  BY <1>i, <1>2, <2>1 DEF RetiredDead, SessionTasks, OfTask
<1>3. ASSUME NEW r \in DOMAIN run, TakeOverAnswered(r)  PROVE Retired(r)
  BY <1>3 DEF TakeOverAnswered, TakersStop, Holding, Retired
<1>4. ASSUME NEW r \in DOMAIN run, ContinueFinished(r)
      PROVE  Retired(r) /\ Entry(r).session = run[r].session
  <2>1. Entry(r) \in Range(hist) /\ Entry(r).run = r /\ Terminal(Entry(r).status)
    <3>1. InHistory(r) /\ Terminal(Entry(r).status) /\ hist \in Seq(RunRecord)
      BY <1>4 DEF ContinueFinished, TypeInv, TypeOK
    <3>2. PICK i \in 1..Len(hist) : Entry(r) = hist[i] /\ hist[i].run = r
      BY <3>1 DEF InHistory, Entry
    <3> QED  BY <3>1, <3>2, InRange
  <2>2. Entry(r).session = run[r].session
    BY <2>1 DEF StopInv, FinalInv, EntriesFit
  <2>3. run[r].phase = "done" /\ run[r].status = Entry(r).status
    BY <2>1 DEF TerminalEntries
  <2> QED  BY <2>1, <2>2, <2>3 DEF Retired, Terminal
<1>5. ASSUME NEW S \in byHand'  PROVE S \in DOMAIN run /\ Dead(S)
  BY <1>2, <1>3, <1>4, <1>5, StepKeepsTerminals DEF TerminalsDead
<1> QED  BY <1>1, <1>5 DEF TerminalsDead

\* No two processes write to one session: a task has one run at a time and a
\* session one task, and a session is opened in a terminal only when its run is
\* over and nothing is left that could continue it.
THEOREM OneWriter ==
  ASSUME "now" \notin Requests, "now from the CLI" \notin Requests,
         "cancel resume" \notin Requests, "crash" \notin Requests
  PROVE  Spec => []SessionNotShared
<1>1. Init => TypeInv /\ SharedInv
  BY TerminalsInit, InitType, StopInvInit DEF SharedInv
<1>2. (TypeInv /\ SharedInv) /\ [Next]_vars => (TypeInv /\ SharedInv)'
  BY TypeStep, StopInvStep, TakersStopStep, TerminalEntriesStep, TerminalsDeadStep
     DEF SharedInv, StopInv
<1>3. TypeInv /\ SharedInv => SessionNotShared
  <2> SUFFICES ASSUME TypeInv, SharedInv, NEW r \in DOMAIN run,
                      run[r].phase = "executing", run[r].session # NoSession
               PROVE  /\ run[r].session \notin byHand
                      /\ \A s \in DOMAIN run : s # r /\ run[s].phase = "executing"
                                               => run[s].session # run[r].session
    BY DEF SessionNotShared
  <2>1. run[r].session \notin byHand
    BY DEF SharedInv, TerminalsDead, Dead, Keeps
  <2>2. ASSUME NEW s \in DOMAIN run, s # r, run[s].phase = "executing",
               run[s].session = run[r].session
        PROVE  FALSE
    <3>1. run[s].task = run[r].task
      BY <2>2, ZenonT(60) DEF SharedInv, StopInv, SessionTasks, OfTask
    <3>2. run[s].engine = run[r].engine
      BY DEF SharedInv, StopInv, FinalInv, DaemonAlone
    <3> QED  BY <2>2, <3>1, <3>2
             DEF SharedInv, StopInv, RunInv, OneRunPerTask, Occupying, Holding
  <2> QED  BY <2>1, <2>2
<1> QED  BY <1>1, <1>2, <1>3, PTL DEF Spec

===============================================================================
