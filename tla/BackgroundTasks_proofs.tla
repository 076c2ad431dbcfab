------------------------ MODULE BackgroundTasks_proofs ------------------------
(***************************************************************************)
(* Proofs about BackgroundTasks for any tasks, kills and polls.  TaskInv   *)
(* ties the status of a task to how far its launch, its child and the      *)
(* goroutine that waits for it have come; KillInv makes the kill that has  *)
(* marked a task the only one at it, as long as it has not returned; AInv  *)
(* says what is recorded of a task nothing has come between and its child. *)
(***************************************************************************)
EXTENDS BackgroundTasks, TLAPS

\* Running, or marked killed by a kill that may still take it back.
Open(t) == task[t].status \in {"running", "killed"}
Waited(t) == child[t] # "none" /\ rep[t].pc = "idle"
Excused(t) == t \in unsaved \cup dropped
Killing(k, t) == kill[k].task = t /\ kill[k].pc \in {"terminate", "restore"}

LaunchInv(t) ==
    /\ launch[t] \in {"idle", "registered"} => child[t] = "none" /\ rep[t].pc = "idle"
    /\ launch[t] \in {"started", "unpid"} => child[t] # "none"
    /\ launch[t] = "registered" => task[t].status = "running"
    /\ launch[t] = "started" => /\ task[t].status # "none"
                                /\ task[t].status \in {"completed", "error"} => Ended(t)
    /\ HasPID(t) => launch[t] = "over" /\ child[t] # "none" /\ task[t].status # "none"
    /\ HasPID(t) /\ task[t].status \in {"completed", "error"} => Ended(t)

WatchInv(t) ==
    Open(t) =>
        /\ Launching(t) \/ Waited(t) \/ Excused(t)
        /\ launch[t] = "started" => Waited(t) \/ Excused(t)
        /\ launch[t] = "stop" => Excused(t)

StopInv(t) ==
    t \in stopped =>
        /\ Ended(t) /\ HasPID(t) /\ ~Running(t)
        /\ \A k \in Killers : ~Killing(k, t)

TaskInv == \A t \in Tasks : LaunchInv(t) /\ WatchInv(t) /\ StopInv(t)

KillInv ==
    \A k \in Killers :
        /\ kill[k].pc \in {"mark", "terminate", "restore"} => HasPID(kill[k].task)
        /\ kill[k].pc \in {"terminate", "restore"} => task[kill[k].task].status = "killed"
        /\ \A l \in Killers, t \in Tasks : Killing(k, t) /\ Killing(l, t) => k = l

BInv == TypeOK /\ TaskInv /\ KillInv
-----------------------------------------------------------------------------
LEMMA PersistType ==
    ASSUME TypeOK, NEW t \in Tasks, NEW value \in Task, Persist(t, value)
    PROVE  task' \in [Tasks -> Task] /\ meta' \in [Tasks -> Status] /\ unsaved' \subseteq Tasks
  <1>1. value.status \in Status
    BY DEF Task
  <1>2. task \in [Tasks -> Task] /\ meta \in [Tasks -> Status] /\ unsaved \subseteq Tasks
    BY DEF TypeOK
  <1>. QED
    BY <1>1, <1>2 DEF Persist

LEMMA SetStatusType ==
    ASSUME TypeOK, NEW t \in Tasks, NEW status \in Status, SetStatus(t, status)
    PROVE  task' \in [Tasks -> Task] /\ meta' \in [Tasks -> Status] /\ unsaved' \subseteq Tasks
  <1>1. task[t] \in Task
    BY DEF TypeOK
  <1>2. [task[t] EXCEPT !.status = status] \in Task
    BY <1>1 DEF Task
  <1>. QED
    BY <1>2, PersistType DEF SetStatus

LEMMA AppendOnceType ==
    ASSUME NEW S, NEW events \in Seq(S), NEW event \in S
    PROVE  AppendOnce(events, event) \in Seq(S)
BY DEF AppendOnce

LEMMA StopType ==
    ASSUME TypeOK, NEW t \in Tasks, NEW status \in Status, RecordStop(t, status)
    PROVE  /\ stops' \in [Tasks -> Seq(Status)] /\ unlogged' \subseteq Tasks
           /\ usage' = usage
  <1>1. AppendOnce(stops[t], status) \in Seq(Status)
    BY AppendOnceType DEF TypeOK
  <1>. QED
    BY <1>1 DEF RecordStop, Unlogged, TypeOK, accounts

LEMMA LaunchType ==
    ASSUME TypeOK, NEW t \in Tasks, LaunchStep(t)
    PROVE  TypeOK'
  <1>. USE DEF TypeOK, statuses, process, accounts, history
  <1>0. launch' \in [Tasks -> Places]
    BY DEF LaunchStep, Register, GiveUp, Launch, SetPID, TerminateOrphan, UpdateStatus, LaunchStop,
           At, Places
  <1>1. CASE Register(t)
    <2>1. [status |-> "running", pid |-> "unset"] \in Task /\ "running" \in Status
      BY DEF Task, Status
    <2>. QED
      BY <1>0, <1>1, <2>1 DEF Register
  <1>2. CASE GiveUp(t)
    BY <1>0, <1>2, SetStatusType DEF GiveUp, Status
  <1>3. CASE Launch(t)
    BY <1>0, <1>3 DEF Launch
  <1>4. CASE SetPID(t)
    <2>1. [task[t] EXCEPT !.pid = "set"] \in Task
      BY DEF Task
    <2>. QED
      BY <1>0, <1>4, <2>1, PersistType DEF SetPID
  <1>5. CASE TerminateOrphan(t)
    BY <1>0, <1>5 DEF TerminateOrphan
  <1>6. CASE UpdateStatus(t)
    BY <1>0, <1>6, SetStatusType DEF UpdateStatus, Status
  <1>7. CASE LaunchStop(t)
    BY <1>0, <1>7, StopType DEF LaunchStop, Status
  <1>. QED
    BY <1>1, <1>2, <1>3, <1>4, <1>5, <1>6, <1>7 DEF LaunchStep

LEMMA ReportType ==
    ASSUME TypeOK, NEW r \in Reporters, ReportStep(r)
    PROVE  TypeOK'
  <1>. USE DEF TypeOK, statuses, process, accounts, history
  <1>1. rep[r] \in Reporter /\ rep[r].task \in Tasks /\ rep[r].status \in Status
        /\ rep[r].usage \in 0 .. MaxOutput
    BY DEF Reporter
  <1>2. Over(r) \in Reporter
    BY <1>1, OutputAssumption DEF Over, Reporter, Status
  <1>. [rep[r] EXCEPT !.pc = "stop"] \in Reporter
    BY <1>1 DEF Reporter
  <1>3. CASE Get(r)
    <2>. DEFINE s == IF rep[r].peer THEN peer[rep[r].task] ELSE task[rep[r].task].status
    <2>1. s \in Status
      BY <1>1 DEF Task
    <2>2. [rep[r] EXCEPT !.status = s, !.pc = "read"] \in Reporter
      BY <1>1, <2>1 DEF Reporter
    <2>. QED
      BY <1>2, <1>3, <2>2 DEF Get
  <1>4. CASE Read(r)
    <2>1. [rep[r] EXCEPT !.usage = out[rep[r].task], !.pc = "roll"] \in Reporter
      BY <1>1 DEF Reporter
    <2>. QED
      BY <1>4, <2>1 DEF Read
  <1>5. CASE RollUp(r)
    <2>1. usage' \in [Tasks -> Seq(0 .. MaxOutput)] /\ unlogged' \subseteq Tasks
          /\ stops' = stops
      <3>1. AppendOnce(usage[rep[r].task], rep[r].usage) \in Seq(0 .. MaxOutput)
        BY <1>1, AppendOnceType
      <3>2. usage \in [Tasks -> Seq(0 .. MaxOutput)] /\ unlogged \subseteq Tasks
        OBVIOUS
      <3>. HIDE DEF TypeOK
      <3>. QED
        BY <1>1, <1>5, <3>1, <3>2 DEF RollUp, Unlogged
    <2>. QED
      BY <1>2, <1>5, <2>1 DEF RollUp, See
  <1>6. CASE Report(r)
    BY <1>1, <1>2, <1>6, StopType DEF Report
  <1>. QED
    BY <1>3, <1>4, <1>5, <1>6 DEF ReportStep

LEMMA KillType ==
    ASSUME TypeOK, NEW k \in Killers, KillStep(k)
    PROVE  TypeOK'
  <1>. USE DEF TypeOK, statuses, process, accounts, history
  <1>1. kill[k].task \in Tasks
    BY DEF KillCall
  <1>2. \A place \in {"idle", "target", "mark", "terminate", "restore"} :
            Step(k, place, kill[k].task) => kill' \in [Killers -> KillCall]
    <2>. SUFFICES ASSUME NEW place \in {"idle", "target", "mark", "terminate", "restore"},
                         Step(k, place, kill[k].task)
                  PROVE  kill' \in [Killers -> KillCall]
      OBVIOUS
    <2>1. [pc |-> place, task |-> kill[k].task] \in KillCall
      BY <1>1 DEF KillCall
    <2>. QED
      BY <2>1 DEF Step
  <1>3. CASE KillTarget(k)
    BY <1>2, <1>3 DEF KillTarget, Return
  <1>4. CASE MarkKilled(k)
    BY <1>1, <1>2, <1>4, SetStatusType DEF MarkKilled, Status, Return
  <1>5. CASE Terminated(k)
    BY <1>1, <1>2, <1>5 DEF Terminated, Return
  <1>6. CASE TerminateFails(k)
    BY <1>2, <1>6 DEF TerminateFails, Return
  <1>7. CASE Restore(k)
    BY <1>1, <1>2, <1>7, SetStatusType DEF Restore, Status, Return
  <1>. QED
    BY <1>3, <1>4, <1>5, <1>6, <1>7 DEF KillStep

LEMMA TypeStep ==
    ASSUME TypeOK, [Next]_vars
    PROVE  TypeOK'
  <1>. USE DEF TypeOK, statuses, process, accounts, history
  <1>1. ASSUME NEW t \in Tasks, MarkExited(t)
        PROVE  TypeOK'
    <2>1. child[t] \in Status
      BY <1>1 DEF MarkExited, Ended, Status
    <2>2. rep[t] \in Reporter
      BY DEF Reporters
    <2>3. [rep[t] EXCEPT !.pc = "get"] \in Reporter
      BY <2>2 DEF Reporter
    <2>. QED
      BY <1>1, <2>1, <2>3, SetStatusType DEF MarkExited, See, Reporters
  <1>2. ASSUME NEW t \in Tasks, ChildWrites(t) \/ ChildExits(t)
        PROVE  TypeOK'
    <2>1. CASE ChildWrites(t)
      <3>1. out[t] + 1 \in 0 .. MaxOutput
        BY <2>1, OutputAssumption DEF ChildWrites
      <3>. QED
        BY <2>1, <3>1 DEF ChildWrites
    <2>2. CASE ChildExits(t)
      BY <2>2 DEF ChildExits
    <2>. QED
      BY <1>2, <2>1, <2>2
  <1>3. ASSUME NEW p \in Polls, Poll(p)
        PROVE  TypeOK'
    <2>0. rep[p] \in Reporter
      BY DEF Reporters
    <2>1. \A b \in BOOLEAN : [rep[p] EXCEPT !.pc = "get", !.peer = b] \in Reporter
      BY <2>0 DEF Reporter
    <2>. QED
      BY <1>3, <2>1 DEF Poll
  <1>4. ASSUME NEW s \in Stops, StopCall(s)
        PROVE  TypeOK'
    <2>1. kill' \in [Killers -> KillCall]
      BY <1>4 DEF StopCall, Step, KillCall, Killers
    <2>. QED
      BY <1>4, <2>1 DEF StopCall
  <1>5. CASE Close
    BY <1>5 DEF Close
  <1>6. CASE CloseNext
    <2>1. kill' \in [Killers -> KillCall]
      BY <1>6 DEF CloseNext, Step, KillCall, Killers
    <2>. QED
      BY <1>6, <2>1 DEF CloseNext
  <1>7. CASE OwnerEnds
    <2>1. rep' \in [Reporters -> Reporter]
      BY <1>7, OutputAssumption DEF OwnerEnds, Over, Reporter, Status
    <2>2. kill' \in [Killers -> KillCall]
      BY <1>7 DEF OwnerEnds, KillCall
    <2>3. task' \in [Tasks -> Task] /\ launch' \in [Tasks -> Places]
      BY <1>7 DEF OwnerEnds, Task, Status, Places
    <2>. QED
      BY <1>7, <2>1, <2>2, <2>3 DEF OwnerEnds
  <1>8. CASE PeerLoads
    BY <1>8 DEF PeerLoads, Status
  <1>9. CASE UNCHANGED vars
    BY <1>9 DEF vars
  <1>. QED
    BY <1>1, <1>2, <1>3, <1>4, <1>5, <1>6, <1>7, <1>8, <1>9, LaunchType, ReportType, KillType
       DEF Next
-----------------------------------------------------------------------------
(* A task a step does not touch keeps its invariant.                         *)

Untouched(u) ==
    /\ task'[u] = task[u] /\ child'[u] = child[u] /\ launch'[u] = launch[u]
    /\ rep[u].pc = "idle" <=> rep'[u].pc = "idle"
    /\ Excused(u) => Excused(u)'
    /\ u \in stopped' => u \in stopped
    /\ \A k \in Killers : Killing(k, u)' => Killing(k, u)

LEMMA Frame ==
    ASSUME TaskInv, NEW u \in Tasks, Untouched(u)
    PROVE  LaunchInv(u)' /\ WatchInv(u)' /\ StopInv(u)'
  <1>1. LaunchInv(u) /\ WatchInv(u) /\ StopInv(u)
    BY DEF TaskInv
  <1>2. LaunchInv(u)'
    BY <1>1 DEF LaunchInv, Untouched, Ended, HasPID
  <1>3. WatchInv(u)'
    BY <1>1 DEF WatchInv, Untouched, Open, Waited, Launching
  <1>4. StopInv(u)'
    BY <1>1 DEF StopInv, Untouched, Ended, Running, HasPID
  <1>. QED
    BY <1>2, <1>3, <1>4

LEMMA KillFrame ==
    ASSUME KillInv, TypeOK, kill' = kill,
           \A t \in Tasks :
               /\ task[t].pid = "set" => task'[t].pid = "set"
               /\ task[t].pid = "set" /\ task[t].status = "killed" => task'[t].status = "killed"
    PROVE  KillInv'
  <1>1. ASSUME NEW k \in Killers
        PROVE  /\ kill[k].pc \in {"mark", "terminate", "restore"} => task'[kill[k].task].pid = "set"
               /\ kill[k].pc \in {"terminate", "restore"} => task'[kill[k].task].status = "killed"
    <2>1. kill[k].task \in Tasks
      BY DEF TypeOK, KillCall
    <2>2. /\ kill[k].pc \in {"mark", "terminate", "restore"} => task[kill[k].task].pid = "set"
          /\ kill[k].pc \in {"terminate", "restore"} => task[kill[k].task].status = "killed"
      BY DEF KillInv, HasPID
    <2>. QED
      BY <2>1, <2>2
  <1>2. \A k, l \in Killers, t \in Tasks : Killing(k, t)' /\ Killing(l, t)' => k = l
    BY DEF KillInv, Killing
  <1>. QED
    BY <1>1, <1>2 DEF KillInv, HasPID

\* What a call of runBackground does to its task.
LEMMA LaunchInvStep ==
    ASSUME BInv, NEW t \in Tasks, LaunchStep(t)
    PROVE  TaskInv' /\ KillInv'
  <1>. USE DEF statuses, process, accounts, history
  <1>1. kill' = kill /\ rep' = rep /\ stopped' = stopped /\ dropped' = dropped
        /\ unsaved \subseteq unsaved'
    BY DEF LaunchStep, Register, GiveUp, Launch, SetPID, TerminateOrphan, UpdateStatus, LaunchStop,
           SetStatus, Persist
  <1>2. \A u \in Tasks \ {t} : task'[u] = task[u] /\ child'[u] = child[u] /\ launch'[u] = launch[u]
    BY DEF BInv, TypeOK, LaunchStep, Register, GiveUp, Launch, SetPID, TerminateOrphan, UpdateStatus,
           LaunchStop, SetStatus, Persist, At
  <1>3. \A u \in Tasks \ {t} : LaunchInv(u)' /\ WatchInv(u)' /\ StopInv(u)'
    BY <1>1, <1>2, Frame DEF BInv, Untouched, Excused, Killing
  <1>4. LaunchInv(t) /\ WatchInv(t) /\ StopInv(t)
    BY DEF BInv, TaskInv
  <1>5. HasPID(t) => launch[t] = "over"
    BY <1>4 DEF LaunchInv
  <1>6. KillInv'
    <2>1. HasPID(t) => FALSE
      BY <1>5 DEF LaunchStep, Register, GiveUp, Launch, SetPID, TerminateOrphan, UpdateStatus,
                  LaunchStop
    <2>. QED
      BY <1>1, <1>2, <2>1, KillFrame DEF BInv, HasPID
  <1>7. LaunchInv(t)' /\ WatchInv(t)' /\ StopInv(t)'
    <2>. USE <1>1, <1>4 DEF LaunchInv, WatchInv, StopInv, Open, Waited, Excused, Launching, Ended,
             Running, Killing, At, HasPID
    <2>1. task \in [Tasks -> Task] /\ launch \in [Tasks -> Places]
          /\ child \in [Tasks -> {"none", "alive", "completed", "error"}]
      BY DEF BInv, TypeOK
    <2>2. task[t] \in [status : Status, pid : {"unset", "set"}]
      BY <2>1 DEF Task
    <2>3. CASE Register(t)
      BY <2>1, <2>3 DEF Register
    <2>4. CASE GiveUp(t)
      BY <2>1, <2>2, <2>4 DEF GiveUp, SetStatus, Persist
    <2>5. CASE Launch(t)
      BY <2>1, <2>5 DEF Launch
    <2>6. CASE SetPID(t)
      <3>1. launch[t] = "started" /\ child' = child /\ ~HasPID(t)
        BY <2>6 DEF SetPID
      <3>2. CASE task' = [task EXCEPT ![t] = [@ EXCEPT !.pid = "set"]]
        <4>1. task'[t].pid = "set" /\ task'[t].status = task[t].status
          BY <2>1, <2>2, <3>2
        <4>2. launch'[t] = "over"
          BY <2>1, <2>6, <3>1, <4>1 DEF SetPID
        <4>. QED
          BY <3>1, <4>1, <4>2
      <3>3. CASE task' = task /\ t \in unsaved'
        <4>1. launch'[t] = "unpid"
          BY <2>1, <2>6, <3>3 DEF SetPID
        <4>. QED
          BY <3>1, <3>3, <4>1
      <3>. QED
        BY <2>6, <3>2, <3>3 DEF SetPID, Persist
    <2>7. CASE TerminateOrphan(t)
      <3>1. launch[t] = "unpid" /\ launch'[t] = "update" /\ child' = child /\ ~HasPID(t)
            /\ task' = task
        BY <2>1, <2>7 DEF TerminateOrphan
      <3>. QED
        BY <3>1
    <2>8. CASE UpdateStatus(t)
      <3>1. launch[t] = "update" /\ launch'[t] = "stop" /\ child' = child /\ ~HasPID(t)
        BY <2>1, <2>8 DEF UpdateStatus
      <3>2. task'[t].pid = task[t].pid /\ (task'[t].status = "error" \/ t \in unsaved')
        BY <2>1, <2>2, <2>8 DEF UpdateStatus, SetStatus, Persist
      <3>. QED
        BY <3>1, <3>2
    <2>9. CASE LaunchStop(t)
      BY <2>1, <2>9 DEF LaunchStop
    <2>. QED
      BY <2>3, <2>4, <2>5, <2>6, <2>7, <2>8, <2>9 DEF LaunchStep
  <1>. QED
    BY <1>3, <1>6, <1>7 DEF TaskInv
\* The goroutine that waits for the child.
LEMMA MarkExitedStep ==
    ASSUME BInv, NEW t \in Tasks, MarkExited(t)
    PROVE  TaskInv' /\ KillInv'
  <1>. USE DEF statuses, process, accounts, history
  <1>1. /\ kill' = kill /\ launch' = launch /\ child' = child /\ stopped' = stopped
        /\ unsaved \subseteq unsaved' /\ dropped \subseteq dropped'
        /\ rep[t].pc = "idle" /\ Ended(t)
    BY DEF MarkExited, SetStatus, Persist
  <1>2. /\ task \in [Tasks -> Task] /\ rep \in [Reporters -> Reporter] /\ t \in Reporters
        /\ task[t] \in [status : Status, pid : {"unset", "set"}]
    BY DEF BInv, TypeOK, Reporters, Task
  <1>3. \A u \in Tasks \ {t} : task'[u] = task[u] /\ rep'[u] = rep[u]
    BY <1>2 DEF MarkExited, SetStatus, Persist, See, Reporters
  <1>4. \A u \in Tasks \ {t} : LaunchInv(u)' /\ WatchInv(u)' /\ StopInv(u)'
    BY <1>1, <1>3, Frame DEF BInv, Untouched, Excused, Killing
  <1>5. LaunchInv(t) /\ WatchInv(t) /\ StopInv(t)
    BY DEF BInv, TaskInv
  <1>6. /\ task'[t].pid = task[t].pid
        /\ \/ task'[t] = task[t]
           \/ task[t].status = "running" /\ task'[t].status = child[t]
        /\ task'[t].status = "running" => t \in unsaved'
        /\ task'[t].status = "killed" => task[t].status = "killed" /\ t \in dropped'
    <2>1. CASE Running(t) /\ task' = [task EXCEPT ![t] = [@ EXCEPT !.status = child[t]]]
      BY <1>1, <1>2, <2>1 DEF Running, Ended
    <2>2. CASE Running(t) /\ task' = task /\ t \in unsaved'
      BY <2>2 DEF Running
    <2>3. CASE ~Running(t) /\ task' = task
      BY <1>2, <2>3 DEF MarkExited, Running
    <2>. QED
      BY <1>2, <2>1, <2>2, <2>3 DEF MarkExited, SetStatus, Persist
  <1>7. KillInv'
    <2>1. \A u \in Tasks :
              /\ task[u].pid = "set" => task'[u].pid = "set"
              /\ task[u].status = "killed" => task'[u].status = "killed"
      BY <1>3, <1>6
    <2>. QED
      BY <1>1, <2>1, KillFrame DEF BInv
  <1>8. LaunchInv(t)' /\ WatchInv(t)' /\ StopInv(t)'
    <2>1. launch[t] \notin {"idle", "registered"}
      BY <1>1, <1>5 DEF LaunchInv, Ended
    <2>2. LaunchInv(t)'
      BY <1>1, <1>5, <1>6, <2>1 DEF LaunchInv, Ended, HasPID
    <2>3. WatchInv(t)'
      BY <1>1, <1>6 DEF WatchInv, Open, Excused
    <2>4. StopInv(t)'
      BY <1>1, <1>5, <1>6 DEF StopInv, Ended, HasPID, Running, Killing
    <2>. QED
      BY <2>2, <2>3, <2>4
  <1>. QED
    BY <1>4, <1>7, <1>8 DEF TaskInv

\* One step of a kill.
LEMMA KillInvStep ==
    ASSUME BInv, NEW k \in Killers, KillStep(k)
    PROVE  TaskInv' /\ KillInv'
  <1>. USE DEF statuses, process, accounts, history
  <1>0. PICK t \in Tasks : t = kill[k].task
    BY DEF BInv, TypeOK, KillCall
  <1>1. /\ launch' = launch /\ child' = child /\ rep' = rep /\ dropped' = dropped
        /\ unsaved \subseteq unsaved' /\ kill \in [Killers -> KillCall]
        /\ task \in [Tasks -> Task] /\ task[t] \in [status : Status, pid : {"unset", "set"}]
    BY <1>0 DEF KillStep, KillTarget, MarkKilled, Terminated, TerminateFails, Restore, SetStatus,
                Persist, BInv, TypeOK, KillCall, Task
  <1>2. PICK place \in {"idle", "mark", "terminate", "restore"} :
            kill' = [kill EXCEPT ![k] = [pc |-> place, task |-> t]]
    BY <1>0 DEF KillStep, KillTarget, MarkKilled, Terminated, TerminateFails, Restore, Step, Return
  <1>3. /\ kill'[k].task = t /\ kill'[k].pc = place
        /\ \A l \in Killers \ {k} : kill'[l] = kill[l]
    BY <1>1, <1>2
  <1>4. \A u \in Tasks \ {t} : task'[u] = task[u] /\ (u \in stopped' => u \in stopped)
    BY <1>0, <1>1 DEF KillStep, KillTarget, MarkKilled, Terminated, TerminateFails, Restore,
                      SetStatus, Persist
  <1>5. \A u \in Tasks \ {t}, l \in Killers : Killing(l, u)' => Killing(l, u)
    BY <1>0, <1>1, <1>3 DEF Killing
  <1>6. \A u \in Tasks \ {t} : LaunchInv(u)' /\ WatchInv(u)' /\ StopInv(u)'
    BY <1>1, <1>4, <1>5, Frame DEF BInv, Untouched, Excused
  <1>7. /\ LaunchInv(t) /\ WatchInv(t) /\ StopInv(t)
        /\ kill[k].pc \in {"mark", "terminate", "restore"} => task[t].pid = "set"
        /\ kill[k].pc \in {"terminate", "restore"} => task[t].status = "killed"
        /\ \A l \in Killers : Killing(l, t) => task[t].status = "killed"
        /\ \A l \in Killers : Killing(k, t) /\ Killing(l, t) => l = k
    BY <1>0, <1>1 DEF BInv, TaskInv, KillInv, HasPID, Killing
  \* How the task, the other kills and what is reported as stopped change.
  <1>8. /\ task'[t].pid = task[t].pid
        /\ \/ task'[t] = task[t] /\ place # "restore"
           \/ task'[t] = task[t] /\ place = "restore" /\ kill[k].pc = "terminate"
           \/ /\ task[t].status = "running" /\ task'[t].status = "killed"
              /\ kill[k].pc = "mark" /\ place = "terminate"
           \/ /\ task[t].status = "killed" /\ task'[t].status = "running"
              /\ kill[k].pc = "restore" /\ place = "idle"
        /\ place = "mark" => task[t].pid = "set"
        /\ place = "terminate" => task'[t].status = "killed" /\ task[t].status = "running"
        /\ \/ stopped' = stopped
           \/ /\ stopped' = stopped \cup {t} /\ place = "idle" /\ task' = task
              /\ \/ kill[k].pc = "terminate" /\ Ended(t)
                 \/ kill[k].pc = "mark" /\ task[t].status \notin {"running", "killed"}
    <2>. USE <1>0, <1>1, <1>3
    <2>1. CASE KillTarget(k)
      BY <2>1 DEF KillTarget, Step, Return, HasPID
    <2>2. CASE MarkKilled(k)
      BY <1>2, <2>2 DEF MarkKilled, Step, Return, SetStatus, Persist, Running
    <2>3. CASE Terminated(k)
      BY <2>3 DEF Terminated, Step, Return
    <2>4. CASE TerminateFails(k)
      BY <2>4 DEF TerminateFails, Step, Return
    <2>5. CASE Restore(k)
      BY <1>7, <2>5 DEF Restore, Step, Return, SetStatus, Persist
    <2>. QED
      BY <2>1, <2>2, <2>3, <2>4, <2>5 DEF KillStep
  <1>9. LaunchInv(t)'
    BY <1>1, <1>7, <1>8 DEF LaunchInv, Ended, HasPID
  <1>10. WatchInv(t)'
    BY <1>1, <1>7, <1>8 DEF WatchInv, Open, Excused, Waited, Launching
  <1>11. StopInv(t)'
    <2>1. CASE stopped' = stopped
      BY <1>0, <1>1, <1>2, <1>3, <1>7, <1>8, <2>1 DEF StopInv, Ended, HasPID, Running, Killing
    <2>2. CASE stopped' # stopped
      <3>1. Ended(t) /\ task[t].pid = "set" /\ task[t].status # "running" /\ place = "idle"
        <4>1. task[t].status \in Status
          BY <1>1
        <4>. QED
          BY <4>1, <1>7, <1>8, <2>2 DEF LaunchInv, HasPID, Status
      <3>2. \A l \in Killers : ~Killing(l, t)'
        <4>1. ~Killing(k, t)'
          BY <1>3, <3>1 DEF Killing
        <4>2. ASSUME NEW l \in Killers \ {k}
              PROVE  ~Killing(l, t)
          BY <1>0, <1>7, <1>8, <2>2, <4>2 DEF Killing
        <4>. QED
          BY <1>3, <4>1, <4>2 DEF Killing
      <3>3. task' = task
        BY <1>8, <2>2
      <3>. QED
        BY <1>1, <3>1, <3>2, <3>3 DEF StopInv, Ended, HasPID, Running
    <2>. QED
      BY <2>1, <2>2
  <1>12. KillInv'
    <2>1. ASSUME NEW l \in Killers
          PROVE  /\ kill'[l].pc \in {"mark", "terminate", "restore"} => task'[kill'[l].task].pid = "set"
                 /\ kill'[l].pc \in {"terminate", "restore"} => task'[kill'[l].task].status = "killed"
      <3>1. CASE l = k
        BY <1>3, <1>7, <1>8, <3>1
      <3>2. CASE l # k /\ kill[l].task # t
        <4>1. kill[l].task \in Tasks
          BY <1>1 DEF KillCall
        <4>. QED
          BY <1>3, <1>4, <3>2, <4>1 DEF BInv, KillInv, HasPID
      <3>3. CASE l # k /\ kill[l].task = t
        <4>1. /\ kill[l].pc \in {"mark", "terminate", "restore"} => task[t].pid = "set"
              /\ kill[l].pc \in {"terminate", "restore"} => task[t].status = "killed"
          BY <3>3 DEF BInv, KillInv, HasPID
        <4>2. kill[l].pc \in {"terminate", "restore"} => kill[k].pc \notin {"terminate", "restore"}
          BY <1>0, <1>7, <3>3 DEF Killing
        <4>. QED
          BY <1>3, <1>8, <3>3, <4>1, <4>2
      <3>. QED
        BY <3>1, <3>2, <3>3
    <2>2. ASSUME NEW m \in Killers \ {k}, Killing(k, t)', Killing(m, t)
          PROVE  FALSE
      <3>1. CASE place = "terminate"
        BY <1>7, <1>8, <2>2, <3>1
      <3>2. CASE place = "restore"
        BY <1>0, <1>7, <1>8, <2>2, <3>2 DEF Killing
      <3>. QED
        BY <1>2, <1>3, <2>2, <3>1, <3>2 DEF Killing
    <2>3. ASSUME NEW l \in Killers, NEW m \in Killers, NEW u \in Tasks, Killing(l, u)', Killing(m, u)'
          PROVE  l = m
      <3>1. l # k => Killing(l, u)
        BY <1>3, <2>3 DEF Killing
      <3>2. m # k => Killing(m, u)
        BY <1>3, <2>3 DEF Killing
      <3>3. CASE l # k /\ m # k
        BY <3>1, <3>2, <3>3 DEF BInv, KillInv
      <3>4. CASE l = k /\ m # k
        <4>1. u = t
          BY <1>3, <2>3, <3>4 DEF Killing
        <4>. QED
          BY <2>2, <2>3, <3>2, <3>4, <4>1
      <3>5. CASE l # k /\ m = k
        <4>1. u = t
          BY <1>3, <2>3, <3>5 DEF Killing
        <4>. QED
          BY <2>2, <2>3, <3>1, <3>5, <4>1
      <3>. QED
        BY <3>3, <3>4, <3>5
    <2>. QED
      BY <2>1, <2>3 DEF KillInv, HasPID
  <1>. QED
    BY <1>6, <1>9, <1>10, <1>11, <1>12 DEF TaskInv
\* A call of TaskStop, or the next kill of KillRunning, takes up a task.
LEMMA CallStep ==
    ASSUME BInv, NEW k \in Killers, NEW t \in Tasks, kill[k].pc = "idle", Step(k, "target", t),
           UNCHANGED <<task, child, launch, rep, unsaved, dropped, stopped>>
    PROVE  TaskInv' /\ KillInv'
  <1>1. /\ kill'[k] = [pc |-> "target", task |-> t]
        /\ \A l \in Killers \ {k} : kill'[l] = kill[l]
    BY DEF Step, BInv, TypeOK
  <1>2. \A l \in Killers, u \in Tasks : Killing(l, u)' => Killing(l, u) /\ l # k
    BY <1>1 DEF Killing
  <1>3. TaskInv'
    BY <1>2, Frame DEF BInv, TaskInv, Untouched, Excused
  <1>4. KillInv'
    BY <1>1, <1>2 DEF BInv, KillInv, HasPID
  <1>. QED
    BY <1>3, <1>4

\* A step that is not about what these invariants speak of.
LEMMA QuietStep ==
    ASSUME BInv, \A u \in Tasks : Untouched(u), kill' = kill, task' = task
    PROVE  TaskInv' /\ KillInv'
BY Frame, KillFrame DEF BInv, TaskInv

LEMMA InvStep ==
    ASSUME BInv, [Next]_vars
    PROVE  TaskInv' /\ KillInv'
  <1>. USE DEF statuses, process, accounts, history
  <1>0. Tasks \subseteq Reporters /\ Stops \subseteq Killers /\ Closer \in Killers
    BY DEF Reporters, Killers
  <1>1. ASSUME NEW t \in Tasks, ChildWrites(t)
        PROVE  TaskInv' /\ KillInv'
    BY <1>1, QuietStep DEF ChildWrites, Untouched, Excused, Killing
  <1>2. ASSUME NEW t \in Tasks, ChildExits(t)
        PROVE  TaskInv' /\ KillInv'
    <2>1. \A u \in Tasks : (Ended(u) => Ended(u)') /\ (child[u] = "none" <=> child'[u] = "none")
      BY <1>2 DEF ChildExits, Ended, BInv, TypeOK
    <2>2. UNCHANGED <<task, launch, rep, kill, unsaved, dropped, stopped>>
      BY <1>2 DEF ChildExits
    <2>3. KillInv'
      BY <2>2 DEF BInv, KillInv, HasPID, Killing
    <2>4. ASSUME NEW u \in Tasks
          PROVE  LaunchInv(u)' /\ WatchInv(u)' /\ StopInv(u)'
      <3>1. LaunchInv(u) /\ WatchInv(u) /\ StopInv(u)
        BY DEF BInv, TaskInv
      <3>2. LaunchInv(u)'
        BY <2>1, <2>2, <3>1 DEF LaunchInv, HasPID
      <3>3. WatchInv(u)'
        BY <2>1, <2>2, <3>1 DEF WatchInv, Open, Waited, Excused, Launching
      <3>4. StopInv(u)'
        BY <2>1, <2>2, <3>1 DEF StopInv, HasPID, Running, Killing
      <3>. QED
        BY <3>2, <3>3, <3>4
    <2>. QED
      BY <2>3, <2>4 DEF TaskInv
  <1>3. ASSUME NEW r \in Reporters, ReportStep(r)
        PROVE  TaskInv' /\ KillInv'
    <2>0. rep \in [Reporters -> Reporter]
      BY DEF BInv, TypeOK
    <2>1. rep[r].pc # "idle" /\ rep'[r].pc # "idle" /\ \A q \in Reporters \ {r} : rep'[q] = rep[q]
      <3>1. CASE Get(r)
        BY <2>0, <3>1 DEF Get, Over, Reporter
      <3>2. CASE Read(r)
        BY <2>0, <3>2 DEF Read, Reporter
      <3>3. CASE RollUp(r)
        BY <2>0, <3>3 DEF RollUp, See, Reporter
      <3>4. CASE Report(r)
        BY <2>0, <3>4 DEF Report, Over, Reporter
      <3>. QED
        BY <1>3, <3>1, <3>2, <3>3, <3>4 DEF ReportStep
    <2>2. UNCHANGED <<task, child, launch, kill, unsaved, dropped, stopped>>
      BY <1>3 DEF ReportStep, Get, Read, RollUp, Report, RecordStop, Unlogged
    <2>. QED
      BY <1>0, <2>1, <2>2, QuietStep DEF Untouched, Excused, Killing
  <1>4. ASSUME NEW p \in Polls, Poll(p)
        PROVE  TaskInv' /\ KillInv'
    <2>1. \A u \in Tasks : rep'[u] = rep[u]
      BY <1>0, <1>4, ActorsAssumption DEF Poll, BInv, TypeOK
    <2>. QED
      BY <1>4, <2>1, QuietStep DEF Poll, Untouched, Excused, Killing
  <1>5. ASSUME NEW s \in Stops, StopCall(s)
        PROVE  TaskInv' /\ KillInv'
    BY <1>0, <1>5, CallStep DEF StopCall
  <1>6. CASE Close
    BY <1>6, QuietStep DEF Close, Untouched, Excused, Killing
  <1>7. CASE CloseNext
    <2>1. PICK t \in closing : Step(Closer, "target", t)
      BY <1>7 DEF CloseNext
    <2>2. t \in Tasks
      BY DEF BInv, TypeOK
    <2>. QED
      BY <1>0, <1>7, <2>1, <2>2, CallStep DEF CloseNext
  <1>8. CASE OwnerEnds
    <2>1. /\ \A u \in Tasks : /\ task'[u] = [status |-> "none", pid |-> "unset"]
                             /\ launch'[u] = "over"
          /\ \A k \in Killers : kill'[k].pc = "idle"
          /\ stopped' = {}
      BY <1>8 DEF OwnerEnds, BInv, TypeOK, KillCall
    <2>2. TaskInv'
      BY <2>1 DEF TaskInv, LaunchInv, WatchInv, StopInv, Open, HasPID
    <2>3. KillInv'
      BY <2>1 DEF KillInv, Killing
    <2>. QED
      BY <2>2, <2>3
  <1>9. CASE PeerLoads
    BY <1>9, QuietStep DEF PeerLoads, Untouched, Excused, Killing
  <1>10. CASE UNCHANGED vars
    BY <1>10, QuietStep DEF vars, Untouched, Excused, Killing
  <1>. QED
    BY <1>1, <1>2, <1>3, <1>4, <1>5, <1>6, <1>7, <1>8, <1>9, <1>10, LaunchInvStep, MarkExitedStep,
       KillInvStep DEF Next

-----------------------------------------------------------------------------
LEMMA InitInv == Init => BInv
  <1>. SUFFICES ASSUME Init PROVE BInv
    OBVIOUS
  <1>1. \A k \in Killers : kill[k].pc = "idle" /\ kill[k].task \in Tasks
    BY DEF Init
  <1>2. TypeOK
    <2>1. kill \in [Killers -> KillCall]
      BY DEF Init, KillCall
    <2>2. rep \in [Reporters -> Reporter]
      BY OutputAssumption DEF Init, Reporter, Status
    <2>3. task \in [Tasks -> Task] /\ launch \in [Tasks -> Places]
      BY DEF Init, Task, Status, Places
    <2>4. usage \in [Tasks -> Seq(0 .. MaxOutput)] /\ stops \in [Tasks -> Seq(Status)]
      BY DEF Init
    <2>. QED
      BY <2>1, <2>2, <2>3, <2>4, OutputAssumption DEF Init, TypeOK, Status
  <1>3. KillInv
    BY <1>1 DEF KillInv, Killing
  <1>4. TaskInv
    <2>1. \A t \in Tasks : rep[t].pc = "idle"
      BY DEF Init, Reporters
    <2>. QED
      BY <2>1 DEF Init, TaskInv, LaunchInv, WatchInv, StopInv, Open, HasPID
  <1>. QED
    BY <1>2, <1>3, <1>4 DEF BInv

THEOREM TaskInvariant == Spec => []BInv
  <1>1. BInv /\ [Next]_vars => BInv'
    BY TypeStep, InvStep DEF BInv
  <1>. QED
    BY InitInv, <1>1, PTL DEF Spec

\* While its owner lives, a task that is reported as running is being
\* launched or waited for, unless its metadata could not be written or its
\* exit came during a kill that failed.
THEOREM RunningIsWatched == Spec => []RunningWatched
  <1>1. BInv => RunningWatched
    BY DEF BInv, TaskInv, WatchInv, RunningWatched, Open, Waited, Excused, Running
  <1>. QED
    BY TaskInvariant, <1>1, PTL

\* A child that a kill reported as stopped is gone, and its task over.
THEOREM KillsAreFinal == Spec => []KillFinal
  <1>1. BInv => KillFinal
    BY DEF BInv, TypeOK, TaskInv, StopInv, KillFinal
  <1>. QED
    BY TaskInvariant, <1>1, PTL
-----------------------------------------------------------------------------
(* What is accounted for.  As long as nothing has come between a task and    *)
(* its child, the task, its metadata and the other process agree, whoever    *)
(* has seen the task over has seen the child ended, and an ended child       *)
(* writes no more.                                                           *)

Settled(t) == task[t].status \in {"completed", "error"}
Tracked(t) ==
    /\ up /\ t \notin unsaved \cup marked \cup mistaken
    /\ launch[t] \in {"idle", "registered", "started"} \/ HasPID(t)

StatusInv(t) ==
    /\ task[t].status = "killed" => t \in marked
    /\ launch[t] = "idle" => task[t].status = "none"
    /\ peer[t] # "running"
    /\ t \in mistaken => peer[t] # "none"
    /\ ~up => ~HasPID(t)
    /\ Tracked(t) => meta[t] = task[t].status /\ peer[t] \in {"none", task[t].status}

AccountInv(t) ==
    /\ Len(stops[t]) <= 1 /\ Len(usage[t]) <= 1
    /\ Tracked(t) =>
        /\ stops[t] # <<>> => Settled(t) /\ stops[t][1] = task[t].status
        /\ usage[t] # <<>> => Settled(t) /\ usage[t][1] = out[t]
        /\ stops[t] # <<>> => usage[t] # <<>> \/ out[t] = 0 \/ t \in unlogged

SightInv(r) ==
    LET t == rep[r].task IN
    /\ r \in Tasks => t = r
    /\ rep[r].peer => peer[t] # "none"
    /\ Tracked(t) =>
        /\ launch[t] = "idle" => rep[r].pc = "idle"
        /\ rep[r].pc \in {"read", "roll", "stop"} => Settled(t) /\ rep[r].status = task[t].status
        /\ rep[r].pc \in {"roll", "stop"} => rep[r].usage = out[t]
        /\ rep[r].pc = "stop" => usage[t] # <<>> \/ out[t] = 0 \/ t \in unlogged

AInv ==
    /\ \A t \in Tasks : StatusInv(t) /\ AccountInv(t)
    /\ \A r \in Reporters : SightInv(r)

\* A task that a step leaves as it is, if not untracked.
Alike(u) ==
    /\ up' = up /\ task'[u] = task[u] /\ launch'[u] = launch[u] /\ meta'[u] = meta[u]
    /\ peer'[u] = peer[u] /\ out'[u] = out[u] /\ usage'[u] = usage[u] /\ stops'[u] = stops[u]
    /\ u \in unsaved => u \in unsaved'
    /\ u \in marked <=> u \in marked'
    /\ u \in mistaken <=> u \in mistaken'
    /\ u \in unlogged => u \in unlogged'

LEMMA AccountFrame ==
    ASSUME AInv, NEW u \in Tasks, Alike(u)
    PROVE  StatusInv(u)' /\ AccountInv(u)'
  <1>1. StatusInv(u) /\ AccountInv(u) /\ (Tracked(u)' => Tracked(u))
    BY DEF AInv, Alike, Tracked, HasPID
  <1>2. StatusInv(u)'
    BY <1>1 DEF StatusInv, Alike, HasPID
  <1>3. AccountInv(u)'
    BY <1>1 DEF AccountInv, Alike, Settled
  <1>. QED
    BY <1>2, <1>3

LEMMA SightFrame ==
    ASSUME AInv, NEW r \in Reporters, rep'[r] = rep[r], Alike(rep[r].task)
    PROVE  SightInv(r)'
  <1>. DEFINE t == rep[r].task
  <1>1. SightInv(r) /\ (Tracked(t)' => Tracked(t))
    BY DEF AInv, Alike, Tracked, HasPID
  <1>. QED
    BY <1>1 DEF SightInv, Alike, Settled

LEMMA AllAlike ==
    ASSUME BInv, AInv, rep' = rep, \A u \in Tasks : Alike(u)
    PROVE  AInv'
  <1>1. \A r \in Reporters : rep[r].task \in Tasks
    BY DEF BInv, TypeOK, Reporter
  <1>. QED
    BY <1>1, AccountFrame, SightFrame DEF AInv

\* An ended child behind whatever is settled.
LEMMA SettledEnded ==
    ASSUME BInv, AInv, NEW t \in Tasks, Tracked(t), Settled(t)
    PROVE  Ended(t)
  <1>1. LaunchInv(t) /\ StatusInv(t)
    BY DEF BInv, TaskInv, AInv
  <1>. QED
    BY <1>1 DEF LaunchInv, StatusInv, Tracked, Settled

\* What there is of a task that is not settled.
LEMMA Unsettled ==
    ASSUME AInv, NEW t \in Tasks, Tracked(t), ~Settled(t)
    PROVE  /\ stops[t] = <<>> /\ usage[t] = <<>>
           /\ \A r \in Reporters : rep[r].task = t => rep[r].pc \notin {"read", "roll", "stop"}
  <1>1. AccountInv(t) /\ \A r \in Reporters : SightInv(r)
    BY DEF AInv
  <1>. QED
    BY <1>1 DEF AccountInv, SightInv

LEMMA OnceOnly ==
    ASSUME NEW S, NEW events \in Seq(S), NEW event \in S, Len(events) <= 1
    PROVE  /\ Len(AppendOnce(events, event)) <= 1
           /\ events # <<>> => AppendOnce(events, event) = events
           /\ events = <<>> => AppendOnce(events, event) = <<event>>
  BY DEF AppendOnce

LEMMA LaunchAccount ==
    ASSUME BInv, AInv, NEW t \in Tasks, LaunchStep(t)
    PROVE  AInv'
  <1>. USE DEF statuses, process, accounts, history
  <1>1. /\ up /\ up' /\ UNCHANGED <<peer, out, usage, rep, marked, mistaken>>
        /\ unsaved \subseteq unsaved' /\ unlogged \subseteq unlogged'
        /\ \A u \in Tasks \ {t} : Alike(u)
    BY DEF BInv, TypeOK, Alike, LaunchStep, Register, GiveUp, Launch, SetPID, TerminateOrphan,
           UpdateStatus, LaunchStop, RecordStop, Unlogged, SetStatus, Persist, At
  <1>2. /\ \A u \in Tasks \ {t} : StatusInv(u)' /\ AccountInv(u)'
        /\ \A r \in Reporters : rep[r].task # t => SightInv(r)'
    BY <1>1, AccountFrame, SightFrame DEF BInv, TypeOK, Reporter
  <1>3. /\ LaunchInv(t) /\ StatusInv(t) /\ AccountInv(t)
        /\ \A r \in Reporters : SightInv(r)
    BY DEF BInv, TaskInv, AInv
  <1>4. /\ task \in [Tasks -> Task] /\ launch \in [Tasks -> Places] /\ meta \in [Tasks -> Status]
        /\ task[t] \in [status : Status, pid : {"unset", "set"}]
        /\ stops \in [Tasks -> Seq(Status)]
    BY DEF BInv, TypeOK, Task
  <1>5. ~HasPID(t)
    BY <1>3 DEF LaunchInv, LaunchStep, Register, GiveUp, Launch, SetPID, TerminateOrphan,
                UpdateStatus, LaunchStop
  \* What is tracked after the step was so before, and nothing is accounted for.
  <1>6. /\ Tracked(t)' => /\ Tracked(t)
                          /\ stops'[t] = stops[t]
                          /\ meta'[t] = task'[t].status
                          /\ \/ task'[t].status = task[t].status
                             \/ task[t].status = "none" /\ task'[t].status = "running"
        /\ launch'[t] # "idle" /\ Len(stops'[t]) <= 1
        /\ task'[t].status = "killed" => task[t].status = "killed"
    <2>1. CASE Register(t)
      BY <1>1, <1>3, <1>4, <2>1 DEF Register, At, Tracked, StatusInv, AccountInv
    <2>2. CASE GiveUp(t)
      BY <1>1, <1>3, <1>4, <1>5, <2>2 DEF GiveUp, At, SetStatus, Persist, Tracked, StatusInv, AccountInv,
        HasPID
    <2>3. CASE Launch(t)
      BY <1>1, <1>3, <1>4, <1>5, <2>3 DEF Launch, At, Tracked, StatusInv, AccountInv, HasPID
    <2>4. CASE SetPID(t)
      BY <1>1, <1>3, <1>4, <1>5, <2>4 DEF SetPID, At, Persist, Tracked, StatusInv, AccountInv, HasPID
    <2>5. CASE TerminateOrphan(t)
      BY <1>1, <1>3, <1>4, <1>5, <2>5 DEF TerminateOrphan, At, Tracked, StatusInv, AccountInv, HasPID
    <2>6. CASE UpdateStatus(t)
      BY <1>1, <1>3, <1>4, <1>5, <2>6
         DEF UpdateStatus, At, SetStatus, Persist, Tracked, StatusInv, AccountInv, HasPID
    <2>7. CASE LaunchStop(t)
      <3>1. Len(stops'[t]) <= 1
        BY <1>3, <1>4, <2>7, OnceOnly DEF LaunchStop, RecordStop, Unlogged, AccountInv, Status
      <3>. QED
        BY <1>1, <1>3, <1>4, <1>5, <2>7, <3>1 DEF LaunchStop, At, Tracked, StatusInv, HasPID
    <2>. QED
      BY <2>1, <2>2, <2>3, <2>4, <2>5, <2>6, <2>7 DEF LaunchStep
  <1>7. StatusInv(t)'
    BY <1>1, <1>3, <1>6 DEF StatusInv
  <1>8. Tracked(t)' => (Settled(t)' <=> Settled(t)) /\ (Settled(t) => task'[t].status = task[t].status)
    BY <1>6 DEF Settled
  <1>9. AccountInv(t)'
    BY <1>1, <1>3, <1>6, <1>8 DEF AccountInv
  <1>10. ASSUME NEW r \in Reporters, rep[r].task = t
         PROVE  SightInv(r)'
    BY <1>1, <1>3, <1>6, <1>8, <1>10 DEF SightInv
  <1>. QED
    BY <1>2, <1>7, <1>9, <1>10 DEF AInv

LEMMA ExitAccount ==
    ASSUME BInv, AInv, NEW t \in Tasks, MarkExited(t)
    PROVE  AInv'
  <1>. USE DEF statuses, process, accounts, history
  <1>1. /\ up /\ UNCHANGED <<up, peer, out, launch, usage, stops, marked, mistaken, unlogged, child>>
        /\ unsaved \subseteq unsaved' /\ rep[t].pc = "idle" /\ Ended(t)
        /\ \A u \in Tasks \ {t} : Alike(u)
    BY DEF BInv, TypeOK, Alike, MarkExited, SetStatus, Persist
  <1>2. /\ task \in [Tasks -> Task] /\ meta \in [Tasks -> Status]
        /\ task[t] \in [status : Status, pid : {"unset", "set"}]
        /\ rep \in [Reporters -> Reporter] /\ t \in Reporters
    BY DEF BInv, TypeOK, Task, Reporters
  <1>3. /\ \A r \in Reporters \ {t} : rep'[r] = rep[r]
        /\ rep'[t] = [rep[t] EXCEPT !.pc = "get"]
    BY <1>2 DEF MarkExited, See
  <1>4. /\ LaunchInv(t) /\ StatusInv(t) /\ AccountInv(t)
        /\ \A r \in Reporters : SightInv(r)
    BY DEF BInv, TaskInv, AInv
  <1>5. launch[t] # "idle"
    BY <1>1, <1>4 DEF LaunchInv, Ended
  <1>6. /\ Tracked(t)' => Tracked(t)
        /\ task'[t].pid = task[t].pid
        /\ \/ task'[t] = task[t] /\ meta'[t] = meta[t] /\ (Running(t) => t \in unsaved')
           \/ task[t].status = "running" /\ task'[t].status \in {"completed", "error"}
              /\ meta'[t] = task'[t].status
    <2>1. CASE Running(t) /\ SetStatus(t, child[t])
      BY <1>1, <1>2, <2>1 DEF SetStatus, Persist, Running, Ended, Tracked, HasPID
    <2>2. CASE ~Running(t)
      BY <1>1, <1>2, <2>2 DEF MarkExited, Tracked, HasPID
    <2>. QED
      BY <2>1, <2>2 DEF MarkExited
  <1>7. StatusInv(t)'
    BY <1>1, <1>4, <1>5, <1>6 DEF StatusInv, HasPID
  <1>8. AccountInv(t)'
    BY <1>1, <1>4, <1>6 DEF AccountInv, Settled
  <1>9. ASSUME NEW r \in Reporters
        PROVE  SightInv(r)'
    <2>1. CASE rep[r].task # t
      <3>1. r # t
        BY <1>4, <2>1 DEF SightInv
      <3>. QED
        BY <1>1, <1>2, <1>3, <2>1, <3>1, SightFrame DEF Reporter
    <2>2. CASE rep[r].task = t /\ r # t
      BY <1>1, <1>3, <1>4, <1>5, <1>6, <2>2 DEF SightInv, Settled
    <2>3. CASE r = t
      <3>1. rep'[t].pc = "get" /\ rep'[t].task = rep[t].task /\ rep'[t].peer = rep[t].peer
        BY <1>2, <1>3 DEF Reporter
      <3>. QED
        BY <1>1, <1>4, <1>5, <2>3, <3>1 DEF SightInv
    <2>. QED
      BY <2>1, <2>2, <2>3
  <1>. QED
    BY <1>1, <1>7, <1>8, <1>9, AccountFrame DEF AInv

\* A reporter looks at its task or at the output, or appends an event.
LEMMA ReportAccount ==
    ASSUME BInv, AInv, NEW r \in Reporters, ReportStep(r)
    PROVE  AInv'
  <1>. USE DEF statuses, process, accounts, history
  <1>0. PICK t \in Tasks : t = rep[r].task
    BY DEF BInv, TypeOK, Reporter
  <1>1. /\ UNCHANGED <<up, task, meta, peer, out, launch, unsaved, marked, mistaken>>
        /\ unlogged \subseteq unlogged'
        /\ \A u \in Tasks : Tracked(u)' <=> Tracked(u)
        /\ \A u \in Tasks : Settled(u)' <=> Settled(u)
    BY <1>0 DEF ReportStep, Get, Read, RollUp, Report, RecordStop, Unlogged, Tracked, Settled, HasPID
  <1>2. /\ t \in Tasks /\ rep \in [Reporters -> Reporter] /\ rep[r] \in Reporter
        /\ usage \in [Tasks -> Seq(0 .. MaxOutput)] /\ stops \in [Tasks -> Seq(Status)]
        /\ out[t] \in Nat /\ rep[r].usage \in Nat
    BY <1>0, OutputAssumption DEF BInv, TypeOK, Reporter
  <1>3. /\ StatusInv(t) /\ AccountInv(t) /\ SightInv(r)
        /\ \A q \in Reporters : SightInv(q)
        /\ \A u \in Tasks : StatusInv(u)
    BY <1>0, <1>2 DEF AInv
  <1>4. /\ \A q \in Reporters \ {r} : rep'[q] = rep[q]
        /\ rep'[r].task = t /\ (rep'[r].peer => rep[r].peer) /\ rep'[r].pc # "idle"
        /\ rep[r].pc # "idle"
    <2>1. CASE Get(r)
      BY <1>0, <1>2, <2>1 DEF Get, Over, Reporter
    <2>2. CASE Read(r)
      BY <1>0, <1>2, <2>2 DEF Read, Reporter
    <2>3. CASE RollUp(r)
      BY <1>0, <1>2, <2>3 DEF RollUp, See, Reporter
    <2>4. CASE Report(r)
      BY <1>0, <1>2, <2>4 DEF Report, Over, Reporter
    <2>. QED
      BY <1>0, <2>1, <2>2, <2>3, <2>4 DEF ReportStep
  \* The accounts of other tasks are as they were, and nothing is taken back.
  <1>5. /\ \A u \in Tasks \ {t} : usage'[u] = usage[u] /\ stops'[u] = stops[u]
        /\ usage[t] # <<>> => usage'[t] = usage[t]
        /\ stops[t] # <<>> => stops'[t] = stops[t]
        /\ Len(usage'[t]) <= 1 /\ Len(stops'[t]) <= 1
    <2>1. Len(usage[t]) <= 1 /\ Len(stops[t]) <= 1
      BY <1>3 DEF AccountInv
    <2>2. rep[r].usage \in 0 .. MaxOutput /\ rep[r].status \in Status
      BY <1>2 DEF Reporter
    <2>3. CASE Get(r)
      BY <2>1, <2>3 DEF Get
    <2>4. CASE Read(r)
      BY <2>1, <2>4 DEF Read
    <2>5. CASE RollUp(r)
      <3>1. /\ Len(AppendOnce(usage[t], rep[r].usage)) <= 1
            /\ usage[t] # <<>> => AppendOnce(usage[t], rep[r].usage) = usage[t]
        BY <1>2, <2>1, <2>2, OnceOnly
      <3>2. CASE usage' = usage
        BY <2>1, <2>5, <3>2 DEF RollUp, Unlogged
      <3>3. CASE usage' = [usage EXCEPT ![t] = AppendOnce(@, rep[r].usage)]
        BY <1>2, <2>1, <2>5, <3>1, <3>3 DEF RollUp, Unlogged
      <3>. QED
        BY <1>0, <1>2, <2>5, <3>2, <3>3 DEF RollUp, Unlogged
    <2>6. CASE Report(r)
      BY <1>0, <1>2, <2>1, <2>2, <2>6, OnceOnly DEF Report, RecordStop, Unlogged
    <2>. QED
      BY <2>3, <2>4, <2>5, <2>6 DEF ReportStep
  <1>6. \A u \in Tasks \ {t} : Alike(u)
    BY <1>0, <1>1, <1>5 DEF Alike
  <1>7. \A u \in Tasks : StatusInv(u)'
    BY <1>0, <1>1, <1>3 DEF StatusInv, HasPID
  <1>8. ASSUME NEW q \in Reporters \ {r}
        PROVE  SightInv(q)'
    <2>1. SightInv(q) /\ rep[q].task \in Tasks
      BY <1>0, <1>2, <1>3 DEF Reporter
    <2>2. usage[rep[q].task] # <<>> => usage'[rep[q].task] # <<>>
      BY <1>0, <1>5, <2>1
    <2>. QED
      BY <1>0, <1>1, <1>4, <2>1, <2>2 DEF SightInv
  <1>9. AccountInv(t)' /\ SightInv(r)'
    <2>1. CASE Get(r)
      <3>1. /\ usage' = usage /\ stops' = stops /\ unlogged' = unlogged /\ rep[r].pc = "get"
            /\ rep'[r].pc \in {"over", "read"}
        BY <1>0, <1>2, <2>1 DEF Get, Over, Reporter
      <3>2. AccountInv(t)'
        BY <1>0, <1>1, <1>3, <3>1 DEF AccountInv
      <3>3. rep'[r].pc = "read" /\ Tracked(t) =>
                Settled(t) /\ rep'[r].status = task[t].status
        <4>. SUFFICES ASSUME rep'[r].pc = "read", Tracked(t)
                      PROVE  Settled(t) /\ rep'[r].status = task[t].status
          OBVIOUS
        <4>. DEFINE status == IF rep[r].peer THEN peer[t] ELSE task[t].status
        <4>1. status # "running" /\ rep'[r].status = status
          BY <1>0, <1>2, <2>1 DEF Get, Over, Reporter
        <4>2. rep[r].peer => peer[t] = task[t].status
          BY <1>0, <1>3 DEF SightInv, StatusInv
        <4>3. task[t].status \in Status
          BY <1>0, <1>2 DEF BInv, TypeOK, Task
        <4>4. task[t].status # "killed" /\ launch[t] # "idle"
          BY <1>0, <1>3, <3>1 DEF StatusInv, Tracked, SightInv
        <4>5. task[t].status # "none"
          BY <1>0, <1>2, <4>4 DEF BInv, TaskInv, LaunchInv, Tracked
        <4>. QED
          BY <1>0, <4>1, <4>2, <4>3, <4>4, <4>5 DEF Status, Settled
      <3>. QED
        BY <1>0, <1>1, <1>3, <1>4, <3>1, <3>2, <3>3 DEF SightInv
    <2>2. CASE Read(r)
      <3>1. /\ usage' = usage /\ stops' = stops /\ unlogged' = unlogged /\ rep[r].pc = "read"
            /\ rep'[r].pc = "roll" /\ rep'[r].usage = out[t] /\ rep'[r].status = rep[r].status
        BY <1>0, <1>2, <2>2 DEF Read, Reporter
      <3>2. AccountInv(t)'
        BY <1>0, <1>1, <1>3, <3>1 DEF AccountInv
      <3>. QED
        BY <1>0, <1>1, <1>3, <1>4, <3>1, <3>2 DEF SightInv
    <2>3. CASE RollUp(r)
      <3>1. /\ stops' = stops /\ rep[r].pc = "roll" /\ rep'[r].pc = "stop"
            /\ rep'[r].usage = rep[r].usage /\ rep'[r].status = rep[r].status
        BY <1>0, <1>2, <2>3 DEF RollUp, See, Reporter, Unlogged
      <3>2. \/ usage' = usage /\ (rep[r].usage = 0 \/ usage[t] # <<>> \/ t \in unlogged')
            \/ usage[t] = <<>> /\ usage'[t] = <<rep[r].usage>>
        BY <1>0, <1>2, <2>3 DEF RollUp, AppendOnce, Unlogged
      <3>3. Tracked(t) => Settled(t) /\ rep[r].usage = out[t]
        BY <1>0, <1>3, <3>1 DEF SightInv
      <3>4. AccountInv(t)'
        <4>1. usage'[t] # <<>> /\ Tracked(t) => Settled(t) /\ usage'[t][1] = out[t]
          BY <1>0, <1>3, <3>2, <3>3 DEF AccountInv
        <4>2. usage[t] # <<>> => usage'[t] # <<>>
          BY <1>0, <1>5
        <4>. QED
          BY <1>0, <1>1, <1>3, <1>5, <3>1, <4>1, <4>2 DEF AccountInv
      <3>5. Tracked(t) => usage'[t] # <<>> \/ out[t] = 0 \/ t \in unlogged'
        BY <1>0, <3>2, <3>3
      <3>. QED
        BY <1>0, <1>1, <1>3, <1>4, <3>1, <3>3, <3>4, <3>5 DEF SightInv
    <2>4. CASE Report(r)
      <3>1. rep[r].pc = "stop" /\ rep'[r].pc = "over" /\ usage' = usage
        BY <1>0, <1>2, <2>4 DEF Report, Over, Reporter, RecordStop, Unlogged
      <3>2. stops'[t] = stops[t] \/ stops'[t] = <<rep[r].status>>
        BY <1>0, <1>2, <2>4 DEF Report, RecordStop, Unlogged, AppendOnce
      <3>3. Tracked(t) => /\ Settled(t) /\ rep[r].status = task[t].status
                          /\ usage[t] # <<>> \/ out[t] = 0 \/ t \in unlogged
        BY <1>0, <1>3, <3>1 DEF SightInv
      <3>4. stops'[t] # <<>> /\ Tracked(t) => stops'[t][1] = task[t].status
        BY <1>0, <1>3, <3>2, <3>3 DEF AccountInv
      <3>5. AccountInv(t)'
        BY <1>0, <1>1, <1>3, <1>5, <3>1, <3>3, <3>4 DEF AccountInv
      <3>. QED
        BY <1>0, <1>1, <1>3, <1>4, <3>1, <3>5 DEF SightInv
    <2>. QED
      BY <1>0, <2>1, <2>2, <2>3, <2>4 DEF ReportStep
  <1>10. \A u \in Tasks \ {t} : AccountInv(u)'
    BY <1>0, <1>6, AccountFrame
  <1>. QED
    BY <1>0, <1>2, <1>7, <1>8, <1>9, <1>10 DEF AInv

\* A task that a kill marks is not spoken of any more, nor one whose mark it
\* takes back.
LEMMA KillAccount ==
    ASSUME BInv, AInv, NEW k \in Killers, KillStep(k)
    PROVE  AInv'
  <1>. USE DEF statuses, process, accounts, history
  <1>0. PICK t \in Tasks : t = kill[k].task
    BY DEF BInv, TypeOK, KillCall
  <1>1. /\ UNCHANGED <<up, peer, out, launch, usage, stops, rep, mistaken, unlogged>>
        /\ unsaved \subseteq unsaved' /\ t \in Tasks
    BY <1>0 DEF BInv, TypeOK, KillCall, KillStep, KillTarget, MarkKilled, Terminated, TerminateFails, Restore,
           SetStatus, Persist
  <1>2. /\ task \in [Tasks -> Task] /\ meta \in [Tasks -> Status]
        /\ task[t] \in [status : Status, pid : {"unset", "set"}]
    BY <1>0, <1>1 DEF BInv, TypeOK, Task
  <1>3. /\ \A u \in Tasks \ {t} : task'[u] = task[u] /\ meta'[u] = meta[u]
                                   /\ (u \in marked <=> u \in marked')
        /\ marked \subseteq marked'
        /\ task'[t].pid = task[t].pid
        /\ \/ task'[t] = task[t] /\ meta'[t] = meta[t] /\ marked' = marked
           \/ t \in marked'
    <2>1. CASE MarkKilled(k)
      <3>1. CASE task' = [task EXCEPT ![t] = [@ EXCEPT !.status = "killed"]] /\ Running(t)
        <4>1. task'[t].status = "killed" /\ task[t].status = "running"
          BY <1>2, <3>1 DEF Running
        <4>. QED
          BY <1>0, <1>2, <2>1, <3>1, <4>1 DEF MarkKilled, SetStatus, Persist
      <3>2. CASE task' = task
        BY <1>0, <1>2, <2>1, <3>2 DEF MarkKilled, SetStatus, Persist, Running
      <3>. QED
        BY <1>0, <2>1, <3>1, <3>2 DEF MarkKilled, SetStatus, Persist
    <2>2. CASE Restore(k)
      <3>1. task[t].status = "killed" => t \in marked
        BY <1>0, <1>1 DEF AInv, StatusInv
      <3>. QED
        BY <1>0, <1>2, <2>2, <3>1 DEF Restore, SetStatus, Persist
    <2>3. CASE KillTarget(k) \/ Terminated(k) \/ TerminateFails(k)
      BY <1>0, <2>3 DEF KillTarget, Terminated, TerminateFails
    <2>. QED
      BY <1>0, <2>1, <2>2, <2>3 DEF KillStep
  <1>4. \A u \in Tasks \ {t} : Alike(u)
    BY <1>0, <1>1, <1>3 DEF Alike
  <1>5. CASE task'[t] = task[t] /\ meta'[t] = meta[t] /\ marked' = marked
    BY <1>0, <1>1, <1>4, <1>5, AllAlike DEF Alike
  <1>6. CASE t \in marked'
    <2>1. StatusInv(t) /\ AccountInv(t) /\ \A r \in Reporters : SightInv(r)
      BY <1>0, <1>1 DEF AInv
    <2>2. ~ Tracked(t)'
      BY <1>0, <1>6 DEF Tracked
    <2>3. launch[t] # "idle" \/ task'[t].status = "none"
      <3>1. kill[k].pc \in {"mark", "terminate", "restore"} => launch[t] = "over"
        BY <1>0, <1>1 DEF BInv, TaskInv, KillInv, LaunchInv, HasPID
      <3>2. kill[k].pc \notin {"mark", "terminate", "restore"} => task' = task
        BY DEF KillStep, KillTarget, MarkKilled, Terminated, TerminateFails, Restore
      <3>. QED
        BY <1>0, <2>1, <3>1, <3>2 DEF StatusInv
    <2>4. StatusInv(t)' /\ AccountInv(t)'
      BY <1>0, <1>1, <1>3, <1>6, <2>1, <2>2, <2>3 DEF StatusInv, AccountInv, HasPID
    <2>5. ASSUME NEW r \in Reporters
          PROVE  SightInv(r)'
      <3>1. CASE rep[r].task = t
        BY <1>0, <1>1, <2>1, <2>2, <3>1 DEF SightInv
      <3>2. CASE rep[r].task # t
        BY <1>0, <1>1, <1>4, <3>2, SightFrame DEF BInv, TypeOK, Reporter
      <3>. QED
        BY <1>0, <3>1, <3>2
    <2>. QED
      BY <1>0, <1>1, <1>4, <2>4, <2>5, AccountFrame DEF AInv
  <1>. QED
    BY <1>0, <1>3, <1>5, <1>6

LEMMA AccountStep ==
    ASSUME BInv, AInv, [Next]_vars
    PROVE  AInv'
  <1>. USE DEF statuses, process, accounts, history
  <1>1. ASSUME NEW t \in Tasks, ChildWrites(t)
        PROVE  AInv'
    <2>1. /\ UNCHANGED <<up, task, meta, peer, launch, usage, stops, rep, unsaved, marked, mistaken, unlogged>>
          /\ \A u \in Tasks \ {t} : out'[u] = out[u]
          /\ ~Ended(t)
      BY <1>1 DEF ChildWrites, Ended, BInv, TypeOK
    <2>2. \A u \in Tasks \ {t} : Alike(u)
      BY <2>1 DEF Alike
    <2>3. StatusInv(t) /\ AccountInv(t) /\ \A r \in Reporters : SightInv(r)
      BY DEF AInv
    <2>4. (Tracked(t)' <=> Tracked(t)) /\ (Tracked(t) => ~Settled(t))
      BY <2>1, SettledEnded DEF Tracked, HasPID
    <2>5. Tracked(t) => /\ stops[t] = <<>> /\ usage[t] = <<>>
                        /\ \A r \in Reporters : rep[r].task = t => rep[r].pc \notin {"read", "roll", "stop"}
      BY <2>4, Unsettled
    <2>6. StatusInv(t)' /\ AccountInv(t)'
      BY <2>1, <2>3, <2>4, <2>5 DEF StatusInv, AccountInv, HasPID
    <2>7. ASSUME NEW r \in Reporters
          PROVE  SightInv(r)'
      <3>1. CASE rep[r].task = t
        BY <2>1, <2>3, <2>4, <2>5, <3>1 DEF SightInv
      <3>2. CASE rep[r].task # t
        BY <2>1, <2>2, <3>2, SightFrame DEF BInv, TypeOK, Reporter
      <3>. QED
        BY <3>1, <3>2
    <2>. QED
      BY <2>2, <2>6, <2>7, AccountFrame DEF AInv
  <1>2. ASSUME NEW t \in Tasks, ChildExits(t)
        PROVE  AInv'
    BY <1>2, AllAlike DEF ChildExits, Alike
  <1>3. ASSUME NEW p \in Polls, Poll(p)
        PROVE  AInv'
    <2>1. /\ UNCHANGED <<up, task, meta, peer, launch, out, usage, stops, unsaved, marked, mistaken, unlogged>>
          /\ p \in Reporters \ Tasks /\ rep \in [Reporters -> Reporter]
      BY <1>3, ActorsAssumption DEF Poll, BInv, TypeOK, Reporters
    <2>2. \A u \in Tasks : Alike(u)
      BY <2>1 DEF Alike
    <2>3. \A r \in Reporters \ {p} : SightInv(r)'
      BY <1>3, <2>1, <2>2, SightFrame DEF Poll, Reporter
    <2>4. SightInv(p)'
      <3>0. PICK t \in Tasks : t = rep[p].task
        BY <2>1 DEF Reporter
      <3>1. /\ rep'[p].task = t /\ rep'[p].pc = "get"
            /\ IF rep'[p].peer THEN peer[t] # "none" ELSE task[t].status # "none"
        BY <1>3, <2>1, <3>0 DEF Poll, Reporter
      <3>2. StatusInv(t)
        BY DEF AInv
      <3>3. Tracked(t)' => launch[t] # "idle"
        <4>1. Tracked(t)' => Tracked(t)
          BY <2>1 DEF Tracked, HasPID
        <4>. QED
          BY <3>1, <3>2, <4>1 DEF StatusInv
      <3>. QED
        BY <2>1, <3>0, <3>1, <3>3 DEF SightInv
    <2>. QED
      BY <2>2, <2>3, <2>4, AccountFrame DEF AInv
  <1>4. ASSUME NEW s \in Stops, StopCall(s)
        PROVE  AInv'
    BY <1>4, AllAlike DEF StopCall, Alike
  <1>5. CASE Close \/ CloseNext
    BY <1>5, AllAlike DEF Close, CloseNext, Alike
  <1>6. CASE OwnerEnds
    <2>1. /\ ~up' /\ UNCHANGED <<peer, usage, stops, mistaken>>
          /\ \A u \in Tasks : /\ task'[u] = [status |-> "none", pid |-> "unset"]
                              /\ launch'[u] = "over"
      BY <1>6 DEF OwnerEnds
    <2>2. \A u \in Tasks : ~Tracked(u)'
      BY <2>1 DEF Tracked
    <2>3. \A u \in Tasks : StatusInv(u)' /\ AccountInv(u)'
      BY <2>1, <2>2 DEF AInv, StatusInv, AccountInv, HasPID
    <2>4. ASSUME NEW r \in Reporters
          PROVE  SightInv(r)'
      <3>1. rep[r] \in Reporter
        BY DEF BInv, TypeOK
      <3>2. rep'[r].task = rep[r].task /\ (rep'[r].peer => rep[r].peer)
        BY <1>6, <3>1 DEF OwnerEnds, Over, Reporter
      <3>3. rep[r].task \in Tasks /\ SightInv(r)
        BY <3>1 DEF AInv, Reporter
      <3>. QED
        BY <2>1, <2>2, <3>2, <3>3 DEF SightInv
    <2>. QED
      BY <2>3, <2>4 DEF AInv
  <1>7. CASE PeerLoads
    <2>1. /\ UNCHANGED <<up, task, launch, out, usage, stops, rep, unsaved, marked, unlogged>>
          /\ \A u \in Tasks :
                /\ meta'[u] = IF meta[u] = "running" THEN "error" ELSE meta[u]
                /\ peer'[u] = meta'[u] /\ peer[u] = "none"
                /\ u \in mistaken' <=> meta[u] = "running"
      BY <1>7 DEF PeerLoads
    <2>2. ASSUME NEW u \in Tasks
          PROVE  /\ StatusInv(u) /\ AccountInv(u) /\ u \notin mistaken
                 /\ Tracked(u)' => Tracked(u) /\ meta'[u] = meta[u]
      BY <2>1 DEF AInv, StatusInv, Tracked, HasPID
    <2>3. \A u \in Tasks : StatusInv(u)'
      BY <2>1, <2>2 DEF StatusInv, HasPID
    <2>4. \A u \in Tasks : AccountInv(u)'
      BY <2>1, <2>2 DEF AccountInv, Settled
    <2>5. ASSUME NEW r \in Reporters
          PROVE  SightInv(r)'
      <3>1. rep[r].task \in Tasks /\ SightInv(r)
        BY DEF AInv, BInv, TypeOK, Reporter
      <3>. QED
        BY <2>1, <2>2, <3>1 DEF SightInv, Settled
    <2>. QED
      BY <2>3, <2>4, <2>5 DEF AInv
  <1>8. CASE UNCHANGED vars
    BY <1>8, AllAlike DEF vars, Alike
  <1>. QED
    BY <1>1, <1>2, <1>3, <1>4, <1>5, <1>6, <1>7, <1>8, LaunchAccount, ExitAccount, ReportAccount,
       KillAccount DEF Next

LEMMA InitAccount == Init => AInv
  <1>. SUFFICES ASSUME Init PROVE AInv
    OBVIOUS
  <1>1. \A r \in Reporters : rep[r].pc = "idle" /\ ~rep[r].peer
    BY DEF Init
  <1>2. \A r \in Reporters : r \in Tasks => rep[r].task = r
    BY DEF Init
  <1>3. \A t \in Tasks : StatusInv(t) /\ AccountInv(t)
    BY DEF Init, StatusInv, AccountInv, HasPID
  <1>. QED
    BY <1>1, <1>2, <1>3 DEF AInv, SightInv

\* What is recorded of a child that nothing disturbed is its outcome, with all
\* of its usage, once, for any number of tasks, polls and stops, with another
\* process that reads the same directory, and whichever of them came first.
THEOREM AccountsHonest == Spec => []HonestAccount
  <1>1. BInv /\ AInv /\ [Next]_vars => AInv'
    BY AccountStep
  <1>2. BInv /\ AInv => HonestAccount
    <2>. SUFFICES ASSUME BInv, AInv, NEW t \in Tasks
                  PROVE  /\ Len(stops[t]) <= 1 /\ Len(usage[t]) <= 1
                         /\ Undisturbed(t) /\ stops[t] # <<>> =>
                                /\ stops[t][1] = task[t].status
                                /\ usage[t] # <<>> => usage[t][1] = out[t]
                                /\ usage[t] = <<>> => out[t] = 0 \/ t \in unlogged
      BY DEF HonestAccount
    <2>1. StatusInv(t) /\ AccountInv(t) /\ up \in BOOLEAN
      BY DEF AInv, BInv, TypeOK
    <2>2. Undisturbed(t) => Tracked(t)
      BY <2>1 DEF Undisturbed, Tracked, StatusInv
    <2>. QED
      BY <2>1, <2>2 DEF AccountInv
  <1>. QED
    BY InitAccount, TaskInvariant, <1>1, <1>2, PTL DEF Spec
=============================================================================
