---------------------------- MODULE BackgroundTasks ----------------------------
(***************************************************************************)
(* internal/background and internal/specialist: sub-agents that run in the *)
(* background.  runBackground registers a task, starts its child and notes *)
(* the process id; a goroutine waits for the child and records its exit;   *)
(* TaskStop and the closing of the program kill it; TaskOutput polls it;   *)
(* whoever sees it ended accounts for it, once, in the session of its      *)
(* parent.  Another process that reads the same directory takes what is    *)
(* running there for lost.                                                 *)
(*                                                                         *)
(* A step is one critical section of Manager.mu, one append to the         *)
(* parent's log, or a system call on a process or an output file.          *)
(***************************************************************************)
EXTENDS Integers, Sequences, FiniteSets

CONSTANTS
    Tasks,      \* background tasks, one child each
    Stops,      \* calls of TaskStop
    Polls,      \* calls of TaskOutput, by the owner of the tasks or a peer
    MaxOutput   \* bound: usage events a child writes

Closer == "close"   \* Runtime.Close, which kills what is running
Killers == Stops \cup {Closer}
\* Who accounts for a task: the goroutine that waits for its child, named
\* like the task, and the polls.
Reporters == Tasks \cup Polls
ASSUME ActorsAssumption ==
    Closer \notin Stops /\ Tasks \cap Polls = {}
ASSUME OutputAssumption == MaxOutput \in Nat

VARIABLES
    up,         \* the owning process lives
    task,       \* Manager.tasks: status, and whether the process id is known
    meta,       \* the status in the task's metadata file
    peer,       \* the status in the other process's Manager; "none" before it loads
    child,      \* the child process
    out,        \* usage events in the task's output file
    launch,     \* where runBackground is
    kill,       \* where each Kill is, and of what task
    closing,    \* running tasks KillRunning has still to kill
    rep,        \* where each reporter is, and what it has seen
    usage,      \* usage events of a child in its parent's session
    stops,      \* stop events of a child in its parent's session
    unsaved,    \* history: tasks of which a status could not be persisted
    dropped,    \* history: tasks whose exit came while they were marked killed
    stopped,    \* history: tasks that a Kill reported as over
    unlogged,   \* history: tasks of which an event could not be appended
    mistaken,   \* history: running tasks the other process took for lost
    marked      \* history: tasks a Kill marked killed, whether or not it then succeeded

statuses == <<task, meta>>
process == <<child, out>>
accounts == <<usage, stops>>
history == <<unsaved, dropped, stopped, unlogged, mistaken, marked>>
vars == <<up, statuses, peer, process, launch, kill, closing, rep, accounts, history>>

Status == {"none", "running", "completed", "error", "killed"}

Task == [status : Status, pid : {"unset", "set"}]
Places == {"idle", "registered", "started", "unpid", "update", "stop", "over"}
KillCall == [pc : {"idle", "target", "mark", "terminate", "restore"}, task : Tasks]
Reporter == [pc : {"idle", "get", "read", "roll", "stop", "over"}, task : Tasks,
             peer : BOOLEAN, status : Status, usage : 0 .. MaxOutput]

TypeOK ==
    /\ up \in BOOLEAN
    /\ task \in [Tasks -> Task]
    /\ meta \in [Tasks -> Status] /\ peer \in [Tasks -> Status]
    /\ child \in [Tasks -> {"none", "alive", "completed", "error"}]
    /\ out \in [Tasks -> 0 .. MaxOutput]
    /\ launch \in [Tasks -> Places]
    /\ kill \in [Killers -> KillCall] /\ closing \subseteq Tasks
    /\ rep \in [Reporters -> Reporter]
    /\ usage \in [Tasks -> Seq(0 .. MaxOutput)] /\ stops \in [Tasks -> Seq(Status)]
    /\ unsaved \subseteq Tasks /\ dropped \subseteq Tasks /\ stopped \subseteq Tasks
    /\ unlogged \subseteq Tasks /\ mistaken \subseteq Tasks /\ marked \subseteq Tasks

Init ==
    /\ up = TRUE
    /\ task = [t \in Tasks |-> [status |-> "none", pid |-> "unset"]]
    /\ meta = [t \in Tasks |-> "none"] /\ peer = [t \in Tasks |-> "none"]
    /\ child = [t \in Tasks |-> "none"] /\ out = [t \in Tasks |-> 0]
    /\ launch = [t \in Tasks |-> "idle"]
    /\ \E of \in [Killers -> Tasks] :
           kill = [k \in Killers |-> [pc |-> "idle", task |-> of[k]]]
    /\ closing = {}
    /\ \E of \in [Reporters -> Tasks] :
           /\ \A t \in Tasks : of[t] = t
           /\ rep = [r \in Reporters |-> [pc |-> "idle", task |-> of[r], peer |-> FALSE,
                                          status |-> "none", usage |-> 0]]
    /\ usage = [t \in Tasks |-> <<>>] /\ stops = [t \in Tasks |-> <<>>]
    /\ unsaved = {} /\ dropped = {} /\ stopped = {} /\ unlogged = {} /\ mistaken = {} /\ marked = {}

-----------------------------------------------------------------------------
Ended(t) == child[t] \in {"completed", "error"}
Running(t) == task[t].status = "running"
HasPID(t) == task[t].pid = "set"

\* persistTaskLocked, then the map; an error leaves both as they are.
Persist(t, value) ==
    \/ /\ task' = [task EXCEPT ![t] = value]
       /\ meta' = [meta EXCEPT ![t] = value.status]
       /\ UNCHANGED unsaved
    \/ /\ unsaved' = unsaved \cup {t}
       /\ UNCHANGED <<task, meta>>

SetStatus(t, status) == Persist(t, [task[t] EXCEPT !.status = status])

At(t, place) == launch' = [launch EXCEPT ![t] = place]

-----------------------------------------------------------------------------
(* runBackground.                                                            *)

Register(t) ==
    /\ up /\ launch[t] = "idle"
    /\ task' = [task EXCEPT ![t] = [status |-> "running", pid |-> "unset"]]
    /\ meta' = [meta EXCEPT ![t] = "running"]
    /\ At(t, "registered")
    /\ UNCHANGED <<up, peer, process, kill, closing, rep, accounts, history>>

\* Mutant: the early returns after Register leave the task as it is.
GiveUpSilently(t) ==
    /\ up /\ launch[t] = "registered"
    /\ At(t, "over")
    /\ UNCHANGED <<up, statuses, peer, process, kill, closing, rep, accounts, history>>

\* No binary, or the call was cancelled: there is nothing to account for.
GiveUp(t) ==
    /\ up /\ launch[t] = "registered"
    /\ SetStatus(t, "error")
    /\ At(t, "over")
    /\ UNCHANGED <<up, peer, process, kill, closing, rep, accounts, dropped, stopped, unlogged,
                   mistaken, marked>>

\* launchBackgroundProcess: the child runs and a goroutine waits for it, or
\* it cannot be started.
Launch(t) ==
    /\ up /\ launch[t] = "registered"
    /\ \/ child' = [child EXCEPT ![t] = "alive"] /\ At(t, "started")
       \/ UNCHANGED child /\ At(t, "update")
    /\ UNCHANGED <<up, statuses, peer, out, kill, closing, rep, accounts, history>>

SetPID(t) ==
    /\ up /\ launch[t] = "started"
    /\ Persist(t, [task[t] EXCEPT !.pid = "set"])
    /\ At(t, IF task' = task THEN "unpid" ELSE "over")
    /\ UNCHANGED <<up, peer, process, kill, closing, rep, accounts, dropped, stopped, unlogged,
                   mistaken, marked>>

\* A child whose process id could not be noted is terminated; that may fail.
TerminateOrphan(t) ==
    /\ up /\ launch[t] = "unpid"
    /\ At(t, "update")
    /\ UNCHANGED <<up, statuses, peer, process, kill, closing, rep, accounts, history>>

\* UpdateStatus to error, whatever the status is by now,
UpdateStatus(t) ==
    /\ up /\ launch[t] = "update"
    /\ SetStatus(t, "error")
    /\ At(t, "stop")
    /\ UNCHANGED <<up, peer, process, kill, closing, rep, accounts, dropped, stopped, unlogged,
                   mistaken, marked>>

-----------------------------------------------------------------------------
(* Accounting in the parent's session.                                       *)

\* appendSpecialistEventOnce.
AppendOnce(events, event) == IF events = <<>> THEN <<event>> ELSE events

\* The append of an event fails, which nobody is told of.
Unlogged(t) == unlogged' = unlogged \cup {t} /\ UNCHANGED accounts

RecordStop(t, status) ==
    \/ /\ stops' = [stops EXCEPT ![t] = AppendOnce(@, status)]
       /\ UNCHANGED <<usage, unlogged>>
    \/ Unlogged(t)

\* ... and runBackground records a stop without any usage.
LaunchStop(t) ==
    /\ up /\ launch[t] = "stop"
    /\ RecordStop(t, "error")
    /\ At(t, "over")
    /\ UNCHANGED <<up, statuses, peer, process, kill, closing, rep, unsaved, dropped, stopped, mistaken, marked>>

\* The process a reporter is part of lives.
Lives(r) == rep[r].peer \/ up

Over(r) == [pc |-> "over", task |-> rep[r].task, peer |-> FALSE, status |-> "none", usage |-> 0]
See(r, place) == rep' = [rep EXCEPT ![r].pc = place]

\* Mutant: the goroutine is done with a child whose task is not running.
MarkExitedOnly(t) ==
    /\ up /\ rep[t].pc = "idle" /\ Ended(t)
    /\ IF Running(t)
       THEN SetStatus(t, child[t]) /\ See(t, "get")
       ELSE UNCHANGED <<statuses, unsaved>> /\ rep' = [rep EXCEPT ![t] = Over(t)]
    /\ UNCHANGED <<up, peer, process, launch, kill, closing, accounts, dropped, stopped, unlogged,
                   mistaken, marked>>

\* onExit, MarkExited: an exit only counts for a task that is running.
MarkExited(t) ==
    /\ up /\ rep[t].pc = "idle" /\ Ended(t)
    /\ IF Running(t)
       THEN SetStatus(t, child[t]) /\ UNCHANGED dropped
       ELSE /\ dropped' = IF task[t].status = "killed" THEN dropped \cup {t} ELSE dropped
            /\ UNCHANGED <<statuses, unsaved>>
    /\ See(t, "get")
    /\ UNCHANGED <<up, peer, process, launch, kill, closing, accounts, stopped, unlogged, mistaken, marked>>

\* TaskOutput is called, of the owner or of the peer, for a task it knows.
Poll(p) ==
    /\ rep[p].pc = "idle"
    /\ \E byPeer \in BOOLEAN :
           /\ IF byPeer THEN peer[rep[p].task] # "none" ELSE task[rep[p].task].status # "none"
           /\ rep' = [rep EXCEPT ![p].pc = "get", ![p].peer = byPeer]
    /\ UNCHANGED <<up, statuses, peer, process, launch, kill, closing, accounts, history>>

\* Manager.Get, once or, blocking, until the task is over or time is.  Of a
\* task that is running nothing is recorded.
Get(r) ==
    LET t == rep[r].task
        status == IF rep[r].peer THEN peer[t] ELSE task[t].status IN
    /\ rep[r].pc = "get" /\ Lives(r)
    /\ rep' = [rep EXCEPT ![r] =
                  IF status = "running" THEN Over(r) ELSE [@ EXCEPT !.status = status, !.pc = "read"]]
    /\ UNCHANGED <<up, statuses, peer, process, launch, kill, closing, accounts, history>>

\* The output file, summarised.
Read(r) ==
    /\ rep[r].pc = "read" /\ Lives(r)
    /\ rep' = [rep EXCEPT ![r].usage = out[rep[r].task], ![r].pc = "roll"]
    /\ UNCHANGED <<up, statuses, peer, process, launch, kill, closing, accounts, history>>

\* rollUpSpecialistUsage, if there is any,
RollUp(r) ==
    LET t == rep[r].task IN
    /\ rep[r].pc = "roll" /\ Lives(r)
    /\ \/ /\ usage' = [usage EXCEPT ![t] =
                          IF rep[r].usage = 0 THEN @ ELSE AppendOnce(@, rep[r].usage)]
          /\ UNCHANGED <<stops, unlogged>>
       \/ rep[r].usage > 0 /\ Unlogged(t)
    /\ See(r, "stop")
    /\ UNCHANGED <<up, statuses, peer, process, launch, kill, closing, unsaved, dropped, stopped,
                   mistaken, marked>>

\* then recordSpecialistStop.
Report(r) ==
    /\ rep[r].pc = "stop" /\ Lives(r)
    /\ RecordStop(rep[r].task, rep[r].status)
    /\ rep' = [rep EXCEPT ![r] = Over(r)]
    /\ UNCHANGED <<up, statuses, peer, process, launch, kill, closing, unsaved, dropped, stopped,
                   mistaken, marked>>

-----------------------------------------------------------------------------
(* Kill.                                                                     *)

Step(k, place, t) == kill' = [kill EXCEPT ![k] = [pc |-> place, task |-> t]]
Return(k) == Step(k, "idle", kill[k].task)

StopCall(s) ==
    /\ up /\ kill[s].pc = "idle"
    /\ \E t \in Tasks : task[t].status # "none" /\ Step(s, "target", t)
    /\ UNCHANGED <<up, statuses, peer, process, launch, closing, rep, accounts, history>>

\* Runtime.Close lists what is running and kills one after the other.
Close ==
    /\ up /\ closing = {} /\ kill[Closer].pc = "idle"
    /\ closing' = {t \in Tasks : Running(t)} /\ closing' # {}
    /\ UNCHANGED <<up, statuses, peer, process, launch, kill, rep, accounts, history>>

CloseNext ==
    /\ up /\ kill[Closer].pc = "idle"
    /\ \E t \in closing : Step(Closer, "target", t) /\ closing' = closing \ {t}
    /\ UNCHANGED <<up, statuses, peer, process, launch, rep, accounts, history>>

\* killTarget: an error for a task that is not running or has no process id.
KillTarget(k) ==
    /\ up /\ kill[k].pc = "target"
    /\ LET t == kill[k].task IN
       IF Running(t) /\ HasPID(t) THEN Step(k, "mark", t) ELSE Return(k)
    /\ UNCHANGED <<up, statuses, peer, process, launch, closing, rep, accounts, history>>

\* isRunningPID and markKilledIfStillRunning: killed already, or nothing to
\* kill and no error.
MarkKilled(k) ==
    LET t == kill[k].task IN
    /\ up /\ kill[k].pc = "mark"
    /\ IF Running(t)
       THEN /\ SetStatus(t, "killed")
            /\ IF task' = task THEN Return(k) /\ UNCHANGED marked
               ELSE Step(k, "terminate", t) /\ marked' = marked \cup {t}
            /\ UNCHANGED stopped
       ELSE /\ Return(k)
            /\ stopped' = IF task[t].status = "killed" THEN stopped ELSE stopped \cup {t}
            /\ UNCHANGED <<statuses, unsaved, marked>>
    /\ UNCHANGED <<up, peer, process, launch, closing, rep, accounts, dropped, unlogged, mistaken>>

\* terminateProcess returns once the child and its group are gone;
Terminated(k) ==
    LET t == kill[k].task IN
    /\ up /\ kill[k].pc = "terminate" /\ Ended(t)
    /\ stopped' = stopped \cup {t}
    /\ Return(k)
    /\ UNCHANGED <<up, statuses, peer, process, launch, closing, rep, accounts, unsaved, dropped, unlogged,
                   mistaken, marked>>

\* with an error when it may not signal them, or some of the group is left
\* after SIGKILL.
TerminateFails(k) ==
    /\ up /\ kill[k].pc = "terminate"
    /\ Step(k, "restore", kill[k].task)
    /\ UNCHANGED <<up, statuses, peer, process, launch, closing, rep, accounts, history>>

\* restoreRunningAfterFailedKill.
Restore(k) ==
    LET t == kill[k].task IN
    /\ up /\ kill[k].pc = "restore"
    /\ IF task[t].status = "killed" THEN SetStatus(t, "running") ELSE UNCHANGED <<statuses, unsaved>>
    /\ Return(k)
    /\ UNCHANGED <<up, peer, process, launch, closing, rep, accounts, dropped, stopped, unlogged,
                   mistaken, marked>>

-----------------------------------------------------------------------------
(* The child, the end of the owner, and another process.                     *)

ChildWrites(t) ==
    /\ child[t] = "alive" /\ out[t] < MaxOutput
    /\ out' = [out EXCEPT ![t] = @ + 1]
    /\ UNCHANGED <<up, statuses, peer, child, launch, kill, closing, rep, accounts, history>>

ChildExits(t) ==
    /\ child[t] = "alive"
    /\ child' \in {[child EXCEPT ![t] = "completed"], [child EXCEPT ![t] = "error"]}
    /\ UNCHANGED <<up, statuses, peer, out, launch, kill, closing, rep, accounts, history>>

\* The owner exits or is killed, and what it had in memory with it; its
\* children have process groups of their own and go on.
OwnerEnds ==
    /\ up /\ up' = FALSE
    /\ task' = [t \in Tasks |-> [status |-> "none", pid |-> "unset"]]
    /\ launch' = [t \in Tasks |-> "over"]
    /\ kill' = [k \in Killers |-> [kill[k] EXCEPT !.pc = "idle"]] /\ closing' = {}
    /\ rep' = [r \in Reporters |-> IF rep[r].peer THEN rep[r] ELSE Over(r)]
    /\ unsaved' = {} /\ dropped' = {} /\ stopped' = {} /\ marked' = {} /\ unlogged' = {}
    /\ UNCHANGED <<meta, peer, process, accounts, mistaken>>

\* loadTasks and normalizeLoadedTask, in a process started later or beside
\* the owner: what is running is an error, there and in the file.
PeerLoads ==
    /\ \A t \in Tasks : peer[t] = "none"
    /\ meta' = [t \in Tasks |-> IF meta[t] = "running" THEN "error" ELSE meta[t]]
    /\ peer' = meta' /\ peer' # peer
    /\ mistaken' = {t \in Tasks : meta[t] = "running"}
    /\ UNCHANGED <<up, task, process, launch, kill, closing, rep, accounts,
                   unsaved, dropped, stopped, unlogged, marked>>

-----------------------------------------------------------------------------
LaunchStep(t) ==
    \/ Register(t) \/ GiveUp(t) \/ Launch(t) \/ SetPID(t)
    \/ TerminateOrphan(t) \/ UpdateStatus(t) \/ LaunchStop(t)

\* Mutant: TaskOutput reads the output before it looks at the status.
GetAfterRead(r) ==
    LET t == rep[r].task IN
    /\ rep[r].pc = "get" /\ Lives(r)
    /\ rep' = [rep EXCEPT ![r].usage = out[t], ![r].pc = "read"]
    /\ UNCHANGED <<up, statuses, peer, process, launch, kill, closing, accounts, history>>
ReadBeforeGet(r) ==
    LET t == rep[r].task
        status == IF rep[r].peer THEN peer[t] ELSE task[t].status IN
    /\ rep[r].pc = "read" /\ Lives(r)
    /\ rep' = [rep EXCEPT ![r] =
                  IF status = "running" THEN Over(r) ELSE [@ EXCEPT !.status = status, !.pc = "roll"]]
    /\ UNCHANGED <<up, statuses, peer, process, launch, kill, closing, accounts, history>>
ReportStepSwapped(r) == GetAfterRead(r) \/ ReadBeforeGet(r) \/ RollUp(r) \/ Report(r)

\* recordBackgroundTaskAccounting, by onExit and by readOutput.
ReportStep(r) == Get(r) \/ Read(r) \/ RollUp(r) \/ Report(r)

KillStep(k) ==
    \/ KillTarget(k) \/ MarkKilled(k) \/ Terminated(k) \/ TerminateFails(k) \/ Restore(k)

Next ==
    \/ \E t \in Tasks : LaunchStep(t) \/ MarkExited(t) \/ ChildWrites(t) \/ ChildExits(t)
    \/ \E r \in Reporters : ReportStep(r)
    \/ \E p \in Polls : Poll(p)
    \/ \E s \in Stops : StopCall(s)
    \/ \E k \in Killers : KillStep(k)
    \/ Close \/ CloseNext \/ OwnerEnds \/ PeerLoads

\* The goroutine that waits for a child runs; Kill returns from what it calls.
Fairness ==
    /\ \A t \in Tasks : WF_vars(MarkExited(t) \/ ReportStep(t))
    /\ \A k \in Killers : WF_vars(KillStep(k))

Spec == Init /\ [][Next]_vars /\ Fairness

-----------------------------------------------------------------------------
(* Properties.                                                               *)

Launching(t) == launch[t] \notin {"idle", "over"}

\* While its owner lives, a task that is reported as running has somebody who
\* will record its end: the call that launches it, or the goroutine that
\* waits for its child.  The exceptions are a status that could not be
\* persisted and an exit that came while a kill was under way that failed.
RunningWatched ==
    \A t \in Tasks : up /\ Running(t) =>
        Launching(t) \/ (child[t] # "none" /\ rep[t].pc = "idle") \/ t \in unsaved \cup dropped

\* What the parent's session says of a child that was not killed and whose
\* process id was noted is its outcome, with all of its usage, and only once,
\* whichever of the polls, the waiting goroutine and another process came
\* first.
Undisturbed(t) ==
    /\ task[t].status \in {"completed", "error"} /\ HasPID(t)
    /\ t \notin unsaved \cup marked \cup mistaken
HonestAccount ==
    \A t \in Tasks :
        /\ Len(stops[t]) <= 1 /\ Len(usage[t]) <= 1
        /\ Undisturbed(t) /\ stops[t] # <<>> =>
               /\ stops[t][1] = task[t].status
               /\ usage[t] # <<>> => usage[t][1] = out[t]
               /\ usage[t] = <<>> => out[t] = 0 \/ t \in unlogged

\* Once a Kill has returned without an error, and not because another one is
\* at it, the child is gone and the task is over for good.
KillFinal ==
    \A t \in stopped :
        Ended(t) /\ ~Running(t)

\* A child's end comes to be accounted for, unless its owner dies, its
\* session's log or its metadata cannot be written, or a kill failed.
ExitAccounted ==
    \A t \in Tasks :
        Ended(t) ~> (stops[t] # <<>> \/ ~up \/ t \in unsaved \cup dropped \cup unlogged)

\* The comment of restoreRunningAfterFailedKill: "a real exit recorded
\* meanwhile is left untouched".
ExitNotUndone ==
    \A t \in Tasks : rep[t].pc # "idle" => ~Running(t) \/ t \in unsaved
=============================================================================
