-------------------------------- MODULE Swarm --------------------------------
(***************************************************************************)
(* internal/swarm: teams of member processes with a bounded number of      *)
(* slots and a FIFO queue, the goroutines that launch and watch members,   *)
(* and the calls (spawn, handoff, adoption, collect) that drive them,      *)
(* composed with the task registry of module Coordinator.                  *)
(*                                                                         *)
(* An agent id stands for the MemberSpec and the Member that carry it.     *)
(* Each step is one critical section, or one call of the launcher, of the  *)
(* goroutine that takes it; the ids a call mints are drawn in the step     *)
(* that first publishes them.                                              *)
(***************************************************************************)
EXTENDS Coordinator, Sequences, FiniteSets

CONSTANTS
    Orchestrators,  \* callers that spawn, hand off and collect
    Jobs,           \* goroutines of scheduled jobs: they only spawn
    Adopters,       \* callers of AdoptOrphans
    NoCaller,       \* the host of an agent that is in no caller's launch
    MaxTeamSize,    \* Options.MaxTeamSize
    MaxRestarts     \* maxMemberRestarts

ASSUME CallersAssumption == Callers = Orchestrators \cup Jobs \cup Adopters
ASSUME NoCallerAssumption == NoCaller \notin Callers
ASSUME TeamSizeAssumption == MaxTeamSize \in Nat \ {0}
ASSUME RestartsAssumption == MaxRestarts \in Nat

VARIABLES
    idSeq,     \* last id minted by nextID
    serves,    \* serves[a]: MemberSpec.TaskID of agent a, 0 while a has no spec
    phase,     \* phase[a]: how far the goroutine carrying a's spec has come
    proc,      \* proc[a]: a's process, or how its last run ended
    restarts,  \* restarts[a]: Member.restarts
    host,      \* host[a]: the caller in whose goroutine a is being launched
    queue,     \* queue[tm]: Team.queue, as agent ids
    running,   \* running[tm]: Team.running
    call,      \* call[c]: the call caller c is in the middle of
    last,      \* last[j]: scheduledJob.lastTask, 0 before the first spawn
    closed     \* Swarm.Close has cancelled the base context

swarmVars == <<idSeq, serves, phase, proc, restarts, host, queue, running,
               call, last, closed>>
vars == <<coordVars, swarmVars>>

AgentIds0 == 0 .. MaxIds

(***************************************************************************)
(* An agent's way: its spec is queued or takes a slot; it is launched,     *)
(* added to the team, marked running and watched; its task is finished, it *)
(* is removed from the team and its slot released.                         *)
(***************************************************************************)
Launching == {"slot", "launched", "added", "failed"}
Leaving   == {"settled", "removed"}
Holding   == Launching \cup {"watched"} \cup Leaving
Phases    == Holding \cup {"none", "queued", "gone"}
Outcomes  == {"ok", "temp", "perm"}
Procs     == {"none", "live"} \cup Outcomes

Ops  == {"idle", "admit", "handoff", "retire", "adopt-list", "adopt", "collect"}
Call == [op : Ops, task : AgentIds0, agent : AgentIds0,
         tm : Teams \cup {NoTeam}, ids : SUBSET Ids]

Idle == [op |-> "idle", task |-> 0, agent |-> 0, tm |-> NoTeam, ids |-> {}]

SwarmTypeOK ==
    /\ idSeq \in AgentIds0
    /\ serves \in [Ids -> AgentIds0]
    /\ phase \in [Ids -> Phases]
    /\ proc \in [Ids -> Procs]
    /\ restarts \in [Ids -> 0 .. MaxRestarts]
    /\ host \in [Ids -> Callers \cup {NoCaller}]
    /\ queue \in [Teams -> Seq(Ids)]
    /\ running \in [Teams -> Nat]
    /\ call \in [Callers -> Call]
    /\ last \in [Jobs -> AgentIds0]
    /\ closed \in BOOLEAN

TypeOK == CoordTypeOK /\ SwarmTypeOK

Init ==
    /\ CoordInit
    /\ idSeq = 0
    /\ serves = [a \in Ids |-> 0]
    /\ phase = [a \in Ids |-> "none"]
    /\ proc = [a \in Ids |-> "none"]
    /\ restarts = [a \in Ids |-> 0]
    /\ host = [a \in Ids |-> NoCaller]
    /\ queue = [tm \in Teams |-> <<>>]
    /\ running = [tm \in Teams |-> 0]
    /\ call = [c \in Callers |-> Idle]
    /\ last = [j \in Jobs |-> 0]
    /\ closed = FALSE

TeamOf(a) == team[serves[a]]

\* c is not inside a launch that its own call runs synchronously.
Launched(c) == \A a \in Ids : host[a] # c
Free(c)     == call[c] = Idle /\ Launched(c)

-----------------------------------------------------------------------------
(* Spawn and dispatch.                                                       *)

\* fireIfIdle: a job spawns only when its previous task is terminal.  A task
\* found terminal stays so, hence reading it and spawning are one step; the
\* job's own goroutine is the only one that looks at lastTask.
DueJob(j) == last[j] # 0 => Settled(last[j])

MayMint == idSeq < MaxIds

Spawn(c, tm) ==
    LET id == idSeq + 1 IN
    /\ c \in Orchestrators \cup Jobs /\ Free(c) /\ MayMint
    /\ c \in Jobs => DueJob(c) /\ ~ closed
    /\ Register(id, id, tm)
    /\ idSeq' = id
    /\ serves' = [serves EXCEPT ![id] = id]
    /\ call' = [call EXCEPT ![c] = [Idle EXCEPT !.op = "admit", !.agent = id]]
    /\ last' = [j \in Jobs |-> IF j = c THEN id ELSE last[j]]
    /\ UNCHANGED <<phase, proc, restarts, host, queue, running, closed>>

\* What the call goes on with once its spec is dispatched: the next orphan.
Continue(c) ==
    IF call[c].ids = {} THEN Idle
    ELSE [call[c] EXCEPT !.op = "adopt", !.agent = 0]

HasSlot(tm) == running[tm] < MaxTeamSize

\* dispatch: Team.admit reserves a slot or queues the spec.
Admit(c) ==
    LET a == call[c].agent  tm == TeamOf(a) IN
    /\ call[c].op = "admit"
    /\ \/ /\ HasSlot(tm)
          /\ running' = [running EXCEPT ![tm] = @ + 1]
          /\ phase' = [phase EXCEPT ![a] = "slot"]
          /\ host' = [host EXCEPT ![a] = c]
          /\ UNCHANGED queue
       \/ /\ ~ HasSlot(tm)
          /\ queue' = [queue EXCEPT ![tm] = Append(@, a)]
          /\ phase' = [phase EXCEPT ![a] = "queued"]
          /\ UNCHANGED <<running, host>>
    /\ call' = [call EXCEPT ![c] = Continue(c)]
    /\ UNCHANGED <<coordVars, idSeq, serves, proc, restarts, last, closed>>

-----------------------------------------------------------------------------
(* launch, by the goroutine that holds the slot reserved for a.              *)

LaunchOk(a) ==
    /\ phase[a] = "slot"
    /\ phase' = [phase EXCEPT ![a] = "launched"]
    /\ proc' = [proc EXCEPT ![a] = "live"]
    /\ UNCHANGED <<coordVars, idSeq, serves, restarts, host, queue, running,
                   call, last, closed>>

LaunchErr(a) ==
    /\ phase[a] = "slot"
    /\ phase' = [phase EXCEPT ![a] = "failed"]
    /\ UNCHANGED <<coordVars, idSeq, serves, proc, restarts, host, queue,
                   running, call, last, closed>>

\* Mutant: the task of a failed launch is not failed.
FailLaunchSilently(a) ==
    /\ phase[a] = "failed"
    /\ phase' = [phase EXCEPT ![a] = "removed"]
    /\ UNCHANGED <<coordVars, idSeq, serves, proc, restarts, host, queue,
                   running, call, last, closed>>

FailLaunch(a) ==
    /\ phase[a] = "failed"
    /\ TryFinish(serves[a], "failed")
    /\ phase' = [phase EXCEPT ![a] = "removed"]
    /\ UNCHANGED <<idSeq, serves, proc, restarts, host, queue, running, call,
                   last, closed>>

AddMember(a) ==
    /\ phase[a] = "launched"
    /\ phase' = [phase EXCEPT ![a] = "added"]
    /\ UNCHANGED <<coordVars, idSeq, serves, proc, restarts, host, queue,
                   running, call, last, closed>>

\* SetStatus(running), its error ignored, and go watch: launch returns.
MarkRunning(a) ==
    /\ phase[a] = "added"
    /\ TrySetStatus(serves[a], "running")
    /\ phase' = [phase EXCEPT ![a] = "watched"]
    /\ host' = [host EXCEPT ![a] = NoCaller]
    /\ UNCHANGED <<idSeq, serves, proc, restarts, queue, running, call, last,
                   closed>>

-----------------------------------------------------------------------------
(* The member's process, and the goroutine that watches it.                  *)

\* External: the process ends with a result, a temporary or a permanent error.
MemberExit(a) ==
    /\ proc[a] = "live"
    /\ \E e \in Outcomes : proc' = [proc EXCEPT ![a] = e]
    /\ UNCHANGED <<coordVars, idSeq, serves, phase, restarts, host, queue,
                   running, call, last, closed>>

MayRelaunchOnceMore(a) == restarts[a] <= MaxRestarts  \* mutant: off by one

MayRelaunch(a) == restarts[a] < MaxRestarts

Relaunch(a) ==
    /\ phase[a] = "watched" /\ proc[a] = "temp" /\ MayRelaunch(a)
    /\ proc' = [proc EXCEPT ![a] = "live"]
    /\ restarts' = [restarts EXCEPT ![a] = @ + 1]
    /\ UNCHANGED <<coordVars, idSeq, serves, phase, host, queue, running, call,
                   last, closed>>

EndedAnyhow(a) == proc[a] \in Outcomes  \* mutant: the error is not looked at

EndedWell(a) == proc[a] = "ok"

CompleteTask(a) ==
    /\ phase[a] = "watched" /\ EndedWell(a)
    /\ TryFinish(serves[a], "done")
    /\ phase' = [phase EXCEPT ![a] = "settled"]
    /\ UNCHANGED <<idSeq, serves, proc, restarts, host, queue, running, call,
                   last, closed>>

\* A permanent error, a temporary one past the bound, or a failed relaunch.
FailTask(a) ==
    /\ phase[a] = "watched" /\ proc[a] \in {"temp", "perm"}
    /\ TryFinish(serves[a], "failed")
    /\ phase' = [phase EXCEPT ![a] = "settled"]
    /\ UNCHANGED <<idSeq, serves, proc, restarts, host, queue, running, call,
                   last, closed>>

RemoveMember(a) ==
    /\ phase[a] = "settled"
    /\ phase' = [phase EXCEPT ![a] = "removed"]
    /\ UNCHANGED <<coordVars, idSeq, serves, proc, restarts, host, queue,
                   running, call, last, closed>>

\* Mutant: the slot is not released.
FreedNot(tm) == running[tm]

Freed(tm) == IF running[tm] > 0 THEN running[tm] - 1 ELSE 0

\* Mutant: the slot is released and nobody is told.
PassesSlotNever(tm) == FALSE

PassesSlot(tm) == queue[tm] # <<>> /\ Freed(tm) < MaxTeamSize

\* Mutant: the last spec of the queue is launched, the first one removed.
LastQueued(tm) == queue[tm][Len(queue[tm])]

NextQueued(tm) == Head(queue[tm])

\* afterExit: onExit gives the slot to the head of the queue, if there is one,
\* and this goroutine goes on to launch it.
AfterExit(a) ==
    LET tm == TeamOf(a)  next == NextQueued(tm) IN
    /\ phase[a] = "removed"
    /\ \/ /\ PassesSlot(tm)
          /\ queue' = [queue EXCEPT ![tm] = Tail(@)]
          /\ running' = [running EXCEPT ![tm] = Freed(tm) + 1]
          /\ phase' = [phase EXCEPT ![a] = "gone", ![next] = "slot"]
          /\ host' = [host EXCEPT ![a] = NoCaller, ![next] = host[a]]
       \/ /\ ~ PassesSlot(tm)
          /\ running' = [running EXCEPT ![tm] = Freed(tm)]
          /\ phase' = [phase EXCEPT ![a] = "gone"]
          /\ host' = [host EXCEPT ![a] = NoCaller]
          /\ UNCHANGED queue
    /\ UNCHANGED <<coordVars, idSeq, serves, proc, restarts, call, last, closed>>

-----------------------------------------------------------------------------
(* Handoff.  The task is looked at in one critical section, the note sent,   *)
(* the new task registered and the old one retired in later ones.            *)

HandoffCheck(c, t, tm) ==
    /\ c \in Orchestrators /\ Free(c) /\ MayMint
    /\ Registered(t) /\ ~ Settled(t)
    /\ idSeq' = idSeq + 1
    /\ call' = [call EXCEPT ![c] = [op |-> "handoff", task |-> t,
                                    agent |-> idSeq + 1, tm |-> tm,
                                    ids |-> {}]]
    /\ UNCHANGED <<coordVars, serves, phase, proc, restarts, host, queue,
                   running, last, closed>>

\* Mutant: the new task is registered before the note is sent.
RegisterThenNoteFails(c) ==
    LET id == call[c].agent IN
    /\ call[c].op = "handoff"
    /\ Register(id, id, call[c].tm)
    /\ serves' = [serves EXCEPT ![id] = id]
    /\ call' = [call EXCEPT ![c] = Idle]
    /\ UNCHANGED <<idSeq, phase, proc, restarts, host, queue, running, last,
                   closed>>

\* Mailbox.Send fails: the call returns the error, nothing is registered.
HandoffNoteFails(c) ==
    /\ call[c].op = "handoff"
    /\ call' = [call EXCEPT ![c] = Idle]
    /\ UNCHANGED <<coordVars, idSeq, serves, phase, proc, restarts, host,
                   queue, running, last, closed>>

HandoffRegister(c) ==
    LET id == call[c].agent IN
    /\ call[c].op = "handoff"
    /\ Register(id, id, call[c].tm)
    /\ serves' = [serves EXCEPT ![id] = id]
    /\ call' = [call EXCEPT ![c].op = "retire"]
    /\ UNCHANGED <<idSeq, phase, proc, restarts, host, queue, running, last,
                   closed>>

HandoffRetire(c) ==
    /\ call[c].op = "retire"
    /\ TrySetStatus(call[c].task, "handed-off")
    /\ call' = [call EXCEPT ![c] = [Idle EXCEPT !.op = "admit",
                                                !.agent = call[c].agent]]
    /\ UNCHANGED <<idSeq, serves, phase, proc, restarts, host, queue, running,
                   last, closed>>

-----------------------------------------------------------------------------
(* AdoptOrphans: the live agents, then the task list, then task by task.     *)

Members(tm)    == {a \in Ids : /\ phase[a] \in {"added", "watched", "settled"}
                               /\ TeamOf(a) = tm}
LiveAgents(tm) == Members(tm) \cup {queue[tm][i] : i \in 1 .. Len(queue[tm])}

AdoptStart(c, tm) ==
    /\ c \in Adopters /\ Free(c)
    /\ call' = [call EXCEPT ![c] = [Idle EXCEPT !.op = "adopt-list", !.tm = tm,
                                                !.ids = LiveAgents(tm)]]
    /\ UNCHANGED <<coordVars, idSeq, serves, phase, proc, restarts, host,
                   queue, running, last, closed>>

\* List, and the tests made on its snapshot.
AdoptList(c) ==
    LET orphans == {t \in Ids : /\ Registered(t) /\ ~ Settled(t)
                                /\ team[t] = call[c].tm
                                /\ owner[t] \notin call[c].ids}
    IN
    /\ call[c].op = "adopt-list"
    /\ call' = [call EXCEPT ![c] = IF orphans = {} THEN Idle
                                   ELSE [@ EXCEPT !.op = "adopt",
                                                  !.ids = orphans]]
    /\ UNCHANGED <<coordVars, idSeq, serves, phase, proc, restarts, host,
                   queue, running, last, closed>>

\* The orphans are taken one by one.  List sorts them by creation time, which
\* neither the ids (a handoff mints its id before it registers) nor the clock
\* (two tasks may share a time) need tell: any of them may be next.
Adopt(c) ==
    LET id == idSeq + 1 IN
    /\ call[c].op = "adopt" /\ Launched(c) /\ MayMint
    /\ \E t \in call[c].ids :
          /\ Reassign(t, id)
          /\ serves' = [serves EXCEPT ![id] = t]
          /\ call' = [call EXCEPT ![c].op = "admit", ![c].agent = id,
                                  ![c].ids = @ \ {t}]
    /\ idSeq' = id
    /\ UNCHANGED <<phase, proc, restarts, host, queue, running, last, closed>>

\* Reassign refuses: the task has settled since the snapshot.
AdoptSkip(c) ==
    /\ call[c].op = "adopt" /\ Launched(c) /\ MayMint
    /\ \E t \in call[c].ids :
          /\ Settled(t)
          /\ call' = [call EXCEPT ![c] = IF call[c].ids = {t} THEN Idle
                             ELSE [call[c] EXCEPT !.ids = call[c].ids \ {t}]]
    /\ idSeq' = idSeq + 1
    /\ UNCHANGED <<coordVars, serves, phase, proc, restarts, host, queue,
                   running, last, closed>>

-----------------------------------------------------------------------------
(* CollectWait.                                                              *)

CollectStart(c, tm) ==
    /\ c \in Orchestrators /\ Free(c)
    /\ call' = [call EXCEPT ![c] = [Idle EXCEPT !.op = "collect", !.tm = tm]]
    /\ UNCHANGED <<coordVars, idSeq, serves, phase, proc, restarts, host,
                   queue, running, last, closed>>

CollectSleep(c) ==
    /\ call[c].op = "collect" /\ c \notin sleepers
    /\ FallAsleep(c, call[c].tm)
    /\ UNCHANGED swarmVars

CollectReturn(c) ==
    /\ call[c].op = "collect" /\ c \notin sleepers
    /\ ScopeSettled(call[c].tm)
    /\ call' = [call EXCEPT ![c] = Idle]
    /\ UNCHANGED <<coordVars, idSeq, serves, phase, proc, restarts, host,
                   queue, running, last, closed>>

\* The context of the call is done while it sleeps: it returns what it has.
CollectTimeout(c) ==
    /\ call[c].op = "collect" /\ c \in sleepers
    /\ StopWaiting(c)
    /\ call' = [call EXCEPT ![c] = Idle]
    /\ UNCHANGED <<idSeq, serves, phase, proc, restarts, host, queue, running,
                   last, closed>>

\* Close waits for the loops of the scheduled jobs to end, then cancels the
\* base context.  Launches go on, with a cancelled context, and so do the
\* calls of everyone else; members are told to stop.
Close ==
    /\ ~ closed
    /\ \A j \in Jobs : Free(j)
    /\ closed' = TRUE
    /\ UNCHANGED <<coordVars, idSeq, serves, phase, proc, restarts, host,
                   queue, running, call, last>>

-----------------------------------------------------------------------------
AgentStep(a) ==
    \/ LaunchOk(a) \/ LaunchErr(a) \/ FailLaunch(a)
    \/ AddMember(a) \/ MarkRunning(a)
    \/ Relaunch(a) \/ CompleteTask(a) \/ FailTask(a)
    \/ RemoveMember(a) \/ AfterExit(a)

HandoffStep(c) == HandoffNoteFails(c) \/ HandoffRegister(c) \/ HandoffRetire(c)
AdoptStep(c)   == AdoptList(c) \/ Adopt(c) \/ AdoptSkip(c)
CollectStep(c) == CollectSleep(c) \/ CollectReturn(c)

\* What a caller does once it is inside a call.
CallStep(c) == Admit(c) \/ HandoffStep(c) \/ AdoptStep(c) \/ CollectStep(c)

StartCall(c) ==
    \E tm \in Teams :
        \/ Spawn(c, tm) \/ AdoptStart(c, tm) \/ CollectStart(c, tm)
        \/ \E t \in Ids : HandoffCheck(c, t, tm)

Next ==
    \/ \E a \in Ids : AgentStep(a) \/ MemberExit(a)
    \/ \E c \in Callers : StartCall(c) \/ CallStep(c) \/ CollectTimeout(c)
    \/ Close

Spec == Init /\ [][Next]_vars

\* Goroutines that can run do run; nothing makes a caller start a call, a
\* collect time out, or Close happen.
CodeFairness ==
    /\ \A a \in Ids : WF_vars(AgentStep(a))
    /\ \A c \in Callers : WF_vars(CallStep(c))

\* Members need not end by themselves, but end when their context is cancelled.
LiveSpec ==
    Spec /\ CodeFairness /\ \A a \in Ids : WF_vars(closed /\ MemberExit(a))

-----------------------------------------------------------------------------
(* Safety.                                                                   *)

Holders(tm) == {a \in Ids : phase[a] \in Holding /\ TeamOf(a) = tm}

\* Team.running counts exactly the agents between admission and the release of
\* their slot, on every path of launch, relaunch, failure and exit.
SlotAccounting == \A tm \in Teams : running[tm] = Cardinality(Holders(tm))

\* A team never has more live member processes than Options.MaxTeamSize, with
\* retries, handoffs and adoptions under way.
ProcessBound ==
    \A tm \in Teams :
        Cardinality({a \in Ids : proc[a] = "live" /\ TeamOf(a) = tm})
            <= MaxTeamSize

\* No slot is idle while a spec waits: the queue is only non-empty when the
\* team is full, so no exit is needed to start a spec that could start now.
WorkConserving ==
    \A tm \in Teams : queue[tm] # <<>> => running[tm] = MaxTeamSize

\* The queue of a team holds each spec that waits for one of its slots, once.
QueueExact ==
    /\ \A tm \in Teams, a \in Ids :
          (phase[a] = "queued" /\ TeamOf(a) = tm)
              <=> \E i \in 1 .. Len(queue[tm]) : queue[tm][i] = a
    /\ \A tm \in Teams : \A i, j \in 1 .. Len(queue[tm]) :
          queue[tm][i] = queue[tm][j] => i = j

\* An agent whose outcome is still to be reported, or a call about to dispatch.
Bound(t) ==
    \/ \E a \in Ids : /\ serves[a] = t
                      /\ phase[a] \in {"queued", "watched"} \cup Launching
    \/ \E c \in Callers : /\ call[c].op \in {"admit", "retire"}
                          /\ call[c].agent # 0
                          /\ serves[call[c].agent] = t

\* No phantom task: every open task has an agent that will report an outcome
\* for it, or a call that is about to dispatch one, also when handoffs fail
\* half-way, launches fail or members are relaunched.
NoStrandedTask == \A t \in Ids : Registered(t) /\ ~ Settled(t) => Bound(t)

\* A task is reported done only if a process that ran it ended well, and is
\* reported running only while an agent of it is being watched, whatever late
\* reports of earlier owners arrive.
HonestStatus ==
    \A t \in Ids :
        /\ status[t] = "done" =>
              \E a \in Ids : serves[a] = t /\ proc[a] = "ok"
        /\ status[t] = "running" =>
              \E a \in Ids : serves[a] = t /\ phase[a] = "watched"

(***************************************************************************)
(* What SlotAccounting needs to be inductive: every agent that is on its   *)
(* way serves a registered task, whose team is therefore fixed; the agent  *)
(* of a call that has not dispatched yet is fresh and its alone; and a     *)
(* queue holds agents that wait, each once, so that popping one turns one  *)
(* waiting agent, and no other, into a holder of a slot.                   *)
(***************************************************************************)
AgentsServe ==
    \A a \in Ids :
        /\ phase[a] # "none" => /\ a <= idSeq
                                /\ serves[a] \in Ids
                                /\ Registered(serves[a])
        /\ a > idSeq => ~ Registered(a)

TeamsFixed == \A t \in Ids : Registered(t) => team[t] \in Teams

Undispatched == {"admit", "handoff", "retire"}

CallsFresh ==
    \A c \in Callers :
        /\ call[c].op \in Undispatched =>
              /\ call[c].agent \in 1 .. idSeq
              /\ phase[call[c].agent] = "none"
        /\ call[c].op \in {"admit", "retire"} =>
              /\ serves[call[c].agent] \in Ids
              /\ Registered(serves[call[c].agent])
        /\ call[c].op = "handoff" => call[c].tm \in Teams

CallsDistinct ==
    \A c, d \in Callers :
        /\ call[c].op \in Undispatched
        /\ call[d].op \in Undispatched
        /\ call[c].agent = call[d].agent
        => c = d

QueuesWait ==
    \A tm \in Teams :
        /\ \A i \in 1 .. Len(queue[tm]) : /\ phase[queue[tm][i]] = "queued"
                                         /\ TeamOf(queue[tm][i]) = tm
        /\ \A i, j \in 1 .. Len(queue[tm]) :
              queue[tm][i] = queue[tm][j] => i = j

SlotsBounded == \A tm \in Teams : running[tm] <= MaxTeamSize

SlotInv ==
    /\ TypeOK
    /\ AgentsServe /\ TeamsFixed /\ CallsFresh /\ CallsDistinct
    /\ QueuesWait /\ SlotAccounting /\ SlotsBounded /\ WorkConserving

\* A spec that arrives at its team never overtakes one that is waiting.
NoOvertaking ==
    [][\A a \in Ids : phase[a] = "none" /\ phase'[a] = "slot"
           => queue[TeamOf(a)] = <<>>]_vars

\* The swarm keeps the promise of TaskBoard: a late report, a failed launch or
\* a second owner never reopens a settled task or changes its outcome.
Board == INSTANCE TaskBoard WITH Tasks <- Ids
KeepsBoard == Board!Spec

-----------------------------------------------------------------------------
(* Liveness.                                                                 *)

\* What most of it needs: members end, as their runs have a turn limit.
MembersEnd == \A a \in Ids : WF_vars(MemberExit(a))

\* Every registered task is eventually settled, for good: with KeepsBoard, the
\* swarm implements TaskBoard's FairSpec.
EveryTaskSettles == MembersEnd => Board!Settling

\* CollectWait returns without its time limit.
CollectReturns ==
    MembersEnd =>
        \A c \in Callers : call[c].op = "collect" ~> call[c].op # "collect"

\* After Close every task is settled although members would have run on: the
\* queue drains through cancelled launches.
CloseSettlesAll ==
    \A t \in Ids : closed /\ Registered(t) ~> Settled(t)
=============================================================================
