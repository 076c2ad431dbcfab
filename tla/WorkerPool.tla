----------------------------- MODULE WorkerPool -----------------------------
(***************************************************************************)
(* internal/daemon/pool.go: the daemon's bounded pool of worker processes, *)
(* each request served by one Run, with retries on fresh workers, and the  *)
(* shutdown of the server around it: the context of every Run is           *)
(* cancelled, the pool drained, and the daemon's process ends.             *)
(*                                                                         *)
(* A Run is a goroutine; each of its steps is one critical section, one    *)
(* channel operation, or one call of the launcher or of the handle.        *)
(***************************************************************************)
EXTENDS Naturals, FiniteSets

CONSTANTS
    Requests,     \* the calls of Run, one per session
    Size,         \* PoolOptions.Size
    MaxAttempts   \* PoolOptions.MaxAttempts

ASSUME RequestsAssumption == IsFiniteSet(Requests)
ASSUME SizeAssumption == Size \in Nat \ {0}
ASSUME AttemptsAssumption == MaxAttempts \in Nat \ {0}

VARIABLES
    phase,      \* phase[r]: how far Run has come
    attempt,    \* attempt[r]: the loop's counter
    worker,     \* worker[r]: the worker of r, or how its last one ended
    result,     \* result[r]: what Run returned
    slots,      \* len(Pool.slots): leases taken
    active,     \* Pool.active, as requests
    draining,   \* Pool.draining
    drain,      \* how far Drain has come
    doomed,     \* the handles Drain still has to kill
    cancelled,  \* Server.cancel has been called
    shutdown,   \* who called Shutdown: the signal goroutine or a handler
    gone        \* the daemon's process has ended

poolVars == <<phase, attempt, worker, result, slots, active, draining, drain,
          doomed, cancelled, shutdown, gone>>

Ended    == {"ok", "permanent", "tempfail", "crash"}
Workers  == {"none", "live", "error"} \cup Ended
Results  == {"none", "ok", "permanent", "draining", "cancelled"}
Working  == {"leased", "launch", "starting", "started", "pump", "waited",
             "judge", "sleep"}
Holding  == Working \cup {"leave"}
Phases   == {"idle", "asked", "back"} \cup Holding

PoolTypeOK ==
    /\ phase \in [Requests -> Phases]
    /\ attempt \in [Requests -> 0 .. MaxAttempts]
    /\ worker \in [Requests -> Workers]
    /\ result \in [Requests -> Results]
    /\ slots \in Nat
    /\ active \in SUBSET Requests
    /\ draining \in BOOLEAN
    /\ drain \in {"idle", "marked", "grace", "kill", "done"}
    /\ doomed \in SUBSET Requests
    /\ cancelled \in BOOLEAN
    /\ shutdown \in {"none", "signal", "handler"}
    /\ gone \in BOOLEAN

PoolInit ==
    /\ phase = [r \in Requests |-> "idle"]
    /\ attempt = [r \in Requests |-> 0]
    /\ worker = [r \in Requests |-> "none"]
    /\ result = [r \in Requests |-> "none"]
    /\ slots = 0
    /\ active = {}
    /\ draining = FALSE
    /\ drain = "idle"
    /\ doomed = {}
    /\ cancelled = FALSE
    /\ shutdown = "none"
    /\ gone = FALSE

drainVars == <<draining, drain, doomed, cancelled, shutdown, gone>>

Goto(r, p)      == phase' = [phase EXCEPT ![r] = p]
Becomes(r, w)   == worker' = [worker EXCEPT ![r] = w]
Return(r, p, v) == Goto(r, p) /\ result' = [result EXCEPT ![r] = v]

-----------------------------------------------------------------------------
(* Run.                                                                      *)

\* acquire: refused at once by a draining pool, else wait for a lease.
Acquire(r) ==
    /\ phase[r] = "idle"
    /\ IF draining THEN Return(r, "back", "draining")
                   ELSE Goto(r, "asked") /\ UNCHANGED result
    /\ UNCHANGED <<attempt, worker, slots, active, drainVars>>

SlotFree == slots < Size

\* The select of acquire: any ready case may be chosen.
Lease(r) ==
    /\ phase[r] = "asked" /\ SlotFree
    /\ slots' = slots + 1
    /\ attempt' = [attempt EXCEPT ![r] = 1]
    /\ Goto(r, "leased")
    /\ UNCHANGED <<worker, result, active, drainVars>>

Refuse(r) ==
    /\ phase[r] = "asked"
    /\ \/ cancelled /\ Return(r, "back", "cancelled")
       \/ drain \notin {"idle", "marked"} /\ Return(r, "back", "draining")
    /\ UNCHANGED <<attempt, worker, slots, active, drainVars>>

\* The top of the attempt loop.
CheckDraining(r) ==
    /\ phase[r] = "leased"
    /\ IF draining THEN Return(r, "leave", "draining")
                   ELSE Goto(r, "launch") /\ UNCHANGED result
    /\ UNCHANGED <<attempt, worker, slots, active, drainVars>>

\* The launcher's Start looks at its context, or fails before that.
Launch(r) ==
    /\ phase[r] = "launch"
    /\ \/ ~ cancelled /\ Goto(r, "starting") /\ UNCHANGED worker
       \/ Becomes(r, "error") /\ Goto(r, "judge")
    /\ UNCHANGED <<attempt, result, slots, active, drainVars>>

\* The process it then starts is there whatever became of the context since.
StartProcess(r) ==
    /\ phase[r] = "starting"
    /\ \/ Becomes(r, "live") /\ Goto(r, "started")
       \/ Becomes(r, "error") /\ Goto(r, "judge")
    /\ UNCHANGED <<attempt, result, slots, active, drainVars>>

Track(r) ==
    /\ phase[r] = "started"
    /\ active' = active \cup {r}
    /\ Goto(r, "pump")
    /\ UNCHANGED <<attempt, worker, result, slots, drainVars>>

\* Mutant: after a read error the worker is neither killed nor waited for.
GiveUpReading(r) ==
    /\ phase[r] = "pump"
    /\ Goto(r, "waited")
    /\ UNCHANGED <<attempt, worker, result, slots, active, drainVars>>

\* The output ends and Wait returns the exit, or reading fails: then the
\* worker is killed and waited for, and the attempt counts as an error.
PumpAndWait(r) ==
    /\ phase[r] = "pump"
    /\ \/ worker[r] \in Ended /\ UNCHANGED worker
       \/ Becomes(r, "error")
    /\ Goto(r, "waited")
    /\ UNCHANGED <<attempt, result, slots, active, drainVars>>

Untrack(r) ==
    /\ phase[r] = "waited"
    /\ active' = active \ {r}
    /\ Goto(r, "judge")
    /\ UNCHANGED <<attempt, worker, result, slots, drainVars>>

LastAttemptLate(r) == attempt[r] > MaxAttempts  \* mutant: off by one

LastAttempt(r) == attempt[r] = MaxAttempts

\* Mutant: nothing is retried.
JudgeAtOnce(r) ==
    /\ phase[r] = "judge"
    /\ Return(r, "leave", IF worker[r] = "ok" THEN "ok" ELSE "permanent")
    /\ UNCHANGED <<attempt, worker, slots, active, drainVars>>

\* What follows an attempt.  A tempfail cools off even after the last one.
Judge(r) ==
    /\ phase[r] = "judge"
    /\ \/ worker[r] = "ok" /\ Return(r, "leave", "ok")
       \/ worker[r] = "permanent" /\ Return(r, "leave", "permanent")
       \/ worker[r] = "tempfail" /\ Goto(r, "sleep") /\ UNCHANGED result
       \/ worker[r] = "error" /\ cancelled /\ Return(r, "leave", "cancelled")
       \/ /\ worker[r] = "crash" \/ (worker[r] = "error" /\ ~ cancelled)
          /\ IF LastAttempt(r) THEN Return(r, "leave", "permanent")
                               ELSE Goto(r, "sleep") /\ UNCHANGED result
    /\ UNCHANGED <<attempt, worker, slots, active, drainVars>>

Wake(r) ==
    /\ phase[r] = "sleep"
    /\ IF LastAttempt(r)
       THEN Return(r, "leave", "permanent") /\ UNCHANGED attempt
       ELSE /\ Goto(r, "leased") /\ UNCHANGED result
            /\ attempt' = [attempt EXCEPT ![r] = @ + 1]
    /\ UNCHANGED <<worker, slots, active, drainVars>>

SleepCancelled(r) ==
    /\ phase[r] = "sleep" /\ cancelled
    /\ Return(r, "leave", "cancelled")
    /\ UNCHANGED <<attempt, worker, slots, active, drainVars>>

\* Mutant: the lease is not given back.
KeepLease(r) ==
    /\ phase[r] = "leave"
    /\ Goto(r, "back")
    /\ UNCHANGED <<attempt, worker, result, slots, active, drainVars>>

\* The deferred release.
Release(r) ==
    /\ phase[r] = "leave"
    /\ slots' = slots - 1
    /\ Goto(r, "back")
    /\ UNCHANGED <<attempt, worker, result, active, drainVars>>

-----------------------------------------------------------------------------
(* The worker's process, as the daemon sees it: it ends by itself, or is     *)
(* killed by the goroutine that watches its context.                         *)

WorkerExit(r) ==
    /\ worker[r] = "live"
    /\ \E e \in Ended : Becomes(r, e)
    /\ UNCHANGED <<phase, attempt, result, slots, active, drainVars>>

\* Mutant: nobody watches the context.
CancelIgnored(r) == FALSE

KillOnCancel(r) ==
    /\ worker[r] = "live" /\ cancelled
    /\ Becomes(r, "crash")
    /\ UNCHANGED <<phase, attempt, result, slots, active, drainVars>>

-----------------------------------------------------------------------------
(* Server.Shutdown and Pool.Drain.                                           *)

\* The context of all Runs is cancelled before the pool is drained.
Cancel ==
    /\ ~ cancelled
    /\ cancelled' = TRUE
    /\ shutdown' \in {"signal", "handler"}
    /\ UNCHANGED <<phase, attempt, worker, result, slots, active, draining,
                   drain, doomed, gone>>

\* Mutant: the pool is drained before the context is cancelled.
MarkDrainingFirst ==
    /\ drain = "idle"
    /\ draining' = TRUE
    /\ drain' = "marked"
    /\ UNCHANGED <<phase, attempt, worker, result, slots, active, doomed,
                   cancelled, shutdown, gone>>

MarkDraining ==
    /\ cancelled /\ drain = "idle"
    /\ draining' = TRUE
    /\ drain' = "marked"
    /\ UNCHANGED <<phase, attempt, worker, result, slots, active, doomed,
                   cancelled, shutdown, gone>>

CloseDrained ==
    /\ drain = "marked"
    /\ drain' = "grace"
    /\ UNCHANGED <<phase, attempt, worker, result, slots, active, draining,
                   doomed, cancelled, shutdown, gone>>

\* The grace window ends when nothing is tracked, or at its deadline.
EndGrace ==
    /\ drain = "grace"
    /\ \/ active = {} /\ drain' = "done" /\ UNCHANGED doomed
       \/ drain' = "kill" /\ doomed' = active
    /\ UNCHANGED <<phase, attempt, worker, result, slots, active, draining,
                   cancelled, shutdown, gone>>

\* Kill of one handle of the snapshot; a worker that has ended stays so.
KillStraggler(r) ==
    /\ drain = "kill" /\ r \in doomed
    /\ doomed' = doomed \ {r}
    /\ worker' = [worker EXCEPT ![r] = IF @ = "live" THEN "crash" ELSE @]
    /\ UNCHANGED <<phase, attempt, result, slots, active, draining, drain,
                   cancelled, shutdown, gone>>

EndKill ==
    /\ drain = "kill" /\ doomed = {}
    /\ drain' = "done"
    /\ UNCHANGED <<phase, attempt, worker, result, slots, active, draining,
                   doomed, cancelled, shutdown, gone>>

\* Serve waits for the handlers of its connections and returns, and main ends
\* the process.  Shutdown runs in one of these handlers, or in the goroutine
\* that received a signal, for which nobody waits.
Exit ==
    /\ cancelled
    /\ shutdown = "handler" => drain = "done"
    /\ gone' = TRUE
    /\ UNCHANGED <<phase, attempt, worker, result, slots, active, draining,
                   drain, doomed, cancelled, shutdown>>

-----------------------------------------------------------------------------
RunStep(r) ==
    \/ Lease(r) \/ Refuse(r) \/ CheckDraining(r) \/ Launch(r)
    \/ StartProcess(r) \/ Track(r) \/ PumpAndWait(r) \/ Untrack(r)
    \/ Judge(r) \/ Wake(r) \/ SleepCancelled(r) \/ Release(r)

DrainStep ==
    \/ MarkDraining \/ CloseDrained \/ EndGrace \/ EndKill
    \/ \E r \in Requests : KillStraggler(r)

DaemonStep ==
    \/ \E r \in Requests : Acquire(r) \/ RunStep(r) \/ KillOnCancel(r)
    \/ Cancel \/ DrainStep \/ Exit

PoolNext ==
    \/ ~ gone /\ DaemonStep
    \/ \E r \in Requests : WorkerExit(r)

PoolSpec == PoolInit /\ [][PoolNext]_poolVars

\* A Run at its next step; reading from a live worker may block for ever.
RunGoesOn(r) == RunStep(r) /\ (phase[r] = "pump" => worker[r] \in Ended)

\* Goroutines run as long as the process does.  A waiting send on Pool.slots is
\* served in FIFO order, so a lease that is possible again and again is granted.
CodeFairness ==
    /\ \A r \in Requests : /\ WF_poolVars(~ gone /\ RunGoesOn(r))
                           /\ SF_poolVars(~ gone /\ Lease(r))
                           /\ WF_poolVars(~ gone /\ KillOnCancel(r))
    /\ WF_poolVars(~ gone /\ DrainStep)

\* Workers may run on for ever, unless killed.
PoolLiveSpec == PoolSpec /\ CodeFairness

-----------------------------------------------------------------------------
(* Safety.                                                                   *)

Leased == {r \in Requests : phase[r] \in Holding}

\* The channel of slots holds one token for each Run between its lease and its
\* return, on every path through errors, retries, cancellation and drain.
LeaseAccounting == slots = Cardinality(Leased)

\* No more worker processes live at a time than the pool has slots: no path
\* of Run retries or returns while the worker it launched is still alive.
WorkerBound ==
    Cardinality({r \in Requests : worker[r] = "live"}) <= Size

\* A live worker belongs to a Run that is about to track it or pumps it, so
\* Run never leaves one behind.
WorkerIsSupervised ==
    \A r \in Requests : worker[r] = "live" => phase[r] \in {"started", "pump"}

LeaseInv ==
    /\ PoolTypeOK
    /\ LeaseAccounting
    /\ slots <= Size
    /\ WorkerIsSupervised

\* Run answers what happened: success only for a worker that exited cleanly,
\* a permanent failure only for a permanent exit or when all attempts are used,
\* whatever cancellation and drain do meanwhile.
HonestResult ==
    \A r \in Requests :
        /\ result[r] = "ok" => worker[r] = "ok"
        /\ result[r] = "permanent" => \/ worker[r] = "permanent"
                                      \/ LastAttempt(r)
        /\ result[r] \in {"draining", "cancelled"} => cancelled

\* Work that a worker is known to have finished, or to have refused for good, is
\* never done again, however the Run goes on.
NoRetryAfterVerdict ==
    [][\A r \in Requests :
           worker[r] \in {"ok", "permanent"} /\ phase[r] \notin {"started", "pump"}
               => worker'[r] = worker[r]]_poolVars

\* The Runs whose worker is alive, or about to be.
Underway == {r \in Requests : worker[r] = "live" \/ phase[r] = "starting"}

\* From the moment the pool drains no Run brings another worker, not even one
\* that had found the pool open: each of the contexts was cancelled before.  A
\* process whose start was under way by then still appears, even after Drain
\* has returned, but it is the last of its Run.
NothingNewInDrain == [][draining => Underway' \subseteq Underway]_poolVars

\* A launch heeds both what is known of the request and the state of the pool.
LaunchesHeed == NoRetryAfterVerdict /\ NothingNewInDrain

\* What the comment in Drain says of its early return (pool.go, "all workers
\* drained gracefully").  It does not hold: Drain sees the tracked workers only,
\* and a process may be starting, or not tracked yet (PoolLateStart.cfg).
DrainedMeansIdle == drain = "done" => \A r \in Requests : worker[r] # "live"

-----------------------------------------------------------------------------
(* Liveness.                                                                 *)

\* Workers end: exec runs are bounded by their turn limit.
WorkersEnd == \A r \in Requests : WF_poolVars(WorkerExit(r))

\* When workers end, every call of Run returns: the queue for leases moves.
EveryRunReturns ==
    WorkersEnd =>
        \A r \in Requests : phase[r] # "idle" ~> (phase[r] = "back" \/ gone)

\* Shutdown ends every Run, with workers that would never end by themselves.
ShutdownEndsRuns ==
    \A r \in Requests :
        cancelled /\ phase[r] # "idle" ~> (phase[r] = "back" \/ gone)
=============================================================================
