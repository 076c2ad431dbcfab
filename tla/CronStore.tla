------------------------------- MODULE CronStore -------------------------------
(***************************************************************************)
(* internal/cron and `green cron`: one scheduled job in its directory,     *)
(* schedulers that fire it (cron run, once or for ever), and commands that *)
(* pause, resume and remove it, all of them processes of their own.        *)
(*                                                                         *)
(* A write of the job is one step: it happens under the job's lock (whose  *)
(* own protocol is Mailbox's) and is a rename.  Reads take no lock, and    *)
(* what was read may be written back much later.  Time is counted in       *)
(* minutes, and the job's expression is due in every one of them.          *)
(***************************************************************************)
EXTENDS Integers, FiniteSets

CONSTANTS
    Schedulers,     \* processes of cron run
    Commands,       \* processes of cron pause, resume and remove
    MaxTime,        \* bound: minutes
    MaxCommands,    \* bound: commands given
    MaxFaults       \* bound: writes, reads and processes that fail

ASSUME BoundsAssumption ==
    MaxTime \in Nat /\ MaxCommands \in Nat /\ MaxFaults \in Nat

VARIABLES
    clock,      \* now, truncated to the minute
    dir,        \* the job's directory: with metadata, without, or gone
    job,        \* its metadata
    sched,      \* where each scheduler is, the job it listed, when it fired
    cmd,        \* where each command is, the job it read, what it will write
    given,      \* commands given
    faults,     \* failures so far
    claims,     \* history: how often each slot has been claimed
    overlap,    \* history: a slot was claimed while an earlier fire was not over
    stale,      \* history: a job was written back that had changed since it was read
    held,       \* history: the job was paused and nobody has resumed it
    removed     \* history: a removal has succeeded

ghost == <<claims, overlap, stale, held, removed>>
vars == <<clock, dir, job, sched, cmd, given, faults, ghost>>

Times == 0 .. MaxTime
Slots == 0 .. MaxTime + 1
Job == [status : {"active", "paused"}, next : Slots]
NoJob == [status |-> "paused", next |-> 0]
Off == [pc |-> "off", copy |-> NoJob, write |-> NoJob, fired |-> 0]
Ready == [pc |-> "idle", op |-> "pause", copy |-> NoJob, write |-> NoJob]

TypeOK ==
    /\ clock \in Times /\ dir \in {"job", "husk", "none"} /\ job \in Job
    /\ sched \in [Schedulers -> [pc : {"off", "reconcile", "update", "idle", "listed", "claim",
                                       "exec", "persist", "append"},
                                 copy : Job, write : Job, fired : Times]]
    /\ cmd \in [Commands -> [pc : {"idle", "update", "remove"}, op : {"pause", "resume"},
                             copy : Job, write : Job]]
    /\ given \in 0 .. MaxCommands /\ faults \in 0 .. MaxFaults
    /\ claims \in [Slots -> Nat]
    /\ overlap \in BOOLEAN /\ stale \in BOOLEAN /\ held \in BOOLEAN /\ removed \in BOOLEAN

\* The job has been added, due now (--run-now) or in the next minute.
Init ==
    /\ clock = 0 /\ dir = "job"
    /\ job \in [status : {"active"}, next : {0, 1}]
    /\ sched = [s \in Schedulers |-> Off]
    /\ cmd = [c \in Commands |-> Ready]
    /\ given = 0 /\ faults = 0
    /\ claims = [v \in Slots |-> 0]
    /\ overlap = FALSE /\ stale = FALSE /\ held = FALSE /\ removed = FALSE

-----------------------------------------------------------------------------
(* The store.                                                                *)

\* Schedule.Next: strictly after.
Next1(after) == after + 1

\* A lock cannot be taken in time, a file not be read or written.
Fails == faults < MaxFaults /\ faults' = faults + 1

\* Update writes back a job that was read as old, whatever it is by now.  It
\* asks only whether the directory is there.
Update(old, new) ==
    \/ /\ dir # "none"
       /\ dir' = "job" /\ job' = new
       /\ stale' = (stale \/ dir = "husk" \/ job # old)
       /\ UNCHANGED faults
    \/ /\ dir = "none"
       /\ UNCHANGED <<dir, job, stale, faults>>
    \/ Fails /\ UNCHANGED <<dir, job, stale>>

-----------------------------------------------------------------------------
(* cron run.                                                                 *)

At(s, place) == sched' = [sched EXCEPT ![s].pc = place]
Rest(s) == sched' = [sched EXCEPT ![s] = [Off EXCEPT !.pc = "idle"]]

\* Once, for ever, for ever without the catch-up.
Start(s) ==
    /\ sched[s].pc = "off"
    /\ Rest(s) \/ At(s, "reconcile")
    /\ UNCHANGED <<clock, dir, job, cmd, given, faults, ghost>>

\* reconcileOverdue: an active job whose time was before this minute is moved
\* to its next slot,
Reconcile(s) ==
    /\ sched[s].pc = "reconcile"
    /\ IF dir = "job" /\ job.status = "active" /\ job.next < clock
       THEN sched' = [sched EXCEPT ![s].pc = "update", ![s].copy = job,
                                   ![s].write = [job EXCEPT !.next = Next1(clock)]]
       ELSE Rest(s)
    /\ UNCHANGED <<clock, dir, job, cmd, given, faults, ghost>>

\* by an Update of what was listed.
Reschedule(s) ==
    /\ sched[s].pc = "update"
    /\ Update(sched[s].copy, sched[s].write)
    /\ Rest(s)
    /\ held' = (held /\ job' = job)
    /\ UNCHANGED <<clock, cmd, given, claims, overlap, removed>>

\* fireDue lists the jobs.
List(s) ==
    /\ sched[s].pc = "idle" /\ dir = "job"
    /\ sched' = [sched EXCEPT ![s].pc = "listed", ![s].copy = job]
    /\ UNCHANGED <<clock, dir, job, cmd, given, faults, ghost>>

\* When it comes to this one, it fires it if it was active and its time has
\* come.
Fire(s) ==
    /\ sched[s].pc = "listed"
    /\ IF sched[s].copy.status = "active" /\ sched[s].copy.next <= clock
       THEN sched' = [sched EXCEPT ![s].pc = "claim", ![s].fired = clock]
       ELSE Rest(s)
    /\ UNCHANGED <<clock, dir, job, cmd, given, faults, ghost>>

Claimable(s) == dir = "job" /\ job.status = "active" /\ job.next <= sched[s].fired

\* Mutant: the claim trusts what was listed.
ClaimListed(s) ==
    /\ sched[s].pc = "claim" /\ dir = "job"
    /\ job' = [job EXCEPT !.next = Next1(sched[s].fired)]
    /\ claims' = [claims EXCEPT ![sched[s].copy.next] = @ + 1]
    /\ overlap' = (overlap \/ \E q \in Schedulers \ {s} : sched[q].pc \in {"exec", "persist"})
    /\ At(s, "exec")
    /\ UNCHANGED <<clock, dir, cmd, given, faults, stale, held, removed>>

\* claimFire: the job, as it is now, is moved to its next slot.
Claim(s) ==
    /\ sched[s].pc = "claim" /\ Claimable(s)
    /\ job' = [job EXCEPT !.next = Next1(sched[s].fired)]
    /\ claims' = [claims EXCEPT ![job.next] = @ + 1]
    /\ overlap' = (overlap \/ \E q \in Schedulers \ {s} : sched[q].pc \in {"exec", "persist"})
    /\ At(s, "exec")
    /\ UNCHANGED <<clock, dir, cmd, given, faults, stale, held, removed>>

\* Mutant: a claim that was refused is tried again, for the same fire.
NoClaimRetried(s) ==
    /\ sched[s].pc = "claim"
    /\ \/ ~ Claimable(s) /\ UNCHANGED <<sched, faults>>
       \/ Fails /\ Rest(s)
    /\ UNCHANGED <<clock, dir, job, cmd, given, ghost>>

\* It is gone, paused or claimed already, or the claim fails.
NoClaim(s) ==
    /\ sched[s].pc = "claim"
    /\ Rest(s)
    /\ \/ ~ Claimable(s) /\ UNCHANGED faults
       \/ Fails
    /\ UNCHANGED <<clock, dir, job, cmd, given, ghost>>

\* The run of green exec ends, with whatever code.
Exec(s) ==
    /\ sched[s].pc = "exec"
    /\ At(s, "persist")
    /\ UNCHANGED <<clock, dir, job, cmd, given, faults, ghost>>

\* What the fire makes of the job it listed.
Fired(s) == [sched[s].copy EXCEPT !.next = Next1(sched[s].fired)]

\* Mutant: the status that was listed is written back, too.
AdvancedBlindly(s) == Fired(s)

\* A pause that came meanwhile stays; the next slot is the fire's.
Advanced(s) ==
    [Fired(s) EXCEPT !.status = IF job.status = "paused" THEN "paused" ELSE @]

\* The job is written; if it could not be read again, as the fire left it;
\* or that fails, and the run is recorded all the same.
Persist(s) ==
    /\ sched[s].pc = "persist" /\ dir = "job"
    /\ At(s, "append")
    /\ \/ job' = Advanced(s) /\ UNCHANGED <<faults, stale, held>>
       \/ /\ job' = Fired(s) /\ Fails
          /\ stale' = TRUE /\ held' = FALSE
       \/ Fails /\ UNCHANGED <<job, stale, held>>
    /\ UNCHANGED <<clock, dir, cmd, given, claims, overlap, removed>>

\* A job that was removed during the run is left alone, and nothing recorded.
PersistGone(s) ==
    /\ sched[s].pc = "persist" /\ dir # "job"
    /\ Rest(s)
    /\ UNCHANGED <<clock, dir, job, cmd, given, faults, ghost>>

\* AppendRun: the record goes beside the metadata, if they are still there,
\* or is lost; either way the scheduler goes on.
AppendRun(s) ==
    /\ sched[s].pc = "append"
    /\ Rest(s)
    /\ UNCHANGED <<clock, dir, job, cmd, given, faults, ghost>>

\* The scheduler ends or is killed, in the middle of a run or between runs.
Stop(s) ==
    /\ sched[s].pc # "off" /\ Fails
    /\ sched' = [sched EXCEPT ![s] = Off]
    /\ UNCHANGED <<clock, dir, job, cmd, given, ghost>>

-----------------------------------------------------------------------------
(* cron pause, resume and remove.                                            *)

\* The job is read, changed,
Read(c, op) ==
    /\ cmd[c].pc = "idle" /\ given < MaxCommands /\ given' = given + 1
    /\ dir = "job"
    /\ cmd' = [cmd EXCEPT ![c] =
                  [pc |-> "update", op |-> op, copy |-> job,
                   write |-> IF op = "pause" THEN [job EXCEPT !.status = "paused"]
                             ELSE [job EXCEPT !.status = "active", !.next = Next1(clock)]]]
    /\ UNCHANGED <<clock, dir, job, sched, faults, ghost>>

\* and written back.
Write(c) ==
    /\ cmd[c].pc = "update"
    /\ Update(cmd[c].copy, cmd[c].write)
    /\ cmd' = [cmd EXCEPT ![c] = Ready]
    /\ held' = IF dir' = "job" /\ job' = cmd[c].write THEN cmd[c].op = "pause" ELSE held
    /\ UNCHANGED <<clock, sched, given, claims, overlap, removed>>

AskRemove(c) ==
    /\ cmd[c].pc = "idle" /\ given < MaxCommands /\ given' = given + 1
    /\ cmd' = [cmd EXCEPT ![c].pc = "remove"]
    /\ UNCHANGED <<clock, dir, job, sched, faults, ghost>>

\* RemoveAll takes all of the directory, or fails with some of it gone.
Remove(c) ==
    /\ cmd[c].pc = "remove"
    /\ cmd' = [cmd EXCEPT ![c].pc = "idle"]
    /\ \/ dir # "none" /\ dir' = "none" /\ removed' = TRUE /\ UNCHANGED faults
       \/ dir = "none" /\ UNCHANGED <<dir, removed, faults>>
       \/ Fails /\ dir' \in (IF dir = "none" THEN {dir} ELSE {dir, "husk"}) /\ UNCHANGED removed
    /\ UNCHANGED <<clock, job, sched, given, claims, overlap, stale, held>>

Tick ==
    /\ clock < MaxTime /\ clock' = clock + 1
    /\ UNCHANGED <<dir, job, sched, cmd, given, faults, ghost>>

-----------------------------------------------------------------------------
\* The loop of a scheduler, but for the run itself.
Loop(s) ==
    \/ Reconcile(s) \/ Reschedule(s) \/ List(s) \/ Fire(s)
    \/ Claim(s) \/ NoClaim(s) \/ Persist(s) \/ PersistGone(s) \/ AppendRun(s)

Next ==
    \/ \E s \in Schedulers : Start(s) \/ Loop(s) \/ Exec(s) \/ Stop(s)
    \/ \E c \in Commands : Read(c, "pause") \/ Read(c, "resume") \/ Write(c) \/ AskRemove(c) \/ Remove(c)
    \/ Tick

Spec == Init /\ [][Next]_vars

\* A scheduler that runs ticks.  How long a run takes is not known.
LiveSpec == Spec /\ \A s \in Schedulers : WF_vars(Loop(s))

-----------------------------------------------------------------------------
(* Properties.                                                               *)

\* A slot is fired once, whatever dies or fails, as long as the runs of two
\* schedulers do not overlap and nobody writes back a job that has changed.
OncePerSlot ==
    overlap \/ stale \/ \A v \in Slots : claims[v] <= 1

\* A pause lasts until somebody resumes the job, also when it comes in the
\* middle of a run; only a stale copy that is written back ends it.
PauseHolds == held /\ dir = "job" => job.status = "paused"

\* A job that was removed stays so, whatever runs were under way.
RemovedStays == removed => dir = "none"

\* What a command did to a job lasts, whatever schedulers write back.
CommandsHold == PauseHolds /\ RemovedStays

\* An active job whose time has come does not wait for ever, as long as one
\* scheduler lives and its runs end, whatever the others do.
Due == dir = "job" /\ job.status = "active" /\ job.next <= clock
RunsEnd(s) == (sched[s].pc = "exec") ~> (sched[s].pc # "exec")
DueFires == \A s \in Schedulers : RunsEnd(s) => (Due ~> (~ Due \/ sched[s].pc = "off"))

\* The comment of claimFire: "so a valid recurring job never double-fires".
NeverDoubleFires == stale \/ \A v \in Slots : claims[v] <= 1
=============================================================================
