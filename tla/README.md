# Models, checks and proofs of green's process and session core

green is a coding agent written in Go (`src/internal/`). Around and inside
its agent loop there is a good deal of concurrency and recovery, all on one
machine: a *swarm* of member processes driven by an orchestrator and talking
through inbox files, a *daemon* that runs sessions in a pool of worker
processes and streams their output to any number of clients, *session
directories* that several processes append to, checkpoint, rewind and fork,
*background sub-agents* that are polled, stopped and accounted for, *scheduled
jobs* fired by any number of schedulers, and the *agent loop* itself with its
retries, compaction, parallel reads and diagnostics. These modules model that
system. They are written from the code, and the line numbers below and in
`PROJECT.json` refer to it.

All paths without `src/` are under `src/internal/`.

## 1. The system

### Components modelled

| Component | State it keeps | Operations | What is hard |
|---|---|---|---|
| Swarm (`swarm/coordinator.go`, `lifecycle.go`, `team.go`, `member.go`) | task registry; per team a slot count, a FIFO queue, its members | Spawn, Handoff, AdoptOrphans, CollectWait, Close; launch, watch, relaunch | a call is several critical sections; each member has a goroutine of its own; launches, notes and relaunches fail |
| Worker pool (`daemon/pool.go`, `launcher.go`) | the channel of slots, the tracked workers, the draining flag | Run with its attempt loop, Drain | leases on every return path; shutdown racing a launch; worker's pipe failing while it lives |
| Session stream (`daemon/session.go`, `server.go` `streamToClient`) | ring of recent lines, subscribers and their bounded channels and drop counts | Line, Subscribe, cancel, finish, streamToClient | the seam between history and live lines; channels closed from two sides; slow clients |
| Session registry (`daemon/session.go` `SessionManager`, `server.go` handlers) | sessions by id, their order | Start with eviction, Attach, run and attach handlers | lookups by id around the eviction |
| Daemon instance (`daemon/lock.go`, `server.go` `Serve`) | the lock, socket and status files | acquire, reclaim, Serve, Shutdown, cleanup, crash | processes that only share files; crashes at every step |
| Session log (`sessions/store.go`, `rewind.go`) | `events.jsonl`, `metadata.json`, the session lock | append, append-unless-exists, title, spec, truncate | partial writes, killed processes, power loss, count and log out of step |
| Checkpoints, rewind, fork (`sessions/checkpoint.go`, `rewind.go`, `store.go` `Fork`, `tui/session_controls.go`) | the workspace's files, the blobs, the checkpoint events | capture and record (exec; interface), rewind with restore, truncate, prune and marker, Fork | exec captures under the lock, the interface without it and records at the end of its turn; deaths in the middle of a rewind |
| Background sub-agents (`background/manager.go`, `specialist/exec.go`, `accounting.go`, `output_tool.go`) | the task table, metadata files, children, their outputs, the parent's accounting events | launch, exit, poll, stop, close, load by another process | a kill is mark, terminate, roll back; several reporters; a peer that takes the owner for dead |
| Cron (`cron/store.go`, `cli/cron.go`, `cli/cron_run.go`) | one job's directory, the schedulers' copies of it | reconcile, list, claim, run, persist, record; pause, resume, remove | copies written back minutes after they were read |
| Swarm mailbox (`swarm/mailbox.go`; `cron/lock.go` has nearly the same protocol) | the inbox, the lock file, files moved aside | Send, ReadAndConsume | stale locks are broken by rename; processes die with the lock or with a file aside |
| Agent loop (`agent/loop.go`, `reconnect.go`, `compaction.go`, `parallel_tools.go`, `guardrails.go`, `async_diagnostics.go`) | the history, the turn's stream and calls, guards, diagnostics | Run, its requests and recoveries, tool batches, the diagnostics worker, cancellation | reads executed ahead, three kinds of retry over one visible stream, a worker beside the edits |

How they interact: a client's `run` reaches `handleRun`, which registers a
session (registry), whose goroutine calls `Pool.Run` (pool) with the session as
its sink (stream); the worker is a `green exec` process that runs the agent
loop and appends to its session directory (log, checkpoints), where the
interface and further processes append, rewind and fork too.
`Server.Shutdown` (instance) cancels the contexts of all Runs, ends all streams
and drains the pool. The swarm lives in an orchestrating session and starts
member processes through a launcher; members and orchestrator exchange notes
through the mailbox; scheduled spawns call its Spawn. A sub-agent is a child of
the process that asked for it, and its end is recorded once
(`AppendEventUnlessExists`, log) in the parent's session. Cron starts `green
exec` processes from outside all of these.

What makes each correct:

- **Swarm**: a team never has more processes than slots, no slot is idle while
  a spec waits and specs are served in turn; every task has somebody who will
  report on it; a settled task stays settled; statuses are true; every task
  settles and every collect returns.
- **Pool**: never more workers than slots, no worker without its Run, no work
  redone after a verdict, no launch begun once the pool drains; Runs return.
- **Stream**: what a client gets has no hole or repetition that it is not told
  of, a handler that has its session tells its outcome, no channel is closed
  twice; it ends.
- **Registry**: what runs can be found and its id is not run twice; what is
  evicted has finished and is the oldest that could go.
- **Instance**: one daemon holds the lock; it is not cut off by another; a crash
  needs no manual cleanup; a shutdown ends Serve.
- **Log**: sequences rise; an acknowledged event can be read again; record-once
  is once; metadata keeps everybody's fields; calls return.
- **Checkpoints**: a rewind restores every file it claims to restore to what it
  was, whatever died half-way before it; checkpoints and forks find their blobs.
- **Background**: what is reported as running is watched by somebody; an end is
  accounted once, truly, and in the end; a kill that succeeded is final.
- **Cron**: a slot fires once; a pause and a removal hold; a due job fires.
- **Mailbox**: one holder of the lock; an acknowledged message stays and is
  handed out once; calls return whoever died.
- **Agent loop**: every history sent or left behind is one a provider accepts;
  reading ahead is invisible; errors found in edits reach the model before an
  answer is taken; no text is shown twice; runs end.

### Components not modelled

`PROJECT.json` lists all of them with their files. The spawn scheduler's own job
table and `EnsureSpecImplementation` carry a little state and are in the plan of
section 8. Providers, authentication, protocol peers, tools, sandboxing,
discovery, repository scanners, user interfaces, configuration and installers
are I/O, tables or conversions around the modelled parts. They are most of the
repository's lines (the terminal interface alone is a fifth of it), which is why
the mapped lines are a small share of the whole.

## 2. The modules

| Module | Models | Notes |
|---|---|---|
| `TaskBoard` | what the swarm promises about its tasks | abstract, 4 actions |
| `Coordinator` | the registry of `coordinator.go` as operators on its variables | used by `Swarm` |
| `Swarm` | the composition: callers, member goroutines, teams, registry | shown to implement `TaskBoard` |
| `WorkerPool` | `Pool.Run` of every request, Drain, the process's end | |
| `SessionStream` | one session, its clients, the shutdown | |
| `SessionRegistry` | sessions by id and the handlers' lookups | |
| `DaemonInstance` | daemons as processes around three files | |
| `SessionLog` | one session directory under crashes | |
| `SessionRewind` | captures, rewinds and a fork on one session | an append is one step here; what goes on inside one is `SessionLog` |
| `BackgroundTasks` | the task table, the children and their accounting | |
| `CronStore` | one job, its schedulers and commands | a locked update is one step; the lock's own protocol is `Mailbox` |
| `Mailbox` | one inbox and its lock file | |
| `History` | histories, what a provider demands of them, their compaction | operators only, used by `AgentLoop` |
| `AgentLoop` | one run of the agent | |
| `MC*` | the constants' symmetry sets and small instances for TLC | |
| `Daemon_proofs` | the theorems about the four parts of the daemon | the names of the four modules' initial states, steps and specifications differ (`PoolInit`, `StreamNext`, ...) so that one module can extend them all |
| other `*_proofs` | the theorems about one module each | |

In all of them a step is one critical section, one channel operation, one
system call on a shared file or one call of a launcher, so that the
interleavings are those of the code. Mapped lines for every definition are in
`PROJECT.json` under `map`.

**Coordinator / Swarm.** `phase[a]` is how far the goroutine carrying agent
`a`'s spec has come: `queued` (in `Team.queue`), `slot` (admitted, about to
call the launcher), `launched`, `added`, `watched`, then `failed`/`settled`/
`removed` on the ways out of `watch`, and `gone` once `afterExit` has released
the slot. `proc[a]` is its process. `call[c]` is the call a caller is in the
middle of: `Spawn` registers in one step and is admitted (`Admit`) in another;
`HandoffCheck`, `HandoffNoteFails`/`HandoffRegister`, `HandoffRetire` are the
sections of `Handoff`; `AdoptStart` takes the live agents, `AdoptList` the
tasks, `Adopt`/`AdoptSkip` treat them one by one. The code sorts them by the
time of their creation, but a handoff mints its id before it registers and a
clock may stand still, so nothing is claimed of that order. `CollectSleep`,
`CollectReturn` and `CollectTimeout` are `WaitSettled`'s loop around its change
channel (`sleepers`). The launch of an admitted spec runs in the caller's own
goroutine, as in the code: `host[a]` says whose, and a caller is `Free` only
when it hosts none. `Close` waits for the scheduled jobs' goroutines first.

**WorkerPool.** `phase[r]` walks through `Run` and `runOnce`: `asked` (waiting
to send on `Pool.slots`), `leased`, `launch`, `starting`, `started`, `pump`, `waited`,
`judge`, `sleep`, `leave`, `back`. A launch is two steps as in Go's
`exec.Cmd.Start`: `Launch` finds the context open, `StartProcess` starts the
process whatever has become of the context and of the pool since. `worker[r]` is the process or how it ended
(`tempfail` for exit code 75, `permanent`, `crash`, `ok`, `error` for a launch
that failed). `KillOnCancel` is the goroutine of the launcher that kills the
process group once the context is done. `Cancel`, `MarkDraining`, `CloseDrained`,
`EndGrace`, `KillStraggler`, `EndKill` are Shutdown and Drain in their order.
`Exit` is main returning: after a shutdown from a signal it does not wait for
Drain.

**SessionStream.** Lines are numbers. `Line` is the critical section that puts
a line in the ring and offers it, after a pending gap notice, to every channel;
`Finish` and `CloseOne` are the two halves of `finish`; `Subscribe` copies the
ring under the same lock, and the handler of an attach then looks its session up
a second time (`LookUp`), when a finished one may be gone or its id another's
(`held[c]`). `Replay`, `Receive`, `SeeClosed`, `SeeShutdown` and `Unsubscribe`
are `streamToClient`, `finishStream` and the deferred cancel. The handshake's
deadline is lifted before (`daemon/server.go:265`), so a frame's write is two steps:
it begins (`Write`, `EndStream`) and returns (`Written`, `WriteFails`) when the
client reads or has gone, or Shutdown has closed the connection. `ServerDown`
and `HangUp` are the two parts of `Server.Shutdown` a stream sees. `pos[c]` is
the line that must come next for the client. `end[c]` is the last frame's type;
a shutdown is told with `CtrlEnd`, like a clean end.

**SessionRegistry.** Sessions are numbered by their start. `HandleRun` is
`Start` up to the registration (`Register`), with which it holds the manager's lock
until `StartReturns`; in between, `Prune` looks at one place of the order after
the other (`looking`) and evicts (`Evict`) what has finished, while sessions
finish (`FinishRun`) without that lock. `HandleAttach` and `LookUpAgain` are the
two lookups of `handleAttach`, `FinishStream` the final frame. `ended` is a
history variable: what had finished when the prune began.

**DaemonInstance.** Lock files are named for their creator wherever they are
renamed. `Create`, `Fill`, `ReadPid`, `Reclaim`, `Recheck` are `acquireLock`
and `reclaimStaleLock`; `ClearSocket` to `AcceptFails` is `Serve`;
`Close`, `Unlink`, `Forget`, `ReleaseLock` is `cleanup`; `ProcessEnds` is the end
of a process at any point. Go's listener removes its socket path when it is closed,
whoever's socket is there (`CloseListener`, external).

**SessionLog.** The file is a sequence of pieces: an event's JSON, a newline, or
a fragment. `Cuts` is what an interrupted write, or a loss of power down to the
last `fsync`, can leave. `Whole`, `Readable`, `Read` and `LastSequence` are the
two readers with their different treatment of an unterminated last line.
`PrepareAppend` computes the sequences from count and log; `WritePart`/`Write`,
`Sync`, `WriteMetadata` follow in the code's order. `Kill` ends one process
(its flock is dropped by the system), `PowerLoss` all of them.

**SessionRewind.** A file is its content, a blob is named by the content it
holds, an event is the files it is a checkpoint of, and carries as history
(`before`) the workspace as it was, which is what a rewind to it must bring
back. An exec run takes the session lock (`ExecCall`), copies each file
(`Capture`) and appends its event (`Record`); a turn of the interface copies at
once without the lock (`TurnCall`) and appends when it ends (`Flush`); `Tool`
changes the files in between. A rewind is `AskRewind`, then under the lock
`ApplyRewind` (it chooses, per file, the checkpoint closest to the target),
`Restore` file by file, `Truncate`, `Prune`, and after it `Mark`. A fork reads
the events, lists and copies the blobs, and returns (`ForkEvents` to
`ForkReturns`). `CaptureFails`, `RewindStops`, `ForkStops`, `KillExec` and
`KillTui` are failures and deaths. `Unsure` stands for a file that a tool call
was changing at that event, of which nothing can be claimed. So does it for a
file somebody else changed between an event of a turn and the turn's own
checkpoint of the file (`Disturb`): the event has its place in the log only
when the turn ends, and the workspace at that place is not the one at the call.

**BackgroundTasks.** `launch[t]` is how far `runBackground` has come
(`Register`, `Launch`, `SetPID`, `TerminateOrphan`, `UpdateStatus`,
`LaunchStop`), `kill[k]` where each `Kill` is (`KillTarget`, `MarkKilled`,
`Terminated`/`TerminateFails`, `Restore`), `rep[r]` where each reporter is: the
goroutine that waits for the child (`MarkExited`) and the polls (`Get`, `Read`),
who both end with `RollUp` and `Report`. `Close` kills what is running, one by
one. `OwnerEnds` is the end of the program, `PeerLoads` another process that
opens the same directory and takes what is running there for lost.

**CronStore.** A minute is one unit and the job is due in every one. A
scheduler's loop is `Reconcile`, `List`, `Fire`, `Claim`/`NoClaim`, the run
(`Exec`), `Persist`/`PersistGone` and `AppendRun`; `sched[s].copy` is the job as
it listed it, which is what it writes back. `Read`/`Write` are pause and resume,
`AskRemove`/`Remove` the removal. `Stop` is a scheduler that ends or dies
anywhere.

**Mailbox.** A lock file is named for the call that made it. `Create`,
`Contended`, `CreateFails`, `Stat`, `Retry`, `TimeOut` are the loop of
`acquireLock`; `Rename` (`MoveAside` or `MoveFails`), `Verify`, `Drop`, `Restore`
are the breaking of a stale lock: moved aside, looked at again, removed if old,
put back if young. Each of these can fail, and moving aside as often as it
likes: the loop then goes on without a sleep and without a look at its
deadline, where `cron/lock.go:85-91` falls through to both. `Read`, `Write` rewrite the inbox; `Check` and `Remove` are the
release, which looks at the token before it removes. `Age` makes a lock file
stale, `Die` ends a process anywhere.

**History / AgentLoop.** A message is its role and the number of calls it makes
or answers. A turn is `Turn`, `Drain` (diagnostics), `Compact`, a request
(`Connect`, `Backoff`, `Collect`, `Recover`, `Check`, `Settle`), and either
`Speak` (no calls: the guards, the nudges, `Answer`) or `Act` and its batch:
`ReadAhead` sends a stretch of reads to at most `MaxParallel` goroutines
(`StartRead`, `AskRead`, `EndRead`, `ReadsJoin`), `RunTool` runs any other call,
`Consume` handles results in order with the guards and the ways to stop in the
middle, `After` appends reminders. `Take`, `Look`, `Report` are the diagnostics
worker; `Ceiling`, `LastDrain`, `LastAnswer` the end of the turns or of the
budget. What depends on text and its length (is a history too long, is its
summary shorter, does an answer admit a failure) is a choice.

## 3. The runs

| Run | Instance | States | Checks |
|---|---|---|---|
| `swarm_calls` | 1 team, 1 slot, 3 ids, orchestrator + job, 1 relaunch | 333 k | `EveryTaskSettles`, `CollectReturns`, `CloseSettlesAll` |
| `swarm_adopt` | 2 teams, 1 slot each, 3 ids, orchestrator + adopter | 2.8 M | `SlotInv`, `NoStrandedTask`, `HonestStatus`, `KeepsBoard` |
| `worker_pool` | 2 requests, 1 slot, 2 attempts | 36 k | `LeaseInv`, `HonestResult`, `LaunchesHeed`, `EveryRunReturns`, `ShutdownEndsRuns` |
| `session_stream` | 1 client, ring 3, channel 2, 8 lines | 61 k | `StreamContiguous`, `HonestEnd`, `StreamsEnd` |
| `session_log` | 2 callers, batches of 2, 3 requests | 220 k | `SequencesRise`, `AckedReadable`, `RecordedOnce`, `EveryCallReturns` |
| `daemon_instance` | 2 daemons, perhaps the lock file of a third | 77 k | `OneHolderInTurn`, `SocketKept`, `ShutdownEndsServe` |
| `registry` | 4 ids, 4 clients, cap 2, 5 starts | 172 k | `SessionsRetained` |
| `session_rewind` | 1 file, 2 contents, 1 exec run, 2 turns, 3 operations | 331 k | `RewindExact`, `CheckpointsResolve`, `ForkCarriesBlobs` |
| `background` | 1 task, 1 stop, 1 poll and Close, 1 usage event | 427 k | `RunningWatched`, `HonestAccount`, `ExitAccounted` |
| `cron_store` | 2 schedulers, 1 command at a time, 2 in all, 2 minutes, 1 fault | 150 k | `OncePerSlot`, `CommandsHold`, `DueFires` |
| `mailbox` | 1 sender, 2 readers, 2 faults | 222 k | `OneHolder`, `MessagesKept`, `EveryCallReturns` |
| `agent_loop` | 2 turns, 1 file, batches of 2 and 3 calls, 1 retry of each kind | 2.4 M | `HistoryPaired`, `RunsInOrder`, `ErrorsReachModel`, `TextOnce`, `RunReturns` |

`SlotInv` and `LeaseInv` are the inductive invariants of the swarm and the pool;
they contain the type invariants, the exact slot and lease counts, the bounds on
processes and that no slot idles. `KeepsBoard` is the refinement of `TaskBoard`.
The type invariants of the other modules are in their inductive invariants, or
can be added to any cfg by name.

The properties say exactly how far the code goes. Where a comment promises more
than that, the stronger statement is in the module as well, with a
configuration of its own that ends in a counterexample (it is not among the
runs):

| Configuration, module | Statement | The code against the comment |
|---|---|---|
| `StreamSilentLoss.cfg`, `MCSessionStream` | `NothingLostSilently` | a client whose channel is full when the last lines come is closed normally with lines missing: the drop count is only reported ahead of a *later* line (`daemon/session.go:170` against 61-63) |
| `StreamWrongEnd.cfg`, `MCSessionStream` | `EndTellsOutcome` | a client of a failed session is told of a clean end when the handler has no session (`daemon/server.go:351-358`) or the server goes down (326, 345), against 317-318 |
| `PoolLateStart.cfg`, `MCWorkerPool` | `DrainedMeansIdle` | Drain sees tracked workers only, so it returns "drained gracefully" (`daemon/pool.go:334-340`) while a process is being started, which then appears |
| `LogTornTail.cfg`, `MCSessionLog` | `EveryAckedRecovered` | an append after a torn tail glues its event to the fragment; the line is then terminated, and every later read fails (`sessions/store.go:647` against 741-745) |
| `InstanceTwoHolders.cfg`, `MCDaemonInstance` | `OneHolder` | a second start reads the lock file between the first one's create and its write of the process id and takes it for stale (`daemon/lock.go:58` against 13-16 and 77-84) |
| `RegistryWrongOutcome.cfg`, `MCSessionRegistry` | `EveryoneToldOutcome` | `handleAttach` looks the id up a second time; if the session was evicted in between, the client of a failed session is told of a clean end (`daemon/server.go:312` against 317-318) |
| `ForkMissingBlobs.cfg`, `MCSessionRewind` | `ForkResolves` | a rewind of the parent between Fork's read of the events and its copy of the blobs leaves events without blobs, against "so the copied EventSessionCheckpoint events resolve to real blobs" |
| `ExitUndone.cfg`, `MCBackgroundTasks` | `ExitNotUndone` | an exit that comes while the task is marked killed is dropped, and a kill that then fails puts the task back to running, against "a real exit recorded meanwhile is left untouched" |
| `CronDoubleFire.cfg`, `MCCronStore` | `NeverDoubleFires` | a run that ends writes the time after its own fire over whatever is there, so slots another scheduler has fired meanwhile come again (`cli/cron_run.go:215` against "so a valid recurring job never double-fires") |
| `MailboxStolen.cfg`, `MCMailbox` | `NeverStolen` | while a young lock is aside anybody can make a new one, which the restore overwrites: two holders, against "if a holder rotated a fresh lock in the gap it is renamed back rather than stolen" |
| `MailboxSpin.cfg`, `MCMailbox` | `TimesOut` | with a stale lock that cannot be moved aside a call neither sleeps nor times out, against "retries with a short backoff until timeout" (`swarm/mailbox.go:336-337`) |
| `AgentOverBudget.cfg`, `MCAgentLoop` | `StopsAtBudget` | after the budget is exceeded the last-answer request is still made (`agent/loop.go:186`, "stop issuing model calls once the cap is hit") |

The weaker properties that do hold state the exception: `StreamContiguous`
accounts for drops still counted; `HonestEnd` is about handlers that have their
session, and allows a clean end once the server goes down; `NothingNewInDrain`
(in `LaunchesHeed`) leaves a start that was under way when the pool began to
drain; `EveryCallReturns` of the mailbox assumes `StaleLocksMove`; `AckedReadable` holds as long as the log can
be read; `OneHolderInTurn` and `SocketKept` as long as no two daemons were in
`acquireLock` at once (`racing`); `CheckpointsResolve` and `ForkCarriesBlobs`
but for blobs pruned during a turn or a fork (`orphaned`, `unforked`);
`RunningWatched` and `HonestAccount` but for exits dropped or statuses that
could not be persisted (`dropped`, `unsaved`); `OncePerSlot` but for runs that
overlap or stale copies written back (`overlap`, `stale`); the mailbox's but for
a holder slower than the threshold, or a lock made while a young one is aside or
left there (`late`, `gap`). These are history variables, set by the steps that
make the exception.

### Bounds, and why they are enough

- `MaxIds` bounds the ids the swarm mints (agents and tasks share one counter):
  3 ids let a task be handed off while another waits. Two teams are needed for
  a handoff to a different queue.
- `MaxRestarts` is 1 where relaunches are looked at and 0 where the interleaving
  of callers is; the theorems hold for any value.
- `MaxAttempts` 2 has a first and a last attempt; one slot makes leases scarce.
- A ring of 3 and a channel of 2 with 8 lines overflow both; a client that drains
  between lines sees a gap notice followed by live lines. Clients share nothing
  but the order in which `finish` closes their channels, so one is looked at at
  length; two with ring and channel of 1 and 2 lines (0.4 M) were clean, and the
  theorems are about any number.
- `MaxIssued` of the log bounds events, retitles and rewinds. Three let an
  append follow a rewind that follows an append, each interrupted at any piece.
- The lock's reclaim loop makes two passes in the code as well.
- `MaxStarts` 5 exceeds the cap of 2 often enough for an id to be evicted, run
  again and evicted again; with 4 ids a prune has several places to ask, and an
  older session can finish after it was asked.
- `MaxIssued` 3 of the rewind module: a capture, a rewind that dies and one that
  repeats it, or a capture, a rewind and a fork. Larger instances, too long for
  a routine run, were clean: 2 files (19.9 M states), 4 operations (15.3 M), and
  both together without failures (1.9 M: one exec run and one turn, a rewind from
  the command line last, no fork, no skipped file), where a checkpoint of one run
  can come between two of another.
- One task with one stop, one poll and Close has every pair of actors at one
  task; tasks share only the metadata directory. 2 tasks (10.0 M) and 2 usage
  events were clean.
- Two minutes (times 0 and 1) let a slot come after a fire; two commands a
  pause and a resume, or a pause and a removal. `MaxTime` 2 (1.6 M, safety) and
  two commands at once (0.6 M) were clean.
- Three calls and two faults let a lock be left behind, broken by one call while
  another looks at it, and a breaker die with a file aside. 2 senders and 2
  readers with one fault (2.6 M up to symmetry, safety) were clean.
- Two turns of the agent let guards, retries and compaction carry over from one
  to the next, and the last request follow; three turns (15.6 M, safety) were
  clean. The batches have two reads that run together, a write after reads, and
  a read after a write.

Symmetry is only used in runs without liveness. The safety properties are
theorems too (section 5): of them a run is just the cheap first look.
`CHECK_DEADLOCK FALSE` everywhere: all these systems may legitimately stop (all
tasks settled, all Runs back, nobody calling, the run over).

## 4. Fairness

- Goroutines that can run do (`WF` on each goroutine's steps). Nothing makes a
  caller call, a client come, a worker write, a collect time out, or a shutdown
  happen.
- `WorkerPool`: a blocked send on a channel is served in FIFO order by Go's
  runtime, hence `SF` on `Lease`. Reading from a live worker may block for ever
  (`RunGoesOn`), so `ShutdownEndsRuns` relies on `KillOnCancel` alone.
- `SessionStream`: a handler goes on unless it is in a write. Nothing makes a
  client read: a write returns by `WF` only once Shutdown has closed the
  connection. Hence after a shutdown every stream ends without any assumption;
  after the session's end only if the client reads or leaves, which is the
  hypothesis `ClientHeeds` of `StreamsEnd`. Otherwise the handler, its
  goroutine and its subscription stay until the shutdown.
- `SessionLog`: `sync.Mutex` hands over to a starving waiter and flock queues
  its waiters, hence `SF` on `LockSession`.
- `BackgroundTasks`: the goroutine that waits for a child runs, and a Kill goes
  on. Nothing makes a child end, a poll come or a stop succeed.
- `CronStore`: a scheduler that runs goes on ticking (`WF` on `Loop`). How long
  a run takes is not known: that runs end is the hypothesis `RunsEnd` of
  `DueFires`.
- `Mailbox`: a call goes on, and `SF` on `TimeOut`: where the loop waits it sleeps
  and has looked at its deadline of wall-clock time, so a call that comes there
  again and again times out whatever the others do. On the way of a stale lock
  it does neither. That a lock which is tried again and again can at last be moved
  aside is the hypothesis `StaleLocksMove` of `EveryCallReturns`. Nothing makes a
  lock age.
- `AgentLoop`: `WF` on the run and on the reads of a batch. Streams end because
  of their idle timeout, tools because of theirs, and a permission prompt
  because it is answered or cancelled. The diagnostics worker is under no
  fairness: the loop's waits for it have limits.
- That members and workers end (their runs have a turn limit) is not part of
  the specification: it is the hypothesis `MembersEnd`/`WorkersEnd` of the
  properties that need it. `CloseSettlesAll` and `ShutdownEndsRuns` do without:
  after Close or Shutdown the context kills them.

## 5. What is proved

All theorems hold for any values of the constants under the modules' named
assumptions: finite sets of requests, positive sizes and capacities,
distinguished "nobody" values outside the sets they extend, and the split of
the swarm's callers into orchestrators, jobs and adopters. The bounds that make
a model finite (lines, starts, ids, minutes, faults, turns) are constants too:
a theorem holds for every value of them, so for every behaviour of the program
of whatever length.

**Swarm** (`Swarm_proofs`): `SlotInvariant`, `TypeCorrect`, `SlotsExact`,
`NoIdleSlot`, `ServedInOrder`, `ProcessesBounded`. The slot count is not
inductive as it stands. `SlotInv` adds what it needs: an agent on its way serves
a registered task whose team is fixed (`AgentsServe`, `TeamsFixed`); the agent
of a call that has not dispatched is fresh and that call's alone (`CallsFresh`,
`CallsDistinct`); a queue holds waiting agents of its team, each once
(`QueuesWait`), so that popping one turns exactly one waiting agent into a
holder. Steps that the invariant does not see share the lemmas `QuietStep` and
`QuietCall`; the steps that publish an agent share `PublishStep`; the counting
with cardinalities is in `AdmitStep` and `AfterExitStep`. `ProcessBound` follows
because a live process belongs to a holder (`LiveHolds`), and `NoOvertaking`
(`ServedInOrder`) from `WorkConserving` in the same invariant. On top of
`SlotInv`: `NothingStranded` (an open task has an agent that will report on it,
or a call about to dispatch one), `StatusesHonest`, and `BoardKept`: the swarm
implements `TaskBoard`, action by action, for any number of ids, teams and
callers.

**WorkerPool** (`Daemon_proofs`): `LeaseInvariant`, `LeasesExact`,
`WorkersSupervised`, `WorkersBounded`, `VerdictsFinal`, `LaunchesAllowed`,
`NothingNew`, `ResultsHonest`. `LeaseInv` counts one token per Run between
lease and return and ties every live worker to a Run that tracks or is about to
track it. `VerdictInv` says which program points a known verdict can still
reach, `DrainInv` that the pool drains only after the contexts were cancelled:
a launch that begins under a cancelled context fails. What can still appear
is a process whose start had found the context open, so `NothingNew` says that
the workers alive or being started (`Underway`) only become fewer. `ResultsHonest` ties what Run is about to return at each program
point to the worker it last had.

**SessionStream** (`Daemon_proofs`): `NoPanic`, `EndsHonest`, `StreamTypes`,
`NothingMissing`. The first invariant is ownership of a channel: it is with the
subscribers, or with `finish`'s list, or has been closed once, never two of
these. `EndsHonest` rests on what a handler that found its session may know: its
channel is closed only when the outcome is stored. `NothingMissing` is about the seam between history and live lines.
`Position` folds over what waits for a client; instead of an induction over it,
`Leads(p, s, q)` says that there *is* a function over the items of `s`, each
step of which fits, from line `p` to line `q`. `PositionIs` shows that this
function is the fold's, other lemmas how such paths are cut at the front (a line
is written) and extended at the back (a line, or a notice and a line, is sent).
`SeamInv` then says that for each client what remains of its replay and its
channel leads from the line it must get to some line, which with the lines
counted as dropped makes up all lines (`Whole`), and that the ring holds the last
lines (`Recent`), which is what a subscriber is given.

**SessionRegistry** (`Daemon_proofs`): `RegistryInvariant`, `RegistryTypes`,
`Retained`. `RunningRegistered` needs that `order` has the registered sessions
once each, oldest first (`OldestFirst`), and that each is found under its own id
(`NamedRight`). `Retained` adds what a start evicts: sessions that have
finished, none while an older one stays that had finished before the prune
began, and as many as it takes to meet the cap unless all that was passed over
ran at its begin. Its invariant is about the prune's place in the order: those before it have
been kept, so none of them had finished when it began.

**SessionLog** (`SessionLog_proofs`): `MetadataSurvives`, `OnceForAll`,
`SequencesAlwaysRise`, `AcknowledgedStays`. `MetadataInv` says that a caller
between its read and its write of the metadata holds the lock, and that what it
is about to write differs from what is there only in the field it means to set.
The three theorems about the log are invariants about its shape under any cut:
`OnceInv`, that of two record-once events in the file the earlier one is never
followed by a newline, so that no reader sees both whatever is cut off; `RiseInv`,
that up to the first line that does not parse sequences rise, because an append
that can read the log numbers its events after the last (`NextAbove`) and one
that cannot lies behind the bad line; `AckInv`, that an acknowledged event lies,
with its newline, among the pieces the last `fsync` covers.

**DaemonInstance** (`Daemon_proofs`): `OneInTurn`, `SocketsKept`,
`ReturnsClean`. Without two starters at once, a starter is alone between the
read of a path and the act on it: `InstanceInv` lists for each program point
which files there can be, whose, and who may be listening.

**SessionRewind** (`SessionRewind_proofs`): `RewindInvariant`, `BlobsStay`,
`ForksCarryBlobs`, `ExactInvariant`, `RewindsExact`. `RewindInv` says who holds
the session's lock where, what a turn has snapshotted and an exec run captured,
and that the blobs of all that are there, or orphaned by a rewind that did not
know of them. A prune keeps what the log refers to, and everybody who captures
under the lock is in the log or holds the lock himself.

`ExactInv` says, file by file, what a rewind would find: at every event the
closest checkpoint of the file from there on is what the file was at that event
(`Backed`), and if there is none and no turn has one to write, the file as it is
now (`Latest`). The log fits the file (`LogFits`), what a turn has yet to write
fits the file and, where the turn is alone with it, comes next in the log
(`BatchFits`), so does what an exec run has captured (`ExecFits`), and a rewind
restores what it found and thereby meets its goal (`GoalFits`). The proof rests
on lemmas about logs: two that agree can be joined (`JoinFits`), an event can
follow (`OneMore`), one can be cut where a rewind looked from (`Prefix`), claims
can be dropped (`FainterHolds`). The places where the code lets a file be changed
behind a checkpoint's back are where events make no claim of it (`Unsure`), and
the proof needs each of them.

**BackgroundTasks** (`BackgroundTasks_proofs`): `TaskInvariant`,
`RunningIsWatched`, `KillsAreFinal`, `AccountsHonest`. The first invariant lists
where each launch, watcher, stop and kill can be given what is recorded of the
task and its child. The second is about a task nothing has come between and its
child (`Tracked`): the task, its metadata and the other process agree, whoever
has seen the task over has seen the child ended, and an ended child writes no
more, so whatever a reporter holds is the outcome and all of the usage.

**Mailbox** (`Mailbox_proofs`): `MailInvariant`, `HoldersAlone`, `MessagesStay`.
As long as the lock was neither late nor made in a gap, the file at the lock's
path, or the one aside, is the holder's; everything a caller that does not hold
the lock can still do to the path leaves a young file alone; and what the holder
has read of the inbox is still what is there.

**CronStore** (`CronStore_proofs`): `CronInvariant`, `TypeCorrect`,
`CommandsLast`, `SlotsFireOnce`. Whoever is about to write the job moves the time
it has read ahead or leaves it, and never beyond the next minute (`AheadInv`);
so, unless runs overlap or a stale copy was written back, all claimed slots lie
before the job's time and before the minute of a run that has still to write
(`SlotInv`), and a claim, which finds the job's time due, takes a new one. A
pause survives the runs under way because their write back keeps a pause it
finds; the stale copies that end one clear `held` (`PauseInv`).

**AgentLoop** (`AgentLoop_proofs`): `AgentInvariant`, `TypeCorrect`,
`HistoriesPaired`, `InOrder`, `ErrorsAreTold`, `ShownOnce`. `AgentInv` has a part
per concern. `HistoryInv`: outside a batch the history is paired, inside one it
is paired but for the calls not yet answered, which are the last of it
(`Answering`). Every way a batch ends restores `Paired`: answered to the end
(`AllAnswered`), or the rest filled in (`RestAnswered`). Compaction keeps it for
every history (`PairedCompacted`): what is kept begins with an assistant's
message (`SuffixStartIs`), so no result is kept without its call.
`BatchInv`: what has been read ahead are reads, behind them nothing has begun.
`DiagInv`: errors in a file nobody has told the model of are waiting in the
queue, in the worker's hands, or among the results, and what is known of a file
that has changed since is going to be looked at again. `ShownInv`: where a
request whose text is forwarded can still follow, no text is out.

## 6. What is only model-checked

- Liveness, all of it: `EveryTaskSettles`, `CollectReturns`, `CloseSettlesAll`,
  `EveryRunReturns`, `ShutdownEndsRuns`, `StreamsEnd`, `EveryCallReturns`,
  `ShutdownEndsServe`, `ExitAccounted`, `DueFires`, `RunReturns`. The prover has
  no support for fairness and ENABLED.

Every invariant and every action property of a passing run is a theorem.

## 7. What the models leave out

- **Swarm**: names, prompts and results of members; the mailbox is a note that
  arrives or fails; adoption may hit a member's launch window although
  `AdoptOrphans` has no caller in production code.
- **Pool**: lengths of backoffs and cool-offs (a sleep of any length), the
  defaults of `PoolOptions`, the worker list for status. A worker's output
  (`pump`) is the stream's `Line`.
- **Stream**: contents of lines and the protocol's framing. A failing write is
  a client that leaves, or a connection Shutdown has closed. A handler of `run`
  that is still in the write of its acknowledgement has not subscribed yet.
- **Log**: contents; the read of the log never fails for a reason other than
  its contents; `Create`'s choice of an id, Fork, List and the workspace side
  of a rewind.
- **Instance**: process ids are not reused (hazard: `daemon/lock_posix.go:17`),
  Windows' lock and pipe.
- **Registry**: one session's output, which is `SessionStream`.
- **Checkpoints**: paths, sizes and limits of captures; a too large file is one
  of those skipped. One fork at a time.
- **Background**: formatting and listing; a process id is not reused; Windows'
  process groups; foreground runs of sub-agents.
- **Cron**: Add's choice of an id, expressions that never fire, the parser and
  the search for the next time; a job that is due less than every minute is
  the same job with slots further apart.
- **Mailbox**: contents; Windows' errors for a file in use; listing of agents.
- **Agent loop**: sizes in tokens (when to compact is a choice), pruning (it
  changes bodies only), switching of models, hooks, details of permissions and
  of tool loading.

### Other disagreements met while modelling

Kept here without a run, as each follows from reading the code beside its
comment; the models behave like the code.

- `swarm/lifecycle.go:148`: AdoptOrphans takes the live agents before the task
  list and `team.go:313` does not count members in launch, so an owner that is
  alive can be replaced.
- `swarm/lifecycle.go:132`: the retirement of a handed-off task ignores that it
  may have completed meanwhile; original and successor then both run to the end.
- `swarm/scheduler.go:292-301`: a job decides that its last member is over from
  the status of its task, which a handoff settles while the member still runs.
- `daemon/server.go:129` and `cli/daemon.go:126-135`: after a signal nobody
  waits for Drain, so stragglers may not be killed before the process ends.
- `daemon/server.go:265`: with the deadline lifted a client that stays connected
  and does not read keeps its handler in a write, after its session has
  finished too, until the daemon shuts down.
- `daemon/session.go:299`: a session that finishes after the prune has asked it
  is kept while a younger finished one is evicted, or while the cap is exceeded,
  until the next start.
- `daemon/session.go:129`: a line a client lost can be gone from the ring too
  when it attaches again, although 72 and 154 send it there.
- `sessions/store.go:950`: an event that is complete but for its newline is
  returned by ReadEvents and not seen by lastEventSequence (913-918); only the
  metadata's count then keeps its sequence from being used again.
- `swarm/team.go:216-218`: "Unknown modes fall back ..."; the code returns the
  unknown mode.
- Background: a poll during a kill that then fails records the stop as "killed"
  and a partial usage for good. `specialist/exec.go` calls the later accounting
  of the exit a no-op although usage is still appended by it;
  `usageRolledUp` is false for a reporter that came after another. `Close` may
  return without an error while a child whose Kill another call is making still
  lives, as KillRunning skips it.
- Cron: the catch-up and pause or resume write back copies they read without the
  lock, so a catch-up can end a pause, and fire counts are lost. Add looks for a
  free id and then writes, so two in one second can share one.
- Mailbox: a call whose lock is aside when it releases leaves a lock of nobody,
  which blocks everybody until it is stale (30 s) though they wait 5 s. A token
  that could not be written is ignored. The inbox never shrinks: at its limit
  every Send fails. A reader that dies after it marked its messages read loses
  them.
- Agent loop: usage of the summariser and of the last answer never reaches the
  budget, although `agent/compaction.go` says its cost "must still be counted so
  usage reports and budgets include it". A run cancelled during its last request
  returns without an error. Placeholder results call reads that were executed
  ahead unexecuted. A denial resets the failure streak, though the comment
  says a success does. Consecutive user messages are appended although
  `safeSuffixBoundary` argues from alternation. Text of a stream reissued after
  a compaction is not forwarded to the surface. The last drain of a
  cancelled run may add diagnostics that are out of date.

## 8. Plan

Done: every module of section 2 and the theorems of section 5.

Left, in order of worth:

1. Composition of registry, stream and pool as one daemon, against an abstract
   "each accepted run ends in exactly one truthful frame per client".
2. `SpawnScheduler`: the job table around `Swarm`'s job callers: Add, Cancel, run
   counts, Close. `Swarm` already has the goroutine of a job as a caller.
3. The five-field schedule's next-time search as a function checked against a
   naive definition over a bounded calendar.
4. `EnsureSpecImplementation` beside Fork in `SessionRewind`.

## 9. Running

    tlc -workers 2 -config MCSwarmAdopt.cfg MCSwarm.tla
    tlc -config MailboxStolen.cfg MCMailbox.tla
    tlapm Swarm_proofs.tla

`PROJECT.json` pairs every run with its module and configuration, and every
property with a plausible change of the code (`mutants`) that violates it:
operators named for such a change, and marked "mutant" in a comment, are not
part of any specification.
